---------------------------- MODULE MCReadProcess ----------------------------
(* Instances of ReadProcess for TLC. *)
EXTENDS ReadProcessProperties

\* The line of some words, with a space between them or none.
Line(words, space) ==
  Append(FlattenSeq([k \in DOMAIN words |-> IF k = 1 THEN words[k] ELSE space \o words[k]]),
         "\n")

Numbers == {<<"1">>, <<"7", "7">>, <<"9", "9">>, <<"0", "8">>}
Braced  == {<<"(", "1", ")">>, <<"(", ")">>, <<"(", "9", "9", ")">>}
Odd     == {<<"x">>, <<"(", "1">>, <<"1", ")">>, <<"(">>, <<"1", "(">>, <<"#">>}

ShortLines ==
  {Line(w, <<" ">>) : w \in UNION {[1 .. n -> Numbers \cup Braced \cup Odd] : n \in 0 .. 3}}

\* Lines that start as a process does.
Start == <<<<"1">>, <<"7">>, <<"0">>>>
LongLines ==
  {Line(Start \o w, <<" ">>) :
     w \in UNION {[1 .. n -> Numbers \cup Braced \cup {<<"x">>, <<"(">>}] : n \in 0 .. 3}}

\* The same with nothing between the words that follow.
TightLines ==
  {Line(Start \o <<FlattenSeq(w)>>, <<" ">>) :
     w \in UNION {[1 .. n -> {<<"1">>} \cup Braced \cup {<<"(">>, <<")">>}] : n \in 1 .. 4}}

\* The same with each of the characters that are spaces to isspace.
SpaceLines ==
  {Line(Start \o w, <<c>>) :
     w \in UNION {[1 .. n -> Braced \cup {<<"1">>}] : n \in 1 .. 2},
     c \in {"\t", "\r", "\f", "VT"}}

\* Up to two bursts too many, with an error at any place.
BurstLines ==
  {Line(Start \o [k \in 1 .. n |-> IF k = b THEN <<"x">>
                                   ELSE IF k % 2 = 1 THEN <<"(", "1", ")">> ELSE <<"1">>],
        <<" ">>) : n \in 1 .. 6, b \in 0 .. 6}

\* Each of these lines by itself; and up to four lines, with blank ones and
\* comments, the last one ended by a newline or not.
SomeFiles ==
  [lines : {<<line>> : line \in ShortLines \cup LongLines \cup TightLines \cup SpaceLines
                                 \cup BurstLines},
   ended : {TRUE}]
  \cup
  [lines : UNION {[1 .. n -> {Line(Start, <<" ">>), Line(Start \o <<<<"(">>>>, <<" ">>),
                              <<"\t", "\n">>, <<"#", "1", "\n">>}] : n \in 1 .. 4},
   ended : BOOLEAN]

\* A number that wraps around, empty braces, and a last line without a newline.
OddFile ==
  {[lines |-> <<Line(<<<<"1">>, <<"7", "7">>, <<"0">>>>, <<" ">>),
                Line(Start \o <<<<"(", ")">>, <<"1">>>>, <<" ">>), Line(Start, <<" ">>)>>,
    ended |-> FALSE]}
=============================================================================
