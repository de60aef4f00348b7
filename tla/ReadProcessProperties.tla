------------------------ MODULE ReadProcessProperties ------------------------
(* What P__2/sch-helpers.c makes of a data file: the syntax that             *)
(* error_malformed_input_line prints, by words instead of characters.        *)
EXTENDS ReadProcess

\* The elements of a set of numbers, the least one first.
InOrder(S) ==
  [n \in 1 .. Cardinality(S) |-> CHOOSE k \in S : Cardinality({l \in S : l <= k}) = n]

\* Where a word of a line starts and ends: words are what is between spaces, and a
\* closing brace ends a word as well.
Starts(s) ==
  {k \in DOMAIN s : ~isspace(s[k]) /\ (k > 1 => isspace(s[k - 1]) \/ s[k - 1] = ")")}
Ends(s) ==
  {k \in DOMAIN s : ~isspace(s[k]) /\ (k < Len(s) => isspace(s[k + 1]) \/ s[k] = ")")}

Words(s) ==
  LET from == InOrder(Starts(s))  to == InOrder(Ends(s))
  IN [n \in DOMAIN from |-> SubSeq(s, from[n], to[n])]

IsNumber(s) == \A k \in DOMAIN s : IsDigit(s[k])

\* The digits of the k-th word of a line: every other word from the fourth on is
\* in braces.  The result is <<"x">> if the word is not of the form required.
InBraces(k) == k > 3 /\ k % 2 = 0
DigitsOf(word, k) ==
  LET inner == IF InBraces(k) /\ Len(word) >= 2 THEN SubSeq(word, 2, Len(word) - 1)
               ELSE word
  IN IF /\ InBraces(k) => Len(word) >= 2 /\ word[1] = "(" /\ word[Len(word)] = ")"
        /\ IsNumber(inner)
     THEN inner ELSE <<"x">>

\* The number that a sequence of digits denotes; none denote 0.
Denoted(s) ==
  FoldLeft(LAMBDA n, c : n * 10 + DigitValue(c), 0, s)

GoodWord(word, k) == DigitsOf(word, k) # <<"x">>
Fits(word, k) == GoodWord(word, k) /\ Denoted(DigitsOf(word, k)) <= INT_MAX

\* The first word that is not good, or is missing; 0 if there is none.
FirstBad(words, Good(_, _)) ==
  LET bad == {k \in DOMAIN words : ~Good(words[k], k)} IN
  IF bad # {} THEN CHOOSE k \in bad : \A l \in bad : k <= l
  ELSE IF Len(words) < 3 \/ Len(words) % 2 = 0 THEN Len(words) + 1
  ELSE 0

\* The word that is the first burst too many.
LastWord == MAX_BURSTS + 2

\* The lines that count, in order, of those that a newline ends.
Counting ==
  {k \in DOMAIN file.lines :
     (k < Len(file.lines) \/ file.ended) /\ ~Ignored(file.lines[k])}
Significant ==
  LET place == InOrder(Counting) IN [n \in DOMAIN place |-> file.lines[place[n]]]

\* Every line that counts and was not refused is in the array, in order, the odd
\* number of bursts of each within the limit, and no number is taken from another
\* word: each is the one written there modulo the number of ints, and 0 if there
\* are no digits.  Of a process being read, no burst is outside the array.  What
\* the comments promise besides is ReadAsDocumented.
StoredFaithful ==
  /\ numberOfBursts <= MAX_BURSTS
  /\ \A k \in DOMAIN processes : LET words == Words(Significant[k])  p == processes[k] IN
       /\ Len(p) = Len(words) /\ Len(p) % 2 = 1 /\ Len(p) < LastWord
       /\ FirstBad(words, GoodWord) = 0
       /\ \A w \in DOMAIN p :
            /\ p[w] \in 0 .. INT_MAX
            /\ p[w] % Ints = Denoted(DigitsOf(words[w], w)) % Ints
  /\ outcome = "read" =>
       Len(processes) = (IF Len(Significant) > MAX_PROCESSES THEN MAX_PROCESSES + 1
                         ELSE Len(Significant))

\* No line is refused that has the documented syntax, and the error reported is
\* the first of the line: a word that is missing or not of the form required, or a
\* burst too many; only a number that is no int may have been passed over.
RefusedRightly ==
  outcome \in {"malformed", "too many bursts"} =>
    LET words == Words(Significant[Len(processes) + 1])
        bad   == FirstBad(words, Fits)
    IN CASE outcome = "malformed" ->
              /\ bad \in 1 .. Len(dest) + 1
              /\ FirstBad(words, GoodWord) \notin 1 .. Len(dest)
         [] outcome = "too many bursts" ->
              Len(words) > LastWord /\ Len(dest) = LastWord
                /\ FirstBad(words, GoodWord) \notin 1 .. LastWord + 1
-----------------------------------------------------------------------------
(* What the comments of the functions say, and they do not do. *)

\* readInt: "if there is no such integer, or it does not fit in a 32-bit signed
\* int, return value is -1", so that every number stored is the one written.  The
\* check for overflow misses those that wrap around to no less than before.
NumbersFit ==
  \A k \in DOMAIN processes : LET words == Words(Significant[k])  p == processes[k] IN
    \A w \in DOMAIN p : p[w] = Denoted(DigitsOf(words[w], w))

\* readBracedInt: "returns -1 if no suitable int exists, according to rules of
\* readInt", so that there is a digit in the braces of every I/O burst stored.
BracesHoldInt ==
  \A k \in DOMAIN processes : LET words == Words(Significant[k]) IN
    \A w \in DOMAIN processes[k] : InBraces(w) => DigitsOf(words[w], w) # <<>>

\* readProcess: "the return value is 1 if there are more process(es) to be read in
\* the input, and 0 otherwise", so that main stops at the end of the input or at
\* the limit.  The last line is dropped when no newline ends it.
EveryLineRead ==
  \/ Len(processes) > MAX_PROCESSES
  \/ Len(processes) = Cardinality({k \in DOMAIN file.lines : ~Ignored(file.lines[k])})

\* What main goes on with is what the three comments say it is.
ReadAsDocumented ==
  outcome = "read" => NumbersFit /\ BracesHoldInt /\ EveryLineRead
=============================================================================
