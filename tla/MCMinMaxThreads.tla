--------------------------- MODULE MCMinMaxThreads ---------------------------
(* Instances of MinMaxThreads for TLC. *)
EXTENDS MinMaxThreads

\* The doubles: a number stands for its half, so that 1, which stands for DBL_MIN,
\* is greater than 0 and less than any other positive one.
SomeValues == {-2, 0, 2, 4}

ShortTexts == UNION {[1 .. n -> SomeValues] : n \in 0 .. 3}

MixedTexts == {<<>>, <<4, 2>>, <<2, Junk, -2>>, NoFile}

\* Every file of up to three numbers by itself, no file, and three files.
SomeInputs ==
  {<<>>} \cup {<<text>> : text \in ShortTexts \cup MixedTexts}
    \cup {<<<<4, -2>>, text, <<0, 2>>>> : text \in MixedTexts}
=============================================================================
