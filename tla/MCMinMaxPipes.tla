---------------------------- MODULE MCMinMaxPipes ----------------------------
(* Instances of MinMaxPipes for TLC. *)
EXTENDS MinMaxPipes

\* The doubles: a number stands for its half, so that 1, which stands for DBL_MIN,
\* is greater than 0 and less than any other positive one.
SomeValues == {-2, 0, 2, 4}

\* Files of up to three numbers, at least one of them no new maximum.
ShortTexts ==
  {text \in UNION {[1 .. n -> SomeValues] : n \in 1 .. 3} : Scan(text).min # DBL_MAX}

MixedTexts == {<<4, 2>>, <<0, 2, Junk, -2>>, NoFile}

\* Every file by itself, none, and three files, of which any may be missing.
SomeInputs ==
  {<<>>} \cup {<<text>> : text \in ShortTexts} \cup [1 .. 3 -> MixedTexts]
=============================================================================
