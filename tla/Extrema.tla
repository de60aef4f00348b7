------------------------------- MODULE Extrema -------------------------------
(***************************************************************************)
(* The scan of a file for its extremes, and their journey as a sum and a   *)
(* difference, that A1/thread.c and A1/process.c have in common.  Doubles  *)
(* are integers; additions are exact but for the two limits.               *)
(***************************************************************************)
EXTENDS Integers, SequencesExt

CONSTANTS
  DBL_MIN, DBL_MAX, INFINITY,
  Values,    \* the numbers a file may hold
  Junk,      \* text that is not a number
  NoFile,    \* the content of a file that cannot be opened
  Inputs     \* the sequences of files the command line may name

ASSUME ExtremaAssumption ==
  /\ Values \subseteq Int
  /\ DBL_MIN \in Nat \ {0} /\ DBL_MAX \in Nat /\ INFINITY \in Nat
  /\ DBL_MIN < DBL_MAX /\ DBL_MAX < INFINITY
  /\ \A v \in Values : v < DBL_MAX /\ (v = 0 \/ v > DBL_MIN \/ v < -DBL_MIN)
  /\ Inputs \subseteq Seq(Seq(Values \cup {Junk}) \cup {NoFile})

\* Mutant: the minimum is compared with the maximum found so far.
LookWrong(e, v) ==
  IF v > e.max THEN [e EXCEPT !.max = v]
  ELSE IF v < e.max THEN [e EXCEPT !.min = v] ELSE e

\* One pass of the loop.  A value that is a new maximum is not compared with the
\* minimum.
Look(e, v) ==
  IF v > e.max THEN [e EXCEPT !.max = v]
  ELSE IF v < e.min THEN [e EXCEPT !.min = v] ELSE e

\* The numbers of a text, up to what is not a number.
Numbers(text) ==
  SubSeq(text, 1, SelectInSeq(Append(text, Junk), LAMBDA v : v = Junk) - 1)

Start == [min |-> DBL_MAX, max |-> DBL_MIN]

Scan(text) == FoldLeft(Look, Start, Numbers(text))

\* A sum of doubles keeps nothing of a number beside DBL_MAX, and nothing of
\* DBL_MIN beside a number other than 0.
Plus(min, max) ==
  IF min = DBL_MAX THEN DBL_MAX
  ELSE IF max \in {DBL_MIN, -DBL_MIN} /\ min # 0 THEN min ELSE min + max

Sum(e) == Plus(e.min, e.max)
Dif(e) == Plus(e.min, -e.max)

parent_min(sum, dif) ==
  IF sum = DBL_MAX /\ dif = DBL_MAX THEN INFINITY ELSE (sum + dif) \div 2
parent_max(sum, dif) == (sum - dif) \div 2

\* The extremes of all the files after one more.
FoldIn(all, sum, dif) ==
  LET low == parent_min(sum, dif)  high == parent_max(sum, dif) IN
  [min |-> IF low < all.min THEN low ELSE all.min,
   max |-> IF high > all.max THEN high ELSE all.max]
=============================================================================
