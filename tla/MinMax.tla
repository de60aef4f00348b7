------------------------------- MODULE MinMax -------------------------------
(***************************************************************************)
(* What A1/thread.c and A1/process.c compute, whatever the order in which  *)
(* their workers end: each file is folded exactly once into the result,    *)
(* and the result is printed when all of them are.                         *)
(***************************************************************************)
EXTENDS Integers, FiniteSets, FiniteSetsExt, Sequences

CONSTANTS DBL_MIN, DBL_MAX

VARIABLES
  numbers,    \* the numbers read of each file
  folded,     \* the files in the result
  result,     \* their extremes
  printed     \* whether the result is printed

vars == <<numbers, folded, result, printed>>

Files == DOMAIN numbers

\* The numbers greater than 0 and than all before them.
IsRecord(s, k) == s[k] > 0 /\ \A j \in 1 .. k - 1 : s[j] < s[k]

Positive(f) == {v \in {numbers[f][k] : k \in DOMAIN numbers[f]} : v > 0}
Others(f) ==
  {numbers[f][k] : k \in {k \in DOMAIN numbers[f] : ~IsRecord(numbers[f], k)}}

\* The minimum is that of the numbers that are not a record, the maximum that
\* of the numbers greater than 0; a file all of whose numbers are records, such
\* as a single number greater than 0, counts for neither.
Extremes(F) ==
  LET G == {f \in F : Others(f) # {}} IN
  [min |-> Min({DBL_MAX} \cup UNION {Others(f) : f \in G}),
   max |-> Max({DBL_MIN} \cup UNION {Positive(f) : f \in G})]

Init == folded = {} /\ result = Extremes({}) /\ printed = FALSE

Fold(f) ==
  /\ ~printed /\ f \notin folded
  /\ folded' = folded \cup {f} /\ result' = Extremes(folded')
  /\ UNCHANGED <<numbers, printed>>

PrintResult ==
  /\ ~printed /\ folded = Files
  /\ printed' = TRUE
  /\ UNCHANGED <<numbers, folded, result>>

Next == PrintResult \/ \E f \in Files : Fold(f)

Spec == Init /\ [][Next]_vars
=============================================================================
