----------------------------- MODULE SchHelpers -----------------------------
(***************************************************************************)
(* The process structures and helpers of P__2/sch-helpers.h and            *)
(* P__2/sch-helpers.c that the scheduling simulators are built on.  A      *)
(* process is known by its index in the array of processes, so a process * *)
(* is an index and NULL is 0; a process_queue is a sequence of indices.    *)
(***************************************************************************)
EXTENDS Integers, Sequences, FiniteSets, Functions

CONSTANTS
  NUMBER_OF_PROCESSORS, MAX_PROCESSES,  \* the limits of sch-helpers.h
  Inputs          \* the arrays of processes the data file may describe

NULL == 0
CPUs == 0 .. NUMBER_OF_PROCESSORS - 1

\* The part of struct process that comes from the data file: bursts holds the
\* lengths of the alternating CPU and I/O bursts, a CPU burst first and last.
Process ==
  [pid : Nat, arrivalTime : Nat, bursts : {b \in Seq(Nat) : Len(b) % 2 = 1}]

ASSUME SchAssumption ==
  /\ NUMBER_OF_PROCESSORS \in Nat \ {0} /\ MAX_PROCESSES \in Nat
  /\ Inputs \subseteq Seq(Process)

\* The comparator given to qsort for the array of processes.
compareByArrival(a, b) ==
  IF a.arrivalTime < b.arrivalTime THEN -1
  ELSE IF a.arrivalTime > b.arrivalTime THEN 1 ELSE 0

\* What qsort guarantees of an array it has sorted with that comparator.
SortedByArrival(array) ==
  \A j, k \in DOMAIN array : j < k => compareByArrival(array[j], array[k]) <= 0

\* The arrays main may end up with.
SortedInputs == {array \in Inputs : SortedByArrival(array)}

\* main goes on to simulate only an array of an acceptable size.
Accepted(array) == Len(array) \in 1 .. MAX_PROCESSES
=============================================================================
