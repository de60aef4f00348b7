-------------------------- MODULE ProcessLifecycle --------------------------
(***************************************************************************)
(* The state {new, ready, running, waiting, terminated} that the comment   *)
(* on struct process in P__2/sch-helpers.h says every process has,         *)
(* determined by the data structures that hold it.  What any of the        *)
(* multiprocessor schedulers promises of it: a process runs only in its    *)
(* CPU bursts, one processor each, waits only in its I/O bursts, takes its *)
(* bursts in order and ends after the last one.                            *)
(***************************************************************************)
EXTENDS Integers, FiniteSets, Sequences

CONSTANTS Processors   \* how many processes may run at once

VARIABLES
  state,     \* the state of each process
  burst,     \* the number of bursts each process has completed
  nBursts    \* the number of bursts each process has

vars == <<state, burst, nBursts>>

Procs == DOMAIN state

Running == {p \in Procs : state[p] = "running"}

Init ==
  /\ IsFiniteSet(Procs) /\ state = [p \in Procs |-> "new"]
  /\ burst = [p \in Procs |-> 0]
  /\ nBursts \in [Procs -> {b \in Nat : b % 2 = 1}]

Step(p, from, to) ==
  /\ state[p] = from
  /\ state' = [state EXCEPT ![p] = to]
  /\ UNCHANGED nBursts

NextBurst(p) == burst' = [burst EXCEPT ![p] = @ + 1]

Admit(p)    == Step(p, "new", "ready") /\ UNCHANGED burst

Dispatch(p) ==
  /\ Step(p, "ready", "running") /\ UNCHANGED burst
  /\ burst[p] % 2 = 0
  /\ Cardinality(Running) < Processors

Preempt(p)  == Step(p, "running", "ready") /\ UNCHANGED burst

Block(p) ==
  Step(p, "running", "waiting") /\ NextBurst(p) /\ burst[p] + 1 < nBursts[p]

Wake(p)     == Step(p, "waiting", "ready") /\ NextBurst(p)

Finish(p) ==
  Step(p, "running", "terminated") /\ NextBurst(p) /\ burst[p] + 1 = nBursts[p]

Next ==
  \E p \in Procs : \/ Admit(p) \/ Dispatch(p) \/ Preempt(p)
                   \/ Block(p) \/ Wake(p) \/ Finish(p)

Spec == Init /\ [][Next]_vars
=============================================================================
