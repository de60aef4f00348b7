---------------------------- MODULE MinMaxThreads ----------------------------
(***************************************************************************)
(* A1/thread.c: main creates a thread for each file, then polls them with  *)
(* pthread_tryjoin_np.  A step is one access to what threads share; the    *)
(* scan of a file touches nothing shared and is one step.                  *)
(***************************************************************************)
EXTENDS Extrema

VARIABLES
  files,            \* the content of each file, fixed
  outcome,          \* of main: "creating", "polling", then how it ended
  i, remaining,     \* the loop variable of main, from 1, and the threads to join
  all,              \* PMIN and PMAX
  tid,              \* of each slot: its thread, 0, or a value that is no thread
  sum, dif,         \* of each slot
  pc, found         \* of each thread; MIN and MAX, its local variables

slots == <<tid, sum, dif>>
vars == <<files, outcome, i, remaining, all, slots, pc, found>>

Threads == 1 .. Len(files)

Init ==
  /\ files \in Inputs
  /\ outcome = "creating" /\ i = 1 /\ remaining = Len(files)
  /\ all = Start
  /\ tid = [t \in Threads |-> "0"]
  /\ sum = [t \in Threads |-> 0] /\ dif = [t \in Threads |-> 0]
  /\ pc = [t \in Threads |-> "not created"]
  /\ found = [t \in Threads |-> Start]
-----------------------------------------------------------------------------
(* main *)

\* The slots cannot be allocated: main exits.
AllocFails ==
  /\ outcome = "creating" /\ i = 1 /\ outcome' = "exited"
  /\ UNCHANGED <<files, i, remaining, all, slots, pc, found>>

Creating == outcome = "creating" /\ i <= Len(files)

CreateThread ==
  /\ Creating
  /\ tid' = [tid EXCEPT ![i] = "thread"]
  /\ pc' = [pc EXCEPT ![i] = "scan"] /\ i' = i + 1
  /\ UNCHANGED <<files, outcome, remaining, all, sum, dif, found>>

\* A failed pthread_create leaves tid as malloc gave it; nothing looks at that.
CreateFails ==
  /\ Creating
  /\ \E junk \in {"0", "no thread"} : tid' = [tid EXCEPT ![i] = junk]
  /\ pc' = [pc EXCEPT ![i] = "failed"] /\ i' = i + 1
  /\ UNCHANGED <<files, outcome, remaining, all, sum, dif, found>>

\* The loop variable comes to the end of the slots.
StartPass(from) ==
  /\ outcome = from /\ i = Len(files) + 1
  /\ i' = 1 /\ outcome' = IF remaining > 0 THEN "polling" ELSE "printed"
  /\ UNCHANGED <<files, remaining, all, slots, pc, found>>

Polling == outcome = "polling" /\ i <= Len(files)

\* Mutant: the thread is not waited for.
TryJoinBlind ==
  /\ Polling /\ tid[i] = "thread"
  /\ tid' = [tid EXCEPT ![i] = "0"]
  /\ remaining' = remaining - 1 /\ i' = i + 1
  /\ all' = FoldIn(all, sum[i], dif[i])
  /\ UNCHANGED <<files, outcome, sum, dif, pc, found>>

\* Mutant: the thread is joined and not counted.
TryJoinUncounted ==
  /\ Polling /\ tid[i] = "thread" /\ pc[i] = "ended"
  /\ tid' = [tid EXCEPT ![i] = "0"]
  /\ i' = i + 1
  /\ all' = FoldIn(all, sum[i], dif[i])
  /\ UNCHANGED <<files, outcome, remaining, sum, dif, pc, found>>

TryJoin ==
  /\ Polling /\ tid[i] = "thread" /\ pc[i] = "ended"
  /\ tid' = [tid EXCEPT ![i] = "0"]
  /\ remaining' = remaining - 1 /\ i' = i + 1
  /\ all' = FoldIn(all, sum[i], dif[i])
  /\ UNCHANGED <<files, outcome, sum, dif, pc, found>>

\* A joined slot, a thread that is busy, or the error of joining no thread: main
\* goes on to the next slot.
PassOver ==
  /\ Polling /\ ~(tid[i] = "thread" /\ pc[i] = "ended")
  /\ i' = i + 1
  /\ UNCHANGED <<files, outcome, remaining, all, slots, pc, found>>

\* An unassigned tid may also be one the library cannot look at.
JoinCrashes ==
  /\ Polling /\ tid[i] = "no thread" /\ outcome' = "crashed"
  /\ UNCHANGED <<files, i, remaining, all, slots, pc, found>>

Main ==
  \/ CreateThread \/ CreateFails
  \/ StartPass("creating") \/ StartPass("polling")
  \/ TryJoin \/ PassOver \/ JoinCrashes
-----------------------------------------------------------------------------
(* A thread: runner.  A file that cannot be opened is like an empty one. *)

ThreadStep(t, from, to) ==
  /\ outcome \in {"creating", "polling"} /\ pc[t] = from
  /\ pc' = [pc EXCEPT ![t] = to]
  /\ UNCHANGED <<files, outcome, i, remaining, all, tid>>

ScanFile(t) ==
  /\ ThreadStep(t, "scan", "storeSum")
  /\ found' = [found EXCEPT ![t] = IF files[t] = NoFile THEN Start ELSE Scan(files[t])]
  /\ UNCHANGED <<sum, dif>>

StoreSum(t) ==
  /\ ThreadStep(t, "storeSum", "storeDif")
  /\ sum' = [sum EXCEPT ![t] = Sum(found[t])] /\ UNCHANGED <<dif, found>>

StoreDif(t) ==
  /\ ThreadStep(t, "storeDif", "ended")
  /\ dif' = [dif EXCEPT ![t] = Dif(found[t])] /\ UNCHANGED <<sum, found>>

runner(t) == ScanFile(t) \/ StoreSum(t) \/ StoreDif(t)

Next == AllocFails \/ Main \/ \E t \in Threads : runner(t)

Spec == Init /\ [][Next]_vars

\* The operating system keeps running main and every thread.
FairSpec ==
  Spec /\ WF_vars(Main)
       /\ \A t \in UNION {DOMAIN f : f \in Inputs} : WF_vars(t \in Threads /\ runner(t))
-----------------------------------------------------------------------------
\* Whatever the order in which the threads end, each file is folded once, with the
\* extremes that its scan found, and the result is printed after the last: what
\* main reads of a slot is what its thread has stored there.
Fold == INSTANCE MinMax
  WITH numbers <- [t \in Threads |-> IF files[t] = NoFile THEN <<>> ELSE Numbers(files[t])],
       folded  <- {t \in Threads : pc[t] = "ended" /\ tid[t] = "0"},
       result  <- all,
       printed <- outcome = "printed"
FoldSpec == Fold!Spec

\* A result that leaves a file out is never printed: once a thread could not be
\* created, its slot is not joined, whatever its tid is, and main never comes to
\* the end of its loop.
FailureIsFinal ==
  (\E t \in Threads : pc[t] = "failed") => outcome # "printed"

\* main comes to its end, unless a thread could not be created: its slot is then
\* polled, or passed over, for ever.
Terminates ==
  <>(outcome \notin {"creating", "polling"}) \/ <>(\E t \in Threads : pc[t] = "failed")
=============================================================================
