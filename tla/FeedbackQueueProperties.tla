----------------------- MODULE FeedbackQueueProperties -----------------------
(* What P__2/fbq.c guarantees, and what it says of itself but does not.     *)
EXTENDS FeedbackQueue

\* Type invariant of all the simulator's variables.
TypeOK ==
  /\ processes \in Seq(Process) /\ tQuanta_0 \in Int /\ tQuanta_1 \in Int
  /\ phase \in {"admit", "running", "io", "sort", "dispatch", "increment",
                "endOfCycle"}
  /\ i \in Nat
  /\ outcome \in {"simulating", "rejected", "aborted", "finished"}
  /\ clock_cycle \in Nat /\ nextProcessIndex \in 0 .. Len(processes)
  /\ preReadyQ \subseteq Procs
  /\ readyQ \in [Levels -> Seq(Procs)] /\ waitingQueue \in Seq(Procs)
  /\ cpu \in [CPUs -> Procs \cup {NULL}]
  /\ currentBurst \in [Procs -> Nat] /\ step \in [Procs -> Nat]
  /\ currentQueue \in [Procs -> Levels \cup {WAITQ}]
  /\ quantumRemaining \in [Procs -> Int]
  /\ waitingTime \in [Procs -> Nat] /\ endTime \in [Procs -> Nat]
  /\ served \in [Procs -> Nat]
  /\ totalContextSwitches \in Nat /\ cpuTimeUtilized \in Nat
-----------------------------------------------------------------------------
(* The places of the processes. *)

Ready   == preReadyQ \cup Queued
Waiting == Range(waitingQueue)
Active  == Ready \cup Running \cup Waiting
Ended   == {p \in Procs : currentBurst[p] = numberOfBursts(p)}

\* No process is in two queues or places of a queue, or on two processors; and
\* none is lost: those admitted and in no place are those past their last burst.
OnePlace ==
  /\ \A k \in Levels : IsInjective(readyQ[k])
  /\ \A j, k \in Levels : j # k => Range(readyQ[j]) \cap Range(readyQ[k]) = {}
  /\ IsInjective(waitingQueue)
  /\ \A c, d \in CPUs : cpu[c] = cpu[d] /\ cpu[c] # NULL => c = d
  /\ preReadyQ \cap Queued = {}
  /\ Ready \cap Running = {} /\ Ready \cap Waiting = {}
  /\ Running \cap Waiting = {}
  /\ Active \cup Ended = 1 .. nextProcessIndex /\ Active \cap Ended = {}

\* The field currentQueue, on which selectMoveRunning decides what to do with a
\* running process, agrees with the queue the process is in.
QueueTags ==
  /\ \A k \in Levels : \A p \in Range(readyQ[k]) : currentQueue[p] = k
  /\ \A p \in preReadyQ : currentQueue[p] = 0
  /\ \A p \in Running : currentQueue[p] \in Levels
  /\ \A p \in Waiting : currentQueue[p] = WAITQ

\* The processes go through the states of the comment on struct process.
StateOf(p) ==
  IF p > nextProcessIndex THEN "new"
  ELSE IF p \in Ready THEN "ready"
  ELSE IF p \in Running THEN "running"
  ELSE IF p \in Waiting THEN "waiting"
  ELSE "terminated"

Lifecycle == INSTANCE ProcessLifecycle
  WITH Processors <- NUMBER_OF_PROCESSORS,
       state      <- [p \in Procs |-> StateOf(p)],
       burst      <- currentBurst,
       nBursts    <- [p \in Procs |-> numberOfBursts(p)]
LifecycleSpec == Lifecycle!Spec

\* While a cycle is executed no processor is idle if a process is ready.
WorkConserving ==
  phase \in {"increment", "endOfCycle"} /\ Queued # {}
    => \A c \in CPUs : cpu[c] # NULL
-----------------------------------------------------------------------------
(* The feedback. *)

PositiveQuanta == tQuanta_0 > 0 /\ tQuanta_1 > 0

\* The queue of a process tells how far it is in its CPU burst: in queue 0 it
\* has not used the first quantum, in queue 1 it has used the first and not the
\* second, in queue 2 it has used both.  A process off the processor has used
\* whole quanta only.
FeedbackLevels ==
  PositiveQuanta =>
    \A p \in Ready \cup Running :
      LET used == <<0, tQuanta_0, tQuanta_0 + tQuanta_1>>[currentQueue[p] + 1]
          left == <<tQuanta_0, tQuanta_1>>[currentQueue[p] + 1] - quantumRemaining[p]
      IN /\ step[p] >= used
         /\ p \in Ready => step[p] = used
         /\ p \in Running /\ currentQueue[p] # 2 =>
              quantumRemaining[p] >= 0 /\ step[p] = used + left

\* How often a CPU burst of that length goes down a queue.
Demotions(n) ==
  IF n > tQuanta_0 + tQuanta_1 THEN 2 ELSE IF n > tQuanta_0 THEN 1 ELSE 0

DemotionsOf(p) ==
  LET b == processes[p].bursts IN
  SumFunctionOnSet([k \in DOMAIN b |-> Demotions(b[k])],
                   {k \in DOMAIN b : k % 2 = 1})

\* The context switches reported do not depend on how the processes compete: a
\* CPU burst causes one for each of the two quanta it does not fit in.
SwitchesCounted ==
  outcome = "finished" /\ PositiveQuanta =>
    totalContextSwitches = SumFunction([p \in Procs |-> DemotionsOf(p)])
-----------------------------------------------------------------------------
(* The times. *)

arrivalTime(p) == processes[p].arrivalTime

\* Every cycle of a process between its arrival and its end is counted exactly
\* once, as waiting or as served, however it moves between the queues.
TimeAccounting ==
  /\ \A p \in Active :
       clock_cycle - arrivalTime(p) + (IF phase = "endOfCycle" THEN 1 ELSE 0)
         = waitingTime[p] + served[p]
  /\ \A p \in Ended : endTime[p] - arrivalTime(p) = waitingTime[p] + served[p]

Need(p) == SumFunction(processes[p].bursts)
CPUNeed(p) ==
  SumFunctionOnSet(processes[p].bursts,
                   {k \in 1 .. numberOfBursts(p) : k % 2 = 1})

\* What is printed at the end agrees with the data file: every process ended and
\* was served for its bursts and no more, the processors were busy for the CPU
\* bursts only, the turnaround is the waiting plus the bursts, no division is
\* by zero, and the pid printed is that of one of the last to finish.
ReportSound ==
  outcome = "finished" =>
    /\ clock_cycle > 0 /\ cpuTimeUtilized <= clock_cycle * NUMBER_OF_PROCESSORS
    /\ Ended = Procs
    /\ \A p \in Procs : served[p] = Need(p) /\ endTime[p] <= clock_cycle
    /\ cpuTimeUtilized = SumFunction([p \in Procs |-> CPUNeed(p)])
    /\ sumOfTurnaroundTimes = totalWaitingTime
                                + SumFunction([p \in Procs |-> Need(p)])
    /\ \E p \in LastToFinish : getLastPID = pid(p)

\* The simulation comes to its end.
Terminates == <>(outcome # "simulating")
-----------------------------------------------------------------------------
(* What the comments and the output say and the program does not do. *)

\* P__2/fbq.c: processes in queue 2 are run only when queues 0 and 1 are empty.
Queue2Last ==
  phase \in {"increment", "endOfCycle"} /\ (\E p \in Running : currentQueue[p] = 2)
    => readyQ[0] = <<>> /\ readyQ[1] = <<>>
=============================================================================
