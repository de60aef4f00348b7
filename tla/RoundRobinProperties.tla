------------------------ MODULE RoundRobinProperties ------------------------
(* What P__2/rr.c guarantees, and what it says of itself but does not.      *)
EXTENDS RoundRobin

\* Type invariant of all the simulator's variables.
TypeOK ==
  /\ process_frm_datafile \in Seq(Process) /\ tQuantum \in Int
  /\ phase \in {"admit", "running", "io", "sort", "dispatch", "incrementIO",
                "incrementReady", "incrementCPU", "endOfCycle"}
  /\ i \in Nat
  /\ outcome \in {"simulating", "rejected", "aborted", "finished"}
  /\ clock_cycle \in Nat /\ nextProcess \in 0 .. totalProcesses
  /\ preReadyQ \subseteq Procs
  /\ readyQ \in Seq(Procs) /\ ioWaitingQ \in Seq(Procs)
  /\ cpu \in [CPUs -> Procs \cup {NULL}]
  /\ currentBurst \in [Procs -> Nat] /\ step \in [Procs -> Nat]
  /\ waitingTime \in [Procs -> Nat] /\ endTime \in [Procs -> Nat]
  /\ served \in [Procs -> Nat] /\ waited \in [Procs -> Nat]
  /\ quantumRemaining \in [Procs -> Int]
  /\ totalContextSwitches \in Nat /\ cpuTimeUtilized \in Nat
-----------------------------------------------------------------------------
(* The places of the processes. *)

Ready   == preReadyQ \cup Range(readyQ)
Waiting == Range(ioWaitingQ)
Active  == Ready \cup Running \cup Waiting
Ended   == {p \in Procs : currentBurst[p] = numberOfBursts(p)}

\* No process is in two queues or places of a queue, or on two processors; and
\* none is lost: those admitted and in no place are those past their last burst.
OnePlace ==
  /\ IsInjective(readyQ) /\ IsInjective(ioWaitingQ)
  /\ \A c, d \in CPUs : cpu[c] = cpu[d] /\ cpu[c] # NULL => c = d
  /\ preReadyQ \cap Range(readyQ) = {}
  /\ Ready \cap Running = {} /\ Ready \cap Waiting = {}
  /\ Running \cap Waiting = {}
  /\ Active \cup Ended = 1 .. nextProcess /\ Active \cap Ended = {}

\* The processes go through the states of the comment on struct process.
StateOf(p) ==
  IF p > nextProcess THEN "new"
  ELSE IF p \in Ready THEN "ready"
  ELSE IF p \in Running THEN "running"
  ELSE IF p \in Waiting THEN "waiting"
  ELSE "terminated"

Lifecycle == INSTANCE ProcessLifecycle
  WITH Processors <- NUMBER_OF_PROCESSORS,
       state      <- [p \in Procs |-> StateOf(p)],
       burst      <- currentBurst,
       nBursts    <- [p \in Procs |-> numberOfBursts(p)]
LifecycleSpec == Lifecycle!Spec

\* The assertion of fromIOWaitingToPreReady, that an I/O burst is never
\* overshot, holds of every waiting process, for bursts of length 0 as well.
StepAssertion == \A p \in Waiting : step[p] <= length(p)

\* While a cycle is executed no processor is idle if a process is ready.
Executing == {"incrementIO", "incrementReady", "incrementCPU", "endOfCycle"}
WorkConserving ==
  phase \in Executing /\ readyQ # <<>> => \A c \in CPUs : cpu[c] # NULL

\* The exit test does not look at readyQ, but no process is left behind.
AllServedAtExit == outcome = "finished" => Ended = Procs
-----------------------------------------------------------------------------
(* The times. *)

arrivalTime(p) == process_frm_datafile[p].arrivalTime

\* The processes whose counter was incremented in the cycle being executed.
Counted ==
  (IF phase \in {"incrementReady", "incrementCPU", "endOfCycle"} THEN Waiting ELSE {})
  \cup (IF phase \in {"incrementCPU", "endOfCycle"} THEN Ready ELSE {})
  \cup (IF phase = "endOfCycle" THEN Running ELSE {})

\* Every cycle of a process between its arrival and its end is counted exactly
\* once, as waiting or as served, however it moves between the queues.
TimeAccounting ==
  /\ \A p \in Active :
       clock_cycle - arrivalTime(p) + (IF p \in Counted THEN 1 ELSE 0)
         = waitingTime[p] + served[p]
  /\ \A p \in Ended : endTime[p] - arrivalTime(p) = waitingTime[p] + served[p]

\* In its first burst a process is preempted after every tQuantum cycles of
\* execution, no sooner and no later.
FirstBurstSlices ==
  tQuantum > 0 =>
    \A p \in Ready \cup Running : currentBurst[p] = 0 =>
      /\ quantumRemaining[p] \in 0 .. tQuantum
      /\ (step[p] + quantumRemaining[p]) % tQuantum = 0

Need(p) == SumFunction(process_frm_datafile[p].bursts)
CPUNeed(p) ==
  SumFunctionOnSet(process_frm_datafile[p].bursts,
                   {k \in 1 .. numberOfBursts(p) : k % 2 = 1})

\* What is printed at the end agrees with the data file: every process was
\* served for its bursts and no more, the processors were busy for the CPU
\* bursts only, the turnaround is the waiting plus the bursts, no division is
\* by zero, and the processes listed as the last to finish are.  No two of the
\* processes that arrived together have one pid, on which the sort would have
\* failed its assertion; and it fails on equal pids only.
ReportSound ==
  /\ outcome = "aborted" => ~IsInjective([p \in Procs |-> pid(p)])
  /\ outcome = "finished" =>
    /\ \A p, q \in Procs :
         pid(p) = pid(q) /\ arrivalTime(p) = arrivalTime(q) => p = q
    /\ clock_cycle > 0 /\ cpuTimeUtilized <= clock_cycle * NUMBER_OF_PROCESSORS
    /\ \A p \in Procs : served[p] = Need(p)
    /\ cpuTimeUtilized = SumFunction([p \in Procs |-> CPUNeed(p)])
    /\ sumOfTurnaroundTimes = totalWaitingTime
                                + SumFunction([p \in Procs |-> Need(p)])
    /\ LastToFinish # {} /\ \A p \in Procs : endTime[p] <= clock_cycle

SingleBursts == \A p \in Procs : numberOfBursts(p) = 1

Rounds == (totalProcesses - 1) \div NUMBER_OF_PROCESSORS

\* Round robin is fair: among processes without I/O, one that is ready is
\* dispatched after at most one quantum for each round of the others.
BoundedWait ==
  tQuantum > 0 /\ SingleBursts =>
    \A p \in Procs : waited[p] <= Rounds * tQuantum

\* The simulation comes to its end.
Terminates == <>(outcome # "simulating")
-----------------------------------------------------------------------------
(* What the comments say and the program does not do. *)

\* P__2/sch-helpers.h: quantumRemaining is the time left in the current quantum.
QuantumLeft ==
  tQuantum > 0 => \A p \in Running : quantumRemaining[p] \in 0 .. tQuantum

\* P__2/sch-helpers.h: step counts the steps completed of the length needed.
StepWithinLength == \A p \in Active : step[p] <= length(p)

\* The fields of struct process and struct burst are what their comments say.  A
\* process that returns from I/O goes on with the old quantum, and a CPU burst of
\* length 0 is stepped over.
FieldsAsDocumented == QuantumLeft /\ StepWithinLength
=============================================================================
