--------------------------- MODULE FcfsProperties ---------------------------
(* What P1__1/fcfs.c guarantees.  Of its lists: ListsSound and FifoSpec, of  *)
(* ProcessQueue.                                                             *)
EXTENDS Fcfs

Has(q, p) == \E n \in Range(chain[q]) : data[n] = p

Ended == {p \in Procs : currentBurst[p] = numberOfBursts(p)}

\* Although the test for the last burst is off by one, every process goes
\* through the states of the comment on struct process: it is in one place at a
\* time, takes each of its bursts once, and ends after the last.  A process past
\* its last burst is in ioWaitQ for the rest of a cycle, and is terminated.
StateOf(p) ==
  IF Has(readyQ, p) THEN "ready"
  ELSE IF \E c \in CPUs : cpu[c] = p THEN "running"
  ELSE IF p \in Ended THEN "terminated"
  ELSE IF Has(ioWaitQ, p) \/ (phase = "ioRequeue" /\ data[node] = p) THEN "waiting"
  ELSE "new"

Lifecycle == INSTANCE ProcessLifecycle
  WITH Processors <- NUMBER_OF_PROCESSORS,
       state      <- [p \in Procs |-> StateOf(p)],
       burst      <- currentBurst,
       nBursts    <- [p \in Procs |-> numberOfBursts(p)]
LifecycleSpec == Lifecycle!Spec

Need(p) == SumFunction(processes[p].bursts)

\* What is printed.  Every process is in terminatedQ exactly once and the sums
\* are those of the data file.  No cycle of a process is lost: it ends when its
\* waiting, its bursts and the dispatches of its CPU bursts add up, which is not
\* what the code says of it (CompletionTime).  The time printed is the cycle
\* after the last end, the pid that of one of the last to end, and the averages
\* divide by zero for the empty input only.
ReportSound ==
  /\ outcome = "crashed" => processes = <<>>
  /\ outcome = "finished" =>
       /\ IsInjective(InQueue(terminatedQ)) /\ Range(InQueue(terminatedQ)) = Procs
       /\ totalWaitTime = SumFunction(waitingTime)
       /\ totalBursts = SumFunction([p \in Procs |-> Need(p)])
       /\ cpuTimes <= time * NUMBER_OF_PROCESSORS
       /\ \A p \in Procs :
            /\ endTime[p] = waitingTime[p] + Need(p) + Cardinality(CPUBursts(p))
            /\ endTime[p] < time
       /\ \E p \in Procs : endTime[p] = time - 1 /\ lastPID = processes[p].pid

\* "Turn around time = completion time - arrival time", "completion time =
\* bursts time + waiting time": the comment above the averages, for processes
\* that arrive at 0, whether the cycles are counted from the first one, in which
\* no burst advances yet, or from the second.
CompletionTime ==
  outcome = "finished" =>
    \E start \in {0, 1} : \A p \in Procs :
      endTime[p] - start = Need(p) + waitingTime[p]

\* The simulation comes to its end, for bursts of length 0 as well, and no
\* assertion of the lists stops it before.
Terminates == <>(outcome # "running")
=============================================================================
