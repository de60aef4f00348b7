-------------------------------- MODULE Fcfs --------------------------------
(***************************************************************************)
(* The first-come-first-served simulator P1__1/fcfs.c, on the linked lists *)
(* of ProcessQueue.  A step makes at most one call on a list; `phase' is   *)
(* the place in main, i the variable of the loop there.                    *)
(***************************************************************************)
EXTENDS ProcessQueue

readyQ      == "readyQ"
ioWaitQ     == "ioWaitQ"
terminatedQ == "terminatedQ"

\* Nothing checks the number of processes read, so an input that does not fit
\* in the array of MAX_PROCESSES + 1 has no defined behaviour.
ASSUME FcfsAssumption ==
  /\ Queues = {readyQ, ioWaitQ, terminatedQ}
  /\ \A array \in Inputs : Len(array) <= MAX_PROCESSES + 1

VARIABLES
  processes,                                 \* the input, fixed
  phase, i, sizeIO, outcome,
  node,                                      \* the pointers node, ioPtr, currentPtr
  cpu, currentBurst, step, waitingTime,      \* step is that of the current burst
  time, totalWaitTime, totalBursts, cpuTimes,
  endTime    \* history: when each process was put in terminatedQ

position == <<phase, i, sizeIO, outcome, node>>
running  == <<cpu, currentBurst, step>>
figures  == <<time, totalWaitTime, totalBursts, cpuTimes>>
vars == <<lists, processes, position, running, waitingTime, figures, endTime>>

Procs == 1 .. Len(processes)

numberOfBursts(p) == Len(processes[p].bursts)

\* Past the last burst the array of bursts holds zeros.
length(p) ==
  IF currentBurst[p] < numberOfBursts(p)
  THEN processes[p].bursts[currentBurst[p] + 1] ELSE 0

remainingTime(p) == length(p) - step[p]

Init ==
  /\ processes \in SortedInputs /\ QInit
  /\ phase = "create" /\ i = 0 /\ sizeIO = 0 /\ outcome = "running"
  /\ node = NULL
  /\ cpu = [c \in CPUs |-> NULL]
  /\ currentBurst = [p \in Procs |-> 0] /\ step = [p \in Procs |-> 0]
  /\ waitingTime = [p \in Procs |-> 0] /\ endTime = [p \in Procs |-> 0]
  /\ time = 0 /\ totalWaitTime = 0 /\ totalBursts = 0 /\ cpuTimes = 0

At(name) == outcome = "running" /\ phase = name

Goto(name, index) ==
  phase' = name /\ i' = index /\ UNCHANGED <<processes, sizeIO, outcome>>

\* What malloc returns: which of the free nodes makes no difference.
Fresh == CHOOSE n \in Nodes : n \notin allocated

\* The process at the front of a list that is not empty.
FrontOf(q) == data[front[q]]

\* A test of the program: nothing else changes.
Proceed(name, index) ==
  Goto(name, index) /\ UNCHANGED <<lists, node, running, waitingTime, figures, endTime>>
-----------------------------------------------------------------------------
(* Load the ready queue.  The node created for a process is only used to    *)
(* reach the process again and is never freed.                              *)

Create ==
  /\ At("create") /\ i < Len(processes)
  /\ Spare(i + 1, Fresh) /\ node' = Fresh
  /\ Goto("load", i)
  /\ UNCHANGED <<running, waitingTime, figures, endTime>>

Load ==
  /\ At("load") /\ enqueueProcess(readyQ, data[node], Fresh)
  /\ Goto("create", i + 1)
  /\ UNCHANGED <<node, running, waitingTime, figures, endTime>>

LoadDone == At("create") /\ i = Len(processes) /\ Proceed("test", 0)

\* Mutant: the loop ends although processes are in I/O.
BusyNoIO == size[readyQ] > 0 \/ \E c \in CPUs : cpu[c] # NULL

Busy == size[readyQ] > 0 \/ size[ioWaitQ] > 0 \/ \E c \in CPUs : cpu[c] # NULL

Test ==
  At("test") /\ Proceed(IF Busy THEN "cpu" ELSE "report", 0)
-----------------------------------------------------------------------------
(* Processor i. *)

OnCPU(p) == At("cpu") /\ i < NUMBER_OF_PROCESSORS /\ p = cpu[i]

\* Mutant: the index of the burst is not advanced.
NextBurstNot(p) == UNCHANGED <<currentBurst, step>>

NextBurst(p) ==
  /\ currentBurst' = [currentBurst EXCEPT ![p] = @ + 1]
  /\ step' = [step EXCEPT ![p] = 0]

\* The end of a burst of p, which goes on to queue q or to terminatedQ.  The test
\* accepts the index one past the last burst: every process goes to ioWaitQ
\* first, and is found there to have no burst left.
BurstDone(p, q) ==
  IF currentBurst[p] + 1 <= numberOfBursts(p)
  THEN NextBurst(p) /\ enqueueProcess(q, p, Fresh) /\ UNCHANGED endTime
  ELSE /\ enqueueProcess(terminatedQ, p, Fresh)
       /\ endTime' = [endTime EXCEPT ![p] = time]
       /\ UNCHANGED <<currentBurst, step>>

CPUBurstDone ==
  LET p == cpu[i] IN
  /\ OnCPU(p) /\ p # NULL /\ remainingTime(p) = 0
  /\ BurstDone(p, ioWaitQ)
  /\ cpu' = [cpu EXCEPT ![i] = NULL]
  /\ Goto("cpu", i + 1)
  /\ UNCHANGED <<node, waitingTime, figures>>

CPUStep ==
  LET p == cpu[i] IN
  /\ OnCPU(p) /\ p # NULL /\ remainingTime(p) # 0
  /\ step' = [step EXCEPT ![p] = @ + 1]
  /\ Goto("cpu", i + 1)
  /\ UNCHANGED <<lists, node, cpu, currentBurst, waitingTime, figures, endTime>>

Dispatch ==
  /\ OnCPU(NULL) /\ size[readyQ] > 0
  /\ cpu' = [cpu EXCEPT ![i] = FrontOf(readyQ)]
  /\ dequeueProcess(readyQ)
  /\ Goto("cpu", i + 1)
  /\ UNCHANGED <<node, currentBurst, step, waitingTime, figures, endTime>>

Idle == OnCPU(NULL) /\ size[readyQ] = 0 /\ Proceed("cpu", i + 1)

CPUsDone ==
  /\ At("cpu") /\ i = NUMBER_OF_PROCESSORS
  /\ phase' = "io" /\ i' = 0 /\ sizeIO' = size[ioWaitQ]
  /\ UNCHANGED <<lists, processes, outcome, node, running, waitingTime, figures,
                 endTime>>
-----------------------------------------------------------------------------
(* The processes that were in ioWaitQ at the start of the pass, in turn. *)

InIO(p) == At("io") /\ i < sizeIO /\ p = FrontOf(ioWaitQ)

IOBurstDone ==
  LET p == FrontOf(ioWaitQ) IN
  /\ InIO(p) /\ remainingTime(p) = 0
  /\ BurstDone(p, readyQ)
  /\ Goto("ioLeave", i)
  /\ UNCHANGED <<node, cpu, waitingTime, figures>>

IOLeave ==
  /\ At("ioLeave") /\ dequeueProcess(ioWaitQ)
  /\ Goto("io", i + 1)
  /\ UNCHANGED <<node, running, waitingTime, figures, endTime>>

\* A process goes from the front of a list to its back by way of a node that is
\* never freed.
IOStep ==
  LET p == FrontOf(ioWaitQ) IN
  /\ InIO(p) /\ remainingTime(p) # 0
  /\ step' = [step EXCEPT ![p] = @ + 1]
  /\ Spare(p, Fresh) /\ node' = Fresh
  /\ Goto("ioRotate", i)
  /\ UNCHANGED <<cpu, currentBurst, waitingTime, figures, endTime>>

Rotate(q, from, to) ==
  /\ At(from) /\ dequeueProcess(q)
  /\ Goto(to, i)
  /\ UNCHANGED <<node, running, waitingTime, figures, endTime>>

Requeue(q, from, to) ==
  /\ At(from) /\ enqueueProcess(q, data[node], Fresh)
  /\ Goto(to, i + 1)
  /\ UNCHANGED <<node, running, waitingTime, figures, endTime>>

IODone ==
  /\ At("io") /\ i = sizeIO
  /\ Goto("wait", 0) /\ node' = front[readyQ]
  /\ UNCHANGED <<lists, running, waitingTime, figures, endTime>>
-----------------------------------------------------------------------------
(* The rest of the cycle, and the report. *)

Wait ==
  /\ At("wait") /\ node # NULL
  /\ waitingTime' = [waitingTime EXCEPT ![data[node]] = @ + 1]
  /\ node' = next[node]
  /\ Goto("wait", 0)
  /\ UNCHANGED <<lists, running, figures, endTime>>

EndOfCycle ==
  /\ At("wait") /\ node = NULL
  /\ time' = time + 1
  /\ Goto("test", 0)
  /\ UNCHANGED <<lists, node, running, waitingTime, totalWaitTime, totalBursts,
                 cpuTimes, endTime>>

CPUBursts(p) == {k \in 1 .. numberOfBursts(p) : k % 2 = 1}

Report ==
  LET p == FrontOf(terminatedQ) IN
  /\ At("report") /\ i < size[terminatedQ]
  /\ totalWaitTime' = totalWaitTime + waitingTime[p]
  /\ totalBursts' = totalBursts + SumFunction(processes[p].bursts)
  /\ cpuTimes' = cpuTimes + SumFunctionOnSet(processes[p].bursts, CPUBursts(p))
  /\ Spare(p, Fresh) /\ node' = Fresh
  /\ Goto("reportRotate", i)
  /\ UNCHANGED <<running, waitingTime, time, endTime>>

\* With no process the averages divide by zero.
ReportDone ==
  /\ At("report") /\ i = size[terminatedQ]
  /\ outcome' = IF size[terminatedQ] = 0 THEN "crashed" ELSE "finished"
  /\ UNCHANGED <<lists, processes, phase, i, sizeIO, node, running, waitingTime,
                 figures, endTime>>

lastPID == processes[data[back[terminatedQ]]].pid

Next ==
  \/ Create \/ Load \/ LoadDone \/ Test
  \/ CPUBurstDone \/ CPUStep \/ Dispatch \/ Idle \/ CPUsDone
  \/ IOBurstDone \/ IOLeave \/ IOStep
  \/ Rotate(ioWaitQ, "ioRotate", "ioRequeue") \/ Requeue(ioWaitQ, "ioRequeue", "io")
  \/ IODone \/ Wait \/ EndOfCycle
  \/ Report
  \/ Rotate(terminatedQ, "reportRotate", "reportRequeue")
  \/ Requeue(terminatedQ, "reportRequeue", "report")
  \/ ReportDone

Spec == Init /\ [][Next]_vars

\* The program is sequential and keeps running.
FairSpec == Spec /\ WF_vars(Next)
=============================================================================
