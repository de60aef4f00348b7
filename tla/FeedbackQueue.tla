---------------------------- MODULE FeedbackQueue ----------------------------
(***************************************************************************)
(* The three-level feedback queue simulator P__2/fbq.c.  Every pass of its *)
(* main loop simulates one clock cycle by calling five functions in a      *)
(* fixed order; `phase' is the function being executed and i the variable  *)
(* of its loop.  A step is one pass of that inner loop, or a function      *)
(* without one.                                                            *)
(***************************************************************************)
EXTENDS SchHelpers

CONSTANT Quanta    \* the pairs the command line may give the two quanta

ASSUME QuantaAssumption == Quanta \subseteq Int \X Int

Levels == 0 .. 2
WAITQ  == -1

VARIABLES
  processes, tQuanta_0, tQuanta_1,         \* the input, fixed
  phase, i, outcome,                       \* the position in the main loop
  clock_cycle, nextProcessIndex,           \* nextProcessIndex: those admitted
  preReadyQ, readyQ, waitingQueue, cpu,    \* where they are; readyQ by level
  currentBurst, step,                      \* step is that of the current burst
  currentQueue, quantumRemaining,
  waitingTime, endTime, totalContextSwitches, cpuTimeUtilized,
  served    \* history: the cycles each process was running or in I/O

input    == <<processes, tQuanta_0, tQuanta_1>>
time     == <<clock_cycle, nextProcessIndex>>
places   == <<preReadyQ, readyQ, waitingQueue, cpu>>
progress == <<currentBurst, step>>
queueing == <<currentQueue, quantumRemaining>>
times    == <<waitingTime, endTime, served>>
counters == <<totalContextSwitches, cpuTimeUtilized>>
vars == <<input, phase, i, outcome, time, places, progress, queueing, times,
          counters>>

Procs == 1 .. Len(processes)

numberOfBursts(p) == Len(processes[p].bursts)

\* The length of the burst in progress, counting bursts from 0 as the code does.
length(p) == processes[p].bursts[currentBurst[p] + 1]

Running == {p \in Procs : \E c \in CPUs : cpu[c] = p}

\* Of the struct process fields, those the data file does not give are 0.
Init ==
  /\ processes \in SortedInputs
  /\ \E q \in Quanta : tQuanta_0 = q[1] /\ tQuanta_1 = q[2]
  /\ phase = "admit" /\ i = 0
  /\ outcome = IF Accepted(processes) THEN "simulating" ELSE "rejected"
  /\ clock_cycle = 0 /\ nextProcessIndex = 0
  /\ preReadyQ = {} /\ readyQ = [k \in Levels |-> <<>>] /\ waitingQueue = <<>>
  /\ cpu = [c \in CPUs |-> NULL]
  /\ currentBurst = [p \in Procs |-> 0] /\ step = [p \in Procs |-> 0]
  /\ currentQueue = [p \in Procs |-> 0]
  /\ quantumRemaining = [p \in Procs |-> 0]
  /\ waitingTime = [p \in Procs |-> 0] /\ endTime = [p \in Procs |-> 0]
  /\ served = [p \in Procs |-> 0]
  /\ totalContextSwitches = 0 /\ cpuTimeUtilized = 0

At(name) == outcome = "simulating" /\ phase = name

Goto(name, index) == phase' = name /\ i' = index /\ UNCHANGED <<input, outcome>>

\* Mutant: the step of the new burst is not reset.
NextBurstKeepStep(p) ==
  currentBurst' = [currentBurst EXCEPT ![p] = @ + 1] /\ UNCHANGED step

NextBurst(p) ==
  /\ currentBurst' = [currentBurst EXCEPT ![p] = @ + 1]
  /\ step' = [step EXCEPT ![p] = 0]

\* The queue a process belongs to and the quantum it has there.
Assign(p, level, quantum) ==
  /\ currentQueue' = [currentQueue EXCEPT ![p] = level]
  /\ quantumRemaining' = [quantumRemaining EXCEPT ![p] = quantum]

\* The end of a loop or of a function: only the position changes.
Proceed(name, index) ==
  /\ Goto(name, index)
  /\ UNCHANGED <<time, places, progress, queueing, times, counters>>
-----------------------------------------------------------------------------
(* enquePreReadyQ: admit the processes that have arrived. *)

\* Mutant: a process is admitted a cycle late.
ArrivedLate ==
  /\ nextProcessIndex < Len(processes)
  /\ processes[nextProcessIndex + 1].arrivalTime < clock_cycle

Arrived ==
  /\ nextProcessIndex < Len(processes)
  /\ processes[nextProcessIndex + 1].arrivalTime <= clock_cycle

Admit ==
  /\ At("admit") /\ Arrived
  /\ nextProcessIndex' = nextProcessIndex + 1
  /\ preReadyQ' = preReadyQ \cup {nextProcessIndex'}
  /\ Assign(nextProcessIndex', 0, tQuanta_0)
  /\ Goto("admit", i)
  /\ UNCHANGED <<clock_cycle, readyQ, waitingQueue, cpu, progress, times,
                 counters>>

AdmitDone == At("admit") /\ ~Arrived /\ Proceed("running", 0)
-----------------------------------------------------------------------------
(* selectMoveRunning: look at processor i.  A process of queue 0 or 1 goes  *)
(* through moveFrom_Q0_to_Q1_or_Q2, one of queue 2 through                  *)
(* moveRunningProcesses; both treat the end of a burst alike (the former    *)
(* tests for = where the latter tests for >=, and the index of a running    *)
(* process' burst is never past the last).                                  *)

Occupied(p) ==
  At("running") /\ i < NUMBER_OF_PROCESSORS /\ p = cpu[i] /\ p # NULL

BurstDone(p) == step[p] = length(p)

\* Mutant: the processor is not freed.
VacateNot == Goto("running", i + 1) /\ UNCHANGED cpu

Vacate == cpu' = [cpu EXCEPT ![i] = NULL] /\ Goto("running", i + 1)

Block ==
  LET p == cpu[i] IN
  /\ Occupied(p) /\ currentQueue[p] \in Levels
  /\ BurstDone(p) /\ currentBurst[p] + 1 < numberOfBursts(p)
  /\ Vacate /\ NextBurst(p) /\ Assign(p, WAITQ, 0)
  /\ waitingQueue' = Append(waitingQueue, p)
  /\ UNCHANGED <<time, preReadyQ, readyQ, times, counters>>

Finish ==
  LET p == cpu[i] IN
  /\ Occupied(p) /\ currentQueue[p] \in Levels
  /\ BurstDone(p) /\ currentBurst[p] + 1 >= numberOfBursts(p)
  /\ Vacate /\ NextBurst(p)
  /\ endTime' = [endTime EXCEPT ![p] = clock_cycle]
  /\ UNCHANGED <<time, preReadyQ, readyQ, waitingQueue, queueing, waitingTime,
                 served, counters>>

\* A process of queue 0 or 1 that has used its quantum goes one queue down.
Expired(p) == ~BurstDone(p) /\ currentQueue[p] \in {0, 1} /\ quantumRemaining[p] = 0

\* Mutant: the process still counts as one of the queue it leaves.
DemoteKeepQueue ==
  LET p    == cpu[i]
      down == currentQueue[p] + 1 IN
  /\ Occupied(p) /\ Expired(p)
  /\ Vacate
  /\ Assign(p, currentQueue[p], IF down = 1 THEN tQuanta_1 ELSE length(p))
  /\ readyQ' = [readyQ EXCEPT ![down] = Append(@, p)]
  /\ totalContextSwitches' = totalContextSwitches + 1
  /\ UNCHANGED <<time, preReadyQ, waitingQueue, progress, times, cpuTimeUtilized>>

\* Mutant: only the demotions from queue 0 are counted.
DemoteUncounted ==
  LET p    == cpu[i]
      down == currentQueue[p] + 1 IN
  /\ Occupied(p) /\ Expired(p)
  /\ Vacate
  /\ Assign(p, down, IF down = 1 THEN tQuanta_1 ELSE length(p))
  /\ readyQ' = [readyQ EXCEPT ![down] = Append(@, p)]
  /\ totalContextSwitches' = totalContextSwitches + IF down = 1 THEN 1 ELSE 0
  /\ UNCHANGED <<time, preReadyQ, waitingQueue, progress, times, cpuTimeUtilized>>

Demote ==
  LET p    == cpu[i]
      down == currentQueue[p] + 1 IN
  /\ Occupied(p) /\ Expired(p)
  /\ Vacate
  /\ Assign(p, down, IF down = 1 THEN tQuanta_1 ELSE length(p))
  /\ readyQ' = [readyQ EXCEPT ![down] = Append(@, p)]
  /\ totalContextSwitches' = totalContextSwitches + 1
  /\ UNCHANGED <<time, preReadyQ, waitingQueue, progress, times, cpuTimeUtilized>>

Continue ==
  /\ At("running") /\ i < NUMBER_OF_PROCESSORS
  /\ cpu[i] # NULL => ~Expired(cpu[i])
       /\ (currentQueue[cpu[i]] \in Levels => ~BurstDone(cpu[i]))
  /\ Proceed("running", i + 1)

RunningDone ==
  /\ At("running") /\ i = NUMBER_OF_PROCESSORS
  /\ Proceed("io", Len(waitingQueue))
-----------------------------------------------------------------------------
(* checkIObursts: a full turn of waitingQueue; i passes are left.  It       *)
(* asserts that an I/O burst is never overshot: one that was would not end. *)

AtFront(p) == At("io") /\ i > 0 /\ p = Head(waitingQueue)

\* Mutant: the process stays in its I/O burst.
WakeSameBurst ==
  LET p == Head(waitingQueue) IN
  /\ AtFront(p) /\ BurstDone(p)
  /\ Goto("io", i - 1) /\ Assign(p, 0, tQuanta_0)
  /\ waitingQueue' = Tail(waitingQueue)
  /\ preReadyQ' = preReadyQ \cup {p}
  /\ UNCHANGED <<time, readyQ, cpu, progress, times, counters>>

Wake ==
  LET p == Head(waitingQueue) IN
  /\ AtFront(p) /\ BurstDone(p)
  /\ Goto("io", i - 1) /\ NextBurst(p) /\ Assign(p, 0, tQuanta_0)
  /\ waitingQueue' = Tail(waitingQueue)
  /\ preReadyQ' = preReadyQ \cup {p}
  /\ UNCHANGED <<time, readyQ, cpu, times, counters>>

KeepWaiting ==
  LET p == Head(waitingQueue) IN
  /\ AtFront(p) /\ ~BurstDone(p)
  /\ Goto("io", i - 1)
  /\ waitingQueue' = Append(Tail(waitingQueue), p)
  /\ currentQueue' = [currentQueue EXCEPT ![p] = WAITQ]
  /\ UNCHANGED <<time, preReadyQ, readyQ, cpu, progress, quantumRemaining,
                 times, counters>>

IODone == At("io") /\ i = 0 /\ Proceed("sort", 0)
-----------------------------------------------------------------------------
(* moveFromReadyQtoCPU.  The sorted array is enqueued in the order of the   *)
(* pids; sorting it compares any two equal pids, which is an assertion      *)
(* failure.                                                                 *)

pid(p) == processes[p].pid

SamePid == \E p, q \in preReadyQ : p # q /\ pid(p) = pid(q)

SortAssertFails ==
  /\ At("sort") /\ SamePid
  /\ outcome' = "aborted"
  /\ UNCHANGED <<input, phase, i, time, places, progress, queueing, times,
                 counters>>

EnqueueReady ==
  /\ At("sort") /\ ~SamePid
  /\ \E p \in preReadyQ :
       /\ \A q \in preReadyQ : pid(p) <= pid(q)
       /\ Assign(p, 0, tQuanta_0)
       /\ readyQ' = [readyQ EXCEPT ![0] = Append(@, p)]
       /\ preReadyQ' = preReadyQ \ {p}
  /\ Goto("sort", i)
  /\ UNCHANGED <<time, waitingQueue, cpu, progress, times, counters>>

SortDone == At("sort") /\ preReadyQ = {} /\ Proceed("dispatch", 0)

\* nextScheduledProcess: the first of the highest queue that is not empty.
Scheduled(k) == readyQ[k] # <<>> /\ \A j \in Levels : j < k => readyQ[j] = <<>>

\* Mutant: every process is given the quantum of queue 0.
DispatchSameQuantum ==
  /\ At("dispatch") /\ i < NUMBER_OF_PROCESSORS /\ cpu[i] = NULL
  /\ \E k \in Levels :
       LET p == Head(readyQ[k]) IN
       /\ Scheduled(k)
       /\ cpu' = [cpu EXCEPT ![i] = p]
       /\ readyQ' = [readyQ EXCEPT ![k] = Tail(@)]
       /\ quantumRemaining' = [quantumRemaining EXCEPT ![p] = tQuanta_0]
  /\ Goto("dispatch", i + 1)
  /\ UNCHANGED <<time, preReadyQ, waitingQueue, progress, currentQueue, times,
                 counters>>

Dispatch ==
  /\ At("dispatch") /\ i < NUMBER_OF_PROCESSORS /\ cpu[i] = NULL
  /\ \E k \in Levels :
       LET p == Head(readyQ[k]) IN
       /\ Scheduled(k)
       /\ cpu' = [cpu EXCEPT ![i] = p]
       /\ readyQ' = [readyQ EXCEPT ![k] = Tail(@)]
       /\ quantumRemaining' = [quantumRemaining EXCEPT
                                 ![p] = <<tQuanta_0, tQuanta_1, 0>>[k + 1]]
  /\ Goto("dispatch", i + 1)
  /\ UNCHANGED <<time, preReadyQ, waitingQueue, progress, currentQueue, times,
                 counters>>

NoDispatch ==
  /\ At("dispatch") /\ i < NUMBER_OF_PROCESSORS
  /\ cpu[i] # NULL \/ \A k \in Levels : readyQ[k] = <<>>
  /\ Proceed("dispatch", i + 1)

\* Mutant: the loop over the processors may end one short.
DispatchDoneShort ==
  At("dispatch") /\ i >= NUMBER_OF_PROCESSORS - 1 /\ Proceed("increment", 0)

DispatchDone ==
  At("dispatch") /\ i = NUMBER_OF_PROCESSORS /\ Proceed("increment", 0)
-----------------------------------------------------------------------------
(* The end of the cycle.  A full turn of a queue leaves it as it was.       *)

Queued == UNION {Range(readyQ[k]) : k \in Levels}

\* Mutant: the counter goes down.
BumpDown(f, S) == [p \in Procs |-> IF p \in S THEN f[p] - 1 ELSE f[p]]

Bump(f, S) == [p \in Procs |-> IF p \in S THEN f[p] + 1 ELSE f[p]]

increamentSteps ==
  /\ At("increment") /\ Goto("endOfCycle", 0)
  /\ step' = Bump(step, Range(waitingQueue) \cup Running)
  /\ served' = Bump(served, Range(waitingQueue) \cup Running)
  /\ waitingTime' = Bump(waitingTime, Queued)
  /\ quantumRemaining' = [p \in Procs |-> IF p \in Running
                            THEN quantumRemaining[p] - 1 ELSE quantumRemaining[p]]
  /\ UNCHANGED <<time, places, currentBurst, currentQueue, endTime, counters>>

\* Mutant: the test does not look at waitingQueue.
LastCycleNoIO ==
  Running = {} /\ nextProcessIndex = Len(processes) /\ Queued = {}

LastCycle ==
  /\ Running = {} /\ nextProcessIndex = Len(processes)
  /\ Queued = {} /\ waitingQueue = <<>>

\* Mutant: the clock is not advanced.
EndOfCycleNoTick ==
  /\ At("endOfCycle")
  /\ cpuTimeUtilized' = cpuTimeUtilized + Cardinality(Running)
  /\ IF LastCycle THEN outcome' = "finished" /\ UNCHANGED phase
                  ELSE phase' = "admit" /\ UNCHANGED outcome
  /\ UNCHANGED <<input, i, time, places, progress, queueing, times,
                 totalContextSwitches>>

EndOfCycle ==
  /\ At("endOfCycle")
  /\ cpuTimeUtilized' = cpuTimeUtilized + Cardinality(Running)
  /\ IF LastCycle
     THEN outcome' = "finished" /\ UNCHANGED <<phase, clock_cycle>>
     ELSE /\ phase' = "admit" /\ clock_cycle' = clock_cycle + 1
          /\ UNCHANGED outcome
  /\ UNCHANGED <<input, i, nextProcessIndex, places, progress, queueing, times,
                 totalContextSwitches>>
-----------------------------------------------------------------------------
(* What main prints when the loop has ended. *)

totalWaitingTime == SumFunction(waitingTime)

sumOfTurnaroundTimes ==
  SumFunction([p \in Procs |-> endTime[p] - processes[p].arrivalTime])

LastToFinish == {p \in Procs : endTime[p] = clock_cycle}

\* The pid of the last of them in the array, 0 if there is none.
getLastPID ==
  IF LastToFinish = {} THEN 0
  ELSE pid(CHOOSE p \in LastToFinish : \A q \in LastToFinish : q <= p)
-----------------------------------------------------------------------------
Next ==
  \/ Admit \/ AdmitDone
  \/ Block \/ Finish \/ Demote \/ Continue \/ RunningDone
  \/ Wake \/ KeepWaiting \/ IODone
  \/ SortAssertFails \/ EnqueueReady \/ SortDone
  \/ Dispatch \/ NoDispatch \/ DispatchDone
  \/ increamentSteps \/ EndOfCycle

Spec == Init /\ [][Next]_vars

\* The program is sequential: it takes its next step.
FairSpec == Spec /\ WF_vars(Next)
=============================================================================
