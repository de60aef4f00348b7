----------------------------- MODULE RoundRobin -----------------------------
(***************************************************************************)
(* The round-robin simulator P__2/rr.c.  Every pass of its main loop       *)
(* simulates one clock cycle by calling seven functions in a fixed order;  *)
(* `phase' is the function being executed and i the variable of its loop.  *)
(* A step is one pass of that inner loop, or a function without one.       *)
(***************************************************************************)
EXTENDS SchHelpers

CONSTANT Quanta    \* the values the command line may give tQuantum

ASSUME QuantaAssumption == Quanta \subseteq Int

VARIABLES
  process_frm_datafile, tQuantum,     \* the input, fixed
  phase, i, outcome,                  \* the position in the main loop
  clock_cycle, nextProcess,           \* nextProcess counts those admitted
  preReadyQ, readyQ, ioWaitingQ, cpu, \* where the processes are
  currentBurst, step,                 \* the progress of each process; step is
                                      \* that of its current burst
  waitingTime, endTime, quantumRemaining,
  totalContextSwitches, cpuTimeUtilized,
  served, waited   \* history: the cycles each process was running or in I/O;
                   \* those it has been ready since it last left a processor

input    == <<process_frm_datafile, tQuantum>>
position == <<phase, i, outcome>>
places   == <<preReadyQ, readyQ, ioWaitingQ, cpu>>
progress == <<currentBurst, step>>
times    == <<waitingTime, endTime, served, waited>>
counters == <<totalContextSwitches, cpuTimeUtilized>>
vars == <<input, position, clock_cycle, nextProcess, places, progress, times,
          quantumRemaining, counters>>

totalProcesses == Len(process_frm_datafile)
Procs == 1 .. totalProcesses

numberOfBursts(p) == Len(process_frm_datafile[p].bursts)

\* The length of the burst in progress, counting bursts from 0 as the code does.
length(p) == process_frm_datafile[p].bursts[currentBurst[p] + 1]

Running == {p \in Procs : \E c \in CPUs : cpu[c] = p}

\* Of the struct process fields, those the data file does not give are 0.
Init ==
  /\ process_frm_datafile \in SortedInputs /\ tQuantum \in Quanta
  /\ phase = "admit" /\ i = 0
  /\ outcome = IF Accepted(process_frm_datafile) THEN "simulating" ELSE "rejected"
  /\ clock_cycle = 0 /\ nextProcess = 0
  /\ preReadyQ = {} /\ readyQ = <<>> /\ ioWaitingQ = <<>>
  /\ cpu = [c \in CPUs |-> NULL]
  /\ currentBurst = [p \in Procs |-> 0] /\ step = [p \in Procs |-> 0]
  /\ waitingTime = [p \in Procs |-> 0] /\ endTime = [p \in Procs |-> 0]
  /\ served = [p \in Procs |-> 0] /\ waited = [p \in Procs |-> 0]
  /\ quantumRemaining = [p \in Procs |-> 0]
  /\ totalContextSwitches = 0 /\ cpuTimeUtilized = 0

At(name) == outcome = "simulating" /\ phase = name

Goto(name, index) == phase' = name /\ i' = index /\ UNCHANGED <<input, outcome>>

\* Mutant: the step of the new burst is not reset.
NextBurstKeepStep(p) ==
  currentBurst' = [currentBurst EXCEPT ![p] = @ + 1] /\ UNCHANGED step

NextBurst(p) ==
  /\ currentBurst' = [currentBurst EXCEPT ![p] = @ + 1]
  /\ step' = [step EXCEPT ![p] = 0]

\* The end of a loop or of a function: only the position changes.
Proceed(name, index) ==
  /\ Goto(name, index)
  /\ UNCHANGED <<clock_cycle, nextProcess, places, progress, times,
                 quantumRemaining, counters>>
-----------------------------------------------------------------------------
(* enquePreReadyQ: admit the processes that have arrived. *)

\* Mutant: a process is admitted a cycle late.
ArrivedLate ==
  /\ nextProcess < totalProcesses
  /\ process_frm_datafile[nextProcess + 1].arrivalTime < clock_cycle

Arrived ==
  /\ nextProcess < totalProcesses
  /\ process_frm_datafile[nextProcess + 1].arrivalTime <= clock_cycle

Admit ==
  /\ At("admit") /\ Arrived
  /\ nextProcess' = nextProcess + 1
  /\ preReadyQ' = preReadyQ \cup {nextProcess'}
  /\ quantumRemaining' = [quantumRemaining EXCEPT ![nextProcess'] = tQuantum]
  /\ Goto("admit", i)
  /\ UNCHANGED <<clock_cycle, readyQ, ioWaitingQ, cpu, progress, times, counters>>

AdmitDone == At("admit") /\ ~Arrived /\ Proceed("running", 0)
-----------------------------------------------------------------------------
(* fromRunningToWaiting: look at processor i. *)

AtCPU(name) == At(name) /\ i < NUMBER_OF_PROCESSORS

BurstDone(p) == step[p] = length(p)

\* Mutant: the processor is not freed.
VacateNot == Goto("running", i + 1) /\ UNCHANGED cpu

Vacate == cpu' = [cpu EXCEPT ![i] = NULL] /\ Goto("running", i + 1)

Block ==
  LET p == cpu[i] IN
  /\ AtCPU("running") /\ p # NULL
  /\ BurstDone(p) /\ currentBurst[p] + 1 < numberOfBursts(p)
  /\ Vacate /\ NextBurst(p)
  /\ ioWaitingQ' = Append(ioWaitingQ, p)
  /\ UNCHANGED <<clock_cycle, nextProcess, preReadyQ, readyQ, times,
                 quantumRemaining, counters>>

Finish ==
  LET p == cpu[i] IN
  /\ AtCPU("running") /\ p # NULL
  /\ BurstDone(p) /\ currentBurst[p] + 1 >= numberOfBursts(p)
  /\ Vacate /\ NextBurst(p)
  /\ endTime' = [endTime EXCEPT ![p] = clock_cycle]
  /\ UNCHANGED <<clock_cycle, nextProcess, preReadyQ, readyQ, ioWaitingQ,
                 waitingTime, served, waited, quantumRemaining, counters>>

\* Mutant: the quantum is not renewed.
PreemptNoQuantum ==
  LET p == cpu[i] IN
  /\ AtCPU("running") /\ p # NULL
  /\ ~BurstDone(p) /\ quantumRemaining[p] = 0
  /\ Vacate
  /\ totalContextSwitches' = totalContextSwitches + 1
  /\ readyQ' = Append(readyQ, p)
  /\ UNCHANGED <<clock_cycle, nextProcess, preReadyQ, ioWaitingQ, progress,
                 times, quantumRemaining, cpuTimeUtilized>>

\* Mutant: the preempted process goes to the front of the queue.
PreemptToFront ==
  LET p == cpu[i] IN
  /\ AtCPU("running") /\ p # NULL
  /\ ~BurstDone(p) /\ quantumRemaining[p] = 0
  /\ Vacate
  /\ quantumRemaining' = [quantumRemaining EXCEPT ![p] = tQuantum]
  /\ totalContextSwitches' = totalContextSwitches + 1
  /\ readyQ' = <<p>> \o readyQ
  /\ UNCHANGED <<clock_cycle, nextProcess, preReadyQ, ioWaitingQ, progress,
                 times, cpuTimeUtilized>>

Preempt ==
  LET p == cpu[i] IN
  /\ AtCPU("running") /\ p # NULL
  /\ ~BurstDone(p) /\ quantumRemaining[p] = 0
  /\ Vacate
  /\ quantumRemaining' = [quantumRemaining EXCEPT ![p] = tQuantum]
  /\ totalContextSwitches' = totalContextSwitches + 1
  /\ readyQ' = Append(readyQ, p)
  /\ UNCHANGED <<clock_cycle, nextProcess, preReadyQ, ioWaitingQ, progress,
                 times, cpuTimeUtilized>>

Continue ==
  LET p == cpu[i] IN
  /\ AtCPU("running")
  /\ p # NULL => ~BurstDone(p) /\ quantumRemaining[p] # 0
  /\ Proceed("running", i + 1)

RunningDone ==
  /\ At("running") /\ i = NUMBER_OF_PROCESSORS
  /\ Proceed("io", Len(ioWaitingQ))
-----------------------------------------------------------------------------
(* fromIOWaitingToPreReady: a full turn of ioWaitingQ; i passes are left.   *)
(* Its assertion is the invariant StepAssertion of RoundRobinProperties.    *)

AtFront(p) == At("io") /\ i > 0 /\ p = Head(ioWaitingQ)

\* Mutant: the process stays in its I/O burst.
WakeSameBurst ==
  LET p == Head(ioWaitingQ) IN
  /\ AtFront(p) /\ BurstDone(p)
  /\ Goto("io", i - 1)
  /\ ioWaitingQ' = Tail(ioWaitingQ)
  /\ preReadyQ' = preReadyQ \cup {p}
  /\ endTime' = [endTime EXCEPT ![p] = clock_cycle]
  /\ UNCHANGED <<clock_cycle, nextProcess, readyQ, cpu, progress, waitingTime,
                 served, waited, quantumRemaining, counters>>

Wake ==
  LET p == Head(ioWaitingQ) IN
  /\ AtFront(p) /\ BurstDone(p)
  /\ Goto("io", i - 1) /\ NextBurst(p)
  /\ ioWaitingQ' = Tail(ioWaitingQ)
  /\ preReadyQ' = preReadyQ \cup {p}
  /\ endTime' = [endTime EXCEPT ![p] = clock_cycle]
  /\ UNCHANGED <<clock_cycle, nextProcess, readyQ, cpu, waitingTime, served,
                 waited, quantumRemaining, counters>>

KeepWaiting ==
  LET p == Head(ioWaitingQ) IN
  /\ AtFront(p) /\ ~BurstDone(p)
  /\ Goto("io", i - 1)
  /\ ioWaitingQ' = Append(Tail(ioWaitingQ), p)
  /\ UNCHANGED <<clock_cycle, nextProcess, preReadyQ, readyQ, cpu, progress,
                 times, quantumRemaining, counters>>

IODone == At("io") /\ i = 0 /\ Proceed("sort", 0)
-----------------------------------------------------------------------------
(* fromPreReadyToReadyToCPU.  The sorted array is enqueued in the order of  *)
(* the pids; sorting it compares any two equal pids, which is an assertion  *)
(* failure.                                                                 *)

pid(p) == process_frm_datafile[p].pid

SamePid == \E p, q \in preReadyQ : p # q /\ pid(p) = pid(q)

SortAssertFails ==
  /\ At("sort") /\ SamePid
  /\ outcome' = "aborted"
  /\ UNCHANGED <<input, phase, i, clock_cycle, nextProcess, places, progress,
                 times, quantumRemaining, counters>>

EnqueueReady ==
  /\ At("sort") /\ ~SamePid
  /\ \E p \in preReadyQ :
       /\ \A q \in preReadyQ : pid(p) <= pid(q)
       /\ readyQ' = Append(readyQ, p)
       /\ preReadyQ' = preReadyQ \ {p}
  /\ Goto("sort", i)
  /\ UNCHANGED <<clock_cycle, nextProcess, ioWaitingQ, cpu, progress, times,
                 quantumRemaining, counters>>

SortDone == At("sort") /\ preReadyQ = {} /\ Proceed("dispatch", 0)

Dispatch ==
  /\ AtCPU("dispatch") /\ cpu[i] = NULL /\ readyQ # <<>>
  /\ cpu' = [cpu EXCEPT ![i] = Head(readyQ)] /\ readyQ' = Tail(readyQ)
  /\ waited' = [waited EXCEPT ![Head(readyQ)] = 0]
  /\ Goto("dispatch", i + 1)
  /\ UNCHANGED <<clock_cycle, nextProcess, preReadyQ, ioWaitingQ, progress,
                 waitingTime, endTime, served, quantumRemaining, counters>>

NoDispatch ==
  /\ AtCPU("dispatch") /\ (cpu[i] # NULL \/ readyQ = <<>>)
  /\ Proceed("dispatch", i + 1)

\* Mutant: the loop over the processors may end one short.
DispatchDoneShort ==
  At("dispatch") /\ i >= NUMBER_OF_PROCESSORS - 1 /\ Proceed("incrementIO", 0)

DispatchDone ==
  At("dispatch") /\ i = NUMBER_OF_PROCESSORS /\ Proceed("incrementIO", 0)
-----------------------------------------------------------------------------
(* The end of the cycle.  A full turn of a queue leaves it as it was.       *)

\* Mutant: the counter goes down.
BumpDown(f, S) == [p \in Procs |-> IF p \in S THEN f[p] - 1 ELSE f[p]]

Bump(f, S) == [p \in Procs |-> IF p \in S THEN f[p] + 1 ELSE f[p]]

incrementIOWaiting ==
  /\ At("incrementIO") /\ Goto("incrementReady", 0)
  /\ step' = Bump(step, Range(ioWaitingQ))
  /\ served' = Bump(served, Range(ioWaitingQ))
  /\ UNCHANGED <<clock_cycle, nextProcess, places, currentBurst, waitingTime,
                 endTime, waited, quantumRemaining, counters>>

incrementReadyQIdle ==
  /\ At("incrementReady") /\ Goto("incrementCPU", 0)
  /\ waitingTime' = Bump(waitingTime, Range(readyQ))
  /\ waited' = Bump(waited, Range(readyQ))
  /\ UNCHANGED <<clock_cycle, nextProcess, places, progress, endTime, served,
                 quantumRemaining, counters>>

incrementCPUBurst ==
  /\ At("incrementCPU") /\ Goto("endOfCycle", 0)
  /\ step' = Bump(step, Running) /\ served' = Bump(served, Running)
  /\ quantumRemaining' = [p \in Procs |-> IF p \in Running
                            THEN quantumRemaining[p] - 1 ELSE quantumRemaining[p]]
  /\ UNCHANGED <<clock_cycle, nextProcess, places, currentBurst, waitingTime,
                 endTime, waited, counters>>

\* Mutant: the test does not look at ioWaitingQ either.
LastCycleNoIO == Running = {} /\ nextProcess = totalProcesses

\* The test does not look at readyQ.
LastCycle == Running = {} /\ nextProcess = totalProcesses /\ ioWaitingQ = <<>>

\* Mutant: the clock is advanced before the test.
EndOfCycleEager ==
  /\ At("endOfCycle")
  /\ cpuTimeUtilized' = cpuTimeUtilized + Cardinality(Running)
  /\ clock_cycle' = clock_cycle + 1
  /\ IF LastCycle THEN outcome' = "finished" /\ UNCHANGED phase
                  ELSE phase' = "admit" /\ UNCHANGED outcome
  /\ UNCHANGED <<input, i, nextProcess, places, progress, times,
                 quantumRemaining, totalContextSwitches>>

\* Mutant: the clock is not advanced.
EndOfCycleNoTick ==
  /\ At("endOfCycle")
  /\ cpuTimeUtilized' = cpuTimeUtilized + Cardinality(Running)
  /\ IF LastCycle THEN outcome' = "finished" /\ UNCHANGED phase
                  ELSE phase' = "admit" /\ UNCHANGED outcome
  /\ UNCHANGED <<input, i, clock_cycle, nextProcess, places, progress, times,
                 quantumRemaining, totalContextSwitches>>

EndOfCycle ==
  /\ At("endOfCycle")
  /\ cpuTimeUtilized' = cpuTimeUtilized + Cardinality(Running)
  /\ IF LastCycle
     THEN outcome' = "finished" /\ UNCHANGED <<phase, i, clock_cycle>>
     ELSE /\ phase' = "admit" /\ clock_cycle' = clock_cycle + 1
          /\ UNCHANGED <<i, outcome>>
  /\ UNCHANGED <<input, nextProcess, places, progress, times, quantumRemaining,
                 totalContextSwitches>>

(* What main prints when the loop has ended. *)

totalWaitingTime == SumFunction(waitingTime)

sumOfTurnaroundTimes ==
  SumFunction([p \in Procs |-> endTime[p] - process_frm_datafile[p].arrivalTime])

LastToFinish == {p \in Procs : endTime[p] = clock_cycle}
-----------------------------------------------------------------------------
Next ==
  \/ Admit \/ AdmitDone
  \/ Block \/ Finish \/ Preempt \/ Continue \/ RunningDone
  \/ Wake \/ KeepWaiting \/ IODone
  \/ SortAssertFails \/ EnqueueReady \/ SortDone
  \/ Dispatch \/ NoDispatch \/ DispatchDone
  \/ incrementIOWaiting \/ incrementReadyQIdle \/ incrementCPUBurst \/ EndOfCycle

Spec == Init /\ [][Next]_vars

\* The program is sequential: it takes its next step.
FairSpec == Spec /\ WF_vars(Next)
=============================================================================
