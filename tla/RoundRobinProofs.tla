-------------------------- MODULE RoundRobinProofs --------------------------
(***************************************************************************)
(* Proofs about P__2/rr.c for every array of processes, every quantum and  *)
(* every number of processors: a process is in one place at a time; no     *)
(* processor idles while a process is ready, the simulation leaves nobody  *)
(* behind, no I/O burst is overshot, the times of the processes add up, the *)
(* slices of the first burst are whole quanta, the simulator implements    *)
(* ProcessLifecycle, the report agrees with the data file, and no process  *)
(* waits for more than a quantum of each round of the others.              *)
(***************************************************************************)
EXTENDS RoundRobinProperties, DataLemmas

(* Type correctness. *)

(* While fromIOWaitingToPreReady turns the queue, the i processes it has not
   looked at yet are at the front. *)
TypeInv ==
  /\ TypeOK
  /\ phase = "io" => i <= Len(ioWaitingQ)

LEMMA ProcFacts ==
  ASSUME TypeOK
  PROVE  /\ totalProcesses \in Nat /\ Procs \subseteq Nat \ {0} /\ NULL \notin Procs
         /\ NUMBER_OF_PROCESSORS \in Nat \ {0}
         /\ IsFiniteSet(Procs) /\ Running \subseteq Procs
         /\ IsFiniteSet(Running) /\ Cardinality(Running) \in Nat
<1>1. totalProcesses \in Nat
  BY DEF TypeOK, totalProcesses
<1>2. IsFiniteSet(Procs)
  BY <1>1, FS_Interval DEF Procs
<1>3. Running \subseteq Procs
  BY DEF Running
<1>4. IsFiniteSet(Running)
  BY <1>2, <1>3, FS_Subset
<1>5. Cardinality(Running) \in Nat
  BY <1>4, FS_CardinalityType
<1> QED
  BY <1>1, <1>2, <1>3, <1>4, <1>5, SchAssumption DEF Procs, NULL

LEMMA InitTypeInv == Init => TypeInv
<1> SUFFICES ASSUME Init PROVE TypeInv
  OBVIOUS
<1>1. process_frm_datafile \in Seq(Process) /\ tQuantum \in Int
  BY SchAssumption, QuantaAssumption DEF Init, SortedInputs
<1>2. nextProcess \in 0 .. totalProcesses
  BY <1>1 DEF Init, totalProcesses
<1>3. /\ readyQ \in Seq(Procs) /\ ioWaitingQ \in Seq(Procs)
      /\ cpu \in [CPUs -> Procs \cup {NULL}]
  BY DEF Init
<1>4. /\ currentBurst \in [Procs -> Nat] /\ step \in [Procs -> Nat]
      /\ waitingTime \in [Procs -> Nat] /\ endTime \in [Procs -> Nat]
      /\ served \in [Procs -> Nat] /\ waited \in [Procs -> Nat]
      /\ quantumRemaining \in [Procs -> Int]
  BY DEF Init
<1>5. outcome \in {"simulating", "rejected", "aborted", "finished"}
  BY DEF Init
<1>6. /\ clock_cycle \in Nat /\ preReadyQ \subseteq Procs /\ i \in Nat
      /\ totalContextSwitches \in Nat /\ cpuTimeUtilized \in Nat
      /\ phase = "admit"
  BY DEF Init
<1> QED
  BY <1>1, <1>2, <1>3, <1>4, <1>5, <1>6 DEF TypeInv, TypeOK

(* A function over the processes keeps its range when one value changes, and
   when the counters of some processes are incremented. *)
LEMMA BumpType ==
  ASSUME NEW f \in [Procs -> Nat], NEW S
  PROVE  Bump(f, S) \in [Procs -> Nat]
  BY DEF Bump

LEMMA NextBurstType ==
  ASSUME TypeOK, NEW p \in Procs, NextBurst(p)
  PROVE  currentBurst' \in [Procs -> Nat] /\ step' \in [Procs -> Nat]
  BY DEF TypeOK, NextBurst

LEMMA NextTypeInv == TypeInv /\ [Next]_vars => TypeInv'
<1> SUFFICES ASSUME TypeInv, [Next]_vars PROVE TypeInv'
  OBVIOUS
<1>0. /\ UNCHANGED input /\ Procs' = Procs /\ totalProcesses' = totalProcesses
      /\ NULL \notin Procs /\ totalProcesses \in Nat /\ Procs \subseteq Nat
      /\ NUMBER_OF_PROCESSORS \in Nat /\ Cardinality(Running) \in Nat
  <2>1. UNCHANGED input
    BY DEF Next, vars, Admit, AdmitDone, Block, Finish, Preempt, Continue,
           RunningDone, Wake, KeepWaiting, IODone, SortAssertFails, EnqueueReady,
           SortDone, Dispatch, NoDispatch, DispatchDone, incrementIOWaiting,
           incrementReadyQIdle, incrementCPUBurst, EndOfCycle, Proceed, Goto, Vacate
  <2> QED
    BY <2>1, ProcFacts DEF TypeInv, input, Procs, totalProcesses
<1> USE <1>0 DEF TypeInv, TypeOK, Goto, At, Proceed, input, places, progress,
        times, counters
<1>1. CASE Admit
  <2>1. nextProcess' \in 0 .. totalProcesses /\ nextProcess' \in Procs
    BY <1>1 DEF Admit, Arrived, Procs
  <2>2. quantumRemaining' \in [Procs -> Int] /\ preReadyQ' \subseteq Procs
    BY <1>1, <2>1 DEF Admit
  <2> QED
    BY <1>1, <2>1, <2>2 DEF Admit
<1>2. CASE AdmitDone
  BY <1>2 DEF AdmitDone
<1>3. CASE Block
  <2>1. i \in CPUs /\ cpu[i] \in Procs
    BY <1>3 DEF Block, AtCPU, CPUs
  <2>2. /\ cpu' \in [CPUs -> Procs \cup {NULL}] /\ i' \in Nat /\ phase' = "running"
        /\ currentBurst' \in [Procs -> Nat] /\ step' \in [Procs -> Nat]
    <3>1. NextBurst(cpu[i])
      BY <1>3 DEF Block
    <3>2. currentBurst' \in [Procs -> Nat] /\ step' \in [Procs -> Nat]
      BY <2>1, <3>1, NextBurstType
    <3> QED
      BY <1>3, <2>1, <3>2 DEF Block, Vacate
  <2>3. ioWaitingQ' \in Seq(Procs)
    BY <1>3, <2>1, AppendRange DEF Block
  <2> QED
    BY <1>3, <2>2, <2>3 DEF Block, Vacate
<1>4. CASE Finish
  <2>1. i \in CPUs /\ cpu[i] \in Procs
    BY <1>4 DEF Finish, AtCPU, CPUs
  <2>2. /\ cpu' \in [CPUs -> Procs \cup {NULL}] /\ i' \in Nat /\ phase' = "running"
        /\ currentBurst' \in [Procs -> Nat] /\ step' \in [Procs -> Nat]
        /\ endTime' \in [Procs -> Nat]
    <3>1. NextBurst(cpu[i])
      BY <1>4 DEF Finish
    <3>2. currentBurst' \in [Procs -> Nat] /\ step' \in [Procs -> Nat]
      BY <2>1, <3>1, NextBurstType
    <3>3. endTime' \in [Procs -> Nat]
      BY <1>4, <2>1 DEF Finish
    <3>4. cpu' \in [CPUs -> Procs \cup {NULL}] /\ i' \in Nat /\ phase' = "running"
      BY <1>4, <2>1 DEF Finish, Vacate
    <3> QED
      BY <3>2, <3>3, <3>4
  <2> QED
    BY <1>4, <2>2 DEF Finish, Vacate
<1>5. CASE Preempt
  <2>1. i \in CPUs /\ cpu[i] \in Procs
    BY <1>5 DEF Preempt, AtCPU, CPUs
  <2>2. /\ cpu' \in [CPUs -> Procs \cup {NULL}] /\ i' \in Nat /\ phase' = "running"
        /\ quantumRemaining' \in [Procs -> Int] /\ totalContextSwitches' \in Nat
    BY <1>5, <2>1 DEF Preempt, Vacate
  <2>3. readyQ' \in Seq(Procs)
    BY <1>5, <2>1, AppendRange DEF Preempt
  <2> QED
    BY <1>5, <2>2, <2>3 DEF Preempt, Vacate
<1>6. CASE Continue
  BY <1>6 DEF Continue, AtCPU
<1>7. CASE RunningDone
  <2>1. Len(ioWaitingQ) \in Nat
    OBVIOUS
  <2> QED
    BY <1>7, <2>1 DEF RunningDone
<1>8. CASE Wake
  <2>1. i \in Nat /\ i > 0 /\ i <= Len(ioWaitingQ) /\ ioWaitingQ # <<>>
    BY <1>8 DEF Wake, AtFront
  <2>2. /\ Head(ioWaitingQ) \in Procs /\ ioWaitingQ' \in Seq(Procs)
        /\ Len(ioWaitingQ') = Len(ioWaitingQ) - 1
    BY <1>8, <2>1, TailRange DEF Wake
  <2>3. /\ i' \in Nat /\ phase' = "io" /\ preReadyQ' \subseteq Procs
        /\ currentBurst' \in [Procs -> Nat] /\ step' \in [Procs -> Nat]
        /\ endTime' \in [Procs -> Nat]
    <3>1. NextBurst(Head(ioWaitingQ))
      BY <1>8 DEF Wake
    <3>2. currentBurst' \in [Procs -> Nat] /\ step' \in [Procs -> Nat]
      BY <2>2, <3>1, NextBurstType
    <3>3. endTime' \in [Procs -> Nat]
      BY <1>8, <2>2 DEF Wake
    <3>4. i' \in Nat /\ phase' = "io"
      BY <1>8, <2>1 DEF Wake
    <3>5. preReadyQ' \subseteq Procs
      <4>1. preReadyQ' = preReadyQ \cup {Head(ioWaitingQ)}
        BY <1>8 DEF Wake
      <4> QED
        BY <2>2, <4>1
    <3> QED
      BY <3>2, <3>3, <3>4, <3>5
  <2>4. i' <= Len(ioWaitingQ')
    BY <1>8, <2>1, <2>2 DEF Wake
  <2> QED
    BY <1>8, <2>2, <2>3, <2>4 DEF Wake
<1>9. CASE KeepWaiting
  <2>1. i \in Nat /\ i > 0 /\ i <= Len(ioWaitingQ) /\ ioWaitingQ # <<>>
    BY <1>9 DEF KeepWaiting, AtFront
  <2>2. /\ Head(ioWaitingQ) \in Procs /\ Tail(ioWaitingQ) \in Seq(Procs)
        /\ Len(Tail(ioWaitingQ)) = Len(ioWaitingQ) - 1
    BY <2>1, TailRange
  <2>3. ioWaitingQ' \in Seq(Procs) /\ Len(ioWaitingQ') = Len(ioWaitingQ)
    BY <1>9, <2>1, <2>2 DEF KeepWaiting
  <2>4. i' \in Nat /\ i' <= Len(ioWaitingQ') /\ phase' = "io"
    BY <1>9, <2>1, <2>3 DEF KeepWaiting
  <2> QED
    BY <1>9, <2>3, <2>4 DEF KeepWaiting
<1>10. CASE IODone
  BY <1>10 DEF IODone
<1>11. CASE SortAssertFails
  BY <1>11 DEF SortAssertFails
<1>12. CASE EnqueueReady
  <2>1. PICK p \in preReadyQ : readyQ' = Append(readyQ, p) /\ preReadyQ' = preReadyQ \ {p}
    BY <1>12 DEF EnqueueReady
  <2>2. readyQ' \in Seq(Procs) /\ preReadyQ' \subseteq Procs
    BY <2>1, AppendRange
  <2> QED
    BY <1>12, <2>2 DEF EnqueueReady
<1>13. CASE SortDone
  BY <1>13 DEF SortDone
<1>14. CASE Dispatch
  <2>1. i \in CPUs /\ Head(readyQ) \in Procs /\ readyQ' \in Seq(Procs)
    BY <1>14, TailRange DEF Dispatch, AtCPU, CPUs
  <2>2. /\ cpu' \in [CPUs -> Procs \cup {NULL}] /\ i' \in Nat /\ phase' = "dispatch"
        /\ waited' \in [Procs -> Nat]
    BY <1>14, <2>1 DEF Dispatch
  <2> QED
    BY <1>14, <2>1, <2>2 DEF Dispatch
<1>15. CASE NoDispatch
  BY <1>15 DEF NoDispatch, AtCPU
<1>16. CASE DispatchDone
  BY <1>16 DEF DispatchDone
<1>17. CASE incrementIOWaiting
  BY <1>17, BumpType DEF incrementIOWaiting
<1>18. CASE incrementReadyQIdle
  BY <1>18, BumpType DEF incrementReadyQIdle
<1>19. CASE incrementCPUBurst
  <2>1. step' \in [Procs -> Nat] /\ served' \in [Procs -> Nat]
    BY <1>19, BumpType DEF incrementCPUBurst
  <2>2. quantumRemaining' \in [Procs -> Int]
    BY <1>19 DEF incrementCPUBurst
  <2> QED
    BY <1>19, <2>1, <2>2 DEF incrementCPUBurst
<1>20. CASE EndOfCycle
  <2>1. cpuTimeUtilized' \in Nat /\ clock_cycle' \in Nat
    BY <1>20 DEF EndOfCycle
  <2>2. /\ phase' \in {"admit", "endOfCycle"} /\ i' = i
        /\ outcome' \in {"simulating", "finished"}
    BY <1>20 DEF EndOfCycle
  <2> QED
    BY <1>20, <2>1, <2>2 DEF EndOfCycle
<1>21. CASE UNCHANGED vars
  BY <1>21 DEF vars, position
<1> QED
  BY <1>1, <1>2, <1>3, <1>4, <1>5, <1>6, <1>7, <1>8, <1>9, <1>10, <1>11, <1>12,
     <1>13, <1>14, <1>15, <1>16, <1>17, <1>18, <1>19, <1>20, <1>21 DEF Next

(* The type invariant of the simulator. *)
THEOREM TypeCorrect == Spec => []TypeOK
<1>1. TypeInv => TypeOK
  BY DEF TypeInv
<1> QED
  BY InitTypeInv, NextTypeInv, <1>1, PTL DEF Spec
-----------------------------------------------------------------------------
(* Where the processes are.  The queues hold processes in CPU bursts, which  *)
(* have even indices, and the I/O queue those in I/O bursts, whose indices   *)
(* are odd; as there is an odd number of bursts, the end of the last one is  *)
(* never missed.                                                             *)

BurstInv ==
  /\ \A p \in Procs : currentBurst[p] <= numberOfBursts(p)
  /\ \A p \in Ready \cup Running : currentBurst[p] % 2 = 0
  /\ \A p \in Waiting : currentBurst[p] % 2 = 1
  /\ \A p \in Procs : p > nextProcess => currentBurst[p] = 0

PlaceInv == TypeInv /\ OnePlace /\ BurstInv

\* Where the processes are after a step.
Placed(ready, running, waiting) ==
  Ready' = ready /\ Running' = running /\ Waiting' = waiting

(* No process is on two processors. *)
CpuInjective == \A c, d \in CPUs : cpu[c] = cpu[d] /\ cpu[c] # NULL => c = d

LEMMA OddBursts ==
  ASSUME TypeOK, NEW p \in Procs
  PROVE  /\ numberOfBursts(p) \in Nat /\ numberOfBursts(p) % 2 = 1
         /\ process_frm_datafile[p] \in Process
         /\ process_frm_datafile[p].arrivalTime \in Nat
         /\ process_frm_datafile[p].bursts \in Seq(Nat)
<1>1. process_frm_datafile[p] \in Process
  BY DEF TypeOK, Procs, totalProcesses
<1>2. process_frm_datafile[p].bursts \in {b \in Seq(Nat) : Len(b) % 2 = 1}
  BY <1>1 DEF Process
<1>3. process_frm_datafile[p].arrivalTime \in Nat
  BY <1>1 DEF Process
<1>4. numberOfBursts(p) = Len(process_frm_datafile[p].bursts)
  BY DEF numberOfBursts
<1>5. numberOfBursts(p) \in Nat /\ numberOfBursts(p) % 2 = 1
  <2>1. PICK b \in Seq(Nat) : b = process_frm_datafile[p].bursts /\ Len(b) % 2 = 1
    BY <1>2
  <2>2. Len(b) \in Nat
    BY <2>1
  <2> QED
    BY <1>4, <2>1, <2>2
<1> QED
  BY <1>1, <1>2, <1>3, <1>5

LEMMA Vacated ==
  ASSUME TypeOK, CpuInjective, UNCHANGED process_frm_datafile,
         i \in CPUs, cpu[i] # NULL, cpu' = [cpu EXCEPT ![i] = NULL]
  PROVE  /\ cpu[i] \in Running /\ Running' = Running \ {cpu[i]}
         /\ CpuInjective'
<1>1. cpu \in [CPUs -> Procs \cup {NULL}] /\ cpu[i] \in Procs /\ NULL \notin Procs
  BY ProcFacts DEF TypeOK
<1>2. Procs' = Procs
  BY DEF Procs, totalProcesses
<1>3. /\ cpu'[i] = NULL
      /\ \A c \in CPUs : c # i => cpu'[c] = cpu[c] /\ cpu[c] # cpu[i]
  BY <1>1 DEF CpuInjective
<1>4. Running' = Running \ {cpu[i]}
  BY <1>1, <1>2, <1>3 DEF Running
<1> QED
  BY <1>1, <1>3, <1>4 DEF Running, CpuInjective

LEMMA Loaded ==
  ASSUME TypeOK, CpuInjective, UNCHANGED process_frm_datafile,
         i \in CPUs, cpu[i] = NULL, NEW p \in Procs, p \notin Running,
         cpu' = [cpu EXCEPT ![i] = p]
  PROVE  Running' = Running \cup {p} /\ CpuInjective'
<1>1. cpu \in [CPUs -> Procs \cup {NULL}] /\ NULL \notin Procs
  BY ProcFacts DEF TypeOK
<1>2. Procs' = Procs
  BY DEF Procs, totalProcesses
<1>3. /\ cpu'[i] = p
      /\ \A c \in CPUs : c # i => cpu'[c] = cpu[c]
      /\ \A c \in CPUs : cpu[c] # p
  BY <1>1 DEF Running
<1>4. Running' = Running \cup {p}
  BY <1>1, <1>2, <1>3 DEF Running
<1> QED
  BY <1>1, <1>3, <1>4 DEF CpuInjective

(* What a step does to the bursts: nothing, or the end of one of them. *)
LEMMA EndedNext ==
  ASSUME TypeOK, UNCHANGED process_frm_datafile, NEW p \in Procs, NextBurst(p),
         currentBurst[p] < numberOfBursts(p)
  PROVE  /\ Ended' = IF currentBurst[p] + 1 = numberOfBursts(p)
                     THEN Ended \cup {p} ELSE Ended
         /\ \A q \in Procs : currentBurst'[q] = IF q = p THEN currentBurst[p] + 1
                                                         ELSE currentBurst[q]
         /\ \A q \in Procs : numberOfBursts(q)' = numberOfBursts(q)
         /\ Procs' = Procs
<1>1. Procs' = Procs /\ \A q \in Procs : numberOfBursts(q)' = numberOfBursts(q)
  BY DEF Procs, totalProcesses, numberOfBursts
<1>2. \A q \in Procs : currentBurst'[q] = IF q = p THEN currentBurst[p] + 1
                                                   ELSE currentBurst[q]
  BY DEF NextBurst, TypeOK
<1>3. currentBurst[p] \in Nat /\ numberOfBursts(p) \in Nat
  BY OddBursts DEF TypeOK
<1>4. \A q \in Procs : q \in Ended' <=> currentBurst'[q] = numberOfBursts(q)
  BY <1>1 DEF Ended
<1>5. Ended' \subseteq Procs /\ Ended \subseteq Procs
  BY <1>1 DEF Ended
<1>6. \A q \in Procs : q \in Ended <=> currentBurst[q] = numberOfBursts(q)
  BY DEF Ended
<1>7. CASE currentBurst[p] + 1 = numberOfBursts(p)
  <2>1. \A q \in Procs : q \in Ended' <=> q = p \/ q \in Ended
    BY <1>2, <1>4, <1>6, <1>7
  <2>2. Ended' = Ended \cup {p}
    BY <1>5, <2>1
  <2> QED
    BY <1>1, <1>2, <1>7, <2>2
<1>8. CASE currentBurst[p] + 1 # numberOfBursts(p)
  <2>1. p \notin Ended /\ p \notin Ended'
    BY <1>2, <1>3, <1>4, <1>6, <1>8
  <2>2. \A q \in Procs : q \in Ended' <=> q \in Ended
    BY <1>2, <1>4, <1>6, <2>1
  <2>3. Ended' = Ended
    BY <1>5, <2>2
  <2> QED
    BY <1>1, <1>2, <1>8, <2>3
<1> QED
  BY <1>1, <1>2, <1>7, <1>8

(* The steps that move no process and end no burst. *)
LEMMA QuietPlaces ==
  ASSUME OnePlace, BurstInv, UNCHANGED <<process_frm_datafile, nextProcess, places,
                                         currentBurst>>
  PROVE  OnePlace' /\ BurstInv'
<1> USE DEF places, Procs, totalProcesses, numberOfBursts, Ready, Running, Waiting,
            Active, Ended
<1>1. OnePlace'
  BY DEF OnePlace
<1>2. BurstInv'
  BY DEF BurstInv
<1> QED
  BY <1>1, <1>2

LEMMA InitPlaceInv == Init => PlaceInv
<1> SUFFICES ASSUME Init PROVE PlaceInv
  OBVIOUS
<1>1. TypeInv
  BY InitTypeInv
<1>2. /\ preReadyQ = {} /\ Range(readyQ) = {} /\ Range(ioWaitingQ) = {}
      /\ IsInjective(readyQ) /\ IsInjective(ioWaitingQ)
  BY RangeEmpty DEF Init
<1>3. Running = {} /\ CpuInjective
  BY <1>1, ProcFacts DEF TypeInv, Init, Running, CpuInjective
<1>4. \A p \in Procs : currentBurst[p] = 0 /\ numberOfBursts(p) > 0
  <2>1. \A p \in Procs : numberOfBursts(p) \in Nat /\ numberOfBursts(p) % 2 = 1
    BY <1>1, OddBursts DEF TypeInv
  <2>2. \A n \in Nat : n % 2 = 1 => n > 0
    BY SMT
  <2> QED
    BY <2>1, <2>2 DEF Init
<1>5. Ended = {}
  BY <1>4 DEF Ended
<1>6. nextProcess = 0 /\ 1 .. nextProcess = {}
  BY DEF Init
<1>7. OnePlace
  BY <1>2, <1>3, <1>5, <1>6
     DEF OnePlace, CpuInjective, Ready, Waiting, Active
<1>8. BurstInv
  <2>1. \A p \in Procs : numberOfBursts(p) \in Nat
    BY <1>1, OddBursts DEF TypeInv
  <2> QED
    BY <1>2, <1>3, <1>4, <2>1 DEF BurstInv, Ready, Waiting
<1> QED
  BY <1>1, <1>7, <1>8 DEF PlaceInv

(* A process that is somewhere has not ended; one in a CPU burst that is not
   the last, or in an I/O burst, has at least one burst after the next. *)
LEMMA ActiveBurst ==
  ASSUME PlaceInv, NEW p \in Active
  PROVE  /\ p \in Procs /\ p \notin Ended /\ p \in 1 .. nextProcess
         /\ currentBurst[p] \in Nat /\ numberOfBursts(p) \in Nat
         /\ currentBurst[p] < numberOfBursts(p)
         /\ currentBurst[p] % 2 = 1 => currentBurst[p] + 1 < numberOfBursts(p)
<1>1. p \in 1 .. nextProcess /\ p \notin Ended
  BY DEF PlaceInv, OnePlace
<1>2. p \in Procs
  BY <1>1 DEF PlaceInv, TypeInv, TypeOK, Procs, totalProcesses
<1>3. /\ currentBurst[p] \in Nat /\ numberOfBursts(p) \in Nat
      /\ numberOfBursts(p) % 2 = 1 /\ currentBurst[p] <= numberOfBursts(p)
  BY <1>2, OddBursts DEF PlaceInv, BurstInv, TypeInv, TypeOK
<1>4. currentBurst[p] # numberOfBursts(p)
  BY <1>1, <1>2 DEF Ended
<1>5. \A m, n \in Nat : m <= n /\ m # n /\ n % 2 = 1 =>
        m < n /\ (m % 2 = 1 => m + 1 < n)
  BY SMT
<1> QED
  BY <1>1, <1>2, <1>3, <1>4, <1>5

(* A process p moves to another place, maybe by the end of its burst: the
   queues still hold the processes in the bursts they are for. *)
LEMMA MovedBursts ==
  ASSUME PlaceInv, NEW p \in Procs, p <= nextProcess,
         UNCHANGED <<process_frm_datafile, nextProcess>>,
         \A q \in Procs : q # p => currentBurst'[q] = currentBurst[q],
         currentBurst'[p] <= numberOfBursts(p),
         (Ready \cup Running)' \ {p} \subseteq Ready \cup Running,
         Waiting' \ {p} \subseteq Waiting,
         p \in (Ready \cup Running)' => currentBurst'[p] % 2 = 0,
         p \in Waiting' => currentBurst'[p] % 2 = 1
  PROVE  BurstInv'
<1>1. Procs' = Procs /\ \A q \in Procs : numberOfBursts(q)' = numberOfBursts(q)
  BY DEF Procs, totalProcesses, numberOfBursts
<1>2. Ready \cup Running \subseteq Procs /\ Waiting \subseteq Procs
  BY ActiveBurst DEF Active
<1>3. \A q \in Procs : currentBurst'[q] <= numberOfBursts(q)
  BY DEF PlaceInv, BurstInv
<1>4. \A q \in (Ready \cup Running)' : currentBurst'[q] % 2 = 0
  <2>1. \A q \in (Ready \cup Running)' : q # p => q \in Ready \cup Running /\ q \in Procs
    BY <1>2
  <2> QED
    BY <2>1 DEF PlaceInv, BurstInv
<1>5. \A q \in Waiting' : currentBurst'[q] % 2 = 1
  BY <1>2 DEF PlaceInv, BurstInv
<1>6. \A q \in Procs : q > nextProcess => currentBurst'[q] = 0
  <2>1. p \in Nat /\ nextProcess \in Nat /\ ~(p > nextProcess)
    BY DEF PlaceInv, TypeInv, TypeOK, Procs
  <2> QED
    BY <2>1 DEF PlaceInv, BurstInv
<1>7. \A q \in Procs : currentBurst'[q] <= numberOfBursts(q)'
  BY <1>1, <1>3
<1> QED
  BY <1>1, <1>4, <1>5, <1>6, <1>7 DEF BurstInv

(* The loops over the processors and over the I/O queue stay within them. *)
LEMMA AtCPUIndex ==
  ASSUME TypeOK, NEW name, AtCPU(name) PROVE i \in CPUs
<1>1. i \in Nat /\ i < NUMBER_OF_PROCESSORS /\ NUMBER_OF_PROCESSORS \in Nat
  BY SchAssumption DEF TypeOK, AtCPU
<1> QED
  BY <1>1 DEF CPUs

LEMMA WaitingFront ==
  ASSUME TypeInv, NEW p, AtFront(p) PROVE ioWaitingQ # <<>>
<1>1. i > 0 /\ i <= Len(ioWaitingQ) /\ i \in Nat
  BY DEF TypeInv, TypeOK, AtFront, At
<1>2. Len(<<>>) = 0
  OBVIOUS
<1> QED
  BY <1>1, <1>2

LEMMA BlockPlaces ==
  ASSUME PlaceInv, Block
  PROVE  /\ OnePlace' /\ BurstInv'
         /\ \E p \in Running :
              /\ Placed(Ready, Running \ {p}, Waiting \cup {p})
              /\ NextBurst(p) /\ currentBurst[p] + 1 < numberOfBursts(p)
<1> DEFINE p == cpu[i]
<1>1. /\ p # NULL /\ NextBurst(p)
      /\ cpu' = [cpu EXCEPT ![i] = NULL]
      /\ ioWaitingQ' = Append(ioWaitingQ, p)
      /\ currentBurst[p] + 1 < numberOfBursts(p)
      /\ UNCHANGED <<process_frm_datafile, nextProcess, preReadyQ, readyQ>>
  BY DEF Block, Vacate, Goto, input
<1>2. CpuInjective /\ TypeOK /\ i \in CPUs
  <2>1. CpuInjective /\ TypeOK
    BY DEF PlaceInv, OnePlace, CpuInjective, TypeInv
  <2> QED
    BY <2>1, AtCPUIndex DEF Block
<1>3. p \in Running /\ Running' = Running \ {p} /\ CpuInjective'
  BY <1>1, <1>2, Vacated
<1>4. p \in Active
  BY <1>3 DEF Active
<1> HIDE DEF p
<1>5. /\ p \in Procs /\ currentBurst[p] \in Nat /\ numberOfBursts(p) \in Nat
      /\ currentBurst[p] < numberOfBursts(p) /\ p \in 1 .. nextProcess
  BY <1>4, ActiveBurst
<1>6. /\ Ended' = Ended
      /\ \A q \in Procs : currentBurst'[q] = IF q = p THEN currentBurst[p] + 1
                                                      ELSE currentBurst[q]
  BY <1>1, <1>2, <1>5, EndedNext
<1>7. p \notin Ready /\ p \notin Waiting
  BY <1>3 DEF PlaceInv, OnePlace
<1>8. Waiting' = Waiting \cup {p} /\ IsInjective(ioWaitingQ')
  BY <1>1, <1>2, <1>5, <1>7, AppendRange DEF TypeOK, Waiting, PlaceInv, OnePlace
<1>9. Ready' = Ready
  BY <1>1 DEF Ready
<1>10. Active' = Active
  BY <1>3, <1>8, <1>9 DEF Active
<1>11. OnePlace'
  BY <1>1, <1>3, <1>6, <1>7, <1>8, <1>9, <1>10 DEF PlaceInv, OnePlace, CpuInjective
<1>12. currentBurst[p] % 2 = 0 /\ (currentBurst[p] + 1) % 2 = 1
  BY <1>3, <1>5 DEF PlaceInv, BurstInv
<1>13. p <= nextProcess
  BY <1>5
<1>14. p \notin (Ready \cup Running)'
  BY <1>3, <1>7, <1>9
<1>15. BurstInv'
  <2>1. currentBurst'[p] <= numberOfBursts(p) /\ currentBurst'[p] % 2 = 1
    BY <1>1, <1>5, <1>6, <1>12
  <2> QED
    BY <1>1, <1>3, <1>5, <1>6, <1>8, <1>9, <1>13, <1>14, <2>1, MovedBursts
<1> QED
  BY <1>1, <1>3, <1>8, <1>9, <1>11, <1>15 DEF Placed

LEMMA FinishPlaces ==
  ASSUME PlaceInv, Finish
  PROVE  /\ OnePlace' /\ BurstInv'
         /\ \E p \in Running :
              /\ Placed(Ready, Running \ {p}, Waiting)
              /\ NextBurst(p) /\ currentBurst[p] + 1 = numberOfBursts(p)
<1> DEFINE p == cpu[i]
<1>1. /\ p # NULL /\ NextBurst(p)
      /\ cpu' = [cpu EXCEPT ![i] = NULL]
      /\ currentBurst[p] + 1 >= numberOfBursts(p)
      /\ UNCHANGED <<process_frm_datafile, nextProcess, preReadyQ, readyQ, ioWaitingQ>>
  BY DEF Finish, Vacate, Goto, input
<1>2. CpuInjective /\ TypeOK /\ i \in CPUs
  <2>1. CpuInjective /\ TypeOK
    BY DEF PlaceInv, OnePlace, CpuInjective, TypeInv
  <2> QED
    BY <2>1, AtCPUIndex DEF Finish
<1>3. p \in Running /\ Running' = Running \ {p} /\ CpuInjective'
  BY <1>1, <1>2, Vacated
<1>4. p \in Active
  BY <1>3 DEF Active
<1> HIDE DEF p
<1>5. /\ p \in Procs /\ currentBurst[p] \in Nat /\ numberOfBursts(p) \in Nat
      /\ currentBurst[p] < numberOfBursts(p) /\ p \in 1 .. nextProcess
  BY <1>4, ActiveBurst
<1>6. currentBurst[p] + 1 = numberOfBursts(p)
  BY <1>1, <1>5
<1>7. /\ Ended' = Ended \cup {p}
      /\ \A q \in Procs : currentBurst'[q] = IF q = p THEN currentBurst[p] + 1
                                                      ELSE currentBurst[q]
  BY <1>1, <1>2, <1>5, <1>6, EndedNext
<1>8. p \notin Ready /\ p \notin Waiting
  BY <1>3 DEF PlaceInv, OnePlace
<1>9. Ready' = Ready /\ Waiting' = Waiting
  BY <1>1 DEF Ready, Waiting
<1>10. Active' = Active \ {p}
  BY <1>3, <1>8, <1>9 DEF Active
<1>11. OnePlace'
  BY <1>1, <1>3, <1>5, <1>7, <1>8, <1>9, <1>10 DEF PlaceInv, OnePlace, CpuInjective
<1>12. p \notin (Ready \cup Running)' /\ p \notin Waiting' /\ p <= nextProcess
  BY <1>3, <1>5, <1>8, <1>9
<1>13. BurstInv'
  <2>1. currentBurst'[p] <= numberOfBursts(p)
    BY <1>5, <1>6, <1>7
  <2> QED
    BY <1>1, <1>3, <1>5, <1>7, <1>9, <1>12, <2>1, MovedBursts
<1> QED
  BY <1>1, <1>3, <1>6, <1>9, <1>11, <1>13 DEF Placed

LEMMA PreemptPlaces ==
  ASSUME PlaceInv, Preempt
  PROVE  /\ OnePlace' /\ BurstInv'
         /\ \E p \in Running : Placed(Ready \cup {p}, Running \ {p}, Waiting)
<1> DEFINE p == cpu[i]
<1>1. /\ p # NULL
      /\ cpu' = [cpu EXCEPT ![i] = NULL]
      /\ readyQ' = Append(readyQ, p)
      /\ UNCHANGED <<process_frm_datafile, nextProcess, preReadyQ, ioWaitingQ,
                     currentBurst>>
  BY DEF Preempt, Vacate, Goto, input, progress
<1>2. CpuInjective /\ TypeOK /\ i \in CPUs
  <2>1. CpuInjective /\ TypeOK
    BY DEF PlaceInv, OnePlace, CpuInjective, TypeInv
  <2> QED
    BY <2>1, AtCPUIndex DEF Preempt
<1>3. p \in Running /\ Running' = Running \ {p} /\ CpuInjective'
  BY <1>1, <1>2, Vacated
<1>4. p \in Active
  BY <1>3 DEF Active
<1> HIDE DEF p
<1>5. p \in Procs /\ p \in 1 .. nextProcess /\ currentBurst[p] <= numberOfBursts(p)
  BY <1>4, ActiveBurst
<1>6. Ended' = Ended
  BY <1>1 DEF Ended, Procs, totalProcesses, numberOfBursts
<1>7. p \notin preReadyQ /\ p \notin Range(readyQ) /\ p \notin Waiting
  BY <1>3 DEF PlaceInv, OnePlace, Ready
<1>8. Range(readyQ') = Range(readyQ) \cup {p} /\ IsInjective(readyQ')
  BY <1>1, <1>2, <1>5, <1>7, AppendRange DEF TypeOK, PlaceInv, OnePlace
<1>9. Ready' = Ready \cup {p} /\ Waiting' = Waiting
  BY <1>1, <1>8 DEF Ready, Waiting
<1>10. Active' = Active
  BY <1>3, <1>9 DEF Active
<1>11. OnePlace'
  BY <1>1, <1>3, <1>6, <1>7, <1>8, <1>9, <1>10 DEF PlaceInv, OnePlace, CpuInjective
<1>12. currentBurst[p] % 2 = 0 /\ p \notin Waiting' /\ p <= nextProcess
  BY <1>3, <1>5, <1>7, <1>9 DEF PlaceInv, BurstInv
<1>13. BurstInv'
  BY <1>1, <1>3, <1>5, <1>9, <1>12, MovedBursts
<1> QED
  BY <1>3, <1>9, <1>11, <1>13 DEF Placed

LEMMA WakePlaces ==
  ASSUME PlaceInv, Wake
  PROVE  /\ OnePlace' /\ BurstInv'
         /\ \E p \in Waiting :
              /\ Placed(Ready \cup {p}, Running, Waiting \ {p})
              /\ NextBurst(p)
<1> DEFINE p == Head(ioWaitingQ)
<1>1. /\ NextBurst(p)
      /\ ioWaitingQ' = Tail(ioWaitingQ) /\ preReadyQ' = preReadyQ \cup {p}
      /\ UNCHANGED <<process_frm_datafile, nextProcess, readyQ, cpu>>
  BY DEF Wake, Goto, input
<1>2. TypeOK /\ ioWaitingQ \in Seq(Procs) /\ ioWaitingQ # <<>>
  BY WaitingFront DEF PlaceInv, TypeInv, TypeOK, Wake
<1>3. /\ p \in Procs /\ p \in Waiting /\ Waiting = Waiting' \cup {p}
      /\ IsInjective(ioWaitingQ') /\ p \notin Waiting'
  BY <1>1, <1>2, TailRange DEF PlaceInv, OnePlace, Waiting
<1>4. p \in Active
  BY <1>3 DEF Active
<1> HIDE DEF p
<1>5. /\ currentBurst[p] \in Nat /\ numberOfBursts(p) \in Nat
      /\ currentBurst[p] < numberOfBursts(p) /\ p \in 1 .. nextProcess
      /\ currentBurst[p] % 2 = 1 => currentBurst[p] + 1 < numberOfBursts(p)
  BY <1>4, ActiveBurst
<1>6. /\ currentBurst[p] + 1 < numberOfBursts(p)
      /\ (currentBurst[p] + 1) % 2 = 0
  BY <1>3, <1>5 DEF PlaceInv, BurstInv
<1>7. /\ Ended' = Ended
      /\ \A q \in Procs : currentBurst'[q] = IF q = p THEN currentBurst[p] + 1
                                                      ELSE currentBurst[q]
  BY <1>1, <1>2, <1>3, <1>5, <1>6, EndedNext
<1>8. p \notin Ready /\ p \notin Running
  BY <1>3 DEF PlaceInv, OnePlace
<1>9. Ready' = Ready \cup {p} /\ p \notin Range(readyQ)
  BY <1>1, <1>8 DEF Ready
<1>10. Running' = Running /\ (CpuInjective => CpuInjective')
  BY <1>1 DEF Running, Procs, totalProcesses, CpuInjective
<1>11. Active' = Active
  BY <1>3, <1>9, <1>10 DEF Active
<1>12. OnePlace'
  BY <1>1, <1>3, <1>7, <1>8, <1>9, <1>10, <1>11 DEF PlaceInv, OnePlace, CpuInjective
<1>13. BurstInv'
  <2>1. currentBurst'[p] <= numberOfBursts(p) /\ currentBurst'[p] % 2 = 0
    BY <1>3, <1>5, <1>6, <1>7
  <2>2. p <= nextProcess
    BY <1>5
  <2> QED
    BY <1>1, <1>3, <1>7, <1>9, <1>10, <2>1, <2>2, MovedBursts
<1>14. Waiting' = Waiting \ {p}
  BY <1>3
<1> QED
  BY <1>1, <1>3, <1>9, <1>10, <1>12, <1>13, <1>14 DEF Placed

LEMMA KeepWaitingPlaces ==
  ASSUME PlaceInv, KeepWaiting
  PROVE  /\ OnePlace' /\ BurstInv'
         /\ Placed(Ready, Running, Waiting)
<1> DEFINE p == Head(ioWaitingQ)
<1>1. /\ ioWaitingQ' = Append(Tail(ioWaitingQ), p)
      /\ UNCHANGED <<process_frm_datafile, nextProcess, preReadyQ, readyQ, cpu,
                     currentBurst>>
  BY DEF KeepWaiting, Goto, input, progress
<1>2. ioWaitingQ \in Seq(Procs) /\ ioWaitingQ # <<>>
  BY WaitingFront DEF PlaceInv, TypeInv, TypeOK, KeepWaiting
<1>3. /\ p \in Procs /\ Tail(ioWaitingQ) \in Seq(Procs)
      /\ Waiting = Range(Tail(ioWaitingQ)) \cup {p}
      /\ IsInjective(Tail(ioWaitingQ)) /\ p \notin Range(Tail(ioWaitingQ))
  BY <1>2, TailRange DEF PlaceInv, OnePlace, Waiting
<1> HIDE DEF p
<1>4. Waiting' = Waiting /\ IsInjective(ioWaitingQ')
  <2> DEFINE rest == Tail(ioWaitingQ)
  <2> HIDE DEF rest
  <2>1. ioWaitingQ' = Append(rest, p) /\ rest \in Seq(Procs) /\ p \in Procs
    BY <1>1, <1>3 DEF rest
  <2>2. IsInjective(rest) /\ p \notin Range(rest) /\ Waiting = Range(rest) \cup {p}
    BY <1>3 DEF rest
  <2>3. Range(ioWaitingQ') = Range(rest) \cup {p} /\ IsInjective(ioWaitingQ')
    BY <2>1, <2>2, AppendRange
  <2> QED
    BY <2>2, <2>3 DEF Waiting
<1>5. Ready' = Ready /\ Running' = Running /\ Ended' = Ended /\ Active' = Active
  <2>1. Ready' = Ready /\ Running' = Running /\ Ended' = Ended
    BY <1>1 DEF Ready, Running, Ended, Procs, totalProcesses, numberOfBursts
  <2> QED
    BY <1>4, <2>1 DEF Active
<1>6. OnePlace'
  BY <1>1, <1>4, <1>5 DEF PlaceInv, OnePlace
<1>7. BurstInv'
  BY <1>1, <1>4, <1>5 DEF PlaceInv, BurstInv, Procs, totalProcesses, numberOfBursts
<1> QED
  BY <1>4, <1>5, <1>6, <1>7 DEF Placed

LEMMA EnqueueReadyPlaces ==
  ASSUME PlaceInv, EnqueueReady
  PROVE  /\ OnePlace' /\ BurstInv'
         /\ Placed(Ready, Running, Waiting)
<1>1. PICK p \in preReadyQ : /\ readyQ' = Append(readyQ, p)
                             /\ preReadyQ' = preReadyQ \ {p}
  BY DEF EnqueueReady
<1>2. UNCHANGED <<process_frm_datafile, nextProcess, ioWaitingQ, cpu, currentBurst>>
  BY DEF EnqueueReady, Goto, input, progress
<1>3. readyQ \in Seq(Procs) /\ p \in Procs /\ p \in Ready
  BY DEF PlaceInv, TypeInv, TypeOK, Ready
<1>4. p \notin Range(readyQ) /\ IsInjective(readyQ)
  BY <1>3 DEF PlaceInv, OnePlace
<1>5. Range(readyQ') = Range(readyQ) \cup {p} /\ IsInjective(readyQ')
  BY <1>1, <1>3, <1>4, AppendRange
<1>6. Ready' = Ready /\ preReadyQ' \cap Range(readyQ') = {}
  BY <1>1, <1>4, <1>5 DEF Ready, PlaceInv, OnePlace
<1>7. Running' = Running /\ Waiting' = Waiting /\ Ended' = Ended
  BY <1>2 DEF Running, Waiting, Ended, Procs, totalProcesses, numberOfBursts
<1>8. Active' = Active
  BY <1>6, <1>7 DEF Active
<1>9. OnePlace'
  BY <1>2, <1>5, <1>6, <1>7, <1>8 DEF PlaceInv, OnePlace
<1>10. BurstInv'
  BY <1>2, <1>6, <1>7 DEF PlaceInv, BurstInv, Procs, totalProcesses, numberOfBursts
<1> QED
  BY <1>6, <1>7, <1>9, <1>10 DEF Placed

LEMMA DispatchPlaces ==
  ASSUME PlaceInv, Dispatch
  PROVE  /\ OnePlace' /\ BurstInv'
         /\ \E p \in Ready : Placed(Ready \ {p}, Running \cup {p}, Waiting)
<1> DEFINE p == Head(readyQ)
<1>1. /\ cpu[i] = NULL /\ readyQ # <<>>
      /\ cpu' = [cpu EXCEPT ![i] = p] /\ readyQ' = Tail(readyQ)
      /\ UNCHANGED <<process_frm_datafile, nextProcess, preReadyQ, ioWaitingQ,
                     currentBurst>>
  BY DEF Dispatch, Goto, input, progress
<1>2. CpuInjective /\ TypeOK /\ i \in CPUs /\ readyQ \in Seq(Procs)
  <2>1. CpuInjective /\ TypeOK
    BY DEF PlaceInv, OnePlace, CpuInjective, TypeInv
  <2> QED
    BY <2>1, AtCPUIndex DEF Dispatch, TypeOK
<1>3. /\ p \in Procs /\ p \in Range(readyQ) /\ Range(readyQ) = Range(readyQ') \cup {p}
      /\ IsInjective(readyQ') /\ p \notin Range(readyQ')
  BY <1>1, <1>2, TailRange DEF PlaceInv, OnePlace
<1> HIDE DEF p
<1>4. p \in Ready /\ p \notin preReadyQ /\ p \notin Running /\ p \notin Waiting
  BY <1>3 DEF Ready, PlaceInv, OnePlace
<1>5. Running' = Running \cup {p} /\ CpuInjective'
  BY <1>1, <1>2, <1>3, <1>4, Loaded
<1>6. Ready' = Ready \ {p} /\ Waiting' = Waiting
  BY <1>1, <1>3, <1>4 DEF Ready, Waiting
<1>7. Active' = Active
  BY <1>4, <1>5, <1>6 DEF Active
<1>8. Ended' = Ended
  BY <1>1 DEF Ended, Procs, totalProcesses, numberOfBursts
<1>9. preReadyQ' \cap Range(readyQ') = {}
  BY <1>1, <1>3 DEF PlaceInv, OnePlace
<1>10. OnePlace'
  BY <1>1, <1>3, <1>4, <1>5, <1>6, <1>7, <1>8, <1>9 DEF PlaceInv, OnePlace, CpuInjective
<1>11. (Ready \cup Running)' = Ready \cup Running
  BY <1>4, <1>5, <1>6
<1>12. BurstInv'
  BY <1>1, <1>6, <1>11 DEF PlaceInv, BurstInv, Procs, totalProcesses, numberOfBursts
<1> QED
  BY <1>4, <1>5, <1>6, <1>10, <1>12 DEF Placed

(* The next process of the array has not been anywhere. *)
LEMMA AdmitPlaces ==
  ASSUME PlaceInv, Admit
  PROVE  /\ OnePlace' /\ BurstInv'
         /\ Placed(Ready \cup {nextProcess + 1}, Running, Waiting)
<1> DEFINE p == nextProcess + 1
<1>1. /\ nextProcess < totalProcesses /\ nextProcess' = p
      /\ preReadyQ' = preReadyQ \cup {p}
      /\ UNCHANGED <<process_frm_datafile, readyQ, ioWaitingQ, cpu, currentBurst>>
  BY DEF Admit, Arrived, Goto, input, progress
<1>2. /\ TypeOK /\ nextProcess \in Nat /\ p \in Nat /\ totalProcesses \in Nat
      /\ Procs = 1 .. totalProcesses /\ p > nextProcess
      /\ nextProcess <= totalProcesses
  <2>1. TypeOK /\ nextProcess \in 0 .. totalProcesses
    BY DEF PlaceInv, TypeInv, TypeOK
  <2>2. totalProcesses \in Nat
    BY <2>1, ProcFacts
  <2> QED
    BY <2>1, <2>2 DEF Procs
<1>3. p \in Procs /\ 1 .. p = (1 .. nextProcess) \cup {p} /\ p \notin 1 .. nextProcess
  BY <1>1, <1>2
<1> HIDE DEF p
<1>4. p \notin Active /\ p \notin Ended
  BY <1>3 DEF PlaceInv, OnePlace
<1>5. p \notin Ready /\ p \notin Running /\ p \notin Waiting
  BY <1>4 DEF Active
<1>6. Ready' = Ready \cup {p} /\ p \notin Range(readyQ)
  BY <1>1, <1>5 DEF Ready
<1>7. Running' = Running /\ Waiting' = Waiting /\ Ended' = Ended
  BY <1>1 DEF Running, Waiting, Ended, Procs, totalProcesses, numberOfBursts
<1>8. Active' = Active \cup {p}
  BY <1>6, <1>7 DEF Active
<1>9. OnePlace'
  BY <1>1, <1>3, <1>4, <1>5, <1>6, <1>7, <1>8 DEF PlaceInv, OnePlace
<1>10. currentBurst[p] = 0
  BY <1>2, <1>3 DEF PlaceInv, BurstInv
<1>11. BurstInv'
  <2>1. Procs' = Procs /\ \A q \in Procs : numberOfBursts(q)' = numberOfBursts(q)
    BY <1>1 DEF Procs, totalProcesses, numberOfBursts
  <2>2. \A q \in Procs : currentBurst'[q] <= numberOfBursts(q)'
    BY <1>1, <2>1 DEF PlaceInv, BurstInv
  <2>3. \A q \in (Ready \cup Running)' : currentBurst'[q] % 2 = 0
    BY <1>1, <1>6, <1>7, <1>10 DEF PlaceInv, BurstInv
  <2>4. \A q \in Waiting' : currentBurst'[q] % 2 = 1
    BY <1>1, <1>7 DEF PlaceInv, BurstInv
  <2>5. \A q \in Procs : q > p => q > nextProcess
    BY <1>2
  <2>6. \A q \in Procs : q > nextProcess' => currentBurst'[q] = 0
    BY <1>1, <2>5 DEF PlaceInv, BurstInv
  <2> QED
    BY <2>1, <2>2, <2>3, <2>4, <2>6 DEF BurstInv
<1> QED
  BY <1>6, <1>7, <1>9, <1>11 DEF Placed, p

LEMMA NextPlaceInv == PlaceInv /\ [Next]_vars => PlaceInv'
<1> SUFFICES ASSUME PlaceInv, [Next]_vars PROVE PlaceInv'
  OBVIOUS
<1>1. TypeInv'
  BY NextTypeInv DEF PlaceInv
<1>2. SUFFICES OnePlace' /\ BurstInv'
  BY <1>1 DEF PlaceInv
<1>3. CASE Admit
  BY <1>3, AdmitPlaces
<1>4. CASE Block
  BY <1>4, BlockPlaces
<1>5. CASE Finish
  BY <1>5, FinishPlaces
<1>6. CASE Preempt
  BY <1>6, PreemptPlaces
<1>7. CASE Wake
  BY <1>7, WakePlaces
<1>8. CASE KeepWaiting
  BY <1>8, KeepWaitingPlaces
<1>9. CASE EnqueueReady
  BY <1>9, EnqueueReadyPlaces
<1>10. CASE Dispatch
  BY <1>10, DispatchPlaces
<1>11. CASE \/ AdmitDone \/ Continue \/ RunningDone \/ IODone \/ SortAssertFails
            \/ SortDone \/ NoDispatch \/ DispatchDone \/ incrementIOWaiting
            \/ incrementReadyQIdle \/ incrementCPUBurst \/ EndOfCycle \/ UNCHANGED vars
  <2>1. UNCHANGED <<process_frm_datafile, nextProcess, places, currentBurst>>
    BY <1>11 DEF AdmitDone, Continue, RunningDone, IODone, SortAssertFails, SortDone,
                 NoDispatch, DispatchDone, incrementIOWaiting, incrementReadyQIdle,
                 incrementCPUBurst, EndOfCycle, Proceed, Goto, vars, input, progress
  <2> QED
    BY <2>1, QuietPlaces DEF PlaceInv
<1> QED
  BY <1>3, <1>4, <1>5, <1>6, <1>7, <1>8, <1>9, <1>10, <1>11 DEF Next

(* No process is in two places, and none is lost. *)
THEOREM PlacesCorrect == Spec => []OnePlace
<1>1. PlaceInv => OnePlace
  BY DEF PlaceInv
<1> QED
  BY InitPlaceInv, NextPlaceInv, <1>1, PTL DEF Spec
-----------------------------------------------------------------------------

(* The dispatch loop leaves no free processor behind while there are ready
   processes, and the loop before it has emptied the array of the new ones. *)
DispatchInv ==
  /\ phase = "dispatch" /\ readyQ # <<>> => \A c \in CPUs : c < i => cpu[c] # NULL
  /\ phase \in Executing /\ readyQ # <<>> => \A c \in CPUs : cpu[c] # NULL
  /\ phase \in {"dispatch"} \cup Executing => preReadyQ = {}

LEMMA InitDispatchInv == Init => DispatchInv
  BY DEF Init, DispatchInv, Executing

LEMMA NextDispatchInv == TypeInv /\ DispatchInv /\ [Next]_vars => DispatchInv'
<1> SUFFICES ASSUME TypeInv, DispatchInv, [Next]_vars PROVE DispatchInv'
  OBVIOUS
<1> USE DEF DispatchInv, Executing
<1>1. /\ TypeOK /\ i \in Nat /\ cpu \in [CPUs -> Procs \cup {NULL}]
      /\ \A c \in CPUs : c \in Int /\ c < NUMBER_OF_PROCESSORS
      /\ NULL \notin Procs
  <2>1. TypeOK /\ i \in Nat /\ cpu \in [CPUs -> Procs \cup {NULL}]
    BY DEF TypeInv, TypeOK
  <2>2. \A c \in CPUs : c \in Int /\ c < NUMBER_OF_PROCESSORS
    BY SchAssumption DEF CPUs
  <2> QED
    BY <2>1, <2>2, ProcFacts
<1>2. CASE Admit \/ Block \/ Finish \/ Preempt \/ Wake \/ KeepWaiting
           \/ EnqueueReady \/ AdmitDone \/ Continue \/ RunningDone \/ IODone
  BY <1>2 DEF Admit, Block, Finish, Preempt, Wake, KeepWaiting, EnqueueReady,
     AdmitDone, Continue, RunningDone, IODone, Proceed, Goto, Vacate
<1>3. CASE SortDone
  <2>1. i' = 0 /\ phase' = "dispatch" /\ preReadyQ' = {}
    BY <1>3 DEF SortDone, Proceed, Goto, places
  <2>2. \A c \in CPUs : ~(c < 0)
    BY SchAssumption DEF CPUs
  <2> QED
    BY <2>1, <2>2
<1>4. CASE Dispatch
  <2>1. /\ phase = "dispatch" /\ phase' = "dispatch" /\ i' = i + 1
        /\ readyQ # <<>> /\ preReadyQ' = preReadyQ
        /\ cpu' = [cpu EXCEPT ![i] = Head(readyQ)]
    BY <1>4 DEF Dispatch, AtCPU, At, Goto
  <2>2. Head(readyQ) # NULL
    <3>1. readyQ \in Seq(Procs)
      BY <1>1 DEF TypeOK
    <3>2. Head(readyQ) \in Procs
      BY <2>1, <3>1
    <3> QED
      BY <1>1, <3>2
  <2>3. \A c \in CPUs : c < i + 1 => c < i \/ c = i
    BY <1>1
  <2>4. \A c \in CPUs : c < i' => cpu'[c] # NULL
    BY <1>1, <2>1, <2>2, <2>3
  <2> QED
    BY <2>1, <2>4
<1>5. CASE NoDispatch
  <2>1. /\ phase = "dispatch" /\ phase' = "dispatch" /\ i' = i + 1
        /\ cpu[i] # NULL \/ readyQ = <<>>
        /\ UNCHANGED <<preReadyQ, readyQ, cpu>>
    BY <1>5 DEF NoDispatch, AtCPU, At, Proceed, Goto, places
  <2>2. \A c \in CPUs : c < i + 1 => c < i \/ c = i
    BY <1>1
  <2> QED
    BY <2>1, <2>2
<1>6. CASE DispatchDone
  <2>1. /\ phase = "dispatch" /\ phase' = "incrementIO"
        /\ i = NUMBER_OF_PROCESSORS /\ UNCHANGED <<preReadyQ, readyQ, cpu>>
    BY <1>6 DEF DispatchDone, At, Proceed, Goto, places
  <2> QED
    BY <1>1, <2>1
<1>7. CASE incrementIOWaiting \/ incrementReadyQIdle \/ incrementCPUBurst
  BY <1>7 DEF incrementIOWaiting, incrementReadyQIdle, incrementCPUBurst, At, Goto,
     places
<1>8. CASE EndOfCycle
  BY <1>8 DEF EndOfCycle, At, places
<1>9. CASE SortAssertFails \/ UNCHANGED vars
  BY <1>9 DEF SortAssertFails, vars, places, position
<1> QED
  BY <1>2, <1>3, <1>4, <1>5, <1>6, <1>7, <1>8, <1>9 DEF Next

(* A ready process always finds a processor that is free in the same cycle. *)
THEOREM NoIdleProcessor == Spec => []WorkConserving
<1>1. DispatchInv => WorkConserving
  BY DEF DispatchInv, WorkConserving
<1> QED
  BY InitTypeInv, NextTypeInv, InitDispatchInv, NextDispatchInv, <1>1, PTL DEF Spec
-----------------------------------------------------------------------------
(* When the test at the end of a cycle succeeds no process can be ready: it *)
(* would be on a processor.                                                 *)

LEMMA LastCycleEnded ==
  ASSUME PlaceInv, DispatchInv, phase = "endOfCycle", LastCycle
  PROVE  Ended = Procs
<1>1. TypeOK /\ 0 \in CPUs /\ cpu \in [CPUs -> Procs \cup {NULL}]
  BY SchAssumption DEF PlaceInv, TypeInv, TypeOK, CPUs
<1>2. cpu[0] = NULL
  BY <1>1 DEF LastCycle, Running
<1>3. readyQ = <<>> /\ preReadyQ = {} /\ ioWaitingQ = <<>>
  BY <1>1, <1>2 DEF DispatchInv, Executing, LastCycle
<1>4. Active = {}
  BY <1>3, RangeEmpty DEF Active, Ready, Waiting, LastCycle
<1> QED
  BY <1>4 DEF PlaceInv, OnePlace, LastCycle, Procs

LEMMA NextAllServed ==
  PlaceInv /\ DispatchInv /\ AllServedAtExit /\ [Next]_vars => AllServedAtExit'
<1> SUFFICES ASSUME PlaceInv, DispatchInv, AllServedAtExit, [Next]_vars,
                    outcome' = "finished"
             PROVE  Ended' = Procs'
  BY DEF AllServedAtExit
<1>1. CASE EndOfCycle
  <2>1. LastCycle /\ phase = "endOfCycle" /\ UNCHANGED <<input, progress>>
    BY <1>1 DEF EndOfCycle, At
  <2>2. Ended' = Ended /\ Procs' = Procs
    BY <2>1 DEF Ended, Procs, totalProcesses, numberOfBursts, input, progress
  <2> QED
    BY <2>1, <2>2, LastCycleEnded
<1>2. CASE UNCHANGED vars
  BY <1>2 DEF vars, position, input, progress, AllServedAtExit, Ended, Procs,
     totalProcesses, numberOfBursts
<1>3. CASE Next /\ ~EndOfCycle
  <2>1. outcome' # "finished"
    BY <1>3 DEF Next, Admit, AdmitDone, Block, Finish, Preempt, Continue,
       RunningDone, Wake, KeepWaiting, IODone, SortAssertFails, EnqueueReady,
       SortDone, Dispatch, NoDispatch, DispatchDone, incrementIOWaiting,
       incrementReadyQIdle, incrementCPUBurst, AtFront, AtCPU, At, Proceed,
       Vacate, Goto
  <2> QED
    BY <2>1
<1> QED
  BY <1>1, <1>2, <1>3

(* The exit test does not look at readyQ, but no process is left behind. *)
THEOREM NobodyLeftBehind == Spec => []AllServedAtExit
<1>1. Init => AllServedAtExit
  BY DEF Init, AllServedAtExit
<1>2. PlaceInv => TypeInv
  BY DEF PlaceInv
<1> QED
  BY InitPlaceInv, NextPlaceInv, InitDispatchInv, NextDispatchInv, <1>1, <1>2,
     NextAllServed, PTL DEF Spec
-----------------------------------------------------------------------------
(* The assertion of fromIOWaitingToPreReady.  Between the turn of ioWaitingQ *)
(* and the next increment every I/O burst has a cycle left; in the turn that *)
(* is true of those already looked at, which are at the end of the queue.    *)

StepInv ==
  /\ StepAssertion
  /\ phase = "io" => \A k \in 1 .. Len(ioWaitingQ) :
                       k > i => step[ioWaitingQ[k]] < length(ioWaitingQ[k])
  /\ phase \in {"sort", "dispatch", "incrementIO"} =>
       \A p \in Waiting : step[p] < length(p)

LEMMA LengthType ==
  ASSUME TypeOK, NEW p \in Procs, NEW b \in Nat, b < numberOfBursts(p)
  PROVE  process_frm_datafile[p].bursts[b + 1] \in Nat
<1>1. process_frm_datafile[p] \in Process
  BY OddBursts
<1>2. process_frm_datafile[p].bursts \in Seq(Nat)
  BY <1>1 DEF Process
<1>3. b + 1 \in 1 .. Len(process_frm_datafile[p].bursts)
  BY <1>2 DEF numberOfBursts
<1> QED
  BY <1>2, <1>3

LEMMA WaitingFacts ==
  ASSUME PlaceInv, NEW p \in Waiting
  PROVE  p \in Procs /\ step[p] \in Nat /\ length(p) \in Nat /\ p \notin Running
<1>1. /\ p \in Procs /\ currentBurst[p] \in Nat
      /\ currentBurst[p] < numberOfBursts(p)
  BY ActiveBurst DEF Active
<1>2. TypeOK /\ p \notin Running
  BY DEF PlaceInv, TypeInv, OnePlace
<1>3. length(p) \in Nat
  BY <1>1, <1>2, LengthType DEF length
<1> QED
  BY <1>1, <1>2, <1>3 DEF TypeOK

(* The steps that leave the waiting processes and their bursts alone. *)
LEMMA QuietSteps ==
  ASSUME PlaceInv, StepInv, UNCHANGED <<process_frm_datafile, ioWaitingQ>>,
         \A p \in Waiting : step'[p] = step[p] /\ currentBurst'[p] = currentBurst[p]
  PROVE  /\ Waiting' = Waiting /\ StepAssertion'
         /\ \A p \in Waiting : (step[p] < length(p))' <=> step[p] < length(p)
<1>1. Waiting' = Waiting
  BY DEF Waiting
<1>2. \A p \in Waiting : length(p)' = length(p)
  BY DEF length
<1>3. StepAssertion'
  BY <1>1, <1>2 DEF StepInv, StepAssertion
<1> QED
  BY <1>1, <1>2, <1>3

LEMMA BlockSteps ==
  ASSUME PlaceInv, StepInv, Block PROVE StepInv'
<1>0. PICK p : p = cpu[i]
  OBVIOUS
<1>1. /\ p # NULL /\ NextBurst(p) /\ phase' = "running"
      /\ ioWaitingQ' = Append(ioWaitingQ, p) /\ UNCHANGED process_frm_datafile
      /\ currentBurst[p] + 1 < numberOfBursts(p)
  BY <1>0 DEF Block, Vacate, Goto, input
<1>2. TypeOK /\ i \in CPUs /\ ioWaitingQ \in Seq(Procs)
  <2>1. TypeOK
    BY DEF PlaceInv, TypeInv
  <2> QED
    BY <2>1, AtCPUIndex DEF Block, TypeOK
<1>3. p \in Procs /\ p \in Running
  BY <1>0, <1>1, <1>2 DEF TypeOK, Running
<1>4. Waiting' = Waiting \cup {p}
  BY <1>1, <1>2, <1>3, AppendRange DEF Waiting
<1>5. currentBurst[p] \in Nat /\ currentBurst[p] + 1 \in Nat
  BY <1>2, <1>3 DEF TypeOK
<1>6. step'[p] = 0 /\ currentBurst'[p] = currentBurst[p] + 1
  BY <1>1, <1>2, <1>3 DEF NextBurst, TypeOK
<1>7. process_frm_datafile[p].bursts[currentBurst[p] + 1 + 1] \in Nat
  BY <1>1, <1>2, <1>3, <1>5, LengthType
<1>8. step'[p] <= length(p)'
  BY <1>1, <1>6, <1>7 DEF length
<1>9. \A q \in Waiting : /\ step'[q] = step[q] /\ length(q)' = length(q)
  <2>1. \A q \in Waiting : q # p /\ q \in Procs
    BY <1>3, WaitingFacts
  <2>2. \A q \in Procs : q # p => step'[q] = step[q] /\ currentBurst'[q] = currentBurst[q]
    BY <1>1, <1>2, <1>3 DEF NextBurst, TypeOK
  <2> QED
    BY <1>1, <2>1, <2>2 DEF length
<1>10. StepAssertion'
  BY <1>4, <1>8, <1>9 DEF StepInv, StepAssertion
<1> QED
  BY <1>1, <1>10 DEF StepInv

(* The front of the queue is looked at: it leaves the queue or goes to its end. *)
LEMMA TurnSteps ==
  ASSUME PlaceInv, StepInv, Wake \/ KeepWaiting PROVE StepInv'
<1>0. PICK q, p, rest : q = ioWaitingQ /\ p = Head(q) /\ rest = Tail(q)
  OBVIOUS
<1>1. /\ phase = "io" /\ phase' = "io" /\ i' = i - 1 /\ UNCHANGED process_frm_datafile
  BY DEF Wake, KeepWaiting, AtFront, At, Goto, input
<1>2. /\ TypeOK /\ q \in Seq(Procs) /\ q # <<>> /\ i \in Nat /\ i > 0
  <2>1. TypeInv /\ TypeOK
    BY DEF PlaceInv, TypeInv
  <2>2. q # <<>> /\ i > 0
    BY <1>0, <2>1, WaitingFront DEF Wake, KeepWaiting, AtFront
  <2> QED
    BY <1>0, <2>1, <2>2 DEF TypeOK
<1>3. /\ p \in Procs /\ p \in Waiting /\ Waiting = Range(rest) \cup {p}
      /\ p \notin Range(rest) /\ rest \in Seq(Procs)
      /\ Len(rest) = Len(q) - 1 /\ Len(rest) \in Nat
  BY <1>0, <1>2, TailRange DEF PlaceInv, OnePlace, Waiting
<1>4. \A k \in 1 .. Len(rest) : rest[k] = q[k + 1] /\ rest[k] \in Range(rest)
  <2>1. \A k \in 1 .. Len(rest) : rest[k] = q[k + 1]
    BY <1>0, <1>2, <1>3
  <2>2. DOMAIN rest = 1 .. Len(rest)
    BY <1>3
  <2> QED
    BY <2>1, <2>2 DEF Range
<1>5. \A k \in 1 .. Len(rest) : k > i - 1 => step[rest[k]] < length(rest[k])
  <2>1. \A k \in 1 .. Len(rest) : k > i - 1 => k + 1 \in 1 .. Len(q) /\ k + 1 > i
    BY <1>2, <1>3
  <2> QED
    BY <1>0, <1>1, <1>4, <2>1 DEF StepInv
<1>6. \A r \in Range(rest) : step[r] <= length(r)
  BY <1>3 DEF StepInv, StepAssertion
<1>7. CASE Wake
  <2>1. ioWaitingQ' = rest /\ NextBurst(p)
    BY <1>0, <1>7 DEF Wake
  <2>2. \A r \in Range(rest) : step'[r] = step[r] /\ length(r)' = length(r)
    <3>1. \A r \in Range(rest) : r # p /\ r \in Procs
      BY <1>3, WaitingFacts
    <3>2. \A r \in Procs : r # p => step'[r] = step[r] /\ currentBurst'[r] = currentBurst[r]
      BY <1>2, <1>3, <2>1 DEF NextBurst, TypeOK
    <3> QED
      BY <1>1, <3>1, <3>2 DEF length
  <2>3. StepAssertion'
    BY <1>6, <2>1, <2>2 DEF StepAssertion, Waiting
  <2>4. \A k \in 1 .. Len(rest) : k > i - 1 => step'[rest[k]] < length(rest[k])'
    BY <1>4, <1>5, <2>2
  <2> QED
    BY <1>1, <2>1, <2>3, <2>4 DEF StepInv
<1>8. CASE KeepWaiting
  <2>1. /\ ioWaitingQ' = Append(rest, p) /\ step[p] # length(p)
        /\ UNCHANGED <<step, currentBurst>>
    BY <1>0, <1>8 DEF KeepWaiting, BurstDone, progress
  <2>2. step[p] < length(p)
    BY <1>3, <2>1, WaitingFacts DEF StepInv, StepAssertion
  <2>3. \A r \in Waiting : step'[r] = step[r] /\ length(r)' = length(r)
    BY <1>1, <2>1 DEF length
  <2>4. Range(ioWaitingQ') = Range(rest) \cup {p}
    BY <1>3, <2>1, AppendRange
  <2>5. StepAssertion'
    <3>1. Waiting' = Waiting
      BY <1>3, <2>4 DEF Waiting
    <3>2. \A r \in Waiting : step'[r] <= length(r)'
      BY <1>3, <1>6, <2>2, <2>3, WaitingFacts
    <3> QED
      BY <3>1, <3>2 DEF StepAssertion
  <2>6. /\ Len(ioWaitingQ') = Len(rest) + 1
        /\ \A k \in 1 .. Len(rest) : ioWaitingQ'[k] = rest[k]
        /\ ioWaitingQ'[Len(rest) + 1] = p
    BY <1>3, <2>1
  <2>7. ASSUME NEW k \in 1 .. Len(rest) + 1, k > i - 1
        PROVE  (step[ioWaitingQ[k]] < length(ioWaitingQ[k]))'
    <3>1. PICK r : r = ioWaitingQ'[k]
      OBVIOUS
    <3>2. r \in Waiting /\ step[r] < length(r)
      <4>1. CASE k \in 1 .. Len(rest)
        BY <1>3, <1>4, <1>5, <2>6, <2>7, <3>1, <4>1
      <4>2. CASE k = Len(rest) + 1
        BY <1>3, <2>2, <2>6, <3>1, <4>2
      <4> QED
        BY <1>3, <4>1, <4>2
    <3>3. step'[r] < length(r)'
      BY <2>3, <3>2
    <3> QED
      BY <3>1, <3>3
  <2> QED
    BY <1>1, <2>5, <2>6, <2>7 DEF StepInv
<1> QED
  BY <1>7, <1>8

LEMMA InitStepInv == Init => StepInv
  BY RangeEmpty DEF Init, StepInv, StepAssertion, Waiting

LEMMA NextStepInv == PlaceInv /\ StepInv /\ [Next]_vars => StepInv'
<1> SUFFICES ASSUME PlaceInv, StepInv, [Next]_vars PROVE StepInv'
  OBVIOUS
<1>1. /\ TypeOK /\ \A p \in Waiting : p \in Procs /\ p \notin Running
      /\ \A p \in Waiting : step[p] \in Nat /\ length(p) \in Nat
  BY WaitingFacts DEF PlaceInv, TypeInv
<1>2. CASE Block
  BY <1>2, BlockSteps
<1>3. CASE Wake \/ KeepWaiting
  BY <1>3, TurnSteps
<1>4. CASE incrementIOWaiting
  <2>1. /\ phase = "incrementIO" /\ phase' = "incrementReady"
        /\ step' = Bump(step, Waiting)
        /\ UNCHANGED <<process_frm_datafile, ioWaitingQ, currentBurst>>
    BY <1>4 DEF incrementIOWaiting, At, Goto, Waiting, places, input
  <2>2. \A p \in Waiting : step'[p] = step[p] + 1 /\ length(p)' = length(p)
    BY <1>1, <2>1 DEF Bump, length
  <2>3. \A p \in Waiting : step[p] < length(p)
    BY <2>1 DEF StepInv
  <2>4. \A p \in Waiting : step'[p] <= length(p)'
    BY <1>1, <2>2, <2>3
  <2>5. Waiting' = Waiting
    BY <2>1 DEF Waiting
  <2>6. StepAssertion'
    BY <2>4, <2>5 DEF StepAssertion
  <2> QED
    BY <2>1, <2>6 DEF StepInv
<1>5. ASSUME UNCHANGED <<process_frm_datafile, ioWaitingQ>>,
             \A p \in Waiting : step'[p] = step[p] /\ currentBurst'[p] = currentBurst[p],
             \/ phase' \notin {"io", "sort", "dispatch", "incrementIO"}
             \/ phase' = "io" /\ i' = Len(ioWaitingQ)
             \/ phase = "io" /\ i = 0 /\ phase' = "sort"
             \/ phase' \in {"sort", "dispatch", "incrementIO"}
                  /\ phase \in {"sort", "dispatch", "incrementIO"}
             \/ phase' = phase /\ i' = i
      PROVE  StepInv'
  <2>1. /\ Waiting' = Waiting /\ StepAssertion'
        /\ \A p \in Waiting : (step[p] < length(p))' <=> step[p] < length(p)
    BY <1>5, QuietSteps
  <2>2. /\ ioWaitingQ \in Seq(Procs) /\ Len(ioWaitingQ) \in Nat
        /\ \A k \in 1 .. Len(ioWaitingQ) : ioWaitingQ[k] \in Waiting
    <3>1. ioWaitingQ \in Seq(Procs)
      BY <1>1 DEF TypeOK
    <3>2. Len(ioWaitingQ) \in Nat /\ DOMAIN ioWaitingQ = 1 .. Len(ioWaitingQ)
      BY <3>1
    <3> QED
      BY <3>1, <3>2 DEF Waiting, Range
  <2>3. ASSUME phase' = "io", NEW k \in 1 .. Len(ioWaitingQ)', k > i'
        PROVE  (step[ioWaitingQ[k]] < length(ioWaitingQ[k]))'
    <3>1. k \in 1 .. Len(ioWaitingQ) /\ ~(k > Len(ioWaitingQ))
      BY <1>5, <2>2, <2>3
    <3>2. phase = "io" /\ k > i
      BY <1>5, <2>3, <3>1
    <3>3. PICK r \in Waiting : r = ioWaitingQ[k]
      BY <2>2, <3>1
    <3>4. step[r] < length(r)
      BY <3>1, <3>2, <3>3 DEF StepInv
    <3>5. ioWaitingQ'[k] = r
      BY <1>5, <3>3
    <3> QED
      BY <2>1, <3>4, <3>5
  <2>4. ASSUME phase' \in {"sort", "dispatch", "incrementIO"}, NEW p \in Waiting
        PROVE  (step[p] < length(p))'
    <3>1. CASE phase = "io" /\ i = 0
      <4>1. PICK k \in 1 .. Len(ioWaitingQ) : p = ioWaitingQ[k]
        BY <2>2 DEF Waiting, Range
      <4>2. step[p] < length(p)
        BY <2>2, <3>1, <4>1 DEF StepInv
      <4> QED
        BY <2>1, <4>2
    <3>2. CASE phase \in {"sort", "dispatch", "incrementIO"}
      BY <2>1, <3>2 DEF StepInv
    <3> QED
      BY <1>5, <2>4, <3>1, <3>2
  <2> QED
    BY <2>1, <2>3, <2>4 DEF StepInv
<1>6. CASE \/ Admit \/ AdmitDone \/ Preempt \/ Continue \/ RunningDone \/ IODone
           \/ SortAssertFails \/ EnqueueReady \/ SortDone \/ Dispatch \/ NoDispatch
           \/ DispatchDone \/ incrementReadyQIdle \/ EndOfCycle \/ UNCHANGED vars
  <2>1. UNCHANGED <<process_frm_datafile, ioWaitingQ, step, currentBurst>>
    BY <1>6 DEF Admit, AdmitDone, Preempt, Continue, RunningDone, IODone,
       SortAssertFails, EnqueueReady, SortDone, Dispatch, NoDispatch, DispatchDone,
       incrementReadyQIdle, EndOfCycle, Proceed, Vacate, Goto, vars, input, places,
       progress
  <2>2. \/ phase' \notin {"io", "sort", "dispatch", "incrementIO"}
        \/ phase' = "io" /\ i' = Len(ioWaitingQ)
        \/ phase = "io" /\ i = 0 /\ phase' = "sort"
        \/ phase' \in {"sort", "dispatch", "incrementIO"}
             /\ phase \in {"sort", "dispatch", "incrementIO"}
        \/ phase' = phase /\ i' = i
    BY <1>6 DEF Admit, AdmitDone, Preempt, Continue, RunningDone, IODone,
       SortAssertFails, EnqueueReady, SortDone, Dispatch, NoDispatch, DispatchDone,
       incrementReadyQIdle, EndOfCycle, Proceed, Vacate, Goto, At, AtCPU, vars, position
  <2> QED
    BY <1>5, <2>1, <2>2
<1>7. CASE Finish
  <2>1. /\ phase' = "running" /\ NextBurst(cpu[i]) /\ cpu[i] \in Running
        /\ UNCHANGED <<process_frm_datafile, ioWaitingQ>>
    <3>1. i \in CPUs /\ cpu[i] # NULL
      BY <1>1, <1>7, AtCPUIndex DEF Finish
    <3> QED
      BY <1>1, <1>7, <3>1 DEF Finish, Vacate, Goto, input, Running, TypeOK
  <2>2. \A p \in Waiting : step'[p] = step[p] /\ currentBurst'[p] = currentBurst[p]
    BY <1>1, <2>1 DEF NextBurst, TypeOK
  <2> QED
    BY <1>5, <2>1, <2>2
<1>8. CASE incrementCPUBurst
  <2>1. /\ phase' = "endOfCycle" /\ step' = Bump(step, Running)
        /\ UNCHANGED <<process_frm_datafile, ioWaitingQ, currentBurst>>
    BY <1>8 DEF incrementCPUBurst, Goto, places, input
  <2>2. \A p \in Waiting : step'[p] = step[p]
    BY <1>1, <2>1 DEF Bump
  <2> QED
    BY <1>5, <2>1, <2>2
<1> QED
  BY <1>2, <1>3, <1>4, <1>6, <1>7, <1>8 DEF Next

(* The assertion of fromIOWaitingToPreReady never fails. *)
THEOREM NoBurstOvershot == Spec => []StepAssertion
<1>1. StepInv => StepAssertion
  BY DEF StepInv
<1> QED
  BY InitPlaceInv, NextPlaceInv, InitStepInv, NextStepInv, <1>1, PTL DEF Spec
-----------------------------------------------------------------------------
(* The times.  What has to be known besides the accounts is that a process  *)
(* is admitted in the very cycle it arrives in.                             *)

AgeInv ==
  /\ TimeAccounting
  /\ SortedByArrival(process_frm_datafile)
  /\ \A p \in Procs : p > nextProcess =>
       /\ waitingTime[p] = 0 /\ served[p] = 0
       /\ clock_cycle <= arrivalTime(p)
       /\ phase # "admit" => clock_cycle < arrivalTime(p)

\* The phases in which no process has been counted yet.
Uncounted == {"admit", "running", "io", "sort", "dispatch", "incrementIO"}

LEMMA TimeTypes ==
  ASSUME TypeOK, NEW p \in Procs
  PROVE  /\ arrivalTime(p) \in Nat /\ waitingTime[p] \in Nat /\ served[p] \in Nat
         /\ endTime[p] \in Nat /\ clock_cycle \in Nat
  BY OddBursts DEF TypeOK, arrivalTime

LEMMA NotCounted == phase \in Uncounted => Counted = {}
  BY DEF Uncounted, Counted

LEMMA InitAgeInv == Init => AgeInv
<1> SUFFICES ASSUME Init PROVE AgeInv
  OBVIOUS
<1>1. PlaceInv /\ TypeOK
  BY InitPlaceInv DEF PlaceInv, TypeInv
<1>2. Active = {} /\ Ended = {}
  BY <1>1 DEF Init, PlaceInv, OnePlace
<1>3. \A p \in Procs : 0 <= arrivalTime(p)
  BY <1>1, TimeTypes
<1> QED
  BY <1>2, <1>3 DEF Init, AgeInv, TimeAccounting, SortedInputs

(* The steps that move processes without ending a burst. *)
LEMMA QuietTimes ==
  ASSUME PlaceInv, PlaceInv', AgeInv, phase \in Uncounted, phase' \in Uncounted,
         UNCHANGED <<process_frm_datafile, clock_cycle, nextProcess, currentBurst,
                     waitingTime, served, endTime>>,
         phase = "admit" => phase' = "admit"
  PROVE  AgeInv'
<1>1. Procs' = Procs /\ Ended' = Ended
  BY DEF Procs, totalProcesses, Ended, numberOfBursts
<1>2. Active' = Active
  BY <1>1 DEF PlaceInv, OnePlace
<1>3. Counted = {} /\ Counted' = {}
  BY NotCounted DEF Uncounted, Counted
<1>4. \A p \in Procs : arrivalTime(p)' = arrivalTime(p)
  BY DEF arrivalTime
<1>5. Active \subseteq Procs /\ Ended \subseteq Procs
  BY ActiveBurst DEF Ended
<1>6. TimeAccounting'
  BY <1>1, <1>2, <1>3, <1>4, <1>5 DEF AgeInv, TimeAccounting
<1> QED
  BY <1>1, <1>4, <1>6 DEF AgeInv

(* The steps that end a burst of a process: it stays in some place, or its end
   is recorded. *)
LEMMA EndBurstTimes ==
  ASSUME PlaceInv, PlaceInv', AgeInv, NEW p \in Active, NextBurst(p),
         phase \in Uncounted \ {"admit"}, phase' = phase,
         UNCHANGED <<process_frm_datafile, clock_cycle, nextProcess, waitingTime,
                     served>>,
         \A q \in Procs : q # p => endTime'[q] = endTime[q],
         p \in Active' \/ endTime'[p] = clock_cycle
  PROVE  AgeInv'
<1>1. Procs' = Procs /\ p \in Procs /\ TypeOK
  BY ActiveBurst DEF Procs, totalProcesses, PlaceInv, TypeInv
<1>2. \A q \in Procs : q # p => (q \in Ended' <=> q \in Ended)
  <2>1. \A q \in Procs : q # p => currentBurst'[q] = currentBurst[q]
    BY <1>1 DEF NextBurst, TypeOK
  <2>2. \A q \in Procs : numberOfBursts(q)' = numberOfBursts(q)
    BY DEF numberOfBursts
  <2> QED
    BY <1>1, <2>1, <2>2 DEF Ended
<1>3. Active \subseteq Procs /\ Ended \subseteq Procs /\ p \notin Ended
  BY ActiveBurst DEF Ended
<1>4. \A q \in Active' : q \in Active
  <2>1. Active' \cup Ended' = 1 .. nextProcess /\ Active' \cap Ended' = {}
    BY DEF PlaceInv, OnePlace
  <2>2. Active \cup Ended = 1 .. nextProcess
    BY DEF PlaceInv, OnePlace
  <2> QED
    BY <1>2, <1>3, <2>1, <2>2
<1>5. Counted = {} /\ Counted' = {}
  BY NotCounted DEF Uncounted, Counted
<1>6. \A q \in Procs : arrivalTime(q)' = arrivalTime(q)
  BY DEF arrivalTime
<1>7. \A q \in Active : clock_cycle - arrivalTime(q) = waitingTime[q] + served[q]
  BY <1>1, <1>3, <1>5, TimeTypes DEF AgeInv, TimeAccounting
<1>8. \A q \in Active' :
        clock_cycle' - arrivalTime(q)' + (IF q \in Counted' THEN 1 ELSE 0)
          = waitingTime'[q] + served'[q]
  BY <1>1, <1>3, <1>4, <1>5, <1>6, <1>7, TimeTypes
<1>9. \A q \in Ended' : endTime'[q] - arrivalTime(q)' = waitingTime'[q] + served'[q]
  <2>1. Ended' \subseteq Procs
    BY <1>1 DEF Ended
  <2>2. ASSUME NEW q \in Ended', q # p
        PROVE  endTime'[q] - arrivalTime(q)' = waitingTime'[q] + served'[q]
    <3>1. q \in Ended /\ q \in Procs /\ endTime'[q] = endTime[q]
      BY <1>2, <2>1, <2>2
    <3> QED
      BY <1>6, <3>1 DEF AgeInv, TimeAccounting
  <2>3. p \in Ended' => endTime'[p] = clock_cycle
    BY DEF PlaceInv, OnePlace
  <2>4. p \in Ended' => endTime'[p] - arrivalTime(p)' = waitingTime'[p] + served'[p]
    BY <1>1, <1>6, <1>7, <2>3
  <2> QED
    BY <2>2, <2>4
<1>10. TimeAccounting'
  BY <1>8, <1>9 DEF TimeAccounting
<1> QED
  BY <1>1, <1>6, <1>10 DEF AgeInv

(* The steps that count a cycle of some of the processes. *)
LEMMA CountTimes ==
  ASSUME PlaceInv, AgeInv, NEW S, S \subseteq Active,
         UNCHANGED <<process_frm_datafile, clock_cycle, nextProcess, currentBurst,
                     places, endTime>>,
         phase # "admit", S \cap Counted = {}, Counted' = Counted \cup S,
         \/ waitingTime' = Bump(waitingTime, S) /\ UNCHANGED served
         \/ served' = Bump(served, S) /\ UNCHANGED waitingTime
  PROVE  AgeInv'
<1>1. /\ Procs' = Procs /\ Ended' = Ended /\ Active' = Active /\ TypeOK
      /\ \A p \in Procs : arrivalTime(p)' = arrivalTime(p)
  BY DEF Procs, totalProcesses, Ended, numberOfBursts, arrivalTime, Active, Ready,
     Running, Waiting, places, PlaceInv, TypeInv
<1>2. /\ Active \subseteq Procs /\ Ended \subseteq Procs /\ Active \cap Ended = {}
      /\ \A p \in Active : p \in 1 .. nextProcess
  BY ActiveBurst DEF Ended
<1>3. \A p \in Procs :
        waitingTime'[p] + served'[p]
          = waitingTime[p] + served[p] + (IF p \in S THEN 1 ELSE 0)
  <2>1. \A p \in Procs : waitingTime[p] \in Nat /\ served[p] \in Nat
    BY <1>1, TimeTypes
  <2> QED
    BY <2>1 DEF Bump
<1>4. \A p \in Procs : p \notin S => /\ waitingTime'[p] = waitingTime[p]
                                     /\ served'[p] = served[p]
  BY DEF Bump
<1>5. ASSUME NEW p \in Active
      PROVE  clock_cycle - arrivalTime(p) + (IF p \in Counted' THEN 1 ELSE 0)
               = waitingTime'[p] + served'[p]
  <2>1. clock_cycle - arrivalTime(p) + (IF p \in Counted THEN 1 ELSE 0)
          = waitingTime[p] + served[p]
    BY DEF AgeInv, TimeAccounting
  <2>2. p \in Procs
    BY <1>2
  <2>3. clock_cycle - arrivalTime(p) \in Int
    BY <1>1, <2>2, TimeTypes
  <2>4. waitingTime'[p] + served'[p]
          = waitingTime[p] + served[p] + (IF p \in S THEN 1 ELSE 0)
    BY <1>3, <2>2
  <2>5. CASE p \in S
    BY <2>1, <2>3, <2>4, <2>5
  <2>6. CASE p \notin S
    BY <2>1, <2>3, <2>4, <2>6
  <2> QED
    BY <2>5, <2>6
<1>6. TimeAccounting'
  BY <1>1, <1>2, <1>4, <1>5 DEF AgeInv, TimeAccounting
<1>7. \A p \in Procs : p > nextProcess => p \notin S
  BY <1>1, <1>2 DEF TypeOK
<1> QED
  BY <1>1, <1>4, <1>6, <1>7 DEF AgeInv

LEMMA AdmitTimes ==
  ASSUME PlaceInv, PlaceInv', AgeInv, Admit PROVE AgeInv'
<1>0. PICK p : p = nextProcess + 1
  OBVIOUS
<1>1. /\ nextProcess < totalProcesses /\ nextProcess' = p
      /\ arrivalTime(p) <= clock_cycle /\ phase = "admit" /\ phase' = "admit"
      /\ UNCHANGED <<process_frm_datafile, currentBurst, clock_cycle, waitingTime,
                     served, endTime>>
  BY <1>0 DEF Admit, Arrived, At, Goto, input, progress, times, arrivalTime
<1>2. TypeOK /\ nextProcess \in Nat /\ totalProcesses \in Nat
  <2>1. TypeOK /\ nextProcess \in 0 .. totalProcesses
    BY DEF PlaceInv, TypeInv, TypeOK
  <2> QED
    BY <2>1, ProcFacts
<1>3. p \in Procs /\ p > nextProcess /\ 1 .. p = (1 .. nextProcess) \cup {p}
  BY <1>0, <1>1, <1>2 DEF Procs
<1>4. waitingTime[p] = 0 /\ served[p] = 0 /\ clock_cycle = arrivalTime(p)
  <2>1. arrivalTime(p) \in Nat /\ clock_cycle \in Nat
    BY <1>2, <1>3, TimeTypes
  <2> QED
    BY <1>1, <1>3, <2>1 DEF AgeInv
<1>5. /\ Procs' = Procs /\ Ended' = Ended
      /\ \A q \in Procs : arrivalTime(q)' = arrivalTime(q)
  BY <1>1 DEF Procs, totalProcesses, Ended, numberOfBursts, arrivalTime
<1>6. Active' \subseteq Active \cup {p}
  <2>1. Active' \cup Ended' = 1 .. nextProcess' /\ Active' \cap Ended' = {}
    BY DEF PlaceInv, OnePlace
  <2>2. Active \cup Ended = 1 .. nextProcess
    BY DEF PlaceInv, OnePlace
  <2> QED
    BY <1>1, <1>3, <1>5, <2>1, <2>2
<1>7. Counted = {} /\ Counted' = {}
  BY <1>1 DEF Counted
<1>8. Active \subseteq Procs /\ Ended \subseteq Procs
  BY ActiveBurst DEF Ended
<1>9. ASSUME NEW q \in Active'
      PROVE  clock_cycle - arrivalTime(q) + 0 = waitingTime[q] + served[q]
  <2>1. CASE q \in Active
    BY <1>7, <2>1 DEF AgeInv, TimeAccounting
  <2>2. CASE q = p
    BY <1>2, <1>3, <1>4, <2>2, TimeTypes
  <2> QED
    BY <1>6, <2>1, <2>2
<1>10. TimeAccounting'
  <2>1. Active' \subseteq Procs
    BY <1>3, <1>6, <1>8
  <2> QED
    BY <1>1, <1>5, <1>7, <1>8, <1>9, <2>1 DEF AgeInv, TimeAccounting
<1>11. \A q \in Procs : q > p => q > nextProcess
  BY <1>0, <1>2, ProcFacts
<1> QED
  BY <1>1, <1>5, <1>10, <1>11 DEF AgeInv

LEMMA AdmitDoneTimes ==
  ASSUME PlaceInv, PlaceInv', AgeInv, AdmitDone PROVE AgeInv'
<1>1. /\ phase = "admit" /\ phase' = "running" /\ ~Arrived
      /\ UNCHANGED <<process_frm_datafile, clock_cycle, nextProcess, currentBurst,
                     waitingTime, served, endTime>>
  BY DEF AdmitDone, At, Proceed, Goto, input, progress, times
<1>2. TypeOK /\ nextProcess \in Nat /\ totalProcesses \in Nat
  <2>1. TypeOK /\ nextProcess \in 0 .. totalProcesses
    BY DEF PlaceInv, TypeInv, TypeOK
  <2> QED
    BY <2>1, ProcFacts
<1>3. ASSUME NEW p \in Procs, p > nextProcess PROVE clock_cycle < arrivalTime(p)
  <2>0. PICK n : n = nextProcess + 1
    OBVIOUS
  <2>1. n \in Procs /\ (n < p \/ n = p) /\ nextProcess < totalProcesses
    BY <1>2, <1>3, <2>0 DEF Procs
  <2>2. arrivalTime(n) \in Nat /\ arrivalTime(p) \in Nat /\ clock_cycle \in Nat
    BY <1>2, <2>1, TimeTypes
  <2>3. ~(arrivalTime(n) <= clock_cycle)
    BY <1>1, <2>0, <2>1 DEF Arrived, arrivalTime
  <2>4. n < p => arrivalTime(n) <= arrivalTime(p)
    <3>1. DOMAIN process_frm_datafile = Procs
      BY <1>2 DEF TypeOK, Procs, totalProcesses
    <3>2. n < p => compareByArrival(process_frm_datafile[n], process_frm_datafile[p]) <= 0
      BY <2>1, <3>1 DEF AgeInv, SortedByArrival
    <3>3. arrivalTime(n) > arrivalTime(p)
            => compareByArrival(process_frm_datafile[n], process_frm_datafile[p]) = 1
      BY <2>2 DEF compareByArrival, arrivalTime
    <3> QED
      BY <2>2, <3>2, <3>3
  <2> QED
    BY <2>1, <2>2, <2>3, <2>4
<1>4. /\ Procs' = Procs /\ Ended' = Ended
      /\ \A q \in Procs : arrivalTime(q)' = arrivalTime(q)
  BY <1>1 DEF Procs, totalProcesses, Ended, numberOfBursts, arrivalTime
<1>5. Active' = Active
  BY <1>1, <1>4 DEF PlaceInv, OnePlace
<1>6. Counted = {} /\ Counted' = {}
  BY <1>1 DEF Counted
<1>7. Active \subseteq Procs /\ Ended \subseteq Procs
  BY ActiveBurst DEF Ended
<1>8. TimeAccounting'
  BY <1>1, <1>4, <1>5, <1>6, <1>7 DEF AgeInv, TimeAccounting
<1> QED
  BY <1>1, <1>3, <1>4, <1>8 DEF AgeInv

LEMMA EndOfCycleTimes ==
  ASSUME PlaceInv, AgeInv, EndOfCycle PROVE AgeInv'
<1>1. /\ phase = "endOfCycle"
      /\ UNCHANGED <<process_frm_datafile, nextProcess, currentBurst, waitingTime,
                     served, endTime, places>>
  BY DEF EndOfCycle, At, input, progress, times
<1>2. /\ Procs' = Procs /\ Ended' = Ended /\ Active' = Active /\ TypeOK
      /\ \A q \in Procs : arrivalTime(q)' = arrivalTime(q)
  BY <1>1 DEF Procs, totalProcesses, Ended, numberOfBursts, arrivalTime, Active,
     Ready, Running, Waiting, places, PlaceInv, TypeInv
<1>3. Counted = Active
  BY <1>1 DEF Counted, Active
<1>4. Active \subseteq Procs /\ Ended \subseteq Procs
  BY ActiveBurst DEF Ended
<1>5. CASE LastCycle
  <2>1. clock_cycle' = clock_cycle /\ phase' = phase
    BY <1>5 DEF EndOfCycle
  <2>2. Counted' = Counted
    BY <1>1, <1>2, <1>3, <2>1 DEF Counted, Active
  <2>3. TimeAccounting'
    BY <1>1, <1>2, <1>4, <2>1, <2>2 DEF AgeInv, TimeAccounting
  <2> QED
    BY <1>1, <1>2, <2>1, <2>3 DEF AgeInv
<1>6. CASE ~LastCycle
  <2>1. clock_cycle' = clock_cycle + 1 /\ phase' = "admit"
    BY <1>6 DEF EndOfCycle
  <2>2. Counted' = {}
    BY <2>1 DEF Counted
  <2>3. ASSUME NEW p \in Active
        PROVE  clock_cycle + 1 - arrivalTime(p) + 0 = waitingTime[p] + served[p]
    <3>1. clock_cycle - arrivalTime(p) + 1 = waitingTime[p] + served[p]
      BY <1>3 DEF AgeInv, TimeAccounting
    <3>2. clock_cycle \in Nat /\ arrivalTime(p) \in Nat
      BY <1>2, <1>4, TimeTypes
    <3> QED
      BY <3>1, <3>2
  <2>4. TimeAccounting'
    <3>1. ASSUME NEW p \in Active'
          PROVE  clock_cycle' - arrivalTime(p)' + (IF p \in Counted' THEN 1 ELSE 0)
                   = waitingTime'[p] + served'[p]
      <4>1. p \in Active /\ p \in Procs /\ p \notin Counted'
        BY <1>2, <1>4, <2>2
      <4>2. arrivalTime(p)' = arrivalTime(p) /\ clock_cycle' = clock_cycle + 1
        BY <1>2, <2>1, <4>1
      <4>3. clock_cycle' - arrivalTime(p)' + 0 = waitingTime[p] + served[p]
        <5>1. clock_cycle \in Nat /\ arrivalTime(p) \in Nat
          BY <1>2, <4>1, TimeTypes
        <5>2. clock_cycle + 1 - arrivalTime(p) + 0 = waitingTime[p] + served[p]
          BY <2>3, <4>1
        <5> QED
          BY <4>2, <5>1, <5>2
      <4> QED
        BY <1>1, <4>1, <4>3
    <3>2. \A p \in Ended' :
            endTime'[p] - arrivalTime(p)' = waitingTime'[p] + served'[p]
      BY <1>1, <1>2, <1>4 DEF AgeInv, TimeAccounting
    <3> QED
      BY <3>1, <3>2 DEF TimeAccounting
  <2>5. \A p \in Procs : clock_cycle < arrivalTime(p) => clock_cycle + 1 <= arrivalTime(p)
    BY <1>2, TimeTypes
  <2> QED
    BY <1>1, <1>2, <2>1, <2>4, <2>5 DEF AgeInv
<1> QED
  BY <1>5, <1>6

LEMMA NextAgeInv ==
  PlaceInv /\ PlaceInv' /\ DispatchInv /\ AgeInv /\ [Next]_vars => AgeInv'
<1> SUFFICES ASSUME PlaceInv, PlaceInv', DispatchInv, AgeInv, [Next]_vars
             PROVE  AgeInv'
  OBVIOUS
<1>1. TypeInv /\ TypeOK
  BY DEF PlaceInv, TypeInv
<1>2. CASE Admit \/ AdmitDone \/ EndOfCycle
  BY <1>2, AdmitTimes, AdmitDoneTimes, EndOfCycleTimes
<1>3. CASE Block \/ Finish
  <2>0. PICK p : p = cpu[i]
    OBVIOUS
  <2>1. /\ NextBurst(p) /\ phase = "running" /\ phase' = "running" /\ p # NULL
        /\ UNCHANGED <<process_frm_datafile, clock_cycle, nextProcess, waitingTime,
                       served>>
    BY <1>3, <2>0 DEF Block, Finish, AtCPU, At, Vacate, Goto, input, times
  <2>2. i \in CPUs
    BY <1>1, <1>3, AtCPUIndex DEF Block, Finish
  <2>3. p \in Procs /\ p \in Active
    BY <1>1, <2>0, <2>1, <2>2 DEF TypeOK, Active, Running
  <2>4. /\ \A q \in Procs : q # p => endTime'[q] = endTime[q]
        /\ p \in Active' \/ endTime'[p] = clock_cycle
    <3>1. CASE Block
      <4>1. ioWaitingQ' = Append(ioWaitingQ, p) /\ UNCHANGED endTime
        BY <2>0, <3>1 DEF Block, times
      <4>2. p \in Range(ioWaitingQ')
        BY <1>1, <2>3, <4>1, AppendRange DEF TypeOK
      <4> QED
        BY <4>1, <4>2 DEF Active, Waiting
    <3>2. CASE Finish
      BY <1>1, <2>0, <2>3, <3>2 DEF Finish, TypeOK
    <3> QED
      BY <1>3, <3>1, <3>2
  <2> QED
    BY <2>1, <2>3, <2>4, EndBurstTimes DEF Uncounted
<1>4. CASE Wake
  <2>0. PICK p : p = Head(ioWaitingQ)
    OBVIOUS
  <2>1. /\ NextBurst(p) /\ phase = "io" /\ phase' = "io"
        /\ preReadyQ' = preReadyQ \cup {p}
        /\ endTime' = [endTime EXCEPT ![p] = clock_cycle]
        /\ UNCHANGED <<process_frm_datafile, clock_cycle, nextProcess, waitingTime,
                       served>>
    BY <1>4, <2>0 DEF Wake, AtFront, At, Goto, input
  <2>2. p \in Active /\ p \in Procs
    <3>1. ioWaitingQ \in Seq(Procs) /\ ioWaitingQ # <<>>
      BY <1>1, <1>4, WaitingFront DEF Wake, TypeOK
    <3> QED
      BY <2>0, <3>1, TailRange DEF Active, Waiting
  <2>3. p \in Active' /\ \A q \in Procs : q # p => endTime'[q] = endTime[q]
    BY <1>1, <2>1, <2>2 DEF Active, Ready, TypeOK
  <2> QED
    BY <2>1, <2>2, <2>3, EndBurstTimes DEF Uncounted
<1>5. CASE incrementIOWaiting
  <2>1. /\ phase = "incrementIO" /\ phase' = "incrementReady"
        /\ served' = Bump(served, Waiting)
        /\ UNCHANGED <<process_frm_datafile, clock_cycle, nextProcess, currentBurst,
                       places, endTime, waitingTime>>
    BY <1>5 DEF incrementIOWaiting, At, Goto, Waiting, input
  <2>2. Counted = {} /\ Counted' = Waiting
    BY <2>1 DEF Counted, Waiting, places
  <2> QED
    BY <2>1, <2>2, CountTimes DEF Active
<1>6. CASE incrementReadyQIdle
  <2>1. /\ phase = "incrementReady" /\ phase' = "incrementCPU" /\ preReadyQ = {}
        /\ waitingTime' = Bump(waitingTime, Range(readyQ))
        /\ UNCHANGED <<process_frm_datafile, clock_cycle, nextProcess, currentBurst,
                       places, endTime, served>>
    BY <1>6 DEF incrementReadyQIdle, At, Goto, input, progress, DispatchInv, Executing
  <2>2. Ready = Range(readyQ)
    BY <2>1 DEF Ready
  <2>3. Counted = Waiting /\ Counted' = Waiting \cup Ready
    BY <2>1 DEF Counted, Waiting, Ready, places
  <2>4. Ready \cap Counted = {}
    BY <2>3 DEF PlaceInv, OnePlace
  <2> QED
    BY <2>1, <2>2, <2>3, <2>4, CountTimes DEF Active
<1>7. CASE incrementCPUBurst
  <2>1. /\ phase = "incrementCPU" /\ phase' = "endOfCycle"
        /\ served' = Bump(served, Running)
        /\ UNCHANGED <<process_frm_datafile, clock_cycle, nextProcess, currentBurst,
                       places, endTime, waitingTime>>
    BY <1>7 DEF incrementCPUBurst, At, Goto, input
  <2>2. Counted = Waiting \cup Ready /\ Counted' = Waiting \cup Ready \cup Running
    BY <2>1 DEF Counted, Waiting, Ready, Running, places, Procs, totalProcesses
  <2>3. Running \cap Counted = {}
    BY <2>2 DEF PlaceInv, OnePlace
  <2> QED
    BY <2>1, <2>2, <2>3, CountTimes DEF Active
<1>8. CASE \/ Preempt \/ Continue \/ RunningDone \/ KeepWaiting \/ IODone
           \/ SortAssertFails \/ EnqueueReady \/ SortDone \/ Dispatch \/ NoDispatch
           \/ DispatchDone
  <2>1. /\ phase \in Uncounted /\ phase' \in Uncounted /\ phase # "admit"
        /\ UNCHANGED <<process_frm_datafile, clock_cycle, nextProcess, currentBurst,
                       waitingTime, served, endTime>>
    BY <1>8 DEF Uncounted, Preempt, Continue, RunningDone, KeepWaiting, IODone,
       SortAssertFails, EnqueueReady, SortDone, Dispatch, NoDispatch, DispatchDone,
       AtFront, AtCPU, At, Proceed, Vacate, Goto, input, progress, times
  <2> QED
    BY <2>1, QuietTimes
<1>9. CASE UNCHANGED vars
  BY <1>9 DEF vars, input, position, places, progress, times, AgeInv, TimeAccounting,
     Active, Ready, Running, Waiting, Ended, Procs, totalProcesses, numberOfBursts,
     Counted, arrivalTime
<1> QED
  BY <1>2, <1>3, <1>4, <1>5, <1>6, <1>7, <1>8, <1>9 DEF Next

(* Every cycle of a process between its arrival and its end is counted exactly
   once. *)
THEOREM TimesAccounted == Spec => []TimeAccounting
<1>1. AgeInv => TimeAccounting
  BY DEF AgeInv
<1>2. PlaceInv => TypeInv
  BY DEF PlaceInv
<1> QED
  BY InitPlaceInv, NextPlaceInv, InitDispatchInv, NextDispatchInv, InitAgeInv,
     NextAgeInv, <1>1, <1>2, PTL DEF Spec
-----------------------------------------------------------------------------
LEMMA PlaceTypes ==
  ASSUME PlaceInv
  PROVE  TypeOK /\ nextProcess \in Nat
<1>1. TypeOK
  BY DEF PlaceInv, TypeInv
<1>2. totalProcesses \in Nat
  BY <1>1, ProcFacts
<1>3. nextProcess \in 0 .. totalProcesses
  BY <1>1 DEF TypeOK
<1> QED
  BY <1>1, <1>2, <1>3

(* What the refinement mapping makes of the places. *)
LEMMA StateFacts ==
  ASSUME PlaceInv, NEW p \in Procs
  PROVE  /\ p \in Ready <=> StateOf(p) = "ready"
         /\ p \in Running <=> StateOf(p) = "running"
         /\ p \in Waiting <=> StateOf(p) = "waiting"
         /\ p > nextProcess <=> StateOf(p) = "new"
         /\ p \in Ended <=> StateOf(p) = "terminated"
<1>1. p \in Nat /\ nextProcess \in Nat /\ p > 0
  <2>1. TypeOK /\ nextProcess \in Nat
    BY PlaceTypes
  <2>2. Procs \subseteq Nat \ {0}
    BY <2>1, ProcFacts
  <2> QED
    BY <2>1, <2>2
<1>2. p > nextProcess <=> p \notin 1 .. nextProcess
  BY <1>1
<1>3. p \in 1 .. nextProcess <=> p \in Active \cup Ended
  BY DEF PlaceInv, OnePlace
<1>4. /\ ~(p \in Ready /\ p \in Running) /\ ~(p \in Ready /\ p \in Waiting)
      /\ ~(p \in Running /\ p \in Waiting) /\ ~(p \in Active /\ p \in Ended)
  BY DEF PlaceInv, OnePlace
<1>5. p \in Active <=> p \in Ready \/ p \in Running \/ p \in Waiting
  BY DEF Active
<1> QED
  BY <1>2, <1>3, <1>4, <1>5 DEF StateOf

LEMMA NextStateFacts ==
  ASSUME PlaceInv', UNCHANGED nextProcess, nextProcess \in Nat, NEW p \in 1 .. nextProcess
  PROVE  /\ p \in Ready' => StateOf(p)' = "ready"
         /\ p \in Running' => StateOf(p)' = "running"
         /\ p \in Waiting' => StateOf(p)' = "waiting"
         /\ p \in Ended' => StateOf(p)' = "terminated"
<1>1. ~(p > nextProcess')
  OBVIOUS
<1>2. /\ ~(p \in Ready' /\ p \in Running') /\ ~(p \in Ready' /\ p \in Waiting')
      /\ ~(p \in Running' /\ p \in Waiting') /\ ~(p \in Active' /\ p \in Ended')
  BY DEF PlaceInv, OnePlace
<1>3. p \in Ready' \/ p \in Running' \/ p \in Waiting' => p \in Active'
  BY DEF Active
<1> QED
  BY <1>1, <1>2, <1>3 DEF StateOf

LEMMA LifecycleStep ==
  ASSUME UNCHANGED process_frm_datafile, NEW p \in Procs, NEW from, NEW to,
         StateOf(p) = from, StateOf(p)' = to,
         \A q \in Procs : q # p => StateOf(q)' = StateOf(q)
  PROVE  Lifecycle!Step(p, from, to) /\ p \in Lifecycle!Procs
<1>1. Procs' = Procs /\ \A q \in Procs : numberOfBursts(q)' = numberOfBursts(q)
  BY DEF Procs, totalProcesses, numberOfBursts
<1>2. [q \in Procs |-> StateOf(q)]' = [[q \in Procs |-> StateOf(q)] EXCEPT ![p] = to]
  BY <1>1
<1>3. [q \in Procs |-> numberOfBursts(q)]' = [q \in Procs |-> numberOfBursts(q)]
  BY <1>1
<1>4. [q \in Procs |-> StateOf(q)][p] = from
  OBVIOUS
<1> QED
  BY <1>2, <1>3, <1>4 DEF Lifecycle!Step, Lifecycle!Procs

(* A process moves and the others stay where they are. *)
LEMMA OthersStay ==
  ASSUME UNCHANGED nextProcess, NEW p, NEW ready, NEW running, NEW waiting,
         Placed(ready, running, waiting),
         ready \ {p} = Ready \ {p}, running \ {p} = Running \ {p},
         waiting \ {p} = Waiting \ {p}
  PROVE  \A q \in Procs : q # p => StateOf(q)' = StateOf(q)
<1>1. \A q \in Procs : q # p => /\ q \in Ready' <=> q \in Ready
                                /\ q \in Running' <=> q \in Running
                                /\ q \in Waiting' <=> q \in Waiting
  BY DEF Placed
<1> QED
  BY <1>1 DEF StateOf

(* There is room for the process that is dispatched. *)
LEMMA FreeProcessor ==
  ASSUME TypeOK, i \in CPUs, cpu[i] = NULL
  PROVE  Cardinality(Running) < NUMBER_OF_PROCESSORS
<1> DEFINE Busy == {c \in CPUs : cpu[c] \in Running}
           f    == [c \in Busy |-> cpu[c]]
<1>1. cpu \in [CPUs -> Procs \cup {NULL}] /\ NULL \notin Procs
  BY ProcFacts DEF TypeOK
<1>2. f \in Surjection(Busy, Running)
  BY DEF Surjection, Running
<1>3. Busy \subseteq CPUs \ {i}
  BY <1>1 DEF Running
<1>4. /\ IsFiniteSet(CPUs) /\ Cardinality(CPUs) = NUMBER_OF_PROCESSORS
      /\ NUMBER_OF_PROCESSORS \in Nat
  <2>1. NUMBER_OF_PROCESSORS \in Nat \ {0}
    BY SchAssumption
  <2> QED
    BY <2>1, FS_Interval DEF CPUs
<1>5. /\ IsFiniteSet(CPUs \ {i})
      /\ Cardinality(CPUs \ {i}) = NUMBER_OF_PROCESSORS - 1
  BY <1>4, FS_RemoveElement
<1>6. IsFiniteSet(Busy) /\ Cardinality(Busy) <= NUMBER_OF_PROCESSORS - 1
  BY <1>3, <1>5, FS_Subset
<1>7. Cardinality(Running) <= Cardinality(Busy)
  <2> HIDE DEF Busy, f
  <2> QED
    BY <1>2, <1>6, FS_Surjection
<1>8. Cardinality(Running) \in Nat /\ Cardinality(Busy) \in Nat
  BY <1>6, ProcFacts, FS_CardinalityType
<1> QED
  BY <1>4, <1>6, <1>7, <1>8
-----------------------------------------------------------------------------
LEMMA InitRefines == Init => Lifecycle!Init
<1> SUFFICES ASSUME Init PROVE Lifecycle!Init
  OBVIOUS
<1>1. PlaceInv /\ TypeOK /\ IsFiniteSet(Procs)
  BY InitPlaceInv, ProcFacts DEF PlaceInv, TypeInv
<1>2. \A p \in Procs : StateOf(p) = "new"
  <2>1. \A p \in Procs : p > nextProcess
    BY <1>1, ProcFacts DEF Init
  <2> QED
    BY <1>1, <2>1, StateFacts
<1>3. \A p \in Procs : numberOfBursts(p) \in Nat /\ numberOfBursts(p) % 2 = 1
  BY <1>1, OddBursts
<1>4. DOMAIN [p \in Procs |-> StateOf(p)] = Procs
  OBVIOUS
<1>5. [p \in Procs |-> StateOf(p)] = [p \in Procs |-> "new"]
  BY <1>2
<1>6. [p \in Procs |-> numberOfBursts(p)] \in [Procs -> {b \in Nat : b % 2 = 1}]
  BY <1>3
<1>7. Lifecycle!Procs = Procs
  BY <1>4 DEF Lifecycle!Procs
<1>8. Lifecycle!IsFiniteSet(Lifecycle!Procs)
  BY <1>1, <1>7 DEF IsFiniteSet, Lifecycle!IsFiniteSet
<1>9. [p \in Procs |-> StateOf(p)] = [p \in Lifecycle!Procs |-> "new"]
  BY <1>5, <1>7
<1>10. currentBurst = [p \in Lifecycle!Procs |-> 0]
  BY <1>7 DEF Init
<1>11. [p \in Procs |-> numberOfBursts(p)]
          \in [Lifecycle!Procs -> {b \in Nat : b % 2 = 1}]
  BY <1>6, <1>7
<1> HIDE DEF Init
<1> QED
  BY <1>8, <1>9, <1>10, <1>11 DEF Lifecycle!Init

LEMMA NextRefines ==
  PlaceInv /\ PlaceInv' /\ [Next]_vars
    => Lifecycle!Next \/ UNCHANGED Lifecycle!vars
<1> SUFFICES ASSUME PlaceInv, PlaceInv', [Next]_vars
             PROVE  Lifecycle!Next \/ UNCHANGED Lifecycle!vars
  OBVIOUS
<1> DEFINE states == [p \in Procs |-> StateOf(p)]
<1>1. /\ TypeOK /\ nextProcess \in Nat /\ Active \subseteq Procs
      /\ Ready \subseteq Procs /\ Running \subseteq Procs /\ Waiting \subseteq Procs
  <2>1. TypeOK /\ nextProcess \in Nat
    BY PlaceTypes
  <2>2. Active \subseteq Procs
    BY ActiveBurst
  <2> QED
    BY <2>1, <2>2 DEF Active
<1>2. ASSUME UNCHANGED process_frm_datafile
      PROVE  /\ Procs' = Procs
             /\ \A p \in Procs : numberOfBursts(p)' = numberOfBursts(p)
  BY <1>2 DEF Procs, totalProcesses, numberOfBursts
<1>3. ASSUME UNCHANGED <<process_frm_datafile, nextProcess, currentBurst>>,
             Placed(Ready, Running, Waiting)
      PROVE  UNCHANGED Lifecycle!vars
  <2>1. \A p \in Procs : StateOf(p)' = StateOf(p)
    BY <1>3 DEF StateOf, Placed
  <2>2. states' = states
    BY <1>2, <1>3, <2>1
  <2>3. [p \in Procs |-> numberOfBursts(p)]' = [p \in Procs |-> numberOfBursts(p)]
    BY <1>2, <1>3
  <2> QED
    BY <1>3, <2>2, <2>3 DEF Lifecycle!vars
<1>4. CASE Admit
  <2>0. PICK p : p = nextProcess + 1
    OBVIOUS
  <2>1. /\ nextProcess < totalProcesses /\ nextProcess' = p
        /\ UNCHANGED <<process_frm_datafile, currentBurst>>
    BY <1>4, <2>0 DEF Admit, Arrived, Goto, input, progress
  <2>2. Placed(Ready \cup {p}, Running, Waiting)
    BY <1>4, <2>0, AdmitPlaces
  <2>3. nextProcess \in Nat /\ totalProcesses \in Nat
    BY <1>1, ProcFacts DEF TypeOK
  <2>4. p \in Procs /\ p > nextProcess /\ Procs' = Procs
    BY <1>2, <2>0, <2>1, <2>3 DEF Procs
  <2>5. StateOf(p) = "new" /\ StateOf(p)' = "ready"
    <3>1. p \in Ready' /\ ~(p > nextProcess')
      BY <2>1, <2>2, <2>4 DEF Placed, Procs
    <3>2. StateOf(p)' = "ready"
      BY <3>1 DEF StateOf
    <3> QED
      BY <2>4, <3>2 DEF StateOf
  <2>6. \A q \in Procs : q # p => (q > nextProcess' <=> q > nextProcess)
    BY <2>0, <2>1, <2>3, <1>1, ProcFacts
  <2>7. \A q \in Procs : q # p => StateOf(q)' = StateOf(q)
    BY <2>2, <2>6 DEF StateOf, Placed
  <2>8. Lifecycle!Step(p, "new", "ready") /\ p \in Lifecycle!Procs
    BY <2>1, <2>4, <2>5, <2>7, LifecycleStep
  <2> QED
    BY <2>1, <2>8 DEF Lifecycle!Next, Lifecycle!Admit
<1>5. CASE Block
  <2>1. UNCHANGED <<process_frm_datafile, nextProcess>>
    BY <1>5 DEF Block, Vacate, Goto, input
  <2>2. PICK p \in Running : /\ Placed(Ready, Running \ {p}, Waiting \cup {p})
                             /\ NextBurst(p)
                             /\ currentBurst[p] + 1 < numberOfBursts(p)
    BY <1>5, BlockPlaces
  <2>3. p \in Procs /\ p \in 1 .. nextProcess
    BY <2>2, ActiveBurst DEF Active
  <2>4. StateOf(p) = "running" /\ StateOf(p)' = "waiting"
    <3>1. p \in Waiting'
      BY <2>2 DEF Placed
    <3> QED
      BY <1>1, <2>1, <2>2, <2>3, <3>1, StateFacts, NextStateFacts
  <2>5. \A q \in Procs : q # p => StateOf(q)' = StateOf(q)
    BY <2>1, <2>2, OthersStay
  <2>6. Lifecycle!Step(p, "running", "waiting") /\ p \in Lifecycle!Procs
    BY <2>1, <2>3, <2>4, <2>5, LifecycleStep
  <2>7. [q \in Procs |-> numberOfBursts(q)][p] = numberOfBursts(p)
    BY <2>3
  <2> QED
    BY <2>2, <2>6, <2>7
       DEF Lifecycle!Next, Lifecycle!Block, Lifecycle!NextBurst, NextBurst
<1>6. CASE Finish
  <2>1. UNCHANGED <<process_frm_datafile, nextProcess>>
    BY <1>6 DEF Finish, Vacate, Goto, input
  <2>2. PICK p \in Running : /\ Placed(Ready, Running \ {p}, Waiting)
                             /\ NextBurst(p)
                             /\ currentBurst[p] + 1 = numberOfBursts(p)
    BY <1>6, FinishPlaces
  <2>3. p \in Procs /\ p \in 1 .. nextProcess
    BY <2>2, ActiveBurst DEF Active
  <2>4. StateOf(p) = "running" /\ StateOf(p)' = "terminated"
    <3>1. p \in Ended'
      BY <1>1, <1>2, <2>1, <2>2, <2>3 DEF Ended, NextBurst, TypeOK
    <3> QED
      BY <1>1, <2>1, <2>2, <2>3, <3>1, StateFacts, NextStateFacts
  <2>5. \A q \in Procs : q # p => StateOf(q)' = StateOf(q)
    BY <2>1, <2>2, OthersStay
  <2>6. Lifecycle!Step(p, "running", "terminated") /\ p \in Lifecycle!Procs
    BY <2>1, <2>3, <2>4, <2>5, LifecycleStep
  <2>7. [q \in Procs |-> numberOfBursts(q)][p] = numberOfBursts(p)
    BY <2>3
  <2> QED
    BY <2>2, <2>6, <2>7
       DEF Lifecycle!Next, Lifecycle!Finish, Lifecycle!NextBurst, NextBurst
<1>7. CASE Preempt
  <2>1. UNCHANGED <<process_frm_datafile, nextProcess>>
    BY <1>7 DEF Preempt, Vacate, Goto, input
  <2>2. PICK p \in Running : /\ Placed(Ready \cup {p}, Running \ {p}, Waiting)
    BY <1>7, PreemptPlaces
  <2>3. p \in Procs /\ p \in 1 .. nextProcess
    BY <2>2, ActiveBurst DEF Active
  <2>4. StateOf(p) = "running" /\ StateOf(p)' = "ready"
    <3>1. p \in Ready'
      BY <2>2 DEF Placed
    <3> QED
      BY <1>1, <2>1, <2>2, <2>3, <3>1, StateFacts, NextStateFacts
  <2>5. \A q \in Procs : q # p => StateOf(q)' = StateOf(q)
    BY <2>1, <2>2, OthersStay
  <2>6. Lifecycle!Step(p, "running", "ready") /\ p \in Lifecycle!Procs
    BY <2>1, <2>3, <2>4, <2>5, LifecycleStep
  <2>7. UNCHANGED currentBurst
    BY <1>7 DEF Preempt, progress
  <2> QED
    BY <2>6, <2>7 DEF Lifecycle!Next, Lifecycle!Preempt
<1>8. CASE Wake
  <2>1. UNCHANGED <<process_frm_datafile, nextProcess>>
    BY <1>8 DEF Wake, Goto, input
  <2>2. PICK p \in Waiting : /\ Placed(Ready \cup {p}, Running, Waiting \ {p})
                             /\ NextBurst(p)
    BY <1>8, WakePlaces
  <2>3. p \in Procs /\ p \in 1 .. nextProcess
    BY <2>2, ActiveBurst DEF Active
  <2>4. StateOf(p) = "waiting" /\ StateOf(p)' = "ready"
    <3>1. p \in Ready'
      BY <2>2 DEF Placed
    <3> QED
      BY <1>1, <2>1, <2>2, <2>3, <3>1, StateFacts, NextStateFacts
  <2>5. \A q \in Procs : q # p => StateOf(q)' = StateOf(q)
    BY <2>1, <2>2, OthersStay
  <2>6. Lifecycle!Step(p, "waiting", "ready") /\ p \in Lifecycle!Procs
    BY <2>1, <2>3, <2>4, <2>5, LifecycleStep
  <2> QED
    BY <2>2, <2>6 DEF Lifecycle!Next, Lifecycle!Wake, Lifecycle!NextBurst, NextBurst
<1>9. CASE Dispatch
  <2>1. UNCHANGED <<process_frm_datafile, nextProcess>>
    BY <1>9 DEF Dispatch, Goto, input
  <2>2. PICK p \in Ready : /\ Placed(Ready \ {p}, Running \cup {p}, Waiting)
    BY <1>9, DispatchPlaces
  <2>3. p \in Procs /\ p \in 1 .. nextProcess
    BY <2>2, ActiveBurst DEF Active
  <2>4. StateOf(p) = "ready" /\ StateOf(p)' = "running"
    <3>1. p \in Running'
      BY <2>2 DEF Placed
    <3> QED
      BY <1>1, <2>1, <2>2, <2>3, <3>1, StateFacts, NextStateFacts
  <2>5. \A q \in Procs : q # p => StateOf(q)' = StateOf(q)
    BY <2>1, <2>2, OthersStay
  <2>6. Lifecycle!Step(p, "ready", "running") /\ p \in Lifecycle!Procs
    BY <2>1, <2>3, <2>4, <2>5, LifecycleStep
  <2>7. UNCHANGED currentBurst /\ currentBurst[p] % 2 = 0
    BY <1>9, <2>2 DEF Dispatch, progress, PlaceInv, BurstInv
  <2>8. Cardinality(Running) < NUMBER_OF_PROCESSORS
    BY <1>1, <1>9, AtCPUIndex, FreeProcessor DEF Dispatch
  <2>9. Lifecycle!Running = Running
    BY <1>1, StateFacts DEF Lifecycle!Running, Lifecycle!Procs
  <2>10. Lifecycle!Cardinality(Lifecycle!Running) < NUMBER_OF_PROCESSORS
    BY <2>8, <2>9 DEF Cardinality, Lifecycle!Cardinality
  <2>11. Lifecycle!Dispatch(p)
    BY <2>6, <2>7, <2>10 DEF Lifecycle!Dispatch
  <2> QED
    BY <2>6, <2>11 DEF Lifecycle!Next
<1>10. CASE KeepWaiting \/ EnqueueReady
  <2>1. UNCHANGED <<process_frm_datafile, nextProcess, currentBurst>>
    BY <1>10 DEF KeepWaiting, EnqueueReady, Goto, input, progress
  <2> QED
    BY <1>3, <1>10, <2>1, KeepWaitingPlaces, EnqueueReadyPlaces
<1>11. CASE \/ AdmitDone \/ Continue \/ RunningDone \/ IODone \/ SortAssertFails
            \/ SortDone \/ NoDispatch \/ DispatchDone \/ incrementIOWaiting
            \/ incrementReadyQIdle \/ incrementCPUBurst \/ EndOfCycle \/ UNCHANGED vars
  <2>1. UNCHANGED <<process_frm_datafile, nextProcess, places, currentBurst>>
    BY <1>11 DEF AdmitDone, Continue, RunningDone, IODone, SortAssertFails, SortDone,
                 NoDispatch, DispatchDone, incrementIOWaiting, incrementReadyQIdle,
                 incrementCPUBurst, EndOfCycle, Proceed, Goto, vars, input, progress
  <2>2. Placed(Ready, Running, Waiting)
    BY <2>1 DEF Placed, Ready, Running, Waiting, places, Procs, totalProcesses
  <2> QED
    BY <1>3, <2>1, <2>2
<1> QED
  BY <1>4, <1>5, <1>6, <1>7, <1>8, <1>9, <1>10, <1>11 DEF Next

(* Every process goes through the states of the comment on struct process. *)
THEOREM LifecycleRefines == Spec => LifecycleSpec
  BY InitPlaceInv, NextPlaceInv, InitRefines, NextRefines, PTL
     DEF Spec, LifecycleSpec, Lifecycle!Spec
-----------------------------------------------------------------------------
(* The sums of the report.  A process has been served for the bursts it has *)
(* ended and the steps of the one it is in, and the processors for the CPU   *)
(* bursts among them.                                                        *)

bursts(p) == process_frm_datafile[p].bursts

ServedFor(p) == SumFunctionOnSet(bursts(p), 1 .. currentBurst[p]) + step[p]

CPUServedFor(p) ==
  SumFunctionOnSet(bursts(p), OddUpTo(currentBurst[p]))
    + (IF currentBurst[p] % 2 = 0 THEN step[p] ELSE 0)

ServedInv ==
  /\ \A p \in Procs : served[p] = ServedFor(p)
  /\ \A p \in Procs : p \in Ended \/ p > nextProcess => step[p] = 0

UtilizedInv ==
  cpuTimeUtilized + (IF phase = "endOfCycle" THEN Cardinality(Running) ELSE 0)
    = SumFunctionOnSet([p \in Procs |-> CPUServedFor(p)], Procs)

\* The bursts of a process as numbers to add up.
LEMMA BurstSums ==
  ASSUME TypeOK, NEW p \in Procs, NEW n \in Nat, n <= numberOfBursts(p)
  PROVE  /\ \A k \in 1 .. n : bursts(p)[k] \in Nat
         /\ SumFunctionOnSet(bursts(p), 1 .. n) \in Nat
         /\ SumFunctionOnSet(bursts(p), OddUpTo(n)) \in Nat
<1>1. bursts(p) \in Seq(Nat) /\ numberOfBursts(p) = Len(bursts(p))
  BY OddBursts DEF bursts, numberOfBursts
<1>2. \A k \in 1 .. n : bursts(p)[k] \in Nat
  BY <1>1
<1>3. SumFunctionOnSet(bursts(p), 1 .. n) \in Nat
  <2>1. IsFiniteSet(1 .. n)
    BY FS_Interval
  <2> QED
    BY <1>2, <2>1, SumNat
<1> QED
  BY <1>2, <1>3, SumOdd

\* One burst more.
LEMMA BurstSumsNext ==
  ASSUME TypeOK, NEW p \in Procs, NEW n \in Nat, n < numberOfBursts(p)
  PROVE  /\ SumFunctionOnSet(bursts(p), 1 .. n + 1)
              = SumFunctionOnSet(bursts(p), 1 .. n) + bursts(p)[n + 1]
         /\ SumFunctionOnSet(bursts(p), OddUpTo(n + 1))
              = SumFunctionOnSet(bursts(p), OddUpTo(n))
                  + (IF n % 2 = 0 THEN bursts(p)[n + 1] ELSE 0)
<1>0. n + 1 \in Nat /\ n + 1 <= numberOfBursts(p) /\ n <= numberOfBursts(p)
  BY OddBursts
<1>1. \A k \in 1 .. n + 1 : bursts(p)[k] \in Nat
  BY <1>0, BurstSums
<1>2. SumFunctionOnSet(bursts(p), 1 .. n + 1)
        = SumFunctionOnSet(bursts(p), 1 .. n) + bursts(p)[n + 1]
  BY <1>1, SumPrefix
<1>3. SumFunctionOnSet(bursts(p), OddUpTo(n + 1))
        = SumFunctionOnSet(bursts(p), OddUpTo(n))
            + (IF n % 2 = 0 THEN bursts(p)[n + 1] ELSE 0)
  BY <1>1, SumOddNext
<1> QED
  BY <1>2, <1>3

LEMMA ServedTypes ==
  ASSUME PlaceInv, NEW p \in Procs
  PROVE  /\ step[p] \in Nat /\ served[p] \in Nat /\ currentBurst[p] \in Nat
         /\ currentBurst[p] <= numberOfBursts(p)
         /\ ServedFor(p) \in Nat /\ CPUServedFor(p) \in Nat
<1>1. /\ TypeOK /\ step[p] \in Nat /\ served[p] \in Nat /\ currentBurst[p] \in Nat
      /\ currentBurst[p] <= numberOfBursts(p)
  BY DEF PlaceInv, TypeInv, TypeOK, BurstInv
<1>2. /\ SumFunctionOnSet(bursts(p), 1 .. currentBurst[p]) \in Nat
      /\ SumFunctionOnSet(bursts(p), OddUpTo(currentBurst[p])) \in Nat
  BY <1>1, BurstSums
<1> QED
  BY <1>1, <1>2 DEF ServedFor, CPUServedFor

\* A step that ends no burst and counts no cycle.
LEMMA QuietServed ==
  ASSUME PlaceInv, ServedInv, \A p \in Procs : p > nextProcess' => p > nextProcess,
         UNCHANGED <<process_frm_datafile, currentBurst, step, served>>
  PROVE  ServedInv' /\ \A p \in Procs : CPUServedFor(p)' = CPUServedFor(p)
<1>1. /\ Procs' = Procs /\ Ended' = Ended
      /\ \A p \in Procs : ServedFor(p)' = ServedFor(p)
      /\ \A p \in Procs : CPUServedFor(p)' = CPUServedFor(p)
  BY DEF Procs, totalProcesses, Ended, numberOfBursts, ServedFor, CPUServedFor, bursts
<1> QED
  BY <1>1 DEF ServedInv

\* The end of a burst.
LEMMA EndBurstServed ==
  ASSUME PlaceInv, ServedInv, NEW p \in Active, BurstDone(p), NextBurst(p),
         UNCHANGED <<process_frm_datafile, served, nextProcess>>
  PROVE  ServedInv' /\ \A q \in Procs : CPUServedFor(q)' = CPUServedFor(q)
<1>1. /\ p \in Procs /\ currentBurst[p] \in Nat /\ TypeOK /\ p \in 1 .. nextProcess
      /\ currentBurst[p] < numberOfBursts(p) /\ currentBurst[p] + 1 \in Nat
  BY ActiveBurst DEF PlaceInv, TypeInv
<1>2. /\ \A q \in Procs : q # p => /\ currentBurst'[q] = currentBurst[q]
                                   /\ step'[q] = step[q]
      /\ currentBurst'[p] = currentBurst[p] + 1 /\ step'[p] = 0
      /\ step[p] = bursts(p)[currentBurst[p] + 1]
      /\ step[p] \in Nat
      /\ Procs' = Procs
  BY <1>1 DEF NextBurst, TypeOK, BurstDone, length, bursts, Procs, totalProcesses
<1>3. /\ SumFunctionOnSet(bursts(p), 1 .. currentBurst[p] + 1)
           = SumFunctionOnSet(bursts(p), 1 .. currentBurst[p]) + step[p]
      /\ SumFunctionOnSet(bursts(p), OddUpTo(currentBurst[p] + 1))
           = SumFunctionOnSet(bursts(p), OddUpTo(currentBurst[p]))
               + (IF currentBurst[p] % 2 = 0 THEN step[p] ELSE 0)
  BY <1>1, <1>2, BurstSumsNext
<1>4. /\ SumFunctionOnSet(bursts(p), 1 .. currentBurst[p] + 1) \in Nat
      /\ SumFunctionOnSet(bursts(p), OddUpTo(currentBurst[p] + 1)) \in Nat
  BY <1>1, BurstSums, OddBursts
<1>5. ServedFor(p)' = ServedFor(p)
  <2>1. ServedFor(p)' = SumFunctionOnSet(bursts(p), 1 .. currentBurst[p] + 1) + 0
    BY <1>2 DEF ServedFor, bursts
  <2> QED
    BY <1>3, <1>4, <2>1 DEF ServedFor
<1>6. CPUServedFor(p)' = CPUServedFor(p)
  <2>1. CPUServedFor(p)'
          = SumFunctionOnSet(bursts(p), OddUpTo(currentBurst[p] + 1)) + 0
    BY <1>2 DEF CPUServedFor, bursts
  <2> QED
    BY <1>3, <1>4, <2>1 DEF CPUServedFor
<1>7. \A q \in Procs : q # p => /\ ServedFor(q)' = ServedFor(q)
                                /\ CPUServedFor(q)' = CPUServedFor(q)
  BY <1>2 DEF ServedFor, CPUServedFor, bursts
<1>8. \A q \in Procs : q # p => (q \in Ended' <=> q \in Ended)
  BY <1>2 DEF Ended, numberOfBursts
<1> QED
  BY <1>2, <1>5, <1>6, <1>7, <1>8 DEF ServedInv

\* A cycle of service.
LEMMA CycleServed ==
  ASSUME PlaceInv, ServedInv, NEW S, S \subseteq Active,
         step' = Bump(step, S), served' = Bump(served, S),
         UNCHANGED <<process_frm_datafile, currentBurst, nextProcess>>
  PROVE  /\ ServedInv'
         /\ \A p \in Procs : CPUServedFor(p)'
              = IF p \in S /\ currentBurst[p] % 2 = 0 THEN CPUServedFor(p) + 1
                                                     ELSE CPUServedFor(p)
<1>1. TypeOK /\ Procs' = Procs /\ Ended' = Ended
  BY DEF PlaceInv, TypeInv, Procs, totalProcesses, Ended, numberOfBursts
<1>2. \A p \in S : p \in Procs /\ p \notin Ended /\ ~(p > nextProcess)
  BY <1>1, ActiveBurst DEF TypeOK
<1>3. ASSUME NEW p \in Procs
      PROVE  /\ served'[p] = ServedFor(p)'
             /\ CPUServedFor(p)'
                  = IF p \in S /\ currentBurst[p] % 2 = 0 THEN CPUServedFor(p) + 1
                                                         ELSE CPUServedFor(p)
  <2>1. /\ step'[p] = IF p \in S THEN step[p] + 1 ELSE step[p]
        /\ served'[p] = IF p \in S THEN served[p] + 1 ELSE served[p]
    BY DEF Bump
  <2> DEFINE a == SumFunctionOnSet(bursts(p), 1 .. currentBurst[p])
             b == SumFunctionOnSet(bursts(p), OddUpTo(currentBurst[p]))
  <2>2. /\ ServedFor(p) = a + step[p] /\ ServedFor(p)' = a + step'[p]
        /\ CPUServedFor(p) = b + (IF currentBurst[p] % 2 = 0 THEN step[p] ELSE 0)
        /\ CPUServedFor(p)' = b + (IF currentBurst[p] % 2 = 0 THEN step'[p] ELSE 0)
    BY DEF ServedFor, CPUServedFor, bursts
  <2>3. a \in Nat /\ b \in Nat /\ step[p] \in Nat /\ served[p] \in Nat
    <3>1. currentBurst[p] \in Nat /\ currentBurst[p] <= numberOfBursts(p)
      BY ServedTypes
    <3> QED
      BY <1>1, <3>1, BurstSums, ServedTypes
  <2>4. served[p] = a + step[p]
    BY <2>2 DEF ServedInv
  <2> HIDE DEF a, b
  <2> QED
    BY <2>1, <2>2, <2>3, <2>4
<1>4. \A p \in Procs : p \in Ended \/ p > nextProcess => step'[p] = 0
  BY <1>2 DEF ServedInv, Bump
<1> QED
  BY <1>1, <1>3, <1>4 DEF ServedInv

\* When no CPU burst is served the processors have been busy for as long.
LEMMA QuietUtilized ==
  ASSUME PlaceInv, UtilizedInv, UNCHANGED process_frm_datafile,
         \A p \in Procs : CPUServedFor(p)' = CPUServedFor(p),
         cpuTimeUtilized' + (IF phase' = "endOfCycle" THEN Cardinality(Running') ELSE 0)
           = cpuTimeUtilized + (IF phase = "endOfCycle" THEN Cardinality(Running) ELSE 0)
  PROVE  UtilizedInv'
<1>1. Procs' = Procs
  BY DEF Procs, totalProcesses
<1>2. [p \in Procs |-> CPUServedFor(p)]' = [p \in Procs |-> CPUServedFor(p)]
  BY <1>1
<1> QED
  BY <1>1, <1>2 DEF UtilizedInv

SumsInv == ServedInv /\ UtilizedInv

LEMMA InitSums == Init => SumsInv
<1> SUFFICES ASSUME Init PROVE SumsInv
  OBVIOUS
<1>1. PlaceInv /\ TypeOK /\ IsFiniteSet(Procs)
  <2>1. PlaceInv /\ TypeOK
    BY InitPlaceInv DEF PlaceInv, TypeInv
  <2> QED
    BY <2>1, ProcFacts
<1>2. 1 .. 0 = {} /\ OddUpTo(0) = {}
  BY DEF OddUpTo
<1>3. \A p \in Procs : currentBurst[p] = 0 /\ step[p] = 0 /\ served[p] = 0
  BY DEF Init
<1>4. ASSUME NEW p \in Procs PROVE ServedFor(p) = 0 /\ CPUServedFor(p) = 0
  <2>1. SumFunctionOnSet(bursts(p), {}) = 0 /\ currentBurst[p] = 0 /\ step[p] = 0
    BY <1>3, SumEmpty
  <2>2. ServedFor(p) = 0 + 0
    BY <1>2, <2>1 DEF ServedFor
  <2>3. CPUServedFor(p) = 0 + (IF 0 % 2 = 0 THEN 0 ELSE 0)
    BY <1>2, <2>1 DEF CPUServedFor
  <2> QED
    BY <2>2, <2>3
<1>5. SumFunctionOnSet([p \in Procs |-> CPUServedFor(p)], Procs) = Cardinality({})
  <2> DEFINE f == [p \in Procs |-> CPUServedFor(p)]
  <2>1. \A p \in Procs : f[p] = IF p \in {} THEN 1 ELSE 0
    BY <1>4
  <2> HIDE DEF f
  <2>2. {} \in SUBSET Procs
    OBVIOUS
  <2>3. SumFunctionOnSet(f, Procs) = Cardinality({})
    BY <1>1, <2>1, <2>2, SumIndicator
  <2> QED
    BY <2>3 DEF f
<1>6. cpuTimeUtilized = 0 /\ phase = "admit" /\ Cardinality({}) = 0
  BY FS_EmptySet DEF Init
<1> QED
  BY <1>3, <1>4, <1>5, <1>6 DEF SumsInv, ServedInv, UtilizedInv

LEMMA NextSums == PlaceInv /\ SumsInv /\ [Next]_vars => SumsInv'
<1> SUFFICES ASSUME PlaceInv, SumsInv, [Next]_vars PROVE SumsInv'
  OBVIOUS
<1>1. /\ TypeInv /\ TypeOK /\ ServedInv /\ UtilizedInv /\ nextProcess \in Nat
      /\ cpuTimeUtilized \in Nat /\ Cardinality(Running) \in Nat
      /\ IsFiniteSet(Procs) /\ Running \subseteq Procs
  <2>1. /\ TypeInv /\ TypeOK /\ ServedInv /\ UtilizedInv
        /\ nextProcess \in 0 .. totalProcesses /\ cpuTimeUtilized \in Nat
    BY DEF PlaceInv, TypeInv, TypeOK, SumsInv
  <2>2. totalProcesses \in Nat
    BY <2>1, ProcFacts
  <2> QED
    BY <2>1, <2>2, ProcFacts
<1>2. CASE Block \/ Finish
  <2>0. PICK p : p = cpu[i]
    OBVIOUS
  <2>1. /\ NextBurst(p) /\ BurstDone(p) /\ phase = "running" /\ phase' = "running"
        /\ p # NULL
        /\ UNCHANGED <<process_frm_datafile, nextProcess, served, cpuTimeUtilized>>
    BY <1>2, <2>0 DEF Block, Finish, AtCPU, At, Vacate, Goto, input, times, counters
  <2>2. i \in CPUs
    BY <1>1, <1>2, AtCPUIndex DEF Block, Finish
  <2>3. p \in Active
    BY <1>1, <2>0, <2>1, <2>2 DEF TypeOK, Active, Running
  <2>4. ServedInv' /\ \A q \in Procs : CPUServedFor(q)' = CPUServedFor(q)
    BY <1>1, <2>1, <2>3, EndBurstServed
  <2>5. UtilizedInv'
    BY <1>1, <2>1, <2>4, QuietUtilized
  <2> QED
    BY <2>4, <2>5 DEF SumsInv
<1>3. CASE Wake
  <2>0. PICK p : p = Head(ioWaitingQ)
    OBVIOUS
  <2>1. /\ NextBurst(p) /\ BurstDone(p) /\ phase = "io" /\ phase' = "io"
        /\ UNCHANGED <<process_frm_datafile, nextProcess, served, cpuTimeUtilized>>
    BY <1>3, <2>0 DEF Wake, AtFront, At, Goto, input, counters
  <2>2. p \in Active
    <3>1. ioWaitingQ \in Seq(Procs) /\ ioWaitingQ # <<>>
      BY <1>1, <1>3, WaitingFront DEF Wake, TypeOK
    <3> QED
      BY <2>0, <3>1, TailRange DEF Active, Waiting
  <2>3. ServedInv' /\ \A q \in Procs : CPUServedFor(q)' = CPUServedFor(q)
    BY <1>1, <2>1, <2>2, EndBurstServed
  <2>4. UtilizedInv'
    BY <1>1, <2>1, <2>3, QuietUtilized
  <2> QED
    BY <2>3, <2>4 DEF SumsInv
<1>4. CASE incrementIOWaiting
  <2>1. /\ phase = "incrementIO" /\ phase' = "incrementReady"
        /\ step' = Bump(step, Waiting) /\ served' = Bump(served, Waiting)
        /\ UNCHANGED <<process_frm_datafile, nextProcess, currentBurst, cpuTimeUtilized>>
    BY <1>4 DEF incrementIOWaiting, At, Goto, Waiting, input, counters
  <2>2. \A p \in Waiting : currentBurst[p] % 2 # 0
    BY DEF PlaceInv, BurstInv
  <2>3. ServedInv' /\ \A q \in Procs : CPUServedFor(q)' = CPUServedFor(q)
    BY <1>1, <2>1, <2>2, CycleServed DEF Active
  <2>4. UtilizedInv'
    BY <1>1, <2>1, <2>3, QuietUtilized
  <2> QED
    BY <2>3, <2>4 DEF SumsInv
<1>5. CASE incrementCPUBurst
  <2>1. /\ phase = "incrementCPU" /\ phase' = "endOfCycle"
        /\ step' = Bump(step, Running) /\ served' = Bump(served, Running)
        /\ UNCHANGED <<process_frm_datafile, nextProcess, currentBurst,
                       cpuTimeUtilized, cpu>>
    BY <1>5 DEF incrementCPUBurst, At, Goto, input, counters, places
  <2>2. \A p \in Running : currentBurst[p] % 2 = 0
    BY DEF PlaceInv, BurstInv
  <2>3. /\ ServedInv'
        /\ \A q \in Procs : CPUServedFor(q)' =
             IF q \in Running THEN CPUServedFor(q) + 1 ELSE CPUServedFor(q)
    BY <1>1, <2>1, <2>2, CycleServed DEF Active
  <2>4. UtilizedInv'
    <3> DEFINE f == [p \in Procs |-> CPUServedFor(p)]
               e == [p \in Procs |-> CPUServedFor(p)]'
    <3>1. /\ \A p \in Procs : f[p] \in Int
          /\ \A p \in Procs : e[p] = IF p \in Running THEN f[p] + 1 ELSE f[p]
          /\ Procs' = Procs /\ Running' = Running
      BY <2>1, <2>3, ServedTypes DEF Procs, totalProcesses, Running
    <3>2. SumFunctionOnSet(e, Procs) = SumFunctionOnSet(f, Procs) + Cardinality(Running)
      <4> HIDE DEF e, f
      <4> QED
        BY <1>1, <3>1, SumBump
    <3>3. cpuTimeUtilized = SumFunctionOnSet(f, Procs)
      BY <1>1, <2>1 DEF UtilizedInv
    <3>4. cpuTimeUtilized' + Cardinality(Running') = SumFunctionOnSet(e, Procs)
      BY <1>1, <2>1, <3>1, <3>2, <3>3
    <3> QED
      BY <2>1, <3>1, <3>4 DEF UtilizedInv
  <2> QED
    BY <2>3, <2>4 DEF SumsInv
<1>6. CASE EndOfCycle
  <2>1. /\ phase = "endOfCycle"
        /\ cpuTimeUtilized' = cpuTimeUtilized + Cardinality(Running)
        /\ phase' = "admit" \/ (phase' = "endOfCycle" /\ Running = {})
        /\ UNCHANGED <<process_frm_datafile, nextProcess, currentBurst, step, served, cpu>>
    BY <1>6 DEF EndOfCycle, At, input, progress, times, places, LastCycle
  <2>2. ServedInv' /\ \A q \in Procs : CPUServedFor(q)' = CPUServedFor(q)
    BY <1>1, <2>1, QuietServed
  <2>3. Running' = Running /\ Cardinality({}) = 0
    BY <2>1, FS_EmptySet DEF Running, Procs, totalProcesses
  <2>4. UtilizedInv'
    BY <1>1, <2>1, <2>2, <2>3, QuietUtilized
  <2> QED
    BY <2>2, <2>4 DEF SumsInv
<1>7. CASE \/ Admit \/ AdmitDone \/ Preempt \/ Continue \/ RunningDone \/ KeepWaiting
           \/ IODone \/ SortAssertFails \/ EnqueueReady \/ SortDone \/ Dispatch
           \/ NoDispatch \/ DispatchDone \/ incrementReadyQIdle
  <2>1. /\ phase # "endOfCycle" /\ phase' # "endOfCycle"
        /\ nextProcess' = nextProcess \/ nextProcess' = nextProcess + 1
        /\ UNCHANGED <<process_frm_datafile, currentBurst, step, served, cpuTimeUtilized>>
    BY <1>1, <1>7 DEF Admit, AdmitDone, Preempt, Continue, RunningDone, KeepWaiting,
       IODone, SortAssertFails, EnqueueReady, SortDone, Dispatch, NoDispatch,
       DispatchDone, incrementReadyQIdle, AtFront, AtCPU, At, Proceed, Vacate, Goto,
       input, progress, times, counters
  <2>2. \A q \in Procs : q > nextProcess' => q > nextProcess
    <3>1. nextProcess \in Nat /\ \A q \in Procs : q \in Nat
      BY <1>1, ProcFacts
    <3> QED
      BY <2>1, <3>1
  <2>3. ServedInv' /\ \A q \in Procs : CPUServedFor(q)' = CPUServedFor(q)
    BY <1>1, <2>1, <2>2, QuietServed
  <2>4. UtilizedInv'
    BY <1>1, <2>1, <2>3, QuietUtilized
  <2> QED
    BY <2>3, <2>4 DEF SumsInv
<1>8. CASE UNCHANGED vars
  <2>1. UNCHANGED <<process_frm_datafile, nextProcess, currentBurst, step, served, cpu,
                    phase, cpuTimeUtilized>>
    BY <1>8 DEF vars, input, position, places, progress, times, counters
  <2>2. ServedInv' /\ \A q \in Procs : CPUServedFor(q)' = CPUServedFor(q)
    BY <1>1, <2>1, QuietServed
  <2>3. Running' = Running
    BY <2>1 DEF Running, Procs, totalProcesses
  <2>4. UtilizedInv'
    BY <1>1, <2>1, <2>2, <2>3, QuietUtilized
  <2> QED
    BY <2>2, <2>4 DEF SumsInv
<1> QED
  BY <1>2, <1>3, <1>4, <1>5, <1>6, <1>7, <1>8 DEF Next
-----------------------------------------------------------------------------
(* The pids.  Processes that were admitted in one cycle stay together in the *)
(* array of the new ones until the sort compares their pids.                 *)

TogetherInv ==
  /\ \A p \in 1 .. nextProcess : arrivalTime(p) <= clock_cycle
  /\ \A p \in 1 .. nextProcess :
       phase = "admit" /\ arrivalTime(p) = clock_cycle => p \in preReadyQ
  /\ \A p, q \in 1 .. nextProcess :
       p # q /\ pid(p) = pid(q) /\ arrivalTime(p) = arrivalTime(q) =>
         /\ p \in preReadyQ /\ q \in preReadyQ
         /\ phase \in {"admit", "running", "io", "sort"}

LEMMA InitTogether == Init => TogetherInv
  BY DEF Init, TogetherInv

LEMMA AdmittedTypes ==
  ASSUME PlaceInv
  PROVE  /\ TypeOK /\ nextProcess \in Nat /\ totalProcesses \in Nat
         /\ nextProcess <= totalProcesses /\ clock_cycle \in Nat
         /\ \A p \in 1 .. nextProcess : p \in Procs /\ arrivalTime(p) \in Nat
<1>1. TypeOK /\ nextProcess \in 0 .. totalProcesses /\ clock_cycle \in Nat
  BY DEF PlaceInv, TypeInv, TypeOK
<1>2. totalProcesses \in Nat
  BY <1>1, ProcFacts
<1>3. \A p \in 1 .. nextProcess : p \in Procs
  BY <1>1, <1>2 DEF Procs
<1> QED
  BY <1>1, <1>2, <1>3, TimeTypes

\* Steps that admit nobody and leave the array of the new processes alone, or
\* add to it.
LEMMA QuietTogether ==
  ASSUME PlaceInv, TogetherInv, preReadyQ \subseteq preReadyQ',
         UNCHANGED <<process_frm_datafile, nextProcess, clock_cycle>>,
         phase' = "admit" => phase = "admit",
         phase \in {"admit", "running", "io", "sort"}
           => phase' \in {"admit", "running", "io", "sort"}
  PROVE  TogetherInv'
<1>1. \A p \in 1 .. nextProcess : arrivalTime(p)' = arrivalTime(p) /\ pid(p)' = pid(p)
  BY DEF arrivalTime, pid
<1> QED
  BY <1>1 DEF TogetherInv

LEMMA AdmitTogether ==
  ASSUME PlaceInv, AgeInv, TogetherInv, Admit PROVE TogetherInv'
<1>0. PICK n : n = nextProcess + 1
  OBVIOUS
<1>1. /\ nextProcess < totalProcesses /\ arrivalTime(n) <= clock_cycle
      /\ phase = "admit" /\ phase' = "admit" /\ nextProcess' = n
      /\ preReadyQ' = preReadyQ \cup {n}
      /\ UNCHANGED <<process_frm_datafile, clock_cycle>>
  BY <1>0 DEF Admit, Arrived, At, Goto, input, arrivalTime
<1>2. /\ TypeOK /\ nextProcess \in Nat /\ totalProcesses \in Nat /\ clock_cycle \in Nat
  BY AdmittedTypes
<1>3. n \in Procs /\ n > nextProcess /\ 1 .. n = (1 .. nextProcess) \cup {n}
  BY <1>0, <1>1, <1>2 DEF Procs
<1>4. arrivalTime(n) = clock_cycle
  <2>1. clock_cycle <= arrivalTime(n) /\ arrivalTime(n) \in Nat
    BY <1>2, <1>3, TimeTypes DEF AgeInv
  <2> QED
    BY <1>1, <1>2, <2>1
<1>5. \A p \in 1 .. n : arrivalTime(p)' = arrivalTime(p) /\ pid(p)' = pid(p)
  BY <1>1 DEF arrivalTime, pid
<1>6. \A p \in 1 .. n : arrivalTime(p) = clock_cycle => p \in preReadyQ'
  BY <1>1, <1>3 DEF TogetherInv
<1>7. \A p \in 1 .. n : arrivalTime(p) <= clock_cycle
  BY <1>1, <1>3 DEF TogetherInv
<1>8. ASSUME NEW p \in 1 .. n, NEW q \in 1 .. n, p # q, pid(p) = pid(q),
             arrivalTime(p) = arrivalTime(q)
      PROVE  p \in preReadyQ' /\ q \in preReadyQ'
  <2>1. CASE p = n \/ q = n
    BY <1>4, <1>6, <1>8, <2>1
  <2>2. CASE p # n /\ q # n
    BY <1>1, <1>3, <1>8, <2>2 DEF TogetherInv
  <2> QED
    BY <2>1, <2>2
<1> QED
  BY <1>1, <1>5, <1>6, <1>7, <1>8 DEF TogetherInv

\* No two of them are left when the sort enqueues the processes.
LEMMA NobodyTogether ==
  ASSUME PlaceInv, TogetherInv, ~SamePid \/ phase \notin {"admit", "running", "io", "sort"},
         NEW p \in 1 .. nextProcess, NEW q \in 1 .. nextProcess,
         pid(p) = pid(q), arrivalTime(p) = arrivalTime(q)
  PROVE  p = q
  BY DEF TogetherInv, SamePid

\* From the sort to the end of the cycle.
LEMMA SortedTogether ==
  ASSUME PlaceInv, TogetherInv, ~SamePid \/ phase \notin {"admit", "running", "io", "sort"},
         UNCHANGED <<process_frm_datafile, nextProcess>>,
         \/ clock_cycle' = clock_cycle /\ phase' # "admit"
         \/ clock_cycle' = clock_cycle + 1
  PROVE  TogetherInv'
<1>1. \A p \in 1 .. nextProcess : arrivalTime(p)' = arrivalTime(p) /\ pid(p)' = pid(p)
  BY DEF arrivalTime, pid
<1>2. \A p, q \in 1 .. nextProcess :
        pid(p) = pid(q) /\ arrivalTime(p) = arrivalTime(q) => p = q
  BY NobodyTogether
<1>3. /\ clock_cycle \in Nat
      /\ \A p \in 1 .. nextProcess : arrivalTime(p) \in Nat
                                     /\ arrivalTime(p) <= clock_cycle
  BY AdmittedTypes DEF TogetherInv
<1>4. \A p \in 1 .. nextProcess : /\ arrivalTime(p) <= clock_cycle'
                                  /\ phase' = "admit" => arrivalTime(p) # clock_cycle'
  BY <1>3
<1> QED
  BY <1>1, <1>2, <1>4 DEF TogetherInv

LEMMA NextTogether == PlaceInv /\ AgeInv /\ TogetherInv /\ [Next]_vars => TogetherInv'
<1> SUFFICES ASSUME PlaceInv, AgeInv, TogetherInv, [Next]_vars PROVE TogetherInv'
  OBVIOUS
<1>1. CASE Admit
  BY <1>1, AdmitTogether
<1>2. CASE \/ AdmitDone \/ Block \/ Finish \/ Preempt \/ Continue \/ RunningDone
           \/ Wake \/ KeepWaiting \/ IODone \/ SortAssertFails
  <2>1. /\ preReadyQ \subseteq preReadyQ'
        /\ UNCHANGED <<process_frm_datafile, nextProcess, clock_cycle>>
        /\ phase' = "admit" => phase = "admit"
        /\ phase' \in {"running", "io", "sort"}
    BY <1>2 DEF AdmitDone, Block, Finish, Preempt, Continue, RunningDone, Wake,
       KeepWaiting, IODone, SortAssertFails, AtFront, AtCPU, At, Proceed, Vacate, Goto,
       input, places
  <2> QED
    BY <2>1, QuietTogether
<1>3. CASE \/ EnqueueReady \/ SortDone \/ Dispatch \/ NoDispatch \/ DispatchDone
           \/ incrementIOWaiting \/ incrementReadyQIdle \/ incrementCPUBurst
  <2>1. /\ ~SamePid \/ phase \notin {"admit", "running", "io", "sort"}
        /\ UNCHANGED <<process_frm_datafile, nextProcess, clock_cycle>>
        /\ phase' # "admit"
    BY <1>3 DEF EnqueueReady, SortDone, SamePid, Dispatch, NoDispatch, DispatchDone,
       incrementIOWaiting, incrementReadyQIdle, incrementCPUBurst, AtCPU, At, Proceed,
       Goto, input
  <2> QED
    BY <2>1, SortedTogether
<1>4. CASE EndOfCycle
  <2>1. /\ phase = "endOfCycle" /\ UNCHANGED <<process_frm_datafile, nextProcess>>
        /\ \/ clock_cycle' = clock_cycle /\ phase' = "endOfCycle"
           \/ clock_cycle' = clock_cycle + 1
    BY <1>4 DEF EndOfCycle, At, input
  <2> QED
    BY <2>1, SortedTogether
<1>5. CASE UNCHANGED vars
  <2>1. UNCHANGED <<process_frm_datafile, nextProcess, clock_cycle, phase, preReadyQ>>
    BY <1>5 DEF vars, input, position, places
  <2> QED
    BY <2>1, QuietTogether
<1> QED
  BY <1>1, <1>2, <1>3, <1>4, <1>5 DEF Next
-----------------------------------------------------------------------------
(* How the simulation ends, and what the clock says of it. *)

ExitInv ==
  /\ outcome = "finished" => phase = "endOfCycle" /\ LastCycle
  /\ outcome = "aborted" => SamePid
  /\ outcome # "rejected" => Procs # {}

ClockInv ==
  /\ \A p \in Procs : endTime[p] <= clock_cycle
  /\ clock_cycle = 0 => Ended = {} /\ (phase \in {"admit", "running"} => Running = {})
  /\ outcome # "rejected" /\ Ended = Procs => \E p \in Procs : endTime[p] = clock_cycle
  /\ cpuTimeUtilized <= clock_cycle * NUMBER_OF_PROCESSORS

LEMMA InitExit == Init => ExitInv
<1> SUFFICES ASSUME Init PROVE ExitInv
  OBVIOUS
<1>1. PlaceInv /\ TypeOK /\ totalProcesses \in Nat
  <2>1. PlaceInv /\ TypeOK
    BY InitPlaceInv DEF PlaceInv, TypeInv
  <2> QED
    BY <2>1, ProcFacts
<1>2. outcome # "rejected" => totalProcesses >= 1
  BY SchAssumption DEF Init, Accepted, totalProcesses
<1>3. outcome \in {"simulating", "rejected"}
  BY DEF Init
<1> QED
  BY <1>1, <1>2, <1>3 DEF ExitInv, Procs

LEMMA NextExit == ExitInv /\ [Next]_vars => ExitInv'
<1> SUFFICES ASSUME ExitInv, [Next]_vars PROVE ExitInv'
  OBVIOUS
<1>1. UNCHANGED process_frm_datafile
  BY DEF Next, vars, Admit, AdmitDone, Block, Finish, Preempt, Continue, RunningDone, Wake,
     KeepWaiting, IODone, SortAssertFails, EnqueueReady, SortDone, Dispatch, NoDispatch,
     DispatchDone, incrementIOWaiting, incrementReadyQIdle, incrementCPUBurst, EndOfCycle,
     Proceed, Vacate, Goto, input
<1>2. Procs' = Procs
  BY <1>1 DEF Procs, totalProcesses
<1>3. CASE Next /\ ~EndOfCycle /\ ~SortAssertFails
  <2>1. outcome = "simulating" /\ outcome' = "simulating"
    BY <1>3 DEF Next, Admit, AdmitDone, Block, Finish, Preempt, Continue, RunningDone, Wake,
       KeepWaiting, IODone, EnqueueReady, SortDone, Dispatch, NoDispatch,
       DispatchDone, incrementIOWaiting, incrementReadyQIdle, incrementCPUBurst,
       AtFront, AtCPU, At, Proceed, Vacate, Goto
  <2> QED
    BY <1>2, <2>1 DEF ExitInv
<1>4. CASE SortAssertFails
  <2>1. /\ outcome = "simulating" /\ outcome' = "aborted" /\ SamePid
        /\ UNCHANGED preReadyQ
    BY <1>4 DEF SortAssertFails, At, places
  <2>2. SamePid'
    BY <1>1, <2>1 DEF SamePid, pid
  <2> QED
    BY <1>2, <2>1, <2>2 DEF ExitInv
<1>5. CASE EndOfCycle
  <2>1. /\ outcome = "simulating" /\ phase = "endOfCycle"
        /\ UNCHANGED <<nextProcess, ioWaitingQ, cpu>>
        /\ \/ LastCycle /\ phase' = phase /\ outcome' = "finished"
           \/ outcome' = "simulating"
    BY <1>5 DEF EndOfCycle, At, places
  <2>2. LastCycle' = LastCycle
    BY <1>1, <1>2, <2>1 DEF LastCycle, Running, totalProcesses
  <2> QED
    BY <1>2, <2>1, <2>2 DEF ExitInv
<1>6. CASE UNCHANGED vars
  <2>1. UNCHANGED <<outcome, phase, nextProcess, ioWaitingQ, cpu, preReadyQ>>
    BY <1>6 DEF vars, position, places
  <2>2. LastCycle' = LastCycle /\ SamePid' = SamePid
    BY <1>1, <1>2, <2>1 DEF LastCycle, SamePid, Running, totalProcesses, pid
  <2> QED
    BY <1>2, <2>1, <2>2 DEF ExitInv
<1> QED
  BY <1>3, <1>4, <1>5, <1>6

\* No more processes run than there are processors.
LEMMA BusyProcessors ==
  ASSUME TypeOK PROVE Cardinality(Running) <= NUMBER_OF_PROCESSORS
<1> DEFINE Busy == {c \in CPUs : cpu[c] \in Running}
           f    == [c \in Busy |-> cpu[c]]
<1>1. f \in Surjection(Busy, Running)
  BY DEF Surjection, Running
<1>2. /\ IsFiniteSet(CPUs) /\ Cardinality(CPUs) = NUMBER_OF_PROCESSORS
      /\ NUMBER_OF_PROCESSORS \in Nat
  <2>1. NUMBER_OF_PROCESSORS \in Nat \ {0}
    BY SchAssumption
  <2> QED
    BY <2>1, FS_Interval DEF CPUs
<1>3. IsFiniteSet(Busy) /\ Cardinality(Busy) <= NUMBER_OF_PROCESSORS
  BY <1>2, FS_Subset
<1>4. Cardinality(Running) <= Cardinality(Busy)
  <2> HIDE DEF Busy, f
  <2> QED
    BY <1>1, <1>3, FS_Surjection
<1>5. Cardinality(Running) \in Nat /\ Cardinality(Busy) \in Nat
  BY <1>3, ProcFacts, FS_CardinalityType
<1> QED
  BY <1>2, <1>3, <1>4, <1>5

LEMMA InitClock == Init => ClockInv
<1> SUFFICES ASSUME Init PROVE ClockInv
  OBVIOUS
<1>1. PlaceInv /\ TypeOK
  BY InitPlaceInv DEF PlaceInv, TypeInv
<1>2. Running = {} /\ Ended = {}
  <2>1. \A p \in Procs : p # NULL
    BY <1>1, ProcFacts
  <2>2. Active \cup Ended = 1 .. 0
    BY <1>1 DEF Init, PlaceInv, OnePlace
  <2> QED
    BY <2>1, <2>2 DEF Init, Running
<1>3. ExitInv
  BY InitExit
<1>4. outcome # "rejected" => Ended # Procs
  BY <1>2, <1>3 DEF ExitInv
<1>5. /\ \A p \in Procs : endTime[p] <= clock_cycle
      /\ cpuTimeUtilized <= clock_cycle * NUMBER_OF_PROCESSORS
  BY SchAssumption DEF Init
<1> QED
  BY <1>2, <1>4, <1>5 DEF ClockInv

\* Steps that neither end a process nor advance the clock.
LEMMA QuietClock ==
  ASSUME PlaceInv, ClockInv,
         UNCHANGED <<process_frm_datafile, currentBurst, endTime, clock_cycle,
                     cpuTimeUtilized>>,
         outcome' # "rejected" => outcome # "rejected",
         phase' \in {"admit", "running"} =>
           phase \in {"admit", "running"} /\ Running' \subseteq Running
  PROVE  ClockInv'
<1>1. Procs' = Procs /\ Ended' = Ended
  BY DEF Procs, totalProcesses, Ended, numberOfBursts
<1> QED
  BY <1>1 DEF ClockInv

LEMMA BlockClock ==
  ASSUME PlaceInv, ClockInv, Block PROVE ClockInv'
<1>1. PICK p \in Running : /\ Placed(Ready, Running \ {p}, Waiting \cup {p})
                           /\ NextBurst(p) /\ currentBurst[p] + 1 < numberOfBursts(p)
  BY BlockPlaces
<1>2. /\ phase = "running" /\ outcome' = outcome
      /\ UNCHANGED <<process_frm_datafile, clock_cycle, endTime, cpuTimeUtilized>>
  BY DEF Block, AtCPU, At, Vacate, Goto, input, times, counters
<1>3. TypeOK /\ p \in Procs /\ p \in Active
  BY ActiveBurst DEF PlaceInv, TypeInv, Active
<1>4. currentBurst[p] < numberOfBursts(p) /\ currentBurst[p] \in Nat
      /\ numberOfBursts(p) \in Nat
  BY <1>3, ActiveBurst
<1>5. Ended' = Ended /\ Procs' = Procs
  BY <1>1, <1>2, <1>3, <1>4, EndedNext
<1>6. clock_cycle # 0
  BY <1>1, <1>2 DEF ClockInv
<1> QED
  BY <1>2, <1>5, <1>6 DEF ClockInv

LEMMA FinishClock ==
  ASSUME PlaceInv, ClockInv, Finish PROVE ClockInv'
<1>0. PICK p : p = cpu[i]
  OBVIOUS
<1>1. /\ phase = "running" /\ p # NULL
      /\ endTime' = [endTime EXCEPT ![p] = clock_cycle]
      /\ UNCHANGED <<process_frm_datafile, clock_cycle, cpuTimeUtilized>>
  BY <1>0 DEF Finish, AtCPU, At, Vacate, Goto, input, counters
<1>2. TypeOK /\ i \in CPUs /\ clock_cycle \in Nat
  <2>1. TypeOK /\ clock_cycle \in Nat
    BY DEF PlaceInv, TypeInv, TypeOK
  <2> QED
    BY <2>1, AtCPUIndex DEF Finish
<1>3. p \in Procs /\ p \in Running
  BY <1>0, <1>1, <1>2 DEF TypeOK, Running
<1>4. clock_cycle # 0
  BY <1>1, <1>3 DEF ClockInv
<1>5. /\ endTime'[p] = clock_cycle
      /\ \A q \in Procs : q # p => endTime'[q] = endTime[q]
  BY <1>1, <1>2, <1>3 DEF TypeOK
<1>6. Procs' = Procs
  BY <1>1 DEF Procs, totalProcesses
<1>7. \A q \in Procs : endTime'[q] <= clock_cycle
  BY <1>2, <1>5 DEF ClockInv
<1> QED
  BY <1>1, <1>3, <1>4, <1>5, <1>6, <1>7 DEF ClockInv

LEMMA WakeClock ==
  ASSUME PlaceInv, PlaceInv', ClockInv, Wake PROVE ClockInv'
<1>0. PICK p : p = Head(ioWaitingQ)
  OBVIOUS
<1>1. /\ phase = "io" /\ phase' = "io" /\ preReadyQ' = preReadyQ \cup {p}
      /\ endTime' = [endTime EXCEPT ![p] = clock_cycle] /\ NextBurst(p)
      /\ UNCHANGED <<process_frm_datafile, clock_cycle, cpuTimeUtilized>>
  BY <1>0 DEF Wake, AtFront, At, Goto, input, counters
<1>2. TypeInv /\ TypeOK /\ clock_cycle \in Nat
  BY DEF PlaceInv, TypeInv, TypeOK
<1>3. p \in Waiting /\ p \in Procs
  <2>1. ioWaitingQ \in Seq(Procs) /\ ioWaitingQ # <<>>
    BY <1>2, WaitingFront DEF Wake, TypeOK
  <2> QED
    BY <1>0, <2>1, TailRange DEF Waiting
<1>4. /\ endTime'[p] = clock_cycle
      /\ \A q \in Procs : q # p => endTime'[q] = endTime[q]
  BY <1>1, <1>2, <1>3 DEF TypeOK
<1>5. Procs' = Procs /\ \A q \in Procs : endTime'[q] <= clock_cycle
  BY <1>1, <1>2, <1>4 DEF ClockInv, Procs, totalProcesses
<1>6. Ended' = Ended
  <2>1. /\ currentBurst[p] \in Nat /\ numberOfBursts(p) \in Nat
        /\ currentBurst[p] < numberOfBursts(p) /\ currentBurst[p] + 1 # numberOfBursts(p)
    <3>1. currentBurst[p] % 2 = 1 /\ p \in Active
      BY <1>3 DEF PlaceInv, BurstInv, Active
    <3> QED
      BY <3>1, ActiveBurst
  <2> QED
    BY <1>1, <1>2, <1>3, <2>1, EndedNext
<1> QED
  BY <1>1, <1>3, <1>4, <1>5, <1>6 DEF ClockInv

\* When everybody has ended the cycle is the last.
LEMMA EndedLastCycle ==
  ASSUME PlaceInv, Ended = Procs PROVE LastCycle
<1>1. /\ TypeOK /\ nextProcess \in Nat /\ totalProcesses \in Nat
      /\ nextProcess <= totalProcesses
  BY AdmittedTypes
<1>2. Active \subseteq Procs /\ Active = {}
  BY ActiveBurst
<1>3. Running = {} /\ ioWaitingQ = <<>>
  <2>1. Running = {} /\ Range(ioWaitingQ) = {} /\ ioWaitingQ \in Seq(Procs)
    BY <1>1, <1>2 DEF Active, Waiting, TypeOK
  <2> QED
    BY <2>1, RangeSubset
<1>4. 1 .. totalProcesses = 1 .. nextProcess
  BY <1>2 DEF PlaceInv, OnePlace, Procs
<1>5. nextProcess = totalProcesses
  <2>1. totalProcesses >= 1 => totalProcesses \in 1 .. nextProcess
    BY <1>1, <1>4
  <2> QED
    BY <1>1, <2>1
<1> QED
  BY <1>3, <1>5 DEF LastCycle

LEMMA EndOfCycleClock ==
  ASSUME PlaceInv, ClockInv, EndOfCycle PROVE ClockInv'
<1>1. /\ phase = "endOfCycle" /\ outcome # "rejected" /\ outcome' # "rejected"
      /\ UNCHANGED <<process_frm_datafile, currentBurst, endTime, cpu>>
      /\ cpuTimeUtilized' = cpuTimeUtilized + Cardinality(Running)
  BY DEF EndOfCycle, At, input, progress, times, places
<1>2. /\ TypeOK /\ clock_cycle \in Nat /\ cpuTimeUtilized \in Nat
      /\ \A p \in Procs : endTime[p] \in Nat
  BY DEF PlaceInv, TypeInv, TypeOK
<1>3. NUMBER_OF_PROCESSORS \in Nat
  BY SchAssumption
<1>4. /\ Cardinality(Running) \in Nat /\ Cardinality(Running) <= NUMBER_OF_PROCESSORS
  BY <1>2, BusyProcessors, ProcFacts
<1>5. Procs' = Procs /\ Ended' = Ended /\ Running' = Running
  BY <1>1 DEF Procs, totalProcesses, Ended, numberOfBursts, Running
<1>6. CASE LastCycle
  <2>1. phase' = phase /\ clock_cycle' = clock_cycle /\ Running = {}
    BY <1>6 DEF EndOfCycle, LastCycle
  <2>2. Cardinality(Running) = 0
    BY <2>1, FS_EmptySet
  <2>3. cpuTimeUtilized' = cpuTimeUtilized
    BY <1>1, <1>2, <2>2
  <2> QED
    BY <1>1, <1>5, <2>1, <2>3 DEF ClockInv
<1>7. CASE ~LastCycle
  <2>1. phase' = "admit" /\ clock_cycle' = clock_cycle + 1
    BY <1>7 DEF EndOfCycle
  <2>2. Ended # Procs
    BY <1>7, EndedLastCycle
  <2>3. \A p \in Procs : endTime[p] <= clock_cycle + 1
    BY <1>2 DEF ClockInv
  <2>4. cpuTimeUtilized' <= (clock_cycle + 1) * NUMBER_OF_PROCESSORS
    <3>1. /\ (clock_cycle + 1) * NUMBER_OF_PROCESSORS
               = clock_cycle * NUMBER_OF_PROCESSORS + NUMBER_OF_PROCESSORS
          /\ clock_cycle * NUMBER_OF_PROCESSORS \in Nat
      BY <1>2, <1>3
    <3>2. cpuTimeUtilized <= clock_cycle * NUMBER_OF_PROCESSORS
      BY DEF ClockInv
    <3> QED
      BY <1>1, <1>2, <1>3, <1>4, <3>1, <3>2
  <2> QED
    BY <1>1, <1>2, <1>5, <2>1, <2>2, <2>3, <2>4 DEF ClockInv
<1> QED
  BY <1>6, <1>7

LEMMA NextClock ==
  PlaceInv /\ PlaceInv' /\ ClockInv /\ [Next]_vars => ClockInv'
<1> SUFFICES ASSUME PlaceInv, PlaceInv', ClockInv, [Next]_vars PROVE ClockInv'
  OBVIOUS
<1>1. CASE Block \/ Finish \/ Wake \/ EndOfCycle
  BY <1>1, BlockClock, FinishClock, WakeClock, EndOfCycleClock
<1>2. CASE Preempt
  <2>1. PICK p \in Running : Placed(Ready \cup {p}, Running \ {p}, Waiting)
    BY <1>2, PreemptPlaces
  <2>2. /\ UNCHANGED <<process_frm_datafile, currentBurst, endTime, clock_cycle,
                       cpuTimeUtilized, outcome>>
        /\ phase = "running"
    BY <1>2 DEF Preempt, AtCPU, At, Vacate, Goto, input, progress, times
  <2> QED
    BY <2>1, <2>2, QuietClock DEF Placed
<1>3. CASE Admit \/ AdmitDone \/ Continue
  <2>1. /\ UNCHANGED <<process_frm_datafile, currentBurst, endTime, clock_cycle,
                       cpuTimeUtilized, outcome, cpu>>
        /\ phase \in {"admit", "running"}
    BY <1>3 DEF Admit, AdmitDone, Continue, AtCPU, At, Proceed, Goto, input, progress,
       times, counters, places
  <2>2. Running' = Running
    BY <2>1 DEF Running, Procs, totalProcesses
  <2> QED
    BY <2>1, <2>2, QuietClock
<1>4. CASE \/ RunningDone \/ KeepWaiting \/ IODone \/ SortAssertFails \/ EnqueueReady
           \/ SortDone \/ Dispatch \/ NoDispatch \/ DispatchDone
           \/ incrementIOWaiting \/ incrementReadyQIdle \/ incrementCPUBurst
  <2>1. /\ UNCHANGED <<process_frm_datafile, currentBurst, endTime, clock_cycle,
                       cpuTimeUtilized>>
        /\ outcome # "rejected" /\ phase' \notin {"admit", "running"}
    BY <1>4 DEF RunningDone, KeepWaiting, IODone, SortAssertFails, EnqueueReady, SortDone,
       Dispatch, NoDispatch, DispatchDone, incrementIOWaiting, incrementReadyQIdle,
       incrementCPUBurst, AtFront, AtCPU, At, Proceed, Goto, input, progress, times,
       counters
  <2> QED
    BY <2>1, QuietClock
<1>5. CASE UNCHANGED vars
  <2>1. UNCHANGED <<process_frm_datafile, currentBurst, endTime, clock_cycle,
                    cpuTimeUtilized, outcome, phase, cpu>>
    BY <1>5 DEF vars, input, position, places, progress, times, counters
  <2>2. Running' = Running
    BY <2>1 DEF Running, Procs, totalProcesses
  <2> QED
    BY <2>1, <2>2, QuietClock
<1> QED
  BY <1>1, <1>2, <1>3, <1>4, <1>5 DEF Next
-----------------------------------------------------------------------------
(* What is printed. *)

\* A process that has ended was served for its bursts.
LEMMA EndedServed ==
  ASSUME PlaceInv, ServedInv, NEW p \in Ended
  PROVE  /\ p \in Procs /\ served[p] = Need(p) /\ Need(p) \in Nat
         /\ CPUServedFor(p) = CPUNeed(p)
<1>1. p \in Procs /\ currentBurst[p] = numberOfBursts(p) /\ step[p] = 0 /\ TypeOK
  BY DEF Ended, ServedInv, PlaceInv, TypeInv
<1>2. bursts(p) \in Seq(Nat) /\ numberOfBursts(p) = Len(bursts(p))
      /\ numberOfBursts(p) \in Nat
  BY <1>1, OddBursts DEF bursts, numberOfBursts
<1>3. DOMAIN bursts(p) = 1 .. numberOfBursts(p)
  BY <1>2
<1>4. /\ Need(p) = SumFunctionOnSet(bursts(p), 1 .. numberOfBursts(p))
      /\ CPUNeed(p) = SumFunctionOnSet(bursts(p), OddUpTo(numberOfBursts(p)))
  BY <1>3 DEF Need, CPUNeed, SumFunction, bursts, OddUpTo
<1>5. /\ SumFunctionOnSet(bursts(p), 1 .. numberOfBursts(p)) \in Nat
      /\ SumFunctionOnSet(bursts(p), OddUpTo(numberOfBursts(p))) \in Nat
  BY <1>1, <1>2, BurstSums
<1>6. /\ ServedFor(p) = Need(p) + 0
      /\ CPUServedFor(p) = CPUNeed(p) + (IF numberOfBursts(p) % 2 = 0 THEN 0 ELSE 0)
  BY <1>1, <1>4 DEF ServedFor, CPUServedFor
<1>7. ServedFor(p) = Need(p) /\ CPUServedFor(p) = CPUNeed(p)
  BY <1>4, <1>5, <1>6
<1> QED
  BY <1>1, <1>4, <1>5, <1>7 DEF ServedInv

LEMMA ReportFromInv ==
  PlaceInv /\ DispatchInv /\ AgeInv /\ SumsInv /\ TogetherInv /\ ExitInv /\ ClockInv
    => ReportSound
<1> SUFFICES ASSUME PlaceInv, DispatchInv, AgeInv, SumsInv, TogetherInv, ExitInv, ClockInv
             PROVE  ReportSound
  OBVIOUS
<1>1. TypeOK /\ IsFiniteSet(Procs) /\ clock_cycle \in Nat /\ cpuTimeUtilized \in Nat
  <2>1. TypeOK /\ clock_cycle \in Nat /\ cpuTimeUtilized \in Nat
    BY DEF PlaceInv, TypeInv, TypeOK
  <2> QED
    BY <2>1, ProcFacts
<1>2. ASSUME outcome = "aborted" PROVE ~IsInjective([p \in Procs |-> pid(p)])
  <2>1. PICK p, q \in preReadyQ : p # q /\ pid(p) = pid(q)
    BY <1>2 DEF ExitInv, SamePid
  <2>2. p \in Procs /\ q \in Procs
    BY <1>1 DEF TypeOK
  <2> QED
    BY <2>1, <2>2 DEF IsInjective
<1>3. ASSUME outcome = "finished"
      PROVE  /\ \A p, q \in Procs :
                  pid(p) = pid(q) /\ arrivalTime(p) = arrivalTime(q) => p = q
             /\ clock_cycle > 0 /\ cpuTimeUtilized <= clock_cycle * NUMBER_OF_PROCESSORS
             /\ \A p \in Procs : served[p] = Need(p)
             /\ cpuTimeUtilized = SumFunction([p \in Procs |-> CPUNeed(p)])
             /\ sumOfTurnaroundTimes = totalWaitingTime
                                         + SumFunction([p \in Procs |-> Need(p)])
             /\ LastToFinish # {} /\ \A p \in Procs : endTime[p] <= clock_cycle
  <2>1. phase = "endOfCycle" /\ LastCycle /\ Procs # {}
    BY <1>3 DEF ExitInv
  <2>2. Ended = Procs
    BY <2>1, LastCycleEnded
  <2>3. \A p, q \in Procs : pid(p) = pid(q) /\ arrivalTime(p) = arrivalTime(q) => p = q
    <3>1. Procs = 1 .. nextProcess
      BY <2>1 DEF LastCycle, Procs
    <3> QED
      BY <2>1, <3>1, NobodyTogether
  <2>4. clock_cycle > 0
    BY <1>1, <2>1, <2>2 DEF ClockInv
  <2>5. \A p \in Procs : /\ served[p] = Need(p) /\ Need(p) \in Nat
                         /\ CPUServedFor(p) = CPUNeed(p)
    BY <2>2, EndedServed DEF SumsInv
  <2>6. cpuTimeUtilized = SumFunction([p \in Procs |-> CPUNeed(p)])
    <3>1. [p \in Procs |-> CPUServedFor(p)] = [p \in Procs |-> CPUNeed(p)]
      BY <2>5
    <3>2. Cardinality(Running) = 0
      BY <2>1, FS_EmptySet DEF LastCycle
    <3>3. cpuTimeUtilized = SumFunctionOnSet([p \in Procs |-> CPUServedFor(p)], Procs)
      BY <1>1, <2>1, <3>2 DEF SumsInv, UtilizedInv
    <3> QED
      BY <3>1, <3>3 DEF SumFunction
  <2>7. sumOfTurnaroundTimes = totalWaitingTime + SumFunction([p \in Procs |-> Need(p)])
    <3> DEFINE d == [p \in Procs |-> endTime[p] - process_frm_datafile[p].arrivalTime]
               e == [p \in Procs |-> Need(p)]
    <3>1. \A p \in Procs : /\ waitingTime[p] \in Int /\ e[p] \in Int
                           /\ d[p] = waitingTime[p] + e[p]
      <4>1. \A p \in Procs : d[p] = waitingTime[p] + served[p]
        BY <2>2 DEF AgeInv, TimeAccounting, arrivalTime
      <4> QED
        BY <1>1, <2>5, <4>1 DEF TypeOK
    <3>2. DOMAIN waitingTime = Procs /\ DOMAIN d = Procs /\ DOMAIN e = Procs
      BY <1>1 DEF TypeOK
    <3>3. SumFunctionOnSet(d, Procs)
            = SumFunctionOnSet(waitingTime, Procs) + SumFunctionOnSet(e, Procs)
      <4> HIDE DEF d, e
      <4> QED
        BY <1>1, <3>1, SumAdd
    <3>4. /\ sumOfTurnaroundTimes = SumFunctionOnSet(d, Procs)
          /\ totalWaitingTime = SumFunctionOnSet(waitingTime, Procs)
          /\ SumFunction(e) = SumFunctionOnSet(e, Procs)
      BY <3>2 DEF sumOfTurnaroundTimes, totalWaitingTime, SumFunction
    <3> QED
      BY <3>3, <3>4
  <2>8. LastToFinish # {}
    BY <1>3, <2>2 DEF ClockInv, LastToFinish
  <2>9. /\ cpuTimeUtilized <= clock_cycle * NUMBER_OF_PROCESSORS
        /\ \A p \in Procs : endTime[p] <= clock_cycle
    BY DEF ClockInv
  <2> QED
    BY <2>3, <2>4, <2>5, <2>6, <2>7, <2>8, <2>9
<1> QED
  BY <1>2, <1>3 DEF ReportSound

(* What is printed at the end agrees with the data file: every process was
   served for its bursts, the processors were busy for the CPU bursts, the
   turnaround times are the waiting times and the bursts, and no division is by
   zero. *)
THEOREM ReportCorrect == Spec => []ReportSound
<1>1. PlaceInv => TypeInv
  BY DEF PlaceInv
<1> QED
  BY InitPlaceInv, NextPlaceInv, InitDispatchInv, NextDispatchInv, InitAgeInv,
     NextAgeInv, InitSums, NextSums, InitTogether, NextTogether, InitExit, NextExit,
     InitClock, NextClock, ReportFromInv, <1>1, PTL DEF Spec
-----------------------------------------------------------------------------
(* The slices of the first burst.  A process that is ready, or that the loop *)
(* over the processors has left on one of them, has some of its quantum left *)
(* in this cycle.                                                            *)

FirstBurst == {p \in Ready \cup Running : currentBurst[p] = 0}

Renewed(p) ==
  \/ p \in Ready
  \/ phase \in {"io", "sort", "dispatch", "incrementIO", "incrementReady", "incrementCPU"}
  \/ phase = "running" /\ \E c \in CPUs : c < i /\ cpu[c] = p

Slice(p) ==
  /\ quantumRemaining[p] \in 0 .. tQuantum
  /\ (step[p] + quantumRemaining[p]) % tQuantum = 0
  /\ Renewed(p) => quantumRemaining[p] > 0

SliceInv == tQuantum > 0 => \A p \in FirstBurst : Slice(p)

LEMMA InitSlice == Init => SliceInv
<1> SUFFICES ASSUME Init PROVE SliceInv
  OBVIOUS
<1>1. PlaceInv
  BY InitPlaceInv
<1>2. Active \cup Ended = 1 .. 0
  BY <1>1 DEF Init, PlaceInv, OnePlace
<1>3. FirstBurst = {}
  BY <1>2 DEF FirstBurst, Active
<1> QED
  BY <1>3 DEF SliceInv

\* Steps that start no slice and use none.
LEMMA QuietSlice ==
  ASSUME SliceInv, UNCHANGED tQuantum, FirstBurst' \subseteq FirstBurst,
         \A p \in FirstBurst' :
           /\ step'[p] = step[p] /\ quantumRemaining'[p] = quantumRemaining[p]
           /\ Renewed(p)' => Renewed(p) \/ quantumRemaining[p] > 0
  PROVE  SliceInv'
<1> SUFFICES ASSUME tQuantum > 0, NEW p \in FirstBurst' PROVE Slice(p)'
  BY DEF SliceInv
<1>1. Slice(p)
  BY DEF SliceInv
<1>2. tQuantum' = tQuantum /\ step'[p] = step[p]
      /\ quantumRemaining'[p] = quantumRemaining[p]
  OBVIOUS
<1> QED
  BY <1>1, <1>2 DEF Slice

LEMMA SliceTypes ==
  ASSUME PlaceInv
  PROVE  /\ TypeOK /\ i \in Nat /\ tQuantum \in Int /\ FirstBurst \subseteq Procs
         /\ cpu \in [CPUs -> Procs \cup {NULL}] /\ NULL \notin Procs
         /\ \A c \in CPUs : c \in Int /\ c < NUMBER_OF_PROCESSORS
         /\ \A p \in Procs : quantumRemaining[p] \in Int /\ step[p] \in Nat
<1>1. /\ TypeOK /\ i \in Nat /\ tQuantum \in Int
      /\ cpu \in [CPUs -> Procs \cup {NULL}]
      /\ \A p \in Procs : quantumRemaining[p] \in Int /\ step[p] \in Nat
  BY DEF PlaceInv, TypeInv, TypeOK
<1>2. \A c \in CPUs : c \in Int /\ c < NUMBER_OF_PROCESSORS
  BY SchAssumption DEF CPUs
<1>3. FirstBurst \subseteq Procs
  BY ActiveBurst DEF FirstBurst, Active
<1> QED
  BY <1>1, <1>2, <1>3, ProcFacts

LEMMA EndBurstSlice ==
  ASSUME PlaceInv, PlaceInv', SliceInv, Block \/ Finish PROVE SliceInv'
<1>1. PICK p \in Running : /\ Ready' = Ready /\ Running' = Running \ {p} /\ NextBurst(p)
  BY BlockPlaces, FinishPlaces DEF Placed
<1>2. /\ phase = "running" /\ phase' = "running" /\ i' = i + 1
      /\ AtCPU("running") /\ cpu' = [cpu EXCEPT ![i] = NULL]
      /\ UNCHANGED <<process_frm_datafile, tQuantum, quantumRemaining>>
  BY DEF Block, Finish, AtCPU, At, Vacate, Goto, input
<1>3. /\ TypeOK /\ i \in CPUs /\ p \in Procs /\ p \notin Ready
  BY <1>2, SliceTypes, AtCPUIndex DEF PlaceInv, OnePlace, Running
<1>4. \A q \in Procs : q # p => step'[q] = step[q] /\ currentBurst'[q] = currentBurst[q]
  BY <1>1, <1>3 DEF NextBurst, TypeOK
<1>5. /\ FirstBurst' = {q \in Ready \cup (Running \ {p}) : currentBurst'[q] = 0}
      /\ Ready \cup Running \subseteq Procs
  BY <1>1, ActiveBurst DEF FirstBurst, Active
<1>6. \A q \in FirstBurst' : q # p /\ q \in FirstBurst /\ q \in Procs /\ q # NULL
  <2>1. \A q \in FirstBurst' : q # p /\ q \in Procs
    BY <1>3, <1>5
  <2>2. \A q \in FirstBurst' : q \in FirstBurst
    BY <1>4, <1>5, <2>1 DEF FirstBurst
  <2> QED
    BY <2>1, <2>2, SliceTypes
<1>7. ASSUME NEW q \in FirstBurst', Renewed(q)' PROVE Renewed(q)
  <2>1. CASE q \in Ready'
    BY <1>1, <2>1 DEF Renewed
  <2>2. CASE q \notin Ready'
    <3>1. PICK c \in CPUs : c < i + 1 /\ cpu'[c] = q
      BY <1>2, <1>7, <2>2 DEF Renewed
    <3>2. c # i /\ cpu[c] = q /\ c < i
      BY <1>2, <1>3, <1>6, <3>1, SliceTypes
    <3> QED
      BY <1>2, <3>2 DEF Renewed
  <2> QED
    BY <2>1, <2>2
<1> QED
  BY <1>2, <1>4, <1>6, <1>7, QuietSlice

LEMMA PreemptSlice ==
  ASSUME PlaceInv, SliceInv, Preempt PROVE SliceInv'
<1>0. PICK p : p = cpu[i]
  OBVIOUS
<1>1. /\ phase = "running" /\ phase' = "running" /\ i' = i + 1 /\ p # NULL
      /\ AtCPU("running") /\ cpu' = [cpu EXCEPT ![i] = NULL]
      /\ quantumRemaining[p] = 0
      /\ quantumRemaining' = [quantumRemaining EXCEPT ![p] = tQuantum]
      /\ UNCHANGED <<process_frm_datafile, tQuantum, step, currentBurst>>
  BY <1>0 DEF Preempt, AtCPU, At, Vacate, Goto, input, progress
<1>2. TypeOK /\ i \in CPUs
  BY <1>1, SliceTypes, AtCPUIndex
<1>3. p \in Procs /\ p \in Running
  BY <1>0, <1>1, <1>2 DEF TypeOK, Running
<1>4. PICK r \in Running : Ready' = Ready \cup {r} /\ Running' = Running \ {r}
  BY PreemptPlaces DEF Placed
<1>5. r = p
  <2>1. Running' = Running \ {p}
    BY <1>0, <1>1, <1>2, Vacated DEF PlaceInv, OnePlace, CpuInjective
  <2> QED
    BY <1>3, <1>4, <2>1
<1>6. FirstBurst' = FirstBurst
  BY <1>1, <1>3, <1>4, <1>5 DEF FirstBurst
<1>7. /\ quantumRemaining'[p] = tQuantum
      /\ \A q \in Procs : q # p => quantumRemaining'[q] = quantumRemaining[q]
  BY <1>1, <1>2, <1>3 DEF TypeOK
<1>8. ASSUME tQuantum > 0, NEW q \in FirstBurst' PROVE Slice(q)'
  <2>1. Slice(q) /\ q \in Procs /\ q # NULL
    BY <1>6, <1>8, SliceTypes DEF SliceInv
  <2>2. CASE q = p
    <3>1. /\ tQuantum \in Nat \ {0} /\ step[p] \in Int
          /\ (step[p] + 0) % tQuantum = 0
      <4>1. tQuantum \in Nat \ {0} /\ step[p] \in Int
        BY <1>3, <1>8, SliceTypes
      <4>2. (step[p] + quantumRemaining[p]) % tQuantum = 0
        BY <2>1, <2>2 DEF Slice
      <4> QED
        BY <1>1, <4>1, <4>2
    <3>2. (step[p] + tQuantum) % tQuantum = step[p] % tQuantum
      BY <3>1, ModShift
    <3>3. (step[p] + tQuantum) % tQuantum = 0
      <4>1. step[p] + 0 = step[p]
        BY <3>1
      <4> QED
        BY <3>1, <3>2, <4>1
    <3>4. step'[q] = step[p] /\ quantumRemaining'[q] = tQuantum /\ tQuantum' = tQuantum
      BY <1>1, <1>7, <2>2
    <3>5. tQuantum \in 0 .. tQuantum /\ tQuantum > 0
      BY <3>1
    <3> QED
      BY <3>3, <3>4, <3>5 DEF Slice
  <2>3. CASE q # p
    <3>1. Renewed(q)' => Renewed(q)
      <4>1. q \in Ready' => q \in Ready
        BY <1>4, <1>5, <2>3
      <4>2. \A c \in CPUs : c < i + 1 /\ cpu'[c] = q => c < i /\ cpu[c] = q
        BY <1>1, <1>2, <2>1, SliceTypes
      <4> QED
        BY <1>1, <4>1, <4>2 DEF Renewed
    <3>2. quantumRemaining'[q] = quantumRemaining[q] /\ step'[q] = step[q]
          /\ tQuantum' = tQuantum
      BY <1>1, <1>7, <2>1, <2>3
    <3> QED
      BY <2>1, <3>1, <3>2 DEF Slice
  <2> QED
    BY <2>2, <2>3
<1> QED
  BY <1>1, <1>8 DEF SliceInv

LEMMA AdmitSlice ==
  ASSUME PlaceInv, SliceInv, ServedInv, Admit PROVE SliceInv'
<1>0. PICK n : n = nextProcess + 1
  OBVIOUS
<1>1. /\ phase' = "admit" /\ nextProcess' = n /\ nextProcess < totalProcesses
      /\ phase = "admit"
      /\ quantumRemaining' = [quantumRemaining EXCEPT ![n] = tQuantum]
      /\ UNCHANGED <<tQuantum, step, currentBurst, process_frm_datafile>>
  BY <1>0 DEF Admit, Arrived, At, Goto, input, progress
<1>2. /\ TypeOK /\ nextProcess \in Nat /\ totalProcesses \in Nat
  BY AdmittedTypes
<1>3. n \in Procs /\ n > nextProcess
  BY <1>0, <1>1, <1>2 DEF Procs
<1>4. step[n] = 0
  BY <1>3 DEF ServedInv
<1>5. Ready' = Ready \cup {n} /\ Running' = Running
  BY <1>0, AdmitPlaces DEF Placed
<1>6. /\ quantumRemaining'[n] = tQuantum
      /\ \A q \in Procs : q # n => quantumRemaining'[q] = quantumRemaining[q]
  BY <1>1, <1>2, <1>3 DEF TypeOK
<1>7. ASSUME tQuantum > 0, NEW q \in FirstBurst' PROVE Slice(q)'
  <2>1. CASE q = n
    <3>1. tQuantum \in Nat \ {0}
      BY <1>7, SliceTypes
    <3>2. (0 + tQuantum) % tQuantum = 0 % tQuantum /\ 0 % tQuantum = 0
      BY <3>1, ModShift
    <3> QED
      BY <1>1, <1>4, <1>6, <2>1, <3>1, <3>2 DEF Slice
  <2>2. CASE q # n
    <3>1. q \in FirstBurst
      BY <1>1, <1>5, <2>2 DEF FirstBurst
    <3>2. Slice(q) /\ q \in Procs
      BY <1>7, <3>1, SliceTypes DEF SliceInv
    <3>3. Renewed(q)' => Renewed(q)
      BY <1>1, <1>5, <2>2 DEF Renewed
    <3>4. quantumRemaining'[q] = quantumRemaining[q] /\ step'[q] = step[q]
          /\ tQuantum' = tQuantum
      BY <1>1, <1>6, <2>2, <3>2
    <3> QED
      BY <3>2, <3>3, <3>4 DEF Slice
  <2> QED
    BY <2>1, <2>2
<1> QED
  BY <1>1, <1>7 DEF SliceInv

LEMMA UseSlice ==
  ASSUME PlaceInv, SliceInv, incrementCPUBurst PROVE SliceInv'
<1>1. /\ phase = "incrementCPU" /\ phase' = "endOfCycle"
      /\ step' = Bump(step, Running)
      /\ quantumRemaining' = [p \in Procs |-> IF p \in Running
           THEN quantumRemaining[p] - 1 ELSE quantumRemaining[p]]
      /\ UNCHANGED <<process_frm_datafile, tQuantum, currentBurst, preReadyQ, readyQ, cpu>>
  BY DEF incrementCPUBurst, At, Goto, input, places
<1>2. Ready' = Ready /\ Running' = Running /\ FirstBurst' = FirstBurst
  BY <1>1 DEF FirstBurst, Ready, Running, Procs, totalProcesses
<1>3. ASSUME tQuantum > 0, NEW q \in FirstBurst' PROVE Slice(q)'
  <2>1. /\ q \in Procs /\ Slice(q) /\ tQuantum \in Int
        /\ quantumRemaining[q] \in Int /\ step[q] \in Nat
    BY <1>2, <1>3, SliceTypes DEF SliceInv
  <2>2. quantumRemaining[q] > 0
    BY <1>1, <2>1 DEF Slice, Renewed
  <2>3. Renewed(q)' => q \in Ready
    BY <1>1, <1>2 DEF Renewed
  <2>4. q \in Ready => q \notin Running
    BY DEF PlaceInv, OnePlace
  <2>5. CASE q \in Running
    <3>1. step'[q] = step[q] + 1 /\ quantumRemaining'[q] = quantumRemaining[q] - 1
      BY <1>1, <2>1, <2>5 DEF Bump
    <3>2. step'[q] + quantumRemaining'[q] = step[q] + quantumRemaining[q]
      BY <2>1, <3>1
    <3>3. quantumRemaining'[q] \in 0 .. tQuantum
      BY <2>1, <2>2, <3>1 DEF Slice
    <3> QED
      BY <1>1, <2>1, <2>3, <2>4, <2>5, <3>2, <3>3 DEF Slice
  <2>6. CASE q \notin Running
    <3>1. step'[q] = step[q] /\ quantumRemaining'[q] = quantumRemaining[q]
      BY <1>1, <2>1, <2>6 DEF Bump
    <3> QED
      BY <1>1, <2>1, <2>2, <3>1 DEF Slice
  <2> QED
    BY <2>5, <2>6
<1> QED
  BY <1>1, <1>3 DEF SliceInv

LEMMA NextSlice ==
  PlaceInv /\ PlaceInv' /\ ServedInv /\ SliceInv /\ [Next]_vars => SliceInv'
<1> SUFFICES ASSUME PlaceInv, PlaceInv', ServedInv, SliceInv, [Next]_vars
             PROVE  SliceInv'
  OBVIOUS
<1>1. CASE Block \/ Finish \/ Preempt \/ Admit \/ incrementCPUBurst
  BY <1>1, EndBurstSlice, PreemptSlice, AdmitSlice, UseSlice
<1>2. ASSUME Ready' = Ready, Running' = Running, UNCHANGED currentBurst
      PROVE  FirstBurst' = FirstBurst
  BY <1>2 DEF FirstBurst
<1>3. CASE Wake
  <2>1. PICK p \in Waiting : Ready' = Ready \cup {p} /\ Running' = Running /\ NextBurst(p)
    BY <1>3, WakePlaces DEF Placed
  <2>2. /\ phase = "io" /\ UNCHANGED <<tQuantum, quantumRemaining>>
    BY <1>3 DEF Wake, AtFront, At, Goto, input
  <2>3. TypeOK /\ p \in Procs /\ currentBurst[p] \in Nat
    BY SliceTypes, ActiveBurst DEF Active
  <2>4. /\ currentBurst'[p] = currentBurst[p] + 1
        /\ \A q \in Procs : q # p => step'[q] = step[q] /\ currentBurst'[q] = currentBurst[q]
    BY <2>1, <2>3 DEF NextBurst, TypeOK
  <2>5. \A q \in FirstBurst' : q # p /\ q \in FirstBurst /\ q \in Procs
    <3>1. FirstBurst' = {q \in Ready \cup {p} \cup Running : currentBurst'[q] = 0}
      BY <2>1 DEF FirstBurst
    <3>2. p \notin FirstBurst'
      BY <2>3, <2>4, <3>1
    <3>3. Ready \cup Running \subseteq Procs
      BY ActiveBurst DEF Active
    <3> QED
      BY <2>4, <3>1, <3>2, <3>3 DEF FirstBurst
  <2>6. \A q \in FirstBurst' : Renewed(q)
    BY <2>2 DEF Renewed
  <2> QED
    BY <2>2, <2>4, <2>5, <2>6, QuietSlice
<1>4. CASE Continue
  <2>1. /\ phase = "running" /\ phase' = "running" /\ i' = i + 1
        /\ cpu[i] # NULL => quantumRemaining[cpu[i]] # 0
        /\ UNCHANGED <<process_frm_datafile, tQuantum, step, quantumRemaining,
                       currentBurst, cpu, preReadyQ, readyQ>>
    BY <1>4 DEF Continue, AtCPU, At, Proceed, Goto, input, progress, places
  <2>2. Ready' = Ready /\ Running' = Running /\ FirstBurst' = FirstBurst
    BY <1>2, <2>1 DEF Ready, Running, Procs, totalProcesses
  <2>3. ASSUME tQuantum > 0, NEW q \in FirstBurst, Renewed(q)'
        PROVE  Renewed(q) \/ quantumRemaining[q] > 0
    <3>1. CASE q \in Ready
      BY <3>1 DEF Renewed
    <3>2. CASE q \notin Ready
      <4>1. PICK c \in CPUs : c < i + 1 /\ cpu[c] = q
        BY <2>1, <2>2, <2>3, <3>2 DEF Renewed
      <4>2. CASE c < i
        BY <2>1, <4>1, <4>2 DEF Renewed
      <4>3. CASE c = i
        <5>1. q \in Procs /\ quantumRemaining[q] \in 0 .. tQuantum
          BY <2>3, SliceTypes DEF SliceInv, Slice
        <5> QED
          BY <2>1, <4>1, <4>3, <5>1, SliceTypes
      <4> QED
        BY <4>1, <4>2, <4>3, SliceTypes
    <3> QED
      BY <3>1, <3>2
  <2>4. CASE tQuantum > 0
    BY <2>1, <2>2, <2>3, <2>4, QuietSlice
  <2>5. CASE ~(tQuantum > 0)
    BY <2>1, <2>5 DEF SliceInv
  <2> QED
    BY <2>4, <2>5
<1>5. CASE RunningDone
  <2>1. /\ phase = "running" /\ i = NUMBER_OF_PROCESSORS
        /\ UNCHANGED <<process_frm_datafile, tQuantum, step, quantumRemaining,
                       currentBurst, cpu, preReadyQ, readyQ>>
    BY <1>5 DEF RunningDone, At, Proceed, Goto, input, progress, places
  <2>2. Ready' = Ready /\ Running' = Running /\ FirstBurst' = FirstBurst
    BY <1>2, <2>1 DEF Ready, Running, Procs, totalProcesses
  <2>3. \A q \in FirstBurst : Renewed(q)
    BY <2>1, SliceTypes DEF FirstBurst, Renewed, Running
  <2> QED
    BY <2>1, <2>2, <2>3, QuietSlice
<1>6. CASE Dispatch \/ KeepWaiting \/ EnqueueReady
  <2>1. Ready' \cup Running' = Ready \cup Running
    BY <1>6, DispatchPlaces, KeepWaitingPlaces, EnqueueReadyPlaces DEF Placed
  <2>2. /\ phase \in {"io", "sort", "dispatch"}
        /\ UNCHANGED <<tQuantum, step, quantumRemaining, currentBurst>>
    BY <1>6 DEF Dispatch, KeepWaiting, EnqueueReady, AtFront, AtCPU, At, Goto, input,
       progress
  <2>3. FirstBurst' = FirstBurst
    BY <2>1, <2>2 DEF FirstBurst
  <2>4. \A q \in FirstBurst : Renewed(q)
    BY <2>2 DEF Renewed
  <2> QED
    BY <2>2, <2>3, <2>4, QuietSlice
<1>7. CASE AdmitDone \/ EndOfCycle
  <2>1. /\ \/ phase' = "running" /\ i' = 0
           \/ phase' \in {"admit", "endOfCycle"}
        /\ UNCHANGED <<process_frm_datafile, tQuantum, step, quantumRemaining,
                       currentBurst, cpu, preReadyQ, readyQ>>
    BY <1>7 DEF AdmitDone, EndOfCycle, At, Proceed, Goto, input, progress, places
  <2>2. Ready' = Ready /\ Running' = Running /\ FirstBurst' = FirstBurst
    BY <1>2, <2>1 DEF Ready, Running, Procs, totalProcesses
  <2>3. \A c \in CPUs : ~(c < 0)
    BY SchAssumption DEF CPUs
  <2>4. \A q \in FirstBurst : Renewed(q)' => Renewed(q)
    BY <2>1, <2>2, <2>3 DEF Renewed
  <2> QED
    BY <2>1, <2>2, <2>4, QuietSlice
<1>8. CASE \/ IODone \/ SortDone \/ NoDispatch \/ DispatchDone
           \/ incrementIOWaiting \/ incrementReadyQIdle
  <2>1. /\ phase \in {"io", "sort", "dispatch", "incrementIO", "incrementReady"}
        /\ UNCHANGED <<process_frm_datafile, tQuantum, quantumRemaining,
                       currentBurst, cpu, preReadyQ, readyQ>>
        /\ UNCHANGED step \/ step' = Bump(step, Waiting)
    BY <1>8 DEF IODone, SortDone, NoDispatch, DispatchDone, incrementIOWaiting,
       incrementReadyQIdle, AtCPU, At, Proceed, Goto, input, progress, places, Waiting
  <2>2. Ready' = Ready /\ Running' = Running /\ FirstBurst' = FirstBurst
    BY <1>2, <2>1 DEF Ready, Running, Procs, totalProcesses
  <2>3. \A q \in FirstBurst : q \in Procs /\ q \notin Waiting /\ Renewed(q)
    BY <2>1, SliceTypes DEF FirstBurst, Renewed, PlaceInv, OnePlace
  <2>4. \A q \in FirstBurst : step'[q] = step[q]
    BY <2>1, <2>3 DEF Bump
  <2> QED
    BY <2>1, <2>2, <2>3, <2>4, QuietSlice
<1>9. CASE SortAssertFails \/ UNCHANGED vars
  <2>1. UNCHANGED <<process_frm_datafile, tQuantum, step, quantumRemaining, phase, i,
                    currentBurst, cpu, preReadyQ, readyQ>>
    BY <1>9 DEF SortAssertFails, vars, input, progress, places, position
  <2>2. Ready' = Ready /\ Running' = Running /\ FirstBurst' = FirstBurst
    BY <1>2, <2>1 DEF Ready, Running, Procs, totalProcesses
  <2>3. \A q \in FirstBurst : Renewed(q)' => Renewed(q)
    BY <2>1, <2>2 DEF Renewed
  <2> QED
    BY <2>1, <2>2, <2>3, QuietSlice
<1> QED
  BY <1>1, <1>3, <1>4, <1>5, <1>6, <1>7, <1>8, <1>9 DEF Next

(* In its first burst a process is preempted after every tQuantum cycles of
   execution, no sooner and no later. *)
THEOREM SlicesCorrect == Spec => []FirstBurstSlices
<1>1. SliceInv => FirstBurstSlices
  BY DEF SliceInv, Slice, FirstBurst, FirstBurstSlices
<1>2. SumsInv => ServedInv
  BY DEF SumsInv
<1> QED
  BY InitPlaceInv, NextPlaceInv, InitSums, NextSums, InitSlice, NextSlice, <1>1, <1>2,
     PTL DEF Spec
-----------------------------------------------------------------------------
(* The wait.  Without I/O every process that is not ahead of a ready one in  *)
(* readyQ has either ended, or runs, or is behind it; each quantum that it   *)
(* waits, as many of them as there are processors have been dispatched once  *)
(* more, and there are only so many.                                         *)

\* The running processes that have more than d of their quantum left.
Fresh(d) == {p \in Running : quantumRemaining[p] > d}

\* For r quanta and s cycles that the process in place j has waited, the others
\* not ahead of it are those of the r + 1 rounds and those dispatched since.
\* The time a process has waited is incremented before the quanta are.
Rounded(j, r, s) ==
  /\ waited[readyQ[j]] = r * tQuantum + s
  /\ phase \in {"incrementIO", "incrementReady"} => s < tQuantum
  /\ totalProcesses - j >=
       (r + 1) * NUMBER_OF_PROCESSORS
         + Cardinality(Fresh(tQuantum - s + (IF phase = "incrementCPU" THEN 1 ELSE 0)))

RoundsInv ==
  tQuantum > 0 /\ SingleBursts =>
    /\ \A j \in 1 .. Len(readyQ) : \E r \in Int, s \in 0 .. tQuantum : Rounded(j, r, s)
    /\ \A p \in Procs \ Range(readyQ) : waited[p] = 0

\* What the steps below need of the types.
LEMMA RoundTypes ==
  ASSUME PlaceInv
  PROVE  /\ TypeOK /\ tQuantum \in Int /\ totalProcesses \in Nat
         /\ readyQ \in Seq(Procs) /\ Len(readyQ) \in Nat
         /\ \A j \in 1 .. Len(readyQ) : readyQ[j] \in Procs /\ waited[readyQ[j]] \in Nat
         /\ NUMBER_OF_PROCESSORS \in Nat \ {0}
         /\ \A p \in Procs : quantumRemaining[p] \in Int /\ waited[p] \in Nat
         /\ \A d : IsFiniteSet(Fresh(d)) /\ Cardinality(Fresh(d)) \in Nat
                   /\ Cardinality(Fresh(d)) <= Cardinality(Running)
<1>1. /\ TypeOK /\ tQuantum \in Int /\ readyQ \in Seq(Procs)
      /\ \A p \in Procs : quantumRemaining[p] \in Int /\ waited[p] \in Nat
  BY SliceTypes DEF TypeOK
<1>2. ASSUME NEW d
      PROVE  IsFiniteSet(Fresh(d)) /\ Cardinality(Fresh(d)) \in Nat
             /\ Cardinality(Fresh(d)) <= Cardinality(Running)
  <2>1. Fresh(d) \in SUBSET Running /\ IsFiniteSet(Running)
    BY <1>1, ProcFacts DEF Fresh
  <2> QED
    BY <2>1, FS_Subset, FS_CardinalityType
<1> QED
  BY <1>1, <1>2, ProcFacts

\* The inputs are what they were.
LEMMA SameInputs ==
  ASSUME UNCHANGED process_frm_datafile
  PROVE  /\ Procs' = Procs /\ totalProcesses' = totalProcesses
         /\ SingleBursts' <=> SingleBursts
  BY DEF Procs, totalProcesses, SingleBursts, numberOfBursts

\* A step that makes no process run or wait longer.
LEMMA QuietRounds ==
  ASSUME PlaceInv, RoundsInv,
         UNCHANGED <<process_frm_datafile, tQuantum, readyQ, waited>>,
         Running' \subseteq Running,
         \A p \in Running' : quantumRemaining'[p] = quantumRemaining[p],
         phase' \in {"incrementIO", "incrementReady"} =>
           phase \in {"incrementIO", "incrementReady"},
         phase' = "incrementCPU" <=> phase = "incrementCPU"
  PROVE  RoundsInv'
<1> SUFFICES ASSUME tQuantum > 0, SingleBursts PROVE RoundsInv'
  BY SameInputs DEF RoundsInv
<1>1. ASSUME NEW j \in 1 .. Len(readyQ)
      PROVE  \E r \in Int, s \in 0 .. tQuantum : Rounded(j, r, s)'
  <2>1. PICK r \in Int, s \in 0 .. tQuantum : Rounded(j, r, s)
    BY <1>1 DEF RoundsInv
  <2> DEFINE d == tQuantum - s + (IF phase = "incrementCPU" THEN 1 ELSE 0)
  <2>2. Fresh(d)' \in SUBSET Fresh(d) /\ d' = d
    BY DEF Fresh
  <2>3. /\ Cardinality(Fresh(d)') <= Cardinality(Fresh(d))
        /\ Cardinality(Fresh(d)') \in Nat /\ Cardinality(Fresh(d)) \in Nat
    BY <2>2, RoundTypes, FS_Subset, FS_CardinalityType
  <2>4. totalProcesses' - j >=
          (r + 1) * NUMBER_OF_PROCESSORS + Cardinality(Fresh(d)')
    <3>1. totalProcesses - j >= (r + 1) * NUMBER_OF_PROCESSORS + Cardinality(Fresh(d))
      BY <2>1 DEF Rounded
    <3>2. (r + 1) * NUMBER_OF_PROCESSORS \in Int
      BY RoundTypes
    <3> HIDE DEF d
    <3> QED
      BY <2>3, <3>1, <3>2, RoundTypes, SameInputs
  <2>5. Rounded(j, r, s)'
    BY <2>1, <2>4 DEF Rounded
  <2> QED
    BY <2>5
<1>2. \A p \in Procs' \ Range(readyQ') : waited'[p] = 0
  BY SameInputs DEF RoundsInv
<1> QED
  BY <1>1, <1>2 DEF RoundsInv

\* Those in readyQ and those that run are different processes.
Room ==
  /\ totalProcesses \in Nat /\ Cardinality(Running) \in Nat
  /\ totalProcesses - Len(readyQ) >= Cardinality(Running)
  /\ \A d : Cardinality(Fresh(d)) \in Nat /\ Cardinality(Fresh(d)) <= Cardinality(Running)

LEMMA RoomForAll == PlaceInv => Room
<1> SUFFICES ASSUME PlaceInv PROVE Room
  OBVIOUS
<1>1. /\ IsFiniteSet(Running) /\ Cardinality(Running) \in Nat /\ Running \subseteq Procs
      /\ IsFiniteSet(Procs) /\ Cardinality(Procs) = totalProcesses
      /\ totalProcesses \in Nat /\ Len(readyQ) \in Nat
  BY RoundTypes, ProcFacts, IntervalCount DEF Procs
<1>2. /\ IsFiniteSet(Range(readyQ)) /\ Cardinality(Range(readyQ)) = Len(readyQ)
      /\ Range(readyQ) \subseteq Procs
  BY RoundTypes, InjectiveCount, RangeSubset DEF PlaceInv, OnePlace
<1>3. Range(readyQ) \cap Running = {}
  BY DEF PlaceInv, OnePlace, Ready
<1>4. Cardinality(Range(readyQ) \cup Running) = Len(readyQ) + Cardinality(Running)
  <2>1. Cardinality(Range(readyQ) \cup Running)
          = Len(readyQ) + Cardinality(Running) - Cardinality(Range(readyQ) \cap Running)
    BY <1>1, <1>2, FS_Union
  <2>2. Cardinality(Range(readyQ) \cap Running) = 0
    BY <1>3, FS_EmptySet
  <2> QED
    BY <1>1, <2>1, <2>2
<1>5. Cardinality(Range(readyQ) \cup Running) <= totalProcesses
  BY <1>1, <1>2, FS_Subset
<1>6. totalProcesses - Len(readyQ) >= Cardinality(Running)
  BY <1>1, <1>4, <1>5
<1> QED
  BY <1>1, <1>6, RoundTypes DEF Room

LEMMA RoomForAllNext == PlaceInv' => Room'
BY RoomForAll, PTL

\* A process that comes to the end of readyQ has waited for no round yet.
LEMMA JoinRounds ==
  ASSUME PlaceInv, PlaceInv', RoundsInv,
         NEW p \in Procs, p \notin Range(readyQ), readyQ' = Append(readyQ, p),
         UNCHANGED <<process_frm_datafile, tQuantum, waited>>,
         Running' \subseteq Running,
         \A q \in Running' : quantumRemaining'[q] = quantumRemaining[q],
         phase' = phase, phase \notin {"incrementIO", "incrementReady", "incrementCPU"}
  PROVE  RoundsInv'
<1> SUFFICES ASSUME tQuantum > 0, SingleBursts PROVE RoundsInv'
  BY SameInputs DEF RoundsInv
<1>1. /\ Len(readyQ) \in Nat /\ Len(readyQ') = Len(readyQ) + 1
      /\ readyQ'[Len(readyQ) + 1] = p
      /\ \A j \in 1 .. Len(readyQ) : readyQ'[j] = readyQ[j]
      /\ Range(readyQ') = Range(readyQ) \cup {p}
      /\ tQuantum \in Int
  BY RoundTypes, AppendRange
<1>2. ASSUME NEW j \in 1 .. Len(readyQ)
      PROVE  \E r \in Int, s \in 0 .. tQuantum : Rounded(j, r, s)'
  <2>1. PICK r \in Int, s \in 0 .. tQuantum : Rounded(j, r, s)
    BY <1>2 DEF RoundsInv
  <2>2. Fresh(tQuantum - s + 0)' \in SUBSET Fresh(tQuantum - s + 0)
    BY DEF Fresh
  <2>3. /\ Cardinality(Fresh(tQuantum - s + 0)') <= Cardinality(Fresh(tQuantum - s + 0))
        /\ Cardinality(Fresh(tQuantum - s + 0)') \in Nat
        /\ Cardinality(Fresh(tQuantum - s + 0)) \in Nat
    BY <2>2, RoundTypes, FS_Subset, FS_CardinalityType
  <2>4. totalProcesses' - j >=
          (r + 1) * NUMBER_OF_PROCESSORS + Cardinality(Fresh(tQuantum - s + 0)')
    <3>1. totalProcesses - j >=
            (r + 1) * NUMBER_OF_PROCESSORS + Cardinality(Fresh(tQuantum - s + 0))
      BY <2>1 DEF Rounded
    <3>2. (r + 1) * NUMBER_OF_PROCESSORS \in Int
      BY RoundTypes
    <3>3. totalProcesses' = totalProcesses /\ totalProcesses \in Int /\ j \in Int
      BY <1>1, <1>2, RoundTypes, SameInputs
    <3> QED
      BY <2>3, <3>1, <3>2, <3>3
  <2>5. Rounded(j, r, s)'
    BY <1>1, <1>2, <2>1, <2>4 DEF Rounded
  <2> QED
    BY <2>5
<1>3. ASSUME NEW j, j = Len(readyQ) + 1
      PROVE  \E r \in Int, s \in 0 .. tQuantum : Rounded(j, r, s)'
  <2>1. waited[p] = 0
    BY DEF RoundsInv
  <2>2. 0 = (-1) * tQuantum + tQuantum /\ (-1 + 1) * NUMBER_OF_PROCESSORS = 0
    BY <1>1, RoundTypes
  <2>3. totalProcesses' - j >= Cardinality(Fresh(tQuantum - tQuantum + 0)')
    <3>1. Room' /\ Len(readyQ') = j
      BY <1>1, <1>3, RoomForAllNext
    <3> QED
      BY <1>1, <1>3, <3>1 DEF Room
  <2>4. Cardinality(Fresh(tQuantum - tQuantum + 0)') \in Nat /\ totalProcesses' - j \in Int
    BY <1>1, <1>3, RoomForAllNext DEF Room
  <2>5. Rounded(j, -1, tQuantum)'
    BY <1>1, <1>3, <2>1, <2>2, <2>3, <2>4 DEF Rounded
  <2>6. -1 \in Int /\ tQuantum \in 0 .. tQuantum
    BY <1>1
  <2> QED
    BY <2>5, <2>6, Zenon
<1>4. \A q \in Procs' \ Range(readyQ') : waited'[q] = 0
  BY <1>1, SameInputs DEF RoundsInv
<1>5. \A j \in 1 .. Len(readyQ') : j \in 1 .. Len(readyQ) \/ j = Len(readyQ) + 1
  BY <1>1
<1> QED
  BY <1>2, <1>3, <1>4, <1>5 DEF RoundsInv

\* A process leaves readyQ for a processor.
LEMMA DispatchRounds ==
  ASSUME PlaceInv, RoundsInv, Dispatch PROVE RoundsInv'
<1> SUFFICES ASSUME tQuantum > 0, SingleBursts PROVE RoundsInv'
  BY SameInputs DEF RoundsInv, Dispatch, Goto, input
<1>1. /\ phase = "dispatch" /\ phase' = "dispatch" /\ readyQ # <<>>
      /\ readyQ' = Tail(readyQ) /\ waited' = [waited EXCEPT ![Head(readyQ)] = 0]
      /\ cpu' = [cpu EXCEPT ![i] = Head(readyQ)]
      /\ UNCHANGED <<process_frm_datafile, tQuantum, quantumRemaining>>
  BY DEF Dispatch, AtCPU, At, Goto, input
<1>2. PICK p : p = Head(readyQ)
  OBVIOUS
<1>3. /\ p \in Procs /\ Len(readyQ) \in Nat /\ Len(readyQ') = Len(readyQ) - 1
      /\ Range(readyQ) = Range(readyQ') \cup {p} /\ p \notin Range(readyQ')
      /\ \A j \in 1 .. Len(readyQ') : readyQ'[j] = readyQ[j + 1] /\ readyQ'[j] \in Range(readyQ')
  <2>1. readyQ \in Seq(Procs) /\ IsInjective(readyQ)
    BY RoundTypes DEF PlaceInv, OnePlace
  <2>2. /\ p \in Procs /\ Len(readyQ) \in Nat /\ Len(readyQ') = Len(readyQ) - 1
        /\ Range(readyQ) = Range(readyQ') \cup {p} /\ p \notin Range(readyQ')
        /\ readyQ' \in Seq(Procs)
    BY <1>1, <1>2, <2>1, TailRange
  <2>3. \A j \in 1 .. Len(readyQ') : readyQ'[j] = readyQ[j + 1]
    BY <1>1, <2>1
  <2>4. \A j \in 1 .. Len(readyQ') : readyQ'[j] \in Range(readyQ')
    BY <2>2 DEF Range
  <2> QED
    BY <2>2, <2>3, <2>4
<1>4. Running' \subseteq Running \cup {p}
  BY <1>1, <1>2, SameInputs DEF Running
<1>5. /\ waited'[p] = 0 /\ \A q \in Procs : q # p => waited'[q] = waited[q]
  BY <1>1, <1>2, <1>3, RoundTypes DEF TypeOK
<1>6. ASSUME NEW j \in 1 .. Len(readyQ')
      PROVE  \E r \in Int, s \in 0 .. tQuantum : Rounded(j, r, s)'
  <2>1. j + 1 \in 1 .. Len(readyQ)
    BY <1>3
  <2>2. PICK r \in Int, s \in 0 .. tQuantum : Rounded(j + 1, r, s)
    BY <2>1 DEF RoundsInv
  <2> DEFINE d == tQuantum - s + 0
  <2>3. Fresh(d)' \subseteq Fresh(d) \cup {p} /\ d' = d
    BY <1>1, <1>4 DEF Fresh
  <2>4. /\ Cardinality(Fresh(d)') <= Cardinality(Fresh(d)) + 1
        /\ Cardinality(Fresh(d)') \in Nat /\ Cardinality(Fresh(d)) \in Nat
    <3> HIDE DEF d
    <3>1. IsFiniteSet(Fresh(d)) /\ Cardinality(Fresh(d)) \in Nat
      BY RoundTypes
    <3> QED
      BY <2>3, <3>1, OneMore
  <2>5. totalProcesses' - j >=
          (r + 1) * NUMBER_OF_PROCESSORS + Cardinality(Fresh(d)')
    <3>1. totalProcesses - (j + 1) >= (r + 1) * NUMBER_OF_PROCESSORS + Cardinality(Fresh(d))
      BY <1>1, <2>2 DEF Rounded
    <3>2. (r + 1) * NUMBER_OF_PROCESSORS \in Int
      BY RoundTypes
    <3> HIDE DEF d
    <3>3. totalProcesses' = totalProcesses /\ totalProcesses \in Int /\ j \in Int
      BY <1>1, <1>3, RoundTypes, SameInputs
    <3> QED
      BY <2>4, <3>1, <3>2, <3>3
  <2>6. waited'[readyQ'[j]] = waited[readyQ[j + 1]]
    BY <1>3, <1>5, <2>1, RoundTypes
  <2>7. Rounded(j, r, s)'
    BY <1>1, <2>2, <2>5, <2>6 DEF Rounded
  <2> QED
    BY <2>7
<1>7. \A q \in Procs' \ Range(readyQ') : waited'[q] = 0
  BY <1>1, <1>3, <1>5, SameInputs DEF RoundsInv
<1> QED
  BY <1>1, <1>6, <1>7 DEF RoundsInv

\* With a processor free there is no process left in readyQ; with none free, all
\* running processes are in the middle of a quantum.
LEMMA AllBusy ==
  ASSUME TypeOK, CpuInjective, \A c \in CPUs : cpu[c] # NULL
  PROVE  Cardinality(Running) = NUMBER_OF_PROCESSORS
<1>1. cpu \in [CPUs -> Running] /\ \A c, e \in CPUs : cpu[c] = cpu[e] => c = e
  BY DEF TypeOK, CpuInjective, Running
<1>2. cpu \in Bijection(CPUs, Running)
  <2>1. cpu \in Injection(CPUs, Running)
    BY <1>1 DEF Injection, IsInjective
  <2>2. cpu \in Surjection(CPUs, Running)
    BY <1>1 DEF Surjection, Running
  <2> QED
    BY <2>1, <2>2 DEF Bijection
<1>3. IsFiniteSet(CPUs) /\ Cardinality(CPUs) = NUMBER_OF_PROCESSORS
  <2>1. NUMBER_OF_PROCESSORS \in Nat \ {0}
    BY SchAssumption
  <2> QED
    BY <2>1, FS_Interval DEF CPUs
<1> QED
  BY <1>2, <1>3, FS_Bijection DEF ExistsBijection

\* After the dispatch a quantum waited in full counts as one more round.
LEMMA DispatchDoneRounds ==
  ASSUME PlaceInv, DispatchInv, SliceInv, RoundsInv, DispatchDone PROVE RoundsInv'
<1> SUFFICES ASSUME tQuantum > 0, SingleBursts PROVE RoundsInv'
  BY SameInputs DEF RoundsInv, DispatchDone, Proceed, Goto, input
<1>1. /\ phase = "dispatch" /\ phase' = "incrementIO" /\ i = NUMBER_OF_PROCESSORS
      /\ UNCHANGED <<process_frm_datafile, tQuantum, quantumRemaining, readyQ, waited, cpu>>
  BY DEF DispatchDone, At, Proceed, Goto, input, places, times
<1>2. Running' = Running /\ \A d : Fresh(d)' = Fresh(d)
  BY <1>1, SameInputs DEF Running, Fresh
<1>3. ASSUME readyQ # <<>> PROVE Cardinality(Fresh(0)) = NUMBER_OF_PROCESSORS
  <2>1. \A c \in CPUs : cpu[c] # NULL
    BY <1>1, <1>3, SliceTypes DEF DispatchInv
  <2>2. Cardinality(Running) = NUMBER_OF_PROCESSORS
    BY <2>1, AllBusy DEF PlaceInv, TypeInv, OnePlace, CpuInjective
  <2>3. ASSUME NEW q \in Running PROVE quantumRemaining[q] > 0
    <3>1. /\ q \in Procs /\ currentBurst[q] \in Nat /\ currentBurst[q] < numberOfBursts(q)
      BY ActiveBurst DEF Active
    <3>2. currentBurst[q] = 0
      BY <3>1 DEF SingleBursts
    <3>3. Slice(q)
      BY <3>2 DEF SliceInv, FirstBurst
    <3> QED
      BY <1>1, <3>3 DEF Slice, Renewed
  <2>4. Fresh(0) = Running
    BY <2>3 DEF Fresh
  <2> QED
    BY <2>2, <2>4
<1>4. ASSUME NEW j \in 1 .. Len(readyQ)
      PROVE  \E r \in Int, s \in 0 .. tQuantum : Rounded(j, r, s)'
  <2>1. PICK r \in Int, s \in 0 .. tQuantum : Rounded(j, r, s)
    BY <1>4 DEF RoundsInv
  <2>2. CASE s < tQuantum
    <3>1. Rounded(j, r, s)'
      BY <1>1, <1>2, <2>1, <2>2, SameInputs DEF Rounded
    <3> QED
      BY <3>1
  <2>3. CASE s = tQuantum
    <3>1. readyQ # <<>>
      BY <1>4
    <3>2. tQuantum - s + 0 = 0
      BY <2>3, RoundTypes
    <3>3. /\ waited[readyQ[j]] = r * tQuantum + tQuantum
          /\ totalProcesses - j >= (r + 1) * NUMBER_OF_PROCESSORS + NUMBER_OF_PROCESSORS
      BY <1>1, <1>3, <2>1, <2>3, <3>1, <3>2 DEF Rounded
    <3>4. /\ r * tQuantum + tQuantum = (r + 1) * tQuantum + 0
          /\ (r + 1) * NUMBER_OF_PROCESSORS + NUMBER_OF_PROCESSORS
               = (r + 1 + 1) * NUMBER_OF_PROCESSORS + 0
      BY RoundTypes
    <3>5. Fresh(tQuantum - 0 + 0) = {}
      <4>1. ASSUME NEW q \in Running PROVE ~(quantumRemaining[q] > tQuantum)
        <5>1. /\ q \in Procs /\ currentBurst[q] \in Nat /\ currentBurst[q] < numberOfBursts(q)
          BY ActiveBurst DEF Active
        <5>2. Slice(q)
          BY <5>1 DEF SliceInv, FirstBurst, SingleBursts
        <5> QED
          BY <5>1, <5>2, RoundTypes DEF Slice
      <4>2. tQuantum - 0 + 0 = tQuantum
        BY RoundTypes
      <4> QED
        BY <4>1, <4>2 DEF Fresh
    <3>6. Cardinality(Fresh(tQuantum - 0 + 0)') = 0
      <4>1. Fresh(tQuantum - 0 + 0)' = {}
        BY <1>1, <1>2, <3>5 DEF Fresh
      <4> QED
        BY <4>1, FS_EmptySet
    <3>7. Rounded(j, r + 1, 0)'
      BY <1>1, <3>3, <3>4, <3>6, SameInputs DEF Rounded
    <3> QED
      BY <3>7, RoundTypes
  <2> QED
    BY <2>1, <2>2, <2>3, RoundTypes
<1>5. \A q \in Procs' \ Range(readyQ') : waited'[q] = 0
  BY <1>1, SameInputs DEF RoundsInv
<1> QED
  BY <1>1, <1>4, <1>5 DEF RoundsInv

\* The others in readyQ wait for a cycle more, of a quantum that is not over.
LEMMA WaitRounds ==
  ASSUME PlaceInv, RoundsInv, incrementReadyQIdle PROVE RoundsInv'
<1> SUFFICES ASSUME tQuantum > 0, SingleBursts PROVE RoundsInv'
  BY SameInputs DEF RoundsInv, incrementReadyQIdle, Goto, input
<1>1. /\ phase = "incrementReady" /\ phase' = "incrementCPU"
      /\ waited' = Bump(waited, Range(readyQ))
      /\ UNCHANGED <<process_frm_datafile, tQuantum, quantumRemaining, readyQ, cpu>>
  BY DEF incrementReadyQIdle, At, Goto, input, places
<1>2. Running' = Running
  BY <1>1, SameInputs DEF Running
<1>3. \A q \in Procs : waited'[q] = IF q \in Range(readyQ) THEN waited[q] + 1 ELSE waited[q]
  BY <1>1 DEF Bump
<1>4. ASSUME NEW j \in 1 .. Len(readyQ)
      PROVE  \E r \in Int, s \in 0 .. tQuantum : Rounded(j, r, s)'
  <2>1. PICK r \in Int, s \in 0 .. tQuantum : Rounded(j, r, s)
    BY <1>4 DEF RoundsInv
  <2>2. /\ waited[readyQ[j]] = r * tQuantum + s /\ s < tQuantum
        /\ totalProcesses - j >=
             (r + 1) * NUMBER_OF_PROCESSORS + Cardinality(Fresh(tQuantum - s + 0))
    BY <1>1, <2>1 DEF Rounded
  <2>3. waited'[readyQ'[j]] = r * tQuantum + (s + 1)
    <3>1. readyQ[j] \in Range(readyQ)
      BY <1>4, RoundTypes DEF Range
    <3>2. readyQ[j] \in Procs /\ waited'[readyQ'[j]] = waited[readyQ[j]] + 1
      BY <1>1, <1>3, <1>4, <3>1, RoundTypes
    <3>3. PICK a \in Int : a = r * tQuantum
      BY RoundTypes
    <3>4. waited[readyQ[j]] = a + s /\ s \in Int
      BY <2>2, <3>3
    <3> QED
      BY <3>2, <3>3, <3>4
  <2>4. s + 1 \in 0 .. tQuantum /\ tQuantum - (s + 1) + 1 = tQuantum - s + 0
    <3>1. tQuantum \in Int
      BY RoundTypes
    <3> QED
      BY <2>2, <3>1
  <2>5. Fresh(tQuantum - (s + 1) + 1)' = Fresh(tQuantum - s + 0)
    BY <1>1, <1>2, <2>4 DEF Fresh
  <2>6. Rounded(j, r, s + 1)'
    BY <1>1, <2>2, <2>3, <2>5, SameInputs DEF Rounded
  <2> QED
    BY <1>1, <2>4, <2>6
<1>5. \A q \in Procs' \ Range(readyQ') : waited'[q] = 0
  BY <1>1, <1>3, SameInputs DEF RoundsInv
<1> QED
  BY <1>1, <1>4, <1>5 DEF RoundsInv

\* The quanta go down as the time waited went up.
LEMMA UseRounds ==
  ASSUME PlaceInv, RoundsInv, incrementCPUBurst PROVE RoundsInv'
<1> SUFFICES ASSUME tQuantum > 0, SingleBursts PROVE RoundsInv'
  BY SameInputs DEF RoundsInv, incrementCPUBurst, Goto, input
<1>1. /\ phase = "incrementCPU" /\ phase' = "endOfCycle"
      /\ quantumRemaining' = [p \in Procs |-> IF p \in Running
           THEN quantumRemaining[p] - 1 ELSE quantumRemaining[p]]
      /\ UNCHANGED <<process_frm_datafile, tQuantum, readyQ, waited, cpu>>
  BY DEF incrementCPUBurst, At, Goto, input, places
<1>2. Running' = Running /\ Running \subseteq Procs
  BY <1>1, SameInputs DEF Running
<1>3. ASSUME NEW j \in 1 .. Len(readyQ)
      PROVE  \E r \in Int, s \in 0 .. tQuantum : Rounded(j, r, s)'
  <2>1. PICK r \in Int, s \in 0 .. tQuantum : Rounded(j, r, s)
    BY <1>3 DEF RoundsInv
  <2>2. Fresh(tQuantum - s + 0)' = Fresh(tQuantum - s + 1)
    <3>1. \A q \in Running :
            /\ quantumRemaining'[q] = quantumRemaining[q] - 1 /\ quantumRemaining[q] \in Int
      BY <1>1, <1>2, RoundTypes
    <3>2. \A q \in Running :
            quantumRemaining'[q] > tQuantum - s + 0 <=> quantumRemaining[q] > tQuantum - s + 1
      BY <3>1, RoundTypes
    <3> QED
      BY <1>1, <1>2, <3>2 DEF Fresh
  <2>3. Rounded(j, r, s)'
    BY <1>1, <2>1, <2>2, SameInputs DEF Rounded
  <2> QED
    BY <1>1, <2>3
<1>4. \A q \in Procs' \ Range(readyQ') : waited'[q] = 0
  BY <1>1, SameInputs DEF RoundsInv
<1> QED
  BY <1>1, <1>3, <1>4 DEF RoundsInv

LEMMA NextRounds ==
  PlaceInv /\ PlaceInv' /\ DispatchInv /\ SliceInv /\ RoundsInv /\ [Next]_vars => RoundsInv'
<1> SUFFICES ASSUME PlaceInv, PlaceInv', DispatchInv, SliceInv, RoundsInv, [Next]_vars
             PROVE  RoundsInv'
  OBVIOUS
<1>1. CASE Dispatch \/ DispatchDone \/ incrementReadyQIdle \/ incrementCPUBurst
  BY <1>1, DispatchRounds, DispatchDoneRounds, WaitRounds, UseRounds
<1>2. CASE Preempt
  <2>1. PICK p : p = cpu[i]
    OBVIOUS
  <2>2. /\ AtCPU("running") /\ p # NULL /\ phase = "running" /\ phase' = "running"
        /\ readyQ' = Append(readyQ, p) /\ cpu' = [cpu EXCEPT ![i] = NULL]
        /\ quantumRemaining' = [quantumRemaining EXCEPT ![p] = tQuantum]
        /\ UNCHANGED <<process_frm_datafile, tQuantum, waited>>
    BY <1>2, <2>1 DEF Preempt, AtCPU, At, Vacate, Goto, input, times
  <2>3. i \in CPUs /\ p \in Running /\ Running' = Running \ {p}
    BY <2>1, <2>2, AtCPUIndex, Vacated DEF PlaceInv, TypeInv, OnePlace, CpuInjective
  <2>4. p \in Procs /\ p \notin Range(readyQ)
    BY <2>3 DEF PlaceInv, OnePlace, Ready, Running
  <2>5. \A q \in Running' : quantumRemaining'[q] = quantumRemaining[q]
    BY <2>2, <2>3, RoundTypes DEF TypeOK, Running
  <2> QED
    BY <2>2, <2>3, <2>4, <2>5, JoinRounds
<1>3. CASE EnqueueReady
  <2>1. /\ phase = "sort" /\ phase' = "sort"
        /\ UNCHANGED <<process_frm_datafile, tQuantum, waited, quantumRemaining, cpu>>
    BY <1>3 DEF EnqueueReady, At, Goto, input, times
  <2>2. PICK p \in preReadyQ : readyQ' = Append(readyQ, p)
    BY <1>3 DEF EnqueueReady
  <2>3. p \in Procs /\ p \notin Range(readyQ)
    BY RoundTypes DEF PlaceInv, OnePlace, TypeOK
  <2>4. Running' = Running
    BY <2>1, SameInputs DEF Running
  <2> QED
    BY <2>1, <2>2, <2>3, <2>4, JoinRounds
<1>4. CASE Admit
  <2>1. /\ phase = "admit" /\ phase' = "admit"
        /\ quantumRemaining' = [quantumRemaining EXCEPT ![nextProcess + 1] = tQuantum]
        /\ UNCHANGED <<process_frm_datafile, tQuantum, readyQ, waited, cpu>>
    BY <1>4 DEF Admit, At, Goto, input, times
  <2>2. Running' = Running /\ Running \subseteq 1 .. nextProcess
    BY <2>1, SameInputs DEF Running, PlaceInv, OnePlace, Active
  <2>3. \A q \in Running' : q # nextProcess + 1 /\ q \in Procs
    BY <2>2, AdmittedTypes DEF Running
  <2>4. \A q \in Running' : quantumRemaining'[q] = quantumRemaining[q]
    BY <2>1, <2>3, RoundTypes DEF TypeOK
  <2> QED
    BY <2>1, <2>2, <2>4, QuietRounds
<1>5. CASE Block \/ Finish
  <2>1. /\ phase = "running" /\ phase' = "running"
        /\ UNCHANGED <<process_frm_datafile, tQuantum, quantumRemaining, readyQ, waited>>
    BY <1>5 DEF Block, Finish, AtCPU, At, Vacate, Goto, input, times
  <2>2. Running' \subseteq Running
    BY <1>5, BlockPlaces, FinishPlaces DEF Placed
  <2> QED
    BY <2>1, <2>2, QuietRounds
<1>6. CASE \/ AdmitDone \/ Continue \/ RunningDone \/ Wake \/ KeepWaiting \/ IODone
           \/ SortAssertFails \/ SortDone \/ NoDispatch \/ incrementIOWaiting
           \/ EndOfCycle \/ UNCHANGED vars
  <2>1. /\ UNCHANGED <<process_frm_datafile, tQuantum, quantumRemaining, readyQ, waited, cpu>>
        /\ phase' \in {"incrementIO", "incrementReady"} =>
             phase \in {"incrementIO", "incrementReady"}
        /\ phase' = "incrementCPU" <=> phase = "incrementCPU"
    BY <1>6 DEF AdmitDone, Continue, RunningDone, Wake, KeepWaiting, IODone,
       SortAssertFails, SortDone, NoDispatch, incrementIOWaiting, EndOfCycle, AtCPU, At,
       AtFront, Proceed, Goto, input, places, times, vars, position
  <2>2. Running' = Running
    BY <2>1, SameInputs DEF Running
  <2> QED
    BY <2>1, <2>2, QuietRounds
<1> QED
  BY <1>1, <1>2, <1>3, <1>4, <1>5, <1>6 DEF Next

LEMMA InitRounds == Init => RoundsInv
<1> SUFFICES ASSUME Init PROVE RoundsInv
  OBVIOUS
<1>1. readyQ = <<>> /\ waited = [p \in Procs |-> 0]
  BY DEF Init
<1>2. 1 .. Len(readyQ) = {}
  BY <1>1
<1> QED
  BY <1>1, <1>2 DEF RoundsInv

\* The rounds a process may wait for are those of the others.
LEMMA RoundsBound ==
  ASSUME NEW Q \in Nat \ {0}, NEW N \in Nat \ {0}, NEW n \in Nat \ {0}, NEW k \in Nat,
         NEW r \in Int, NEW s \in 0 .. Q, NEW f \in Nat,
         k >= 1, n - k >= (r + 1) * N + f
  PROVE  r * Q + s <= ((n - 1) \div N) * Q
<1> DEFINE m == (n - 1) \div N
<1>1. /\ m \in Int /\ n - 1 = N * m + ((n - 1) % N) /\ (n - 1) % N \in 0 .. N - 1
  BY ModRange
<1>2. PICK c : c = (n - 1) % N
  OBVIOUS
<1> HIDE DEF m
<1>3. r + 1 <= m
  <2> SUFFICES ASSUME r >= m PROVE FALSE
    BY <1>1
  <2>1. (r - m) * N >= 0 /\ (r + 1) * N = (r - m) * N + N * m + N
    BY <1>1
  <2> QED
    BY <1>1, <1>2, <2>1
<1>4. (m - (r + 1)) * Q >= 0 /\ m * Q = (m - (r + 1)) * Q + r * Q + Q
  BY <1>1, <1>3
<1>5. m * Q \in Int /\ r * Q \in Int /\ (m - (r + 1)) * Q \in Int
  BY <1>1
<1>6. r * Q + s <= m * Q
  BY <1>4, <1>5
<1> QED
  BY <1>6 DEF m

LEMMA RoundsNat ==
  ASSUME NEW N \in Nat \ {0}, NEW n \in Nat \ {0}
  PROVE  (n - 1) \div N \in Nat
<1> DEFINE m == (n - 1) \div N
<1>1. /\ m \in Int /\ n - 1 = N * m + ((n - 1) % N) /\ (n - 1) % N \in 0 .. N - 1
  <2>1. n - 1 \in Int
    OBVIOUS
  <2> QED
    BY <2>1, ModRange
<1>2. PICK c : c = (n - 1) % N
  OBVIOUS
<1> HIDE DEF m
<1>3. ASSUME m <= -1 PROVE FALSE
  <2>1. (-1 - m) * N >= 0 /\ N * m = - (-1 - m) * N - N
    BY <1>1, <1>3
  <2> QED
    BY <1>1, <1>2, <2>1
<1>4. m \in Nat
  BY <1>1, <1>3
<1> QED
  BY <1>4 DEF m

LEMMA WaitFromRounds == PlaceInv /\ RoundsInv => BoundedWait
<1> SUFFICES ASSUME PlaceInv, RoundsInv, tQuantum > 0, SingleBursts, NEW p \in Procs
             PROVE  waited[p] <= Rounds * tQuantum
  BY DEF BoundedWait
<1>1. PICK n, N, Q, m : n = totalProcesses /\ N = NUMBER_OF_PROCESSORS /\ Q = tQuantum
                        /\ m = Rounds
  OBVIOUS
<1>2. n \in Nat \ {0} /\ Q \in Nat \ {0} /\ N \in Nat \ {0} /\ m = (n - 1) \div N
  BY <1>1, RoundTypes DEF Procs, Rounds
<1>3. CASE p \in Range(readyQ)
  <2>1. PICK j \in 1 .. Len(readyQ) : readyQ[j] = p
    BY <1>3, RoundTypes DEF Range
  <2>2. PICK r \in Int, s \in 0 .. tQuantum : Rounded(j, r, s)
    BY DEF RoundsInv
  <2>3. PICK f \in Nat : /\ waited[p] = r * tQuantum + s
                         /\ totalProcesses - j >= (r + 1) * NUMBER_OF_PROCESSORS + f
    BY <2>1, <2>2, RoundTypes DEF Rounded
  <2>4. /\ waited[p] = r * Q + s /\ n - j >= (r + 1) * N + f
        /\ j \in Nat /\ j >= 1 /\ s \in 0 .. Q
    BY <1>1, <2>3, RoundTypes
  <2>5. r * Q + s <= ((n - 1) \div N) * Q
    BY <1>2, <2>4, RoundsBound
  <2> QED
    BY <1>1, <1>2, <2>4, <2>5
<1>4. CASE p \notin Range(readyQ)
  <2>1. waited[p] = 0
    BY <1>4 DEF RoundsInv
  <2>2. m \in Nat
    BY <1>2, RoundsNat
  <2>3. m * Q \in Nat
    BY <1>2, <2>2
  <2> QED
    BY <1>1, <2>1, <2>3
<1> QED
  BY <1>3, <1>4

(* Round robin is fair: without I/O, a process that is ready is dispatched after at
   most one quantum for each round of the others. *)
THEOREM WaitBounded == Spec => []BoundedWait
<1>1. SumsInv => ServedInv
  BY DEF SumsInv
<1>2. PlaceInv => TypeInv
  BY DEF PlaceInv
<1> QED
  BY InitPlaceInv, NextPlaceInv, InitDispatchInv, NextDispatchInv, InitSums, NextSums,
     InitSlice, NextSlice, InitRounds, NextRounds, WaitFromRounds, <1>1, <1>2, PTL DEF Spec
=============================================================================
