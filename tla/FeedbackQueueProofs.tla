------------------------- MODULE FeedbackQueueProofs -------------------------
(***************************************************************************)
(* Proofs about P__2/fbq.c for every array of processes, every pair of     *)
(* quanta and every number of processors.                                  *)
(***************************************************************************)
EXTENDS FeedbackQueueProperties, DataLemmas

(* The three ready queues taken together. *)

LevelsApart ==
  /\ \A k \in Levels : IsInjective(readyQ[k])
  /\ \A j, k \in Levels : j # k => Range(readyQ[j]) \cap Range(readyQ[k]) = {}

LEMMA Enqueued ==
  ASSUME readyQ \in [Levels -> Seq(Procs)], NEW k \in Levels, NEW p \in Procs,
         readyQ' = [readyQ EXCEPT ![k] = Append(@, p)]
  PROVE  /\ readyQ' \in [Levels -> Seq(Procs)]
         /\ Range(readyQ'[k]) = Range(readyQ[k]) \cup {p}
         /\ \A j \in Levels : j # k => readyQ'[j] = readyQ[j]
         /\ Queued' = Queued \cup {p}
         /\ LevelsApart /\ p \notin Queued => LevelsApart'
<1>1. readyQ[k] \in Seq(Procs) /\ readyQ'[k] = Append(readyQ[k], p)
  OBVIOUS
<1>2. /\ readyQ'[k] \in Seq(Procs)
      /\ Range(readyQ'[k]) = Range(readyQ[k]) \cup {p}
      /\ IsInjective(readyQ[k]) /\ p \notin Range(readyQ[k]) => IsInjective(readyQ'[k])
  BY <1>1, AppendRange
<1>3. \A j \in Levels : j # k => readyQ'[j] = readyQ[j]
  OBVIOUS
<1>4. readyQ' \in [Levels -> Seq(Procs)]
  BY <1>2
<1>5. Queued' = Queued \cup {p}
  BY <1>2, <1>3 DEF Queued
<1>6. ASSUME LevelsApart, p \notin Queued PROVE LevelsApart'
  <2>1. \A j \in Levels : p \notin Range(readyQ[j])
    BY <1>6 DEF Queued
  <2>2. \A j \in Levels : IsInjective(readyQ'[j])
    BY <1>2, <1>3, <1>6, <2>1 DEF LevelsApart
  <2>3. \A j \in Levels : j # k => /\ Range(readyQ'[j]) \cap Range(readyQ'[k]) = {}
                                   /\ Range(readyQ'[k]) \cap Range(readyQ'[j]) = {}
    BY <1>2, <1>3, <1>6, <2>1 DEF LevelsApart
  <2>4. \A j, l \in Levels : j # l => Range(readyQ'[j]) \cap Range(readyQ'[l]) = {}
    BY <1>3, <1>6, <2>3 DEF LevelsApart
  <2> QED
    BY <2>2, <2>4 DEF LevelsApart
<1> QED
  BY <1>2, <1>3, <1>4, <1>5, <1>6

LEMMA Dequeued ==
  ASSUME readyQ \in [Levels -> Seq(Procs)], NEW k \in Levels, readyQ[k] # <<>>,
         LevelsApart, readyQ' = [readyQ EXCEPT ![k] = Tail(@)]
  PROVE  /\ Head(readyQ[k]) \in Procs /\ Head(readyQ[k]) \in Range(readyQ[k])
         /\ Head(readyQ[k]) \in Queued
         /\ readyQ' \in [Levels -> Seq(Procs)]
         /\ \A j \in Levels : Range(readyQ'[j]) \subseteq Range(readyQ[j])
         /\ Queued' = Queued \ {Head(readyQ[k])}
         /\ LevelsApart'
<1> DEFINE p == Head(readyQ[k])
<1>1. readyQ[k] \in Seq(Procs) /\ readyQ'[k] = Tail(readyQ[k])
  OBVIOUS
<1>2. /\ p \in Procs /\ p \in Range(readyQ[k]) /\ readyQ'[k] \in Seq(Procs)
      /\ Range(readyQ[k]) = Range(readyQ'[k]) \cup {p}
      /\ IsInjective(readyQ'[k]) /\ p \notin Range(readyQ'[k])
  BY <1>1, TailRange DEF LevelsApart
<1>3. \A j \in Levels : j # k => readyQ'[j] = readyQ[j]
  OBVIOUS
<1> HIDE DEF p
<1>4. readyQ' \in [Levels -> Seq(Procs)]
  BY <1>2
<1>5. \A j \in Levels : Range(readyQ'[j]) \subseteq Range(readyQ[j])
  BY <1>2, <1>3
<1>6. p \in Queued
  BY <1>2 DEF Queued
<1>7. \A j \in Levels : p \notin Range(readyQ'[j])
  BY <1>2, <1>3 DEF LevelsApart
<1>8. Queued' = Queued \ {p}
  <2>1. \A q : q \in Queued' => q \in Queued /\ q # p
    BY <1>5, <1>7 DEF Queued
  <2>2. \A q : q \in Queued /\ q # p => q \in Queued'
    BY <1>2, <1>3 DEF Queued
  <2> QED
    BY <2>1, <2>2
<1>9. LevelsApart'
  <2>1. \A j \in Levels : IsInjective(readyQ'[j])
    BY <1>2, <1>3 DEF LevelsApart
  <2>2. \A j, l \in Levels : j # l => Range(readyQ'[j]) \cap Range(readyQ'[l]) = {}
    BY <1>5 DEF LevelsApart
  <2> QED
    BY <2>1, <2>2 DEF LevelsApart
<1> QED
  BY <1>2, <1>4, <1>5, <1>6, <1>8, <1>9 DEF p

-----------------------------------------------------------------------------
(* The invariant.  The ready queues hold processes in CPU bursts, which have *)
(* even indices, and the waiting queue those in I/O bursts, whose indices    *)
(* are odd; as there is an odd number of bursts, the end of the last one is  *)
(* never missed.  A process that is demoted is given the length of its burst *)
(* as its quantum, so that even the type of quantumRemaining rests on this.  *)

(* While checkIObursts turns the queue, the i processes it has not looked at
   yet are at the front. *)
TypeInv ==
  /\ TypeOK
  /\ phase = "io" => i <= Len(waitingQueue)

BurstInv ==
  /\ \A p \in Procs : currentBurst[p] <= numberOfBursts(p)
  /\ \A p \in Ready \cup Running : currentBurst[p] % 2 = 0
  /\ \A p \in Waiting : currentBurst[p] % 2 = 1
  /\ \A p \in Procs : p > nextProcessIndex => currentBurst[p] = 0

PlaceInv == TypeInv /\ OnePlace /\ BurstInv /\ QueueTags

(* No process is on two processors. *)
CpuInjective == \A c, d \in CPUs : cpu[c] = cpu[d] /\ cpu[c] # NULL => c = d

LEMMA ProcFacts ==
  ASSUME TypeOK
  PROVE  /\ Len(processes) \in Nat /\ Procs \subseteq Nat \ {0} /\ NULL \notin Procs
         /\ NUMBER_OF_PROCESSORS \in Nat \ {0}
         /\ IsFiniteSet(Procs) /\ Running \subseteq Procs
         /\ IsFiniteSet(Running) /\ Cardinality(Running) \in Nat
<1>1. Len(processes) \in Nat
  BY DEF TypeOK
<1>2. IsFiniteSet(Procs)
  BY <1>1, FS_Interval DEF Procs
<1>3. Running \subseteq Procs
  BY DEF Running
<1>4. IsFiniteSet(Running)
  BY <1>2, <1>3, FS_Subset
<1>5. Cardinality(Running) \in Nat
  BY <1>4, FS_CardinalityType
<1> QED
  BY <1>1, <1>2, <1>3, <1>4, <1>5, SchAssumption DEF Procs, NULL

LEMMA OddBursts ==
  ASSUME TypeOK, NEW p \in Procs
  PROVE  /\ numberOfBursts(p) \in Nat /\ numberOfBursts(p) % 2 = 1
         /\ processes[p].bursts \in Seq(Nat)
<1>1. processes[p] \in Process
  BY DEF TypeOK, Procs
<1>2. processes[p].bursts \in {b \in Seq(Nat) : Len(b) % 2 = 1}
  BY <1>1 DEF Process
<1>3. PICK b \in Seq(Nat) : b = processes[p].bursts /\ Len(b) % 2 = 1
  BY <1>2
<1>4. Len(b) \in Nat
  BY <1>3
<1> QED
  BY <1>3, <1>4 DEF numberOfBursts

(* A process that is somewhere has not ended; one in an I/O burst has at least
   one burst after the next.  The burst it is in is one of the data file. *)
LEMMA ActiveBurst ==
  ASSUME PlaceInv, NEW p \in Active
  PROVE  /\ p \in Procs /\ p \notin Ended /\ p \in 1 .. nextProcessIndex
         /\ currentBurst[p] \in Nat /\ numberOfBursts(p) \in Nat
         /\ currentBurst[p] < numberOfBursts(p)
         /\ currentBurst[p] % 2 = 1 => currentBurst[p] + 1 < numberOfBursts(p)
         /\ length(p) \in Nat
<1>1. p \in 1 .. nextProcessIndex /\ p \notin Ended
  BY DEF PlaceInv, OnePlace
<1>2. p \in Procs
  BY <1>1 DEF PlaceInv, TypeInv, TypeOK, Procs
<1>3. /\ currentBurst[p] \in Nat /\ numberOfBursts(p) \in Nat
      /\ numberOfBursts(p) % 2 = 1 /\ currentBurst[p] <= numberOfBursts(p)
  BY <1>2, OddBursts DEF PlaceInv, BurstInv, TypeInv, TypeOK
<1>4. currentBurst[p] # numberOfBursts(p)
  BY <1>1, <1>2 DEF Ended
<1>5. \A m, n \in Nat : m <= n /\ m # n /\ n % 2 = 1 =>
        m < n /\ (m % 2 = 1 => m + 1 < n)
  BY SMT
<1>6. /\ currentBurst[p] < numberOfBursts(p)
      /\ currentBurst[p] % 2 = 1 => currentBurst[p] + 1 < numberOfBursts(p)
  BY <1>3, <1>4, <1>5
<1>7. length(p) \in Nat
  <2>1. processes[p].bursts \in Seq(Nat) /\ Len(processes[p].bursts) = numberOfBursts(p)
    BY <1>2, OddBursts DEF PlaceInv, TypeInv, numberOfBursts
  <2>2. currentBurst[p] + 1 \in 1 .. numberOfBursts(p)
    BY <1>3, <1>6
  <2> QED
    BY <2>1, <2>2 DEF length
<1> QED
  BY <1>1, <1>2, <1>3, <1>6, <1>7

(* The queues partition the set of the processes that are somewhere. *)
LEMMA PlaceFacts ==
  ASSUME PlaceInv
  PROVE  /\ TypeOK /\ CpuInjective /\ LevelsApart
         /\ Ready \subseteq Procs /\ Running \subseteq Procs /\ Waiting \subseteq Procs
         /\ Ready = preReadyQ \cup Queued /\ preReadyQ \cap Queued = {}
         /\ Ready \cap Running = {} /\ Ready \cap Waiting = {}
         /\ Running \cap Waiting = {}
<1>1. Active \subseteq Procs
  BY ActiveBurst
<1>2. Ready \subseteq Active /\ Running \subseteq Active /\ Waiting \subseteq Active
  BY DEF Active
<1> QED
  BY <1>1, <1>2 DEF PlaceInv, TypeInv, OnePlace, CpuInjective, LevelsApart, Ready

LEMMA InitPlaceInv == Init => PlaceInv
<1> SUFFICES ASSUME Init PROVE PlaceInv
  OBVIOUS
<1>1. TypeInv
  <2>1. processes \in Seq(Process) /\ tQuanta_0 \in Int /\ tQuanta_1 \in Int
    <3>1. processes \in Seq(Process)
      BY SchAssumption DEF Init, SortedInputs
    <3>2. PICK q \in Quanta : tQuanta_0 = q[1] /\ tQuanta_1 = q[2]
      BY DEF Init
    <3>3. q \in Int \X Int
      BY QuantaAssumption
    <3> QED
      BY <3>1, <3>2, <3>3
  <2>2. nextProcessIndex \in 0 .. Len(processes)
    BY <2>1 DEF Init
  <2>3. /\ readyQ \in [Levels -> Seq(Procs)] /\ waitingQueue \in Seq(Procs)
        /\ cpu \in [CPUs -> Procs \cup {NULL}] /\ preReadyQ \subseteq Procs
    BY DEF Init
  <2>4. /\ currentBurst \in [Procs -> Nat] /\ step \in [Procs -> Nat]
        /\ currentQueue \in [Procs -> Levels \cup {WAITQ}]
        /\ quantumRemaining \in [Procs -> Int]
    BY DEF Init, Levels
  <2>5. /\ waitingTime \in [Procs -> Nat] /\ endTime \in [Procs -> Nat]
        /\ served \in [Procs -> Nat]
    BY DEF Init
  <2>6. /\ clock_cycle \in Nat /\ i \in Nat /\ phase = "admit"
        /\ outcome \in {"simulating", "rejected"}
        /\ totalContextSwitches \in Nat /\ cpuTimeUtilized \in Nat
    BY DEF Init
  <2> QED
    BY <2>1, <2>2, <2>3, <2>4, <2>5, <2>6 DEF TypeInv, TypeOK
<1>2. /\ preReadyQ = {} /\ Range(waitingQueue) = {} /\ IsInjective(waitingQueue)
      /\ \A k \in Levels : Range(readyQ[k]) = {} /\ IsInjective(readyQ[k])
      /\ Queued = {}
  BY RangeEmpty DEF Init, Queued
<1>3. Running = {} /\ CpuInjective
  BY <1>1, ProcFacts DEF TypeInv, Init, Running, CpuInjective
<1>4. \A p \in Procs : currentBurst[p] = 0 /\ numberOfBursts(p) > 0
                       /\ numberOfBursts(p) \in Nat
  <2>1. \A p \in Procs : numberOfBursts(p) \in Nat /\ numberOfBursts(p) % 2 = 1
    BY <1>1, OddBursts DEF TypeInv
  <2>2. \A n \in Nat : n % 2 = 1 => n > 0
    BY SMT
  <2> QED
    BY <2>1, <2>2 DEF Init
<1>5. Ended = {}
  BY <1>4 DEF Ended
<1>6. 1 .. nextProcessIndex = {}
  BY DEF Init
<1>7. Ready = {} /\ Waiting = {} /\ Active = {}
  BY <1>2, <1>3 DEF Ready, Waiting, Active
<1>8. OnePlace
  BY <1>2, <1>3, <1>5, <1>6, <1>7 DEF OnePlace, CpuInjective
<1>9. BurstInv
  BY <1>3, <1>4, <1>7 DEF BurstInv
<1>10. QueueTags
  BY <1>2, <1>3, <1>7 DEF QueueTags
<1> QED
  BY <1>1, <1>8, <1>9, <1>10 DEF PlaceInv

(* The loops over the processors and over the I/O queue stay within them. *)
LEMMA CPUIndex ==
  ASSUME TypeOK, i < NUMBER_OF_PROCESSORS PROVE i \in CPUs
  BY SchAssumption DEF TypeOK, CPUs

LEMMA WaitingFront ==
  ASSUME TypeInv, NEW p, AtFront(p)
  PROVE  /\ waitingQueue # <<>> /\ Head(waitingQueue) \in Procs
         /\ Tail(waitingQueue) \in Seq(Procs)
         /\ Len(Tail(waitingQueue)) = Len(waitingQueue) - 1
         /\ i - 1 \in Nat /\ i - 1 <= Len(waitingQueue) - 1
         /\ Len(waitingQueue) \in Nat
<1>1. /\ i > 0 /\ i <= Len(waitingQueue) /\ i \in Nat
      /\ waitingQueue \in Seq(Procs) /\ Len(waitingQueue) \in Nat
  BY DEF TypeInv, TypeOK, AtFront, At
<1>2. waitingQueue # <<>>
  BY <1>1
<1> QED
  BY <1>1, <1>2, TailRange

-----------------------------------------------------------------------------
(* Type correctness. *)

LEMMA BumpType ==
  ASSUME NEW f \in [Procs -> Nat], NEW S
  PROVE  Bump(f, S) \in [Procs -> Nat]
  BY DEF Bump

LEMMA NextBurstType ==
  ASSUME TypeOK, NEW p \in Procs, NextBurst(p)
  PROVE  currentBurst' \in [Procs -> Nat] /\ step' \in [Procs -> Nat]
  BY DEF TypeOK, NextBurst

LEMMA AssignType ==
  ASSUME TypeOK, NEW p \in Procs, NEW k \in Levels \cup {WAITQ}, NEW q \in Int,
         Assign(p, k, q)
  PROVE  /\ currentQueue' \in [Procs -> Levels \cup {WAITQ}]
         /\ quantumRemaining' \in [Procs -> Int]
  BY DEF TypeOK, Assign

LEMMA LevelFacts ==
  /\ 0 \in Levels /\ 1 \in Levels /\ 2 \in Levels /\ WAITQ \notin Levels
  /\ \A k : k \in Levels <=> k \in {0, 1, 2}
  BY DEF Levels, WAITQ

LEMMA NextTypeInv == PlaceInv /\ [Next]_vars => TypeInv'
<1> SUFFICES ASSUME PlaceInv, [Next]_vars PROVE TypeInv'
  OBVIOUS
<1>a. TypeInv
  BY DEF PlaceInv
<1>b. UNCHANGED input
  BY DEF Next, vars, Admit, AdmitDone, Block, Finish, Demote, Continue,
         RunningDone, Wake, KeepWaiting, IODone, SortAssertFails, EnqueueReady,
         SortDone, Dispatch, NoDispatch, DispatchDone, increamentSteps,
         EndOfCycle, Proceed, Goto, Vacate
<1>0. /\ UNCHANGED input /\ Procs' = Procs
      /\ NULL \notin Procs /\ Len(processes) \in Nat /\ Procs \subseteq Nat
      /\ NUMBER_OF_PROCESSORS \in Nat /\ Cardinality(Running) \in Nat
  BY <1>a, <1>b, ProcFacts DEF TypeInv, input, Procs
<1>c. TypeOK
  BY PlaceFacts
<1> USE <1>0 DEF TypeInv, TypeOK, Goto, At, Proceed, input, time, places,
        progress, queueing, times, counters
<1>1. CASE Admit
  <2>1. nextProcessIndex' \in 0 .. Len(processes) /\ nextProcessIndex' \in Procs
    BY <1>1, <1>a DEF Admit, Arrived, Procs
  <2>2. preReadyQ' \subseteq Procs
    BY <1>1, <1>a, <2>1 DEF Admit
  <2>3. /\ currentQueue' \in [Procs -> Levels \cup {WAITQ}]
        /\ quantumRemaining' \in [Procs -> Int]
    BY <1>1, <1>a, <2>1, LevelFacts, AssignType DEF Admit
  <2> QED
    BY <1>1, <1>a, <2>1, <2>2, <2>3 DEF Admit
<1>2. CASE AdmitDone
  BY <1>2, <1>a DEF AdmitDone
<1>3. CASE Block
  <2>1. i \in CPUs /\ cpu[i] \in Procs
    BY <1>3, <1>a, CPUIndex DEF Block, Occupied
  <2>2. currentBurst' \in [Procs -> Nat] /\ step' \in [Procs -> Nat]
    BY <1>3, <1>a, <2>1, NextBurstType DEF Block
  <2>3. /\ currentQueue' \in [Procs -> Levels \cup {WAITQ}]
        /\ quantumRemaining' \in [Procs -> Int]
    <3>1. Assign(cpu[i], WAITQ, 0) /\ WAITQ \in Levels \cup {WAITQ}
      BY <1>3 DEF Block
    <3> DEFINE p == cpu[i]
               k == WAITQ
    <3>2. Assign(p, k, 0) /\ k \in Levels \cup {WAITQ} /\ p \in Procs
      BY <2>1, <3>1
    <3> HIDE DEF TypeOK, p, k
    <3> QED
      BY <1>c, <3>2, AssignType
  <2>4. waitingQueue' \in Seq(Procs)
    BY <1>3, <1>a, <2>1, AppendRange DEF Block
  <2>5. cpu' \in [CPUs -> Procs \cup {NULL}] /\ i' \in Nat /\ phase' = "running"
    BY <1>3, <1>a, <2>1 DEF Block, Vacate
  <2> QED
    BY <1>3, <1>a, <2>2, <2>3, <2>4, <2>5 DEF Block, Vacate
<1>4. CASE Finish
  <2>1. i \in CPUs /\ cpu[i] \in Procs
    BY <1>4, <1>a, CPUIndex DEF Finish, Occupied
  <2>2. currentBurst' \in [Procs -> Nat] /\ step' \in [Procs -> Nat]
    BY <1>4, <1>a, <2>1, NextBurstType DEF Finish
  <2>3. endTime' \in [Procs -> Nat]
    BY <1>4, <1>a, <2>1 DEF Finish
  <2>4. cpu' \in [CPUs -> Procs \cup {NULL}] /\ i' \in Nat /\ phase' = "running"
    BY <1>4, <1>a, <2>1 DEF Finish, Vacate
  <2> QED
    BY <1>4, <1>a, <2>2, <2>3, <2>4 DEF Finish, Vacate
<1>5. CASE Demote
  <2> DEFINE p == cpu[i]
             down == currentQueue[p] + 1
  <2>1. i \in CPUs /\ p \in Procs /\ p \in Running
    BY <1>5, <1>a, CPUIndex DEF Demote, Occupied, Running
  <2>2. length(p) \in Nat
    BY <2>1, ActiveBurst DEF Active
  <2>3. /\ down \in Levels /\ Assign(p, down, IF down = 1 THEN tQuanta_1 ELSE length(p))
        /\ readyQ' = [readyQ EXCEPT ![down] = Append(@, p)]
    BY <1>5, LevelFacts DEF Demote, Expired
  <2>4. (IF down = 1 THEN tQuanta_1 ELSE length(p)) \in Int
    BY <1>a, <2>2
  <2>5. /\ cpu' \in [CPUs -> Procs \cup {NULL}] /\ i' \in Nat /\ phase' = "running"
        /\ totalContextSwitches' \in Nat
    BY <1>5, <1>a, <2>1 DEF Demote, Vacate
  <2> HIDE DEF p, down
  <2>6. /\ currentQueue' \in [Procs -> Levels \cup {WAITQ}]
        /\ quantumRemaining' \in [Procs -> Int]
    BY <1>a, <2>1, <2>3, <2>4, AssignType
  <2>7. readyQ' \in [Levels -> Seq(Procs)]
    BY <1>a, <2>1, <2>3, Enqueued
  <2> QED
    BY <1>5, <1>a, <2>5, <2>6, <2>7 DEF Demote, Vacate
<1>6. CASE Continue
  BY <1>6, <1>a DEF Continue
<1>7. CASE RunningDone
  BY <1>7, <1>a DEF RunningDone
<1>8. CASE Wake
  <2> DEFINE p == Head(waitingQueue)
  <2>1. /\ p \in Procs /\ Tail(waitingQueue) \in Seq(Procs)
        /\ Len(Tail(waitingQueue)) = Len(waitingQueue) - 1
        /\ i - 1 \in Nat /\ i - 1 <= Len(waitingQueue) - 1
    BY <1>8, <1>a, WaitingFront DEF Wake
  <2>2. /\ NextBurst(p) /\ Assign(p, 0, tQuanta_0)
        /\ preReadyQ' = preReadyQ \cup {p} /\ waitingQueue' = Tail(waitingQueue)
        /\ phase' = "io" /\ i' = i - 1
    BY <1>8 DEF Wake
  <2> HIDE DEF p
  <2>3. currentBurst' \in [Procs -> Nat] /\ step' \in [Procs -> Nat]
    BY <1>a, <2>1, <2>2, NextBurstType
  <2>4. /\ currentQueue' \in [Procs -> Levels \cup {WAITQ}]
        /\ quantumRemaining' \in [Procs -> Int]
    BY <1>a, <2>1, <2>2, LevelFacts, AssignType
  <2>5. /\ preReadyQ' \subseteq Procs /\ waitingQueue' \in Seq(Procs) /\ i' \in Nat
        /\ i' <= Len(waitingQueue')
    BY <1>a, <2>1, <2>2
  <2> QED
    BY <1>8, <1>a, <2>2, <2>3, <2>4, <2>5 DEF Wake
<1>9. CASE KeepWaiting
  <2> DEFINE p    == Head(waitingQueue)
             rest == Tail(waitingQueue)
  <2>1. /\ p \in Procs /\ rest \in Seq(Procs) /\ Len(rest) = Len(waitingQueue) - 1
        /\ i - 1 \in Nat /\ i - 1 <= Len(waitingQueue) - 1
        /\ Len(waitingQueue) \in Nat
    BY <1>9, <1>a, WaitingFront DEF KeepWaiting
  <2>2. /\ waitingQueue' = Append(rest, p) /\ phase' = "io" /\ i' = i - 1
        /\ currentQueue' = [currentQueue EXCEPT ![p] = WAITQ]
    BY <1>9 DEF KeepWaiting
  <2> HIDE DEF p, rest
  <2>3. waitingQueue' \in Seq(Procs) /\ Len(waitingQueue') = Len(waitingQueue)
    BY <2>1, <2>2
  <2>4. currentQueue' \in [Procs -> Levels \cup {WAITQ}]
    BY <1>a, <2>1, <2>2
  <2>5. i' \in Nat /\ i' <= Len(waitingQueue')
    BY <2>1, <2>2, <2>3
  <2> QED
    BY <1>9, <1>a, <2>2, <2>3, <2>4, <2>5 DEF KeepWaiting
<1>10. CASE IODone
  BY <1>10, <1>a DEF IODone
<1>11. CASE SortAssertFails
  BY <1>11, <1>a DEF SortAssertFails
<1>12. CASE EnqueueReady
  <2>1. PICK p \in preReadyQ : /\ Assign(p, 0, tQuanta_0)
                               /\ readyQ' = [readyQ EXCEPT ![0] = Append(@, p)]
                               /\ preReadyQ' = preReadyQ \ {p}
    BY <1>12 DEF EnqueueReady
  <2>2. p \in Procs /\ preReadyQ' \subseteq Procs
    BY <1>a, <2>1
  <2>3. /\ currentQueue' \in [Procs -> Levels \cup {WAITQ}]
        /\ quantumRemaining' \in [Procs -> Int]
    BY <1>a, <2>1, <2>2, LevelFacts, AssignType
  <2>4. readyQ' \in [Levels -> Seq(Procs)]
    BY <1>a, <2>1, <2>2, LevelFacts, Enqueued
  <2> QED
    BY <1>12, <1>a, <2>2, <2>3, <2>4 DEF EnqueueReady
<1>13. CASE SortDone
  BY <1>13, <1>a DEF SortDone
<1>14. CASE Dispatch
  <2>1. i \in CPUs
    BY <1>14, <1>a, CPUIndex DEF Dispatch
  <2>2. PICK k \in Levels :
          /\ readyQ[k] # <<>>
          /\ cpu' = [cpu EXCEPT ![i] = Head(readyQ[k])]
          /\ readyQ' = [readyQ EXCEPT ![k] = Tail(@)]
          /\ quantumRemaining' = [quantumRemaining EXCEPT
                  ![Head(readyQ[k])] = <<tQuanta_0, tQuanta_1, 0>>[k + 1]]
    BY <1>14 DEF Dispatch, Scheduled
  <2>3. Head(readyQ[k]) \in Procs /\ readyQ' \in [Levels -> Seq(Procs)]
    BY <1>a, <2>2, PlaceFacts, Dequeued
  <2>4. <<tQuanta_0, tQuanta_1, 0>>[k + 1] \in Int
    BY <1>a DEF Levels
  <2>5. quantumRemaining' \in [Procs -> Int] /\ cpu' \in [CPUs -> Procs \cup {NULL}]
    BY <1>a, <2>1, <2>2, <2>3, <2>4
  <2>6. i' \in Nat /\ phase' = "dispatch"
    BY <1>14, <1>a DEF Dispatch
  <2> QED
    BY <1>14, <1>a, <2>3, <2>5, <2>6 DEF Dispatch
<1>15. CASE NoDispatch
  BY <1>15, <1>a DEF NoDispatch
<1>16. CASE DispatchDone
  BY <1>16, <1>a DEF DispatchDone
<1>17. CASE increamentSteps
  <2>1. /\ step' \in [Procs -> Nat] /\ served' \in [Procs -> Nat]
        /\ waitingTime' \in [Procs -> Nat]
    BY <1>17, <1>a, BumpType DEF increamentSteps
  <2>2. quantumRemaining' \in [Procs -> Int]
    BY <1>17, <1>a DEF increamentSteps
  <2> QED
    BY <1>17, <1>a, <2>1, <2>2 DEF increamentSteps
<1>18. CASE EndOfCycle
  <2>1. cpuTimeUtilized' \in Nat /\ clock_cycle' \in Nat
    BY <1>18, <1>a DEF EndOfCycle
  <2>2. /\ phase' \in {"admit", "endOfCycle"} /\ i' = i
        /\ outcome' \in {"simulating", "finished"}
    BY <1>18, <1>a DEF EndOfCycle
  <2> QED
    BY <1>18, <1>a, <2>1, <2>2 DEF EndOfCycle
<1>19. CASE UNCHANGED vars
  BY <1>19, <1>a DEF vars
<1> QED
  BY <1>1, <1>2, <1>3, <1>4, <1>5, <1>6, <1>7, <1>8, <1>9, <1>10, <1>11, <1>12,
     <1>13, <1>14, <1>15, <1>16, <1>17, <1>18, <1>19 DEF Next

-----------------------------------------------------------------------------
(* What a step does to the processors and to the bursts. *)

LEMMA Vacated ==
  ASSUME TypeOK, CpuInjective, UNCHANGED processes,
         i \in CPUs, cpu[i] # NULL, cpu' = [cpu EXCEPT ![i] = NULL]
  PROVE  /\ cpu[i] \in Running /\ Running' = Running \ {cpu[i]}
         /\ CpuInjective'
<1>1. cpu \in [CPUs -> Procs \cup {NULL}] /\ cpu[i] \in Procs /\ NULL \notin Procs
  BY ProcFacts DEF TypeOK
<1>2. Procs' = Procs
  BY DEF Procs
<1>3. /\ cpu'[i] = NULL
      /\ \A c \in CPUs : c # i => cpu'[c] = cpu[c] /\ cpu[c] # cpu[i]
  BY <1>1 DEF CpuInjective
<1>4. Running' = Running \ {cpu[i]}
  BY <1>1, <1>2, <1>3 DEF Running
<1> QED
  BY <1>1, <1>3, <1>4 DEF Running, CpuInjective

LEMMA Loaded ==
  ASSUME TypeOK, CpuInjective, UNCHANGED processes,
         i \in CPUs, cpu[i] = NULL, NEW p \in Procs, p \notin Running,
         cpu' = [cpu EXCEPT ![i] = p]
  PROVE  Running' = Running \cup {p} /\ CpuInjective'
<1>1. cpu \in [CPUs -> Procs \cup {NULL}] /\ NULL \notin Procs
  BY ProcFacts DEF TypeOK
<1>2. Procs' = Procs
  BY DEF Procs
<1>3. /\ cpu'[i] = p
      /\ \A c \in CPUs : c # i => cpu'[c] = cpu[c]
      /\ \A c \in CPUs : cpu[c] # p
  BY <1>1 DEF Running
<1>4. Running' = Running \cup {p}
  BY <1>1, <1>2, <1>3 DEF Running
<1> QED
  BY <1>1, <1>3, <1>4 DEF CpuInjective

(* The end of a burst: the process may have ended, the others have not moved. *)
LEMMA EndedNext ==
  ASSUME TypeOK, UNCHANGED processes, NEW p \in Procs, NextBurst(p),
         currentBurst[p] < numberOfBursts(p)
  PROVE  /\ Ended' = IF currentBurst[p] + 1 = numberOfBursts(p)
                     THEN Ended \cup {p} ELSE Ended
         /\ \A q \in Procs : currentBurst'[q] = IF q = p THEN currentBurst[p] + 1
                                                         ELSE currentBurst[q]
<1>1. Procs' = Procs /\ \A q \in Procs : numberOfBursts(q)' = numberOfBursts(q)
  BY DEF Procs, numberOfBursts
<1>2. \A q \in Procs : currentBurst'[q] = IF q = p THEN currentBurst[p] + 1
                                                   ELSE currentBurst[q]
  BY DEF NextBurst, TypeOK
<1>3. currentBurst[p] \in Nat /\ numberOfBursts(p) \in Nat
  BY OddBursts DEF TypeOK
<1>4. \A q : q \in Ended' <=> q \in Procs /\ currentBurst'[q] = numberOfBursts(q)
  BY <1>1 DEF Ended
<1>5. \A q : q \in Ended <=> q \in Procs /\ currentBurst[q] = numberOfBursts(q)
  BY DEF Ended
<1>6. CASE currentBurst[p] + 1 = numberOfBursts(p)
  <2>1. \A q : q \in Ended' <=> q = p \/ q \in Ended
    BY <1>2, <1>4, <1>5, <1>6
  <2>2. Ended' = Ended \cup {p}
    BY <2>1
  <2> QED
    BY <1>2, <1>6, <2>2
<1>7. CASE currentBurst[p] + 1 # numberOfBursts(p)
  <2>1. p \notin Ended /\ p \notin Ended'
    BY <1>2, <1>3, <1>4, <1>5, <1>7
  <2>2. \A q : q \in Ended' <=> q \in Ended
    BY <1>2, <1>4, <1>5, <2>1
  <2>3. Ended' = Ended
    BY <2>2
  <2> QED
    BY <1>2, <1>7, <2>3
<1> QED
  BY <1>6, <1>7

(* A process p moves to another place, maybe by the end of its burst: the
   queues still hold the processes in the bursts they are for. *)
LEMMA MovedBursts ==
  ASSUME PlaceInv, NEW p \in Procs, p <= nextProcessIndex,
         UNCHANGED <<processes, nextProcessIndex>>,
         \A q \in Procs : q # p => currentBurst'[q] = currentBurst[q],
         currentBurst'[p] <= numberOfBursts(p),
         (Ready \cup Running)' \ {p} \subseteq Ready \cup Running,
         Waiting' \ {p} \subseteq Waiting,
         p \in (Ready \cup Running)' => currentBurst'[p] % 2 = 0,
         p \in Waiting' => currentBurst'[p] % 2 = 1
  PROVE  BurstInv'
<1>1. Procs' = Procs /\ \A q \in Procs : numberOfBursts(q)' = numberOfBursts(q)
  BY DEF Procs, numberOfBursts
<1>2. Ready \cup Running \subseteq Procs /\ Waiting \subseteq Procs
  BY PlaceFacts
<1>3. \A q \in Procs : currentBurst'[q] <= numberOfBursts(q)'
  BY <1>1 DEF PlaceInv, BurstInv
<1>4. \A q \in (Ready \cup Running)' : currentBurst'[q] % 2 = 0
  <2>1. \A q \in (Ready \cup Running)' : q # p => q \in Ready \cup Running /\ q \in Procs
    BY <1>2
  <2> QED
    BY <2>1 DEF PlaceInv, BurstInv
<1>5. \A q \in Waiting' : currentBurst'[q] % 2 = 1
  BY <1>2 DEF PlaceInv, BurstInv
<1>6. \A q \in Procs : q > nextProcessIndex => currentBurst'[q] = 0
  <2>1. p \in Nat /\ nextProcessIndex \in Nat /\ ~(p > nextProcessIndex)
    BY DEF PlaceInv, TypeInv, TypeOK, Procs
  <2> QED
    BY <2>1 DEF PlaceInv, BurstInv
<1> QED
  BY <1>1, <1>3, <1>4, <1>5, <1>6 DEF BurstInv

(* A process p moves and its tag maybe changes: the tags still agree. *)
LEMMA MovedTags ==
  ASSUME PlaceInv, NEW p \in Procs,
         \A q \in Procs : q # p => currentQueue'[q] = currentQueue[q],
         \A k \in Levels : Range(readyQ'[k]) \ {p} \subseteq Range(readyQ[k]),
         preReadyQ' \ {p} \subseteq preReadyQ,
         Running' \ {p} \subseteq Running, Waiting' \ {p} \subseteq Waiting,
         \A k \in Levels : p \in Range(readyQ'[k]) => currentQueue'[p] = k,
         p \in preReadyQ' => currentQueue'[p] = 0,
         p \in Running' => currentQueue'[p] \in Levels,
         p \in Waiting' => currentQueue'[p] = WAITQ
  PROVE  QueueTags'
<1>1. /\ preReadyQ \subseteq Procs /\ Running \subseteq Procs
      /\ Waiting \subseteq Procs
      /\ \A k \in Levels : Range(readyQ[k]) \subseteq Procs
  BY PlaceFacts DEF Ready, Queued
<1>2. /\ \A k \in Levels : \A q \in Range(readyQ[k]) : currentQueue[q] = k
      /\ \A q \in preReadyQ : currentQueue[q] = 0
      /\ \A q \in Running : currentQueue[q] \in Levels
      /\ \A q \in Waiting : currentQueue[q] = WAITQ
  BY DEF PlaceInv, QueueTags
<1>3. \A k \in Levels : \A q \in Range(readyQ'[k]) : currentQueue'[q] = k
  BY <1>1, <1>2
<1>4. \A q \in preReadyQ' : currentQueue'[q] = 0
  BY <1>1, <1>2
<1>5. \A q \in Running' : currentQueue'[q] \in Levels
  BY <1>1, <1>2
<1>6. \A q \in Waiting' : currentQueue'[q] = WAITQ
  BY <1>1, <1>2
<1> QED
  BY <1>3, <1>4, <1>5, <1>6 DEF QueueTags

(* What Assign does to the tags. *)
LEMMA Tagged ==
  ASSUME TypeOK, NEW p \in Procs, NEW k, NEW q, Assign(p, k, q)
  PROVE  /\ currentQueue'[p] = k
         /\ \A r \in Procs : r # p => currentQueue'[r] = currentQueue[r]
  BY DEF TypeOK, Assign

(* The steps that move no process, end no burst and change no tag. *)
LEMMA QuietPlaces ==
  ASSUME OnePlace, BurstInv, QueueTags,
         UNCHANGED <<processes, nextProcessIndex, places, currentBurst, currentQueue>>
  PROVE  /\ OnePlace' /\ BurstInv' /\ QueueTags'
         /\ Ready' = Ready /\ Running' = Running /\ Waiting' = Waiting
         /\ Ended' = Ended /\ Procs' = Procs
<1>1. /\ UNCHANGED <<processes, nextProcessIndex, preReadyQ, readyQ, waitingQueue,
                      cpu, currentBurst, currentQueue>>
      /\ Procs' = Procs /\ \A p \in Procs : numberOfBursts(p)' = numberOfBursts(p)
  BY DEF places, Procs, numberOfBursts
<1>2. /\ Ready' = Ready /\ Queued' = Queued /\ Running' = Running
      /\ Waiting' = Waiting /\ Ended' = Ended
  BY <1>1 DEF Ready, Queued, Running, Waiting, Ended
<1>3. Active' = Active
  BY <1>2 DEF Active
<1>4. OnePlace'
  BY <1>1, <1>2, <1>3 DEF OnePlace
<1>5. BurstInv'
  BY <1>1, <1>2 DEF BurstInv
<1>6. QueueTags'
  BY <1>1, <1>2 DEF QueueTags
<1> QED
  BY <1>1, <1>2, <1>4, <1>5, <1>6

-----------------------------------------------------------------------------
(* Where the processes are after each of the steps that move one. *)

LEMMA BlockPlaces ==
  ASSUME PlaceInv, Block
  PROVE  /\ OnePlace' /\ BurstInv' /\ QueueTags'
         /\ cpu[i] \in Running /\ Running' = Running \ {cpu[i]}
         /\ Ready' = Ready /\ Waiting' = Waiting \cup {cpu[i]}
<1> DEFINE p == cpu[i]
<1>1. /\ i < NUMBER_OF_PROCESSORS /\ p # NULL /\ NextBurst(p) /\ Assign(p, WAITQ, 0)
      /\ cpu' = [cpu EXCEPT ![i] = NULL]
      /\ waitingQueue' = Append(waitingQueue, p)
      /\ currentBurst[p] + 1 < numberOfBursts(p)
      /\ UNCHANGED <<processes, nextProcessIndex, preReadyQ, readyQ>>
  BY DEF Block, Occupied, Vacate, Goto, input, time
<1>2. CpuInjective /\ TypeOK /\ i \in CPUs
  BY <1>1, PlaceFacts, CPUIndex
<1>3. p \in Running /\ Running' = Running \ {p} /\ CpuInjective'
  BY <1>1, <1>2, Vacated
<1> HIDE DEF p
<1>4. /\ p \in Procs /\ currentBurst[p] \in Nat /\ numberOfBursts(p) \in Nat
      /\ currentBurst[p] < numberOfBursts(p) /\ p \in 1 .. nextProcessIndex
      /\ p \in Active
  BY <1>3, ActiveBurst DEF Active
<1>5. /\ Ended' = Ended
      /\ \A q \in Procs : currentBurst'[q] = IF q = p THEN currentBurst[p] + 1
                                                      ELSE currentBurst[q]
  BY <1>1, <1>2, <1>4, EndedNext
<1>6. p \notin Ready /\ p \notin Waiting
  BY <1>3, PlaceFacts
<1>7. Waiting' = Waiting \cup {p} /\ IsInjective(waitingQueue')
  BY <1>1, <1>2, <1>4, <1>6, AppendRange DEF TypeOK, Waiting, PlaceInv, OnePlace
<1>8. Ready' = Ready /\ Queued' = Queued
  BY <1>1 DEF Ready, Queued
<1>9. Active' = Active
  BY <1>3, <1>7, <1>8 DEF Active
<1>10. OnePlace'
  BY <1>1, <1>3, <1>5, <1>6, <1>7, <1>8, <1>9 DEF PlaceInv, OnePlace, CpuInjective
<1>11. BurstInv'
  <2>1. (currentBurst[p] + 1) % 2 = 1
    BY <1>3, <1>4 DEF PlaceInv, BurstInv
  <2>2. currentBurst'[p] <= numberOfBursts(p) /\ currentBurst'[p] % 2 = 1
    BY <1>1, <1>4, <1>5, <2>1
  <2>3. p \notin (Ready \cup Running)' /\ p <= nextProcessIndex
    BY <1>3, <1>4, <1>6, <1>8
  <2> QED
    BY <1>1, <1>3, <1>4, <1>5, <1>7, <1>8, <2>2, <2>3, MovedBursts
<1>12. QueueTags'
  <2>1. /\ currentQueue'[p] = WAITQ
        /\ \A q \in Procs : q # p => currentQueue'[q] = currentQueue[q]
    BY <1>1, <1>2, <1>4, Tagged
  <2>2. p \notin preReadyQ /\ \A k \in Levels : p \notin Range(readyQ[k])
    BY <1>6 DEF Ready, Queued
  <2> QED
    BY <1>1, <1>3, <1>4, <1>7, <2>1, <2>2, MovedTags
<1> QED
  BY <1>3, <1>7, <1>8, <1>10, <1>11, <1>12 DEF p

LEMMA FinishPlaces ==
  ASSUME PlaceInv, Finish
  PROVE  /\ OnePlace' /\ BurstInv' /\ QueueTags'
         /\ cpu[i] \in Running /\ Running' = Running \ {cpu[i]}
         /\ Ready' = Ready /\ Waiting' = Waiting
         /\ Ended' = Ended \cup {cpu[i]}
<1> DEFINE p == cpu[i]
<1>1. /\ i < NUMBER_OF_PROCESSORS /\ p # NULL /\ NextBurst(p)
      /\ cpu' = [cpu EXCEPT ![i] = NULL]
      /\ currentBurst[p] + 1 >= numberOfBursts(p)
      /\ UNCHANGED <<processes, nextProcessIndex, preReadyQ, readyQ, waitingQueue,
                     currentQueue>>
  BY DEF Finish, Occupied, Vacate, Goto, input, time, queueing
<1>2. CpuInjective /\ TypeOK /\ i \in CPUs
  BY <1>1, PlaceFacts, CPUIndex
<1>3. p \in Running /\ Running' = Running \ {p} /\ CpuInjective'
  BY <1>1, <1>2, Vacated
<1> HIDE DEF p
<1>4. /\ p \in Procs /\ currentBurst[p] \in Nat /\ numberOfBursts(p) \in Nat
      /\ currentBurst[p] < numberOfBursts(p) /\ p \in 1 .. nextProcessIndex
      /\ p \in Active
  BY <1>3, ActiveBurst DEF Active
<1>5. currentBurst[p] + 1 = numberOfBursts(p)
  BY <1>1, <1>4
<1>6. /\ Ended' = Ended \cup {p}
      /\ \A q \in Procs : currentBurst'[q] = IF q = p THEN currentBurst[p] + 1
                                                      ELSE currentBurst[q]
  BY <1>1, <1>2, <1>4, <1>5, EndedNext
<1>7. p \notin Ready /\ p \notin Waiting
  BY <1>3, PlaceFacts
<1>8. Ready' = Ready /\ Queued' = Queued /\ Waiting' = Waiting
  BY <1>1 DEF Ready, Queued, Waiting
<1>9. Active' = Active \ {p}
  BY <1>3, <1>7, <1>8 DEF Active
<1>10. OnePlace'
  BY <1>1, <1>3, <1>4, <1>6, <1>7, <1>8, <1>9 DEF PlaceInv, OnePlace, CpuInjective
<1>11. /\ p \notin (Ready \cup Running)' /\ p \notin Waiting'
       /\ p <= nextProcessIndex
  BY <1>3, <1>4, <1>7, <1>8
<1>12. BurstInv'
  <2>1. currentBurst'[p] <= numberOfBursts(p)
    BY <1>4, <1>5, <1>6
  <2> QED
    BY <1>1, <1>3, <1>4, <1>6, <1>8, <1>11, <2>1, MovedBursts
<1>13. QueueTags'
  <2>1. p \notin preReadyQ /\ \A k \in Levels : p \notin Range(readyQ[k])
    BY <1>7 DEF Ready, Queued
  <2> QED
    BY <1>1, <1>3, <1>4, <1>8, <1>11, <2>1, MovedTags
<1> QED
  BY <1>3, <1>6, <1>8, <1>10, <1>12, <1>13 DEF p

LEMMA DemotePlaces ==
  ASSUME PlaceInv, Demote
  PROVE  /\ OnePlace' /\ BurstInv' /\ QueueTags'
         /\ cpu[i] \in Running /\ Running' = Running \ {cpu[i]}
         /\ Ready' = Ready \cup {cpu[i]} /\ Waiting' = Waiting
<1> DEFINE p    == cpu[i]
           down == currentQueue[p] + 1
<1>1. /\ i < NUMBER_OF_PROCESSORS /\ p # NULL
      /\ Assign(p, down, IF down = 1 THEN tQuanta_1 ELSE length(p))
      /\ cpu' = [cpu EXCEPT ![i] = NULL]
      /\ readyQ' = [readyQ EXCEPT ![down] = Append(@, p)]
      /\ currentQueue[p] \in {0, 1}
      /\ UNCHANGED <<processes, nextProcessIndex, preReadyQ, waitingQueue,
                     currentBurst>>
  BY DEF Demote, Expired, Occupied, Vacate, Goto, input, time, progress
<1>2. CpuInjective /\ TypeOK /\ i \in CPUs
  BY <1>1, PlaceFacts, CPUIndex
<1>3. p \in Running /\ Running' = Running \ {p} /\ CpuInjective'
  BY <1>1, <1>2, Vacated
<1>4. down \in Levels
  BY <1>1, LevelFacts
<1> HIDE DEF p, down
<1>5. /\ p \in Procs /\ p \in 1 .. nextProcessIndex /\ p \in Active
      /\ currentBurst[p] <= numberOfBursts(p)
  BY <1>3, ActiveBurst DEF Active
<1>6. p \notin preReadyQ /\ p \notin Queued /\ p \notin Waiting
  BY <1>3, PlaceFacts
<1>7. /\ Range(readyQ'[down]) = Range(readyQ[down]) \cup {p}
      /\ \A k \in Levels : k # down => readyQ'[k] = readyQ[k]
      /\ Queued' = Queued \cup {p} /\ LevelsApart'
  <2>1. readyQ \in [Levels -> Seq(Procs)] /\ LevelsApart
    BY <1>2, PlaceFacts DEF TypeOK
  <2> QED
    BY <1>1, <1>4, <1>5, <1>6, <2>1, Enqueued
<1>8. Ended' = Ended
  BY <1>1 DEF Ended, Procs, numberOfBursts
<1>9. Ready' = Ready \cup {p} /\ Waiting' = Waiting
  BY <1>1, <1>7 DEF Ready, Waiting
<1>10. Active' = Active
  BY <1>3, <1>9 DEF Active
<1>11. OnePlace'
  <2>1. /\ preReadyQ' \cap Queued' = {} /\ Ready' \cap Running' = {}
        /\ Ready' \cap Waiting' = {} /\ Running' \cap Waiting' = {}
    BY <1>1, <1>3, <1>6, <1>7, <1>9, PlaceFacts
  <2>2. /\ IsInjective(waitingQueue')
        /\ Active' \cup Ended' = 1 .. nextProcessIndex' /\ Active' \cap Ended' = {}
    BY <1>1, <1>8, <1>10 DEF PlaceInv, OnePlace
  <2> QED
    BY <1>3, <1>7, <2>1, <2>2 DEF OnePlace, CpuInjective, LevelsApart
<1>12. BurstInv'
  <2>1. currentBurst[p] % 2 = 0 /\ p \notin Waiting' /\ p <= nextProcessIndex
    BY <1>3, <1>5, <1>6, <1>9 DEF PlaceInv, BurstInv
  <2> QED
    BY <1>1, <1>3, <1>5, <1>9, <2>1, MovedBursts
<1>13. QueueTags'
  <2>1. /\ currentQueue'[p] = down
        /\ \A q \in Procs : q # p => currentQueue'[q] = currentQueue[q]
    BY <1>1, <1>2, <1>5, Tagged
  <2>2. \A k \in Levels : p \notin Range(readyQ[k])
    BY <1>6 DEF Queued
  <2>3. /\ \A k \in Levels : Range(readyQ'[k]) \ {p} \subseteq Range(readyQ[k])
        /\ \A k \in Levels : p \in Range(readyQ'[k]) => currentQueue'[p] = k
    BY <1>7, <2>1, <2>2
  <2> QED
    BY <1>1, <1>3, <1>5, <1>6, <1>9, <2>1, <2>3, MovedTags
<1> QED
  BY <1>3, <1>9, <1>11, <1>12, <1>13 DEF p

LEMMA WakePlaces ==
  ASSUME PlaceInv, Wake
  PROVE  /\ OnePlace' /\ BurstInv' /\ QueueTags'
         /\ Head(waitingQueue) \in Waiting
         /\ Ready' = Ready \cup {Head(waitingQueue)}
         /\ Waiting' = Waiting \ {Head(waitingQueue)} /\ Running' = Running
<1> DEFINE p == Head(waitingQueue)
<1>1. /\ NextBurst(p) /\ Assign(p, 0, tQuanta_0)
      /\ waitingQueue' = Tail(waitingQueue) /\ preReadyQ' = preReadyQ \cup {p}
      /\ UNCHANGED <<processes, nextProcessIndex, readyQ, cpu>>
  BY DEF Wake, Goto, input, time
<1>2. /\ TypeOK /\ CpuInjective /\ LevelsApart
      /\ waitingQueue \in Seq(Procs) /\ waitingQueue # <<>>
  BY WaitingFront, PlaceFacts DEF PlaceInv, TypeInv, TypeOK, Wake
<1>3. /\ p \in Procs /\ p \in Waiting /\ Waiting = Waiting' \cup {p}
      /\ IsInjective(waitingQueue') /\ p \notin Waiting'
  BY <1>1, <1>2, TailRange DEF PlaceInv, OnePlace, Waiting
<1> HIDE DEF p
<1>4. /\ currentBurst[p] \in Nat /\ numberOfBursts(p) \in Nat
      /\ currentBurst[p] < numberOfBursts(p) /\ p \in 1 .. nextProcessIndex
      /\ currentBurst[p] % 2 = 1 => currentBurst[p] + 1 < numberOfBursts(p)
  BY <1>3, ActiveBurst DEF Active
<1>5. /\ currentBurst[p] + 1 < numberOfBursts(p)
      /\ (currentBurst[p] + 1) % 2 = 0
  BY <1>3, <1>4 DEF PlaceInv, BurstInv
<1>6. /\ Ended' = Ended
      /\ \A q \in Procs : currentBurst'[q] = IF q = p THEN currentBurst[p] + 1
                                                      ELSE currentBurst[q]
  BY <1>1, <1>2, <1>3, <1>4, <1>5, EndedNext
<1>7. p \notin Ready /\ p \notin Running
  BY <1>3, PlaceFacts
<1>8. Ready' = Ready \cup {p} /\ Queued' = Queued /\ p \notin Queued
  BY <1>1, <1>7 DEF Ready, Queued
<1>9. Running' = Running /\ CpuInjective' /\ LevelsApart'
  BY <1>1, <1>2 DEF Running, Procs, CpuInjective, LevelsApart
<1>10. Active' = Active
  BY <1>3, <1>8, <1>9 DEF Active
<1>11. OnePlace'
  BY <1>1, <1>3, <1>6, <1>7, <1>8, <1>9, <1>10
     DEF PlaceInv, OnePlace, CpuInjective, LevelsApart
<1>12. BurstInv'
  <2>1. currentBurst'[p] <= numberOfBursts(p) /\ currentBurst'[p] % 2 = 0
    BY <1>3, <1>4, <1>5, <1>6
  <2>2. p <= nextProcessIndex
    BY <1>4
  <2> QED
    BY <1>1, <1>3, <1>6, <1>8, <1>9, <2>1, <2>2, MovedBursts
<1>13. QueueTags'
  <2>1. /\ currentQueue'[p] = 0
        /\ \A q \in Procs : q # p => currentQueue'[q] = currentQueue[q]
    BY <1>1, <1>2, <1>3, Tagged
  <2>2. \A k \in Levels : p \notin Range(readyQ[k])
    BY <1>8 DEF Queued
  <2> QED
    BY <1>1, <1>3, <1>7, <1>9, <2>1, <2>2, MovedTags
<1> QED
  BY <1>3, <1>8, <1>9, <1>11, <1>12, <1>13 DEF p

LEMMA KeepWaitingPlaces ==
  ASSUME PlaceInv, KeepWaiting
  PROVE  /\ OnePlace' /\ BurstInv' /\ QueueTags'
         /\ Head(waitingQueue) \in Waiting
         /\ Ready' = Ready /\ Running' = Running /\ Waiting' = Waiting
<1> DEFINE p    == Head(waitingQueue)
           rest == Tail(waitingQueue)
<1>1. /\ waitingQueue' = Append(rest, p)
      /\ currentQueue' = [currentQueue EXCEPT ![p] = WAITQ]
      /\ UNCHANGED <<processes, nextProcessIndex, preReadyQ, readyQ, cpu,
                     currentBurst>>
  BY DEF KeepWaiting, Goto, input, time, progress
<1>2. TypeOK /\ waitingQueue \in Seq(Procs) /\ waitingQueue # <<>>
  BY WaitingFront, PlaceFacts DEF PlaceInv, TypeInv, TypeOK, KeepWaiting
<1>3. /\ p \in Procs /\ rest \in Seq(Procs) /\ Waiting = Range(rest) \cup {p}
      /\ IsInjective(rest) /\ p \notin Range(rest)
  BY <1>2, TailRange DEF PlaceInv, OnePlace, Waiting
<1> HIDE DEF p, rest
<1>4. Waiting' = Waiting /\ IsInjective(waitingQueue')
  BY <1>1, <1>3, AppendRange DEF Waiting
<1>5. /\ Ready' = Ready /\ Queued' = Queued /\ Running' = Running /\ Ended' = Ended
      /\ Procs' = Procs /\ \A q \in Procs : numberOfBursts(q)' = numberOfBursts(q)
  BY <1>1 DEF Ready, Queued, Running, Ended, Procs, numberOfBursts
<1>6. Active' = Active
  BY <1>4, <1>5 DEF Active
<1>7. OnePlace'
  BY <1>1, <1>4, <1>5, <1>6 DEF PlaceInv, OnePlace
<1>8. BurstInv'
  BY <1>1, <1>4, <1>5 DEF PlaceInv, BurstInv
<1>9. QueueTags'
  <2>1. /\ currentQueue'[p] = WAITQ
        /\ \A q \in Procs : q # p => currentQueue'[q] = currentQueue[q]
    BY <1>1, <1>2, <1>3 DEF TypeOK
  <2>2. p \notin preReadyQ /\ p \notin Running
        /\ \A k \in Levels : p \notin Range(readyQ[k])
    BY <1>3, PlaceFacts DEF Ready, Queued
  <2> QED
    BY <1>1, <1>3, <1>4, <1>5, <2>1, <2>2, MovedTags
<1> QED
  BY <1>3, <1>4, <1>5, <1>7, <1>8, <1>9 DEF p

LEMMA EnqueueReadyPlaces ==
  ASSUME PlaceInv, EnqueueReady
  PROVE  /\ OnePlace' /\ BurstInv' /\ QueueTags'
         /\ Ready' = Ready /\ Running' = Running /\ Waiting' = Waiting
<1>1. PICK p \in preReadyQ : /\ Assign(p, 0, tQuanta_0)
                             /\ readyQ' = [readyQ EXCEPT ![0] = Append(@, p)]
                             /\ preReadyQ' = preReadyQ \ {p}
  BY DEF EnqueueReady
<1>2. UNCHANGED <<processes, nextProcessIndex, waitingQueue, cpu, currentBurst>>
  BY DEF EnqueueReady, Goto, input, time, progress
<1>3. /\ TypeOK /\ LevelsApart /\ p \in Procs /\ p \notin Queued
      /\ p \notin Running /\ p \notin Waiting
  BY PlaceFacts
<1>4. /\ Range(readyQ'[0]) = Range(readyQ[0]) \cup {p}
      /\ \A k \in Levels : k # 0 => readyQ'[k] = readyQ[k]
      /\ Queued' = Queued \cup {p} /\ LevelsApart'
  <2>1. readyQ \in [Levels -> Seq(Procs)]
    BY <1>3 DEF TypeOK
  <2> QED
    BY <1>1, <1>3, <2>1, LevelFacts, Enqueued
<1>5. Ready' = Ready /\ preReadyQ' \cap Queued' = {}
  BY <1>1, <1>4, PlaceFacts DEF Ready
<1>6. /\ Running' = Running /\ Waiting' = Waiting /\ Ended' = Ended
      /\ Procs' = Procs /\ \A q \in Procs : numberOfBursts(q)' = numberOfBursts(q)
  BY <1>2 DEF Running, Waiting, Ended, Procs, numberOfBursts
<1>7. Active' = Active
  BY <1>5, <1>6 DEF Active
<1>8. OnePlace'
  BY <1>2, <1>4, <1>5, <1>6, <1>7 DEF PlaceInv, OnePlace, LevelsApart
<1>9. BurstInv'
  BY <1>2, <1>5, <1>6 DEF PlaceInv, BurstInv
<1>10. QueueTags'
  <2>1. /\ currentQueue'[p] = 0
        /\ \A q \in Procs : q # p => currentQueue'[q] = currentQueue[q]
    BY <1>1, <1>3, Tagged
  <2>2. \A k \in Levels : p \notin Range(readyQ[k])
    BY <1>3 DEF Queued
  <2>3. /\ \A k \in Levels : Range(readyQ'[k]) \ {p} \subseteq Range(readyQ[k])
        /\ \A k \in Levels : p \in Range(readyQ'[k]) => currentQueue'[p] = k
    BY <1>4, <2>1, <2>2
  <2> QED
    BY <1>1, <1>3, <1>6, <2>1, <2>3, MovedTags
<1> QED
  BY <1>5, <1>6, <1>8, <1>9, <1>10

LEMMA DispatchPlaces ==
  ASSUME PlaceInv, Dispatch
  PROVE  /\ OnePlace' /\ BurstInv' /\ QueueTags'
         /\ \E k \in Levels :
              LET p == Head(readyQ[k]) IN
              /\ p \in Ready /\ p \notin Running /\ currentQueue[p] = k
              /\ Ready' = Ready \ {p} /\ Running' = Running \cup {p}
              /\ Waiting' = Waiting
              /\ cpu' = [cpu EXCEPT ![i] = p]
              /\ quantumRemaining' = [quantumRemaining EXCEPT
                                        ![p] = <<tQuanta_0, tQuanta_1, 0>>[k + 1]]
<1>1. PICK k \in Levels :
        /\ readyQ[k] # <<>>
        /\ cpu' = [cpu EXCEPT ![i] = Head(readyQ[k])]
        /\ readyQ' = [readyQ EXCEPT ![k] = Tail(@)]
        /\ quantumRemaining' = [quantumRemaining EXCEPT
              ![Head(readyQ[k])] = <<tQuanta_0, tQuanta_1, 0>>[k + 1]]
  BY DEF Dispatch, Scheduled
<1> DEFINE p == Head(readyQ[k])
<1>2. /\ i < NUMBER_OF_PROCESSORS /\ cpu[i] = NULL
      /\ UNCHANGED <<processes, nextProcessIndex, preReadyQ, waitingQueue,
                     currentBurst, currentQueue>>
  BY DEF Dispatch, Goto, input, time, progress
<1>3. /\ TypeOK /\ CpuInjective /\ LevelsApart /\ i \in CPUs
      /\ readyQ \in [Levels -> Seq(Procs)]
  BY <1>2, PlaceFacts, CPUIndex DEF TypeOK
<1>4. /\ p \in Procs /\ p \in Range(readyQ[k]) /\ p \in Queued
      /\ \A j \in Levels : Range(readyQ'[j]) \subseteq Range(readyQ[j])
      /\ Queued' = Queued \ {p} /\ LevelsApart'
  BY <1>1, <1>3, Dequeued
<1>5. cpu' = [cpu EXCEPT ![i] = p]
  BY <1>1
<1> HIDE DEF p
<1>6. p \in Ready /\ p \notin preReadyQ /\ p \notin Running /\ p \notin Waiting
  BY <1>4, PlaceFacts
<1>7. Running' = Running \cup {p} /\ CpuInjective'
  BY <1>2, <1>3, <1>4, <1>5, <1>6, Loaded
<1>8. Ready' = Ready \ {p} /\ Waiting' = Waiting
  BY <1>2, <1>4, <1>6 DEF Ready, Waiting
<1>9. Active' = Active
  BY <1>6, <1>7, <1>8 DEF Active
<1>10. /\ Ended' = Ended /\ Procs' = Procs
       /\ \A q \in Procs : numberOfBursts(q)' = numberOfBursts(q)
  BY <1>2 DEF Ended, Procs, numberOfBursts
<1>11. OnePlace'
  BY <1>2, <1>4, <1>6, <1>7, <1>8, <1>9, <1>10
     DEF PlaceInv, OnePlace, CpuInjective, LevelsApart
<1>12. BurstInv'
  <2>1. (Ready \cup Running)' = Ready \cup Running
    BY <1>6, <1>7, <1>8
  <2> QED
    BY <1>2, <1>8, <1>10, <2>1 DEF PlaceInv, BurstInv
<1>13. QueueTags'
  <2>1. currentQueue[p] \in Levels
    BY <1>1, <1>4 DEF PlaceInv, QueueTags
  <2>2. \A j \in Levels : p \notin Range(readyQ'[j])
    BY <1>4 DEF Queued
  <2> QED
    BY <1>2, <1>4, <1>6, <1>7, <1>8, <2>1, <2>2, MovedTags
<1>14. currentQueue[p] = k
  BY <1>1, <1>4 DEF PlaceInv, QueueTags
<1> QED
  BY <1>1, <1>5, <1>6, <1>7, <1>8, <1>11, <1>12, <1>13, <1>14 DEF p

(* The next process of the array has not been anywhere. *)
LEMMA AdmitPlaces ==
  ASSUME PlaceInv, Admit
  PROVE  /\ OnePlace' /\ BurstInv' /\ QueueTags'
         /\ nextProcessIndex + 1 \in Procs /\ nextProcessIndex + 1 \notin Active
         /\ Ready' = Ready \cup {nextProcessIndex + 1}
         /\ Running' = Running /\ Waiting' = Waiting
<1> DEFINE p == nextProcessIndex + 1
<1>1. /\ nextProcessIndex < Len(processes) /\ nextProcessIndex' = p
      /\ preReadyQ' = preReadyQ \cup {p} /\ Assign(p, 0, tQuanta_0)
      /\ UNCHANGED <<processes, readyQ, waitingQueue, cpu, currentBurst>>
  BY DEF Admit, Arrived, Goto, input, progress
<1>2. /\ TypeOK /\ nextProcessIndex \in Nat /\ p \in Nat /\ Len(processes) \in Nat
      /\ Procs = 1 .. Len(processes) /\ p > nextProcessIndex
      /\ nextProcessIndex <= Len(processes)
  <2>1. TypeOK /\ nextProcessIndex \in 0 .. Len(processes)
    BY DEF PlaceInv, TypeInv, TypeOK
  <2>2. Len(processes) \in Nat
    BY <2>1, ProcFacts
  <2> QED
    BY <2>1, <2>2 DEF Procs
<1>3. /\ p \in Procs /\ p \notin 1 .. nextProcessIndex
      /\ 1 .. p = (1 .. nextProcessIndex) \cup {p}
  BY <1>1, <1>2
<1> HIDE DEF p
<1>4. p \notin Active /\ p \notin Ended
  BY <1>3 DEF PlaceInv, OnePlace
<1>5. /\ p \notin Ready /\ p \notin Running /\ p \notin Waiting
      /\ \A k \in Levels : p \notin Range(readyQ[k])
  BY <1>4 DEF Active, Ready, Queued
<1>6. Ready' = Ready \cup {p} /\ Queued' = Queued /\ p \notin Queued
  BY <1>1, <1>5 DEF Ready, Queued
<1>7. /\ Running' = Running /\ Waiting' = Waiting /\ Ended' = Ended
      /\ Procs' = Procs /\ \A q \in Procs : numberOfBursts(q)' = numberOfBursts(q)
  BY <1>1 DEF Running, Waiting, Ended, Procs, numberOfBursts
<1>8. Active' = Active \cup {p}
  BY <1>6, <1>7 DEF Active
<1>9. OnePlace'
  BY <1>1, <1>3, <1>4, <1>5, <1>6, <1>7, <1>8 DEF PlaceInv, OnePlace
<1>10. BurstInv'
  <2>1. currentBurst[p] = 0
    BY <1>2, <1>3 DEF PlaceInv, BurstInv
  <2>2. \A q \in Procs : currentBurst'[q] <= numberOfBursts(q)'
    BY <1>1, <1>7 DEF PlaceInv, BurstInv
  <2>3. \A q \in (Ready \cup Running)' : currentBurst'[q] % 2 = 0
    BY <1>1, <1>6, <1>7, <2>1 DEF PlaceInv, BurstInv
  <2>4. \A q \in Waiting' : currentBurst'[q] % 2 = 1
    BY <1>1, <1>7 DEF PlaceInv, BurstInv
  <2>5. \A q \in Procs : q > p => q > nextProcessIndex
    BY <1>2
  <2>6. \A q \in Procs : q > nextProcessIndex' => currentBurst'[q] = 0
    BY <1>1, <2>5 DEF PlaceInv, BurstInv
  <2> QED
    BY <1>7, <2>2, <2>3, <2>4, <2>6 DEF BurstInv
<1>11. QueueTags'
  <2>1. /\ currentQueue'[p] = 0
        /\ \A q \in Procs : q # p => currentQueue'[q] = currentQueue[q]
    BY <1>1, <1>2, <1>3, Tagged
  <2> QED
    BY <1>1, <1>3, <1>5, <1>7, <2>1, MovedTags
<1> QED
  BY <1>3, <1>4, <1>6, <1>7, <1>9, <1>10, <1>11 DEF p

LEMMA NextPlaceInv == PlaceInv /\ [Next]_vars => PlaceInv'
<1> SUFFICES ASSUME PlaceInv, [Next]_vars PROVE PlaceInv'
  OBVIOUS
<1>1. TypeInv'
  BY NextTypeInv
<1>2. SUFFICES OnePlace' /\ BurstInv' /\ QueueTags'
  BY <1>1 DEF PlaceInv
<1>3. CASE Admit
  BY <1>3, AdmitPlaces
<1>4. CASE Block
  BY <1>4, BlockPlaces
<1>5. CASE Finish
  BY <1>5, FinishPlaces
<1>6. CASE Demote
  BY <1>6, DemotePlaces
<1>7. CASE Wake
  BY <1>7, WakePlaces
<1>8. CASE KeepWaiting
  BY <1>8, KeepWaitingPlaces
<1>9. CASE EnqueueReady
  BY <1>9, EnqueueReadyPlaces
<1>10. CASE Dispatch
  BY <1>10, DispatchPlaces
<1>11. CASE \/ AdmitDone \/ Continue \/ RunningDone \/ IODone \/ SortAssertFails
            \/ SortDone \/ NoDispatch \/ DispatchDone \/ increamentSteps
            \/ EndOfCycle \/ UNCHANGED vars
  <2>1. UNCHANGED <<processes, nextProcessIndex, places, currentBurst, currentQueue>>
    BY <1>11 DEF AdmitDone, Continue, RunningDone, IODone, SortAssertFails, SortDone,
                 NoDispatch, DispatchDone, increamentSteps, EndOfCycle, Proceed,
                 Goto, vars, input, time, progress, queueing
  <2> QED
    BY <2>1, QuietPlaces DEF PlaceInv
<1> QED
  BY <1>3, <1>4, <1>5, <1>6, <1>7, <1>8, <1>9, <1>10, <1>11 DEF Next

LEMMA PlaceInvCorrect == Spec => []PlaceInv
  BY InitPlaceInv, NextPlaceInv, PTL DEF Spec

(* The type invariant of the simulator. *)
THEOREM TypeCorrect == Spec => []TypeOK
<1>1. PlaceInv => TypeOK
  BY DEF PlaceInv, TypeInv
<1> QED
  BY PlaceInvCorrect, <1>1, PTL

(* No process is in two places, and none is lost. *)
THEOREM PlacesCorrect == Spec => []OnePlace
<1>1. PlaceInv => OnePlace
  BY DEF PlaceInv
<1> QED
  BY PlaceInvCorrect, <1>1, PTL

(* The field currentQueue of a process agrees with the queue it is in. *)
THEOREM TagsCorrect == Spec => []QueueTags
<1>1. PlaceInv => QueueTags
  BY DEF PlaceInv
<1> QED
  BY PlaceInvCorrect, <1>1, PTL
-----------------------------------------------------------------------------
(* The dispatch loop.  A processor it has passed is busy or was left idle    *)
(* because the queues were empty, and nothing is enqueued before the end of  *)
(* the cycle.                                                                *)

DispatchInv ==
  Queued # {} =>
    /\ phase = "dispatch" => \A c \in CPUs : c < i => cpu[c] # NULL
    /\ phase \in {"increment", "endOfCycle"} => \A c \in CPUs : cpu[c] # NULL

LEMMA NextDispatchInv == PlaceInv /\ DispatchInv /\ [Next]_vars => DispatchInv'
<1> SUFFICES ASSUME PlaceInv, DispatchInv, [Next]_vars PROVE DispatchInv'
  OBVIOUS
<1>0. TypeOK /\ \A c \in CPUs : c \in Int /\ c >= 0 /\ c < NUMBER_OF_PROCESSORS
  BY PlaceFacts, SchAssumption DEF CPUs
<1>1. CASE Dispatch
  <2>1. PICK k \in Levels : /\ readyQ[k] # <<>>
                            /\ cpu' = [cpu EXCEPT ![i] = Head(readyQ[k])]
                            /\ readyQ' = [readyQ EXCEPT ![k] = Tail(@)]
    BY <1>1 DEF Dispatch, Scheduled
  <2>2. /\ i < NUMBER_OF_PROCESSORS /\ phase = "dispatch" /\ phase' = "dispatch"
        /\ i' = i + 1 /\ i \in CPUs
    BY <1>0, <1>1, CPUIndex DEF Dispatch, At, Goto
  <2>3. Head(readyQ[k]) \in Procs /\ Head(readyQ[k]) # NULL /\ Queued' \subseteq Queued
    BY <1>0, <2>1, PlaceFacts, ProcFacts, Dequeued DEF TypeOK
  <2>4. \A c \in CPUs : c < i + 1 => c < i \/ c = i
    BY <1>0, <2>2 DEF TypeOK
  <2>5. cpu'[i] # NULL /\ \A c \in CPUs : c # i => cpu'[c] = cpu[c]
    BY <1>0, <2>1, <2>2, <2>3 DEF TypeOK
  <2> QED
    BY <2>2, <2>3, <2>4, <2>5 DEF DispatchInv
<1>2. CASE NoDispatch
  <2>1. /\ phase = "dispatch" /\ phase' = "dispatch" /\ i' = i + 1
        /\ UNCHANGED <<readyQ, cpu>>
        /\ cpu[i] # NULL \/ \A k \in Levels : readyQ[k] = <<>>
    BY <1>2 DEF NoDispatch, At, Proceed, Goto, places
  <2>2. Queued' = Queued
    BY <2>1 DEF Queued
  <2>3. Queued # {} => cpu[i] # NULL
    BY <2>1, RangeEmpty DEF Queued
  <2>4. \A c \in CPUs : c < i + 1 => c < i \/ c = i
    BY <1>0 DEF TypeOK
  <2> QED
    BY <2>1, <2>2, <2>3, <2>4 DEF DispatchInv
<1>3. CASE DispatchDone
  <2>1. /\ phase = "dispatch" /\ i = NUMBER_OF_PROCESSORS /\ phase' = "increment"
        /\ UNCHANGED <<readyQ, cpu>>
    BY <1>3 DEF DispatchDone, At, Proceed, Goto, places
  <2>2. Queued' = Queued /\ \A c \in CPUs : c < i
    BY <1>0, <2>1 DEF Queued
  <2> QED
    BY <2>1, <2>2 DEF DispatchInv
<1>4. CASE SortDone
  <2>1. phase' = "dispatch" /\ i' = 0
    BY <1>4 DEF SortDone, Proceed, Goto
  <2> QED
    BY <1>0, <2>1 DEF DispatchInv
<1>5. CASE increamentSteps
  <2>1. phase = "increment" /\ phase' = "endOfCycle" /\ UNCHANGED <<readyQ, cpu>>
    BY <1>5 DEF increamentSteps, At, Goto, places
  <2>2. Queued' = Queued
    BY <2>1 DEF Queued
  <2> QED
    BY <2>1, <2>2 DEF DispatchInv
<1>6. CASE EndOfCycle
  <2>1. /\ phase = "endOfCycle" /\ phase' \in {"admit", "endOfCycle"}
        /\ UNCHANGED <<readyQ, cpu>>
    BY <1>6 DEF EndOfCycle, At, places
  <2>2. Queued' = Queued
    BY <2>1 DEF Queued
  <2> QED
    BY <2>1, <2>2 DEF DispatchInv
<1>7. CASE \/ Admit \/ AdmitDone \/ Block \/ Finish \/ Demote \/ Continue
           \/ RunningDone \/ Wake \/ KeepWaiting \/ IODone \/ SortAssertFails
           \/ EnqueueReady
  <2>1. phase' \in {"admit", "running", "io", "sort"}
    BY <1>7 DEF Admit, AdmitDone, Block, Finish, Demote, Continue, RunningDone, Wake,
                KeepWaiting, IODone, SortAssertFails, EnqueueReady, At, Vacate,
                Proceed, Goto
  <2> QED
    BY <2>1 DEF DispatchInv
<1>8. CASE UNCHANGED vars
  <2>1. UNCHANGED <<phase, i, readyQ, cpu>>
    BY <1>8 DEF vars, places
  <2>2. Queued' = Queued
    BY <2>1 DEF Queued
  <2> QED
    BY <2>1, <2>2 DEF DispatchInv
<1> QED
  BY <1>1, <1>2, <1>3, <1>4, <1>5, <1>6, <1>7, <1>8 DEF Next

(* While a cycle is executed no processor is idle if a process is ready. *)
THEOREM NoIdleProcessor == Spec => []WorkConserving
<1>1. Init => DispatchInv
  BY RangeEmpty DEF Init, Queued, DispatchInv
<1>2. DispatchInv => WorkConserving
  BY DEF DispatchInv, WorkConserving
<1> QED
  BY PlaceInvCorrect, NextDispatchInv, <1>1, <1>2, PTL DEF Spec

-----------------------------------------------------------------------------
(* The feedback.  A running process of queue 0 or 1 that its processor's     *)
(* turn in selectMoveRunning has left there still has a part of its quantum, *)
(* so that the quantum is not overrun before it is looked at again.          *)

\* What a process has used of its burst when it enters queue k; beyond queue 1
\* that is both quanta.
Used(k) == IF k = 0 THEN 0 ELSE IF k = 1 THEN tQuanta_0 ELSE tQuanta_0 + tQuanta_1

\* The processes whose turn in selectMoveRunning has come in this cycle.
Passed(c) ==
  phase \in {"io", "sort", "dispatch", "increment"} \/ (phase = "running" /\ c < i)

HasSlice(p) == currentQueue[p] # 2 => quantumRemaining[p] > 0

OnEntry(p) == step[p] = Used(currentQueue[p])

OnSchedule(p) ==
  /\ step[p] >= Used(currentQueue[p])
  /\ currentQueue[p] # 2 =>
       /\ quantumRemaining[p] >= 0
       /\ step[p] = Used(currentQueue[p] + 1) - quantumRemaining[p]

LevelInv ==
  PositiveQuanta =>
    /\ \A p \in Ready : OnEntry(p)
    /\ \A p \in Running : OnSchedule(p)
    /\ \A c \in CPUs : Passed(c) /\ cpu[c] # NULL => HasSlice(cpu[c])
    /\ \A p \in Procs : p > nextProcessIndex => step[p] = 0

LEMMA ReadyTags ==
  ASSUME PlaceInv, NEW p \in Ready \cup Running
  PROVE  currentQueue[p] \in Levels /\ p \in Procs
  BY PlaceFacts, LevelFacts DEF PlaceInv, QueueTags, Queued

LEMMA QuietLevels ==
  ASSUME PlaceInv, LevelInv,
         UNCHANGED <<processes, tQuanta_0, tQuanta_1, nextProcessIndex, places, step,
                     currentBurst, currentQueue, quantumRemaining>>,
         \A c \in CPUs : Passed(c)' /\ cpu[c] # NULL /\ PositiveQuanta =>
           Passed(c) \/ HasSlice(cpu[c])
  PROVE  LevelInv'
<1>1. Ready' = Ready /\ Running' = Running /\ Procs' = Procs
  BY QuietPlaces DEF PlaceInv
<1>2. PositiveQuanta' = PositiveQuanta
  BY DEF PositiveQuanta
<1>3. UNCHANGED <<cpu, step, nextProcessIndex, currentQueue, quantumRemaining>>
  BY DEF places
<1>4. \A p \in Running' : PositiveQuanta => OnSchedule(p)'
  BY <1>1, <1>2, <1>3 DEF LevelInv, OnSchedule, Used
<1>5. \A c \in CPUs : Passed(c)' /\ cpu'[c] # NULL /\ PositiveQuanta => HasSlice(cpu[c])'
  BY <1>3 DEF LevelInv, HasSlice
<1>6. \A p \in Ready' : PositiveQuanta => OnEntry(p)'
  BY <1>1, <1>2, <1>3 DEF LevelInv, OnEntry, Used
<1>7. \A p \in Procs' : PositiveQuanta => (p > nextProcessIndex' => step'[p] = 0)
  BY <1>1, <1>3 DEF LevelInv
<1> QED
  BY <1>2, <1>3, <1>4, <1>5, <1>6, <1>7 DEF LevelInv

(* One process p moves, or its fields change. *)
LEMMA MovedLevels ==
  ASSUME PlaceInv, LevelInv, NEW p \in Procs,
         UNCHANGED <<processes, tQuanta_0, tQuanta_1>>,
         nextProcessIndex' >= nextProcessIndex, nextProcessIndex' \in Nat,
         \A q \in Procs : q # p => /\ step'[q] = step[q]
                                   /\ currentQueue'[q] = currentQueue[q]
                                   /\ quantumRemaining'[q] = quantumRemaining[q],
         Ready' \ {p} \subseteq Ready, Running' \ {p} \subseteq Running,
         PositiveQuanta /\ p \in Ready' => OnEntry(p)',
         PositiveQuanta /\ p \in Running' => OnSchedule(p)',
         \A c \in CPUs : Passed(c)' /\ cpu'[c] # NULL /\ PositiveQuanta =>
           \/ Passed(c) /\ cpu'[c] = cpu[c] /\ cpu[c] # p
           \/ cpu'[c] = p /\ HasSlice(p)',
         ~(p > nextProcessIndex')
  PROVE  LevelInv'
<1>1. /\ TypeOK /\ Ready \subseteq Procs /\ Running \subseteq Procs /\ Procs' = Procs
      /\ nextProcessIndex \in Nat /\ Procs \subseteq Nat
  <2>1. TypeOK /\ Ready \subseteq Procs /\ Running \subseteq Procs
    BY PlaceFacts
  <2>2. Procs' = Procs
    BY DEF Procs
  <2>3. nextProcessIndex \in Nat /\ Procs \subseteq Nat
    <3>1. nextProcessIndex \in 0 .. Len(processes)
      BY <2>1 DEF TypeOK
    <3>2. Len(processes) \in Nat /\ Procs \subseteq Nat
      BY <2>1, ProcFacts
    <3> QED
      BY <3>1, <3>2
  <2> QED
    BY <2>1, <2>2, <2>3
<1>2. PositiveQuanta' = PositiveQuanta
  BY DEF PositiveQuanta
<1>3. \A q \in Procs : q # p => /\ OnSchedule(q)' = OnSchedule(q)
                                /\ HasSlice(q)' = HasSlice(q)
                                /\ OnEntry(q)' = OnEntry(q)
  BY DEF OnSchedule, HasSlice, OnEntry, Used
<1>4. \A q \in Running' : PositiveQuanta => OnSchedule(q)'
  BY <1>1, <1>3 DEF LevelInv
<1>5. ASSUME NEW c \in CPUs, Passed(c)', cpu'[c] # NULL, PositiveQuanta
      PROVE  HasSlice(cpu[c])'
  <2>1. CASE cpu'[c] = p /\ HasSlice(p)'
    BY <2>1 DEF HasSlice
  <2>2. CASE Passed(c) /\ cpu'[c] = cpu[c] /\ cpu[c] # p
    <3>1. cpu[c] \in Procs /\ HasSlice(cpu[c])
      BY <1>1, <1>5, <2>2 DEF LevelInv, TypeOK
    <3> QED
      BY <1>3, <2>2, <3>1 DEF HasSlice
  <2> QED
    BY <1>5, <2>1, <2>2
<1>6. \A q \in Ready' : PositiveQuanta => OnEntry(q)'
  BY <1>1, <1>3 DEF LevelInv
<1>7. \A q \in Procs : PositiveQuanta => (q > nextProcessIndex' => step'[q] = 0)
  BY <1>1 DEF LevelInv
<1> QED
  BY <1>1, <1>2, <1>4, <1>5, <1>6, <1>7 DEF LevelInv

LEMMA InitLevelInv == Init => LevelInv
<1> SUFFICES ASSUME Init PROVE LevelInv
  OBVIOUS
<1>1. Ready = {} /\ Running = {}
  <2>1. PlaceInv /\ Active = {}
    BY InitPlaceInv, RangeEmpty, ProcFacts
       DEF Init, PlaceInv, TypeInv, Active, Ready, Queued, Running, Waiting
  <2> QED
    BY <2>1 DEF Active
<1>2. phase = "admit" /\ \A p \in Procs : step[p] = 0
  BY DEF Init
<1> QED
  BY <1>1, <1>2 DEF LevelInv, Passed

LEMMA AdmitLevels == PlaceInv /\ LevelInv /\ Admit => LevelInv'
<1> SUFFICES ASSUME PlaceInv, LevelInv, Admit PROVE LevelInv'
  OBVIOUS
<1>1. PICK p \in Procs : /\ p = nextProcessIndex + 1
                         /\ Ready' = Ready \cup {p} /\ Running' = Running
                         /\ p \notin Running
  BY AdmitPlaces DEF Active
<1>2. /\ nextProcessIndex' = p /\ Assign(p, 0, tQuanta_0) /\ phase' = "admit"
      /\ UNCHANGED <<processes, tQuanta_0, tQuanta_1, step>>
  BY <1>1 DEF Admit, Goto, input, progress
<1>3. TypeOK /\ nextProcessIndex \in Nat /\ p \in Nat /\ p > nextProcessIndex
  <2>1. TypeOK
    BY PlaceFacts
  <2>2. nextProcessIndex \in 0 .. Len(processes) /\ Len(processes) \in Nat
    BY <2>1, ProcFacts DEF TypeOK
  <2> QED
    BY <1>1, <2>1, <2>2
<1>4. PositiveQuanta => step[p] = 0
  BY <1>1, <1>3 DEF LevelInv
<1>5. currentQueue'[p] = 0
  BY <1>1, <1>2, <1>3, Tagged
<1>6. \A q \in Procs : q # p => /\ currentQueue'[q] = currentQueue[q]
                                /\ quantumRemaining'[q] = quantumRemaining[q]
  BY <1>1, <1>2, <1>3 DEF Assign, TypeOK
<1>7. PositiveQuanta => OnEntry(p)'
  BY <1>2, <1>4, <1>5 DEF OnEntry, Used
<1>8. ~(p > nextProcessIndex') /\ nextProcessIndex' >= nextProcessIndex
  BY <1>2, <1>3
<1>9. \A c : ~Passed(c)'
  BY <1>2 DEF Passed
<1> QED
  BY <1>1, <1>2, <1>3, <1>6, <1>7, <1>8, <1>9, MovedLevels

(* The steps of selectMoveRunning that take the process off processor i. *)
LEMMA VacatedLevels ==
  ASSUME PlaceInv, NEW p \in Procs, p = cpu[i], p # NULL, i < NUMBER_OF_PROCESSORS,
         phase = "running", Vacate, p \in Running
  PROVE  /\ \A c \in CPUs : Passed(c)' /\ cpu'[c] # NULL =>
              Passed(c) /\ cpu'[c] = cpu[c] /\ cpu[c] # p
         /\ p \in 1 .. nextProcessIndex
<1>1. TypeOK /\ CpuInjective /\ i \in CPUs /\ CPUs \subseteq Int
  BY PlaceFacts, CPUIndex DEF CPUs
<1>2. /\ cpu' = [cpu EXCEPT ![i] = NULL] /\ phase' = "running" /\ i' = i + 1
  BY DEF Vacate, Goto
<1>3. /\ cpu'[i] = NULL
      /\ \A c \in CPUs : c # i => cpu'[c] = cpu[c]
      /\ \A c \in CPUs : c # i => cpu[c] # p
  BY <1>1, <1>2 DEF TypeOK, CpuInjective
<1>4. \A c \in CPUs : c < i + 1 /\ c # i => c < i
  BY <1>1
<1>5. p \in 1 .. nextProcessIndex
  BY ActiveBurst DEF Active
<1> QED
  BY <1>2, <1>3, <1>4, <1>5 DEF Passed

LEMMA EndBurstLevels == PlaceInv /\ LevelInv /\ (Block \/ Finish) => LevelInv'
<1> SUFFICES ASSUME PlaceInv, LevelInv, Block \/ Finish PROVE LevelInv'
  OBVIOUS
<1>1. PICK p \in Running : /\ p = cpu[i] /\ Running' = Running \ {p}
                           /\ Ready' = Ready
  BY BlockPlaces, FinishPlaces
<1>2. TypeOK /\ p \in Procs /\ p \notin Ready /\ nextProcessIndex \in Nat
  <2>1. TypeOK /\ p \in Procs /\ p \notin Ready
    BY <1>1, PlaceFacts
  <2>2. nextProcessIndex \in 0 .. Len(processes) /\ Len(processes) \in Nat
    BY <2>1, ProcFacts DEF TypeOK
  <2> QED
    BY <2>1, <2>2
<1>3. /\ p # NULL /\ i < NUMBER_OF_PROCESSORS /\ phase = "running" /\ Vacate
      /\ NextBurst(p) /\ (Assign(p, WAITQ, 0) \/ UNCHANGED queueing)
      /\ UNCHANGED <<processes, tQuanta_0, tQuanta_1, nextProcessIndex>>
  BY <1>1 DEF Block, Finish, Occupied, At, Vacate, Goto, input, time
<1>4. \A q \in Procs : q # p => /\ step'[q] = step[q]
                                /\ currentQueue'[q] = currentQueue[q]
                                /\ quantumRemaining'[q] = quantumRemaining[q]
  <2>1. \A q \in Procs : q # p => step'[q] = step[q]
    BY <1>2, <1>3 DEF NextBurst, TypeOK
  <2>2. \A q \in Procs : q # p => /\ currentQueue'[q] = currentQueue[q]
                                  /\ quantumRemaining'[q] = quantumRemaining[q]
    BY <1>2, <1>3 DEF Assign, TypeOK, queueing
  <2> QED
    BY <2>1, <2>2
<1>5. /\ \A c \in CPUs : Passed(c)' /\ cpu'[c] # NULL =>
           Passed(c) /\ cpu'[c] = cpu[c] /\ cpu[c] # p
      /\ p \in 1 .. nextProcessIndex
  BY <1>1, <1>2, <1>3, VacatedLevels
<1>6. p \notin Ready' /\ p \notin Running' /\ ~(p > nextProcessIndex')
  BY <1>1, <1>2, <1>3, <1>5
<1> QED
  BY <1>1, <1>2, <1>3, <1>4, <1>5, <1>6, MovedLevels

LEMMA DemoteLevels == PlaceInv /\ LevelInv /\ Demote => LevelInv'
<1> SUFFICES ASSUME PlaceInv, LevelInv, Demote PROVE LevelInv'
  OBVIOUS
<1>1. PICK p \in Running : /\ p = cpu[i] /\ Running' = Running \ {p}
                           /\ Ready' = Ready \cup {p}
  BY DemotePlaces
<1>2. TypeOK /\ p \in Procs /\ p \notin Ready /\ nextProcessIndex \in Nat
  <2>1. TypeOK /\ p \in Procs /\ p \notin Ready
    BY <1>1, PlaceFacts
  <2>2. nextProcessIndex \in 0 .. Len(processes) /\ Len(processes) \in Nat
    BY <2>1, ProcFacts DEF TypeOK
  <2> QED
    BY <2>1, <2>2
<1>3. /\ p # NULL /\ i < NUMBER_OF_PROCESSORS /\ phase = "running" /\ Vacate
      /\ \E q : Assign(p, currentQueue[p] + 1, q)
      /\ currentQueue[p] \in {0, 1} /\ quantumRemaining[p] = 0
      /\ UNCHANGED <<processes, tQuanta_0, tQuanta_1, nextProcessIndex, step>>
  BY <1>1 DEF Demote, Expired, Occupied, At, Vacate, Goto, input, time, progress
<1>4. /\ currentQueue'[p] = currentQueue[p] + 1
      /\ \A q \in Procs : q # p => /\ currentQueue'[q] = currentQueue[q]
                                   /\ quantumRemaining'[q] = quantumRemaining[q]
  BY <1>2, <1>3 DEF Assign, TypeOK
<1>5. /\ \A c \in CPUs : Passed(c)' /\ cpu'[c] # NULL =>
           Passed(c) /\ cpu'[c] = cpu[c] /\ cpu[c] # p
      /\ p \in 1 .. nextProcessIndex
  BY <1>1, <1>2, <1>3, VacatedLevels
<1>6. p \notin Running' /\ ~(p > nextProcessIndex')
  BY <1>1, <1>2, <1>3, <1>5
<1>7. PositiveQuanta => OnEntry(p)'
  <2>1. ASSUME PositiveQuanta PROVE step[p] = Used(currentQueue[p] + 1)
    <3>1. OnSchedule(p) /\ step[p] \in Nat
      BY <1>1, <1>2, <2>1 DEF LevelInv, TypeOK
    <3>2. tQuanta_0 \in Int /\ tQuanta_1 \in Int
      BY <1>2 DEF TypeOK
    <3> QED
      BY <1>3, <3>1, <3>2 DEF OnSchedule, Used
  <2> QED
    BY <1>3, <1>4, <2>1 DEF OnEntry, Used
<1> QED
  BY <1>1, <1>2, <1>3, <1>4, <1>5, <1>6, <1>7, MovedLevels

LEMMA ContinueLevels == PlaceInv /\ LevelInv /\ Continue => LevelInv'
<1> SUFFICES ASSUME PlaceInv, LevelInv, Continue PROVE LevelInv'
  OBVIOUS
<1>1. /\ phase = "running" /\ i < NUMBER_OF_PROCESSORS
      /\ phase' = "running" /\ i' = i + 1
      /\ cpu[i] # NULL => /\ ~Expired(cpu[i])
                          /\ currentQueue[cpu[i]] \in Levels => ~BurstDone(cpu[i])
      /\ UNCHANGED <<processes, tQuanta_0, tQuanta_1, nextProcessIndex, places, step,
                     currentBurst, currentQueue, quantumRemaining>>
  BY DEF Continue, At, Proceed, Goto, input, time, progress, queueing
<1>2. TypeOK /\ i \in CPUs /\ CPUs \subseteq Int
  BY <1>1, PlaceFacts, CPUIndex DEF CPUs
<1>3. ASSUME cpu[i] # NULL, PositiveQuanta PROVE HasSlice(cpu[i])
  <2>1. PICK p \in Running : p = cpu[i]
    BY <1>2, <1>3 DEF TypeOK, Running
  <2>2. currentQueue[p] \in {0, 1, 2} /\ OnSchedule(p) /\ quantumRemaining[p] \in Int
    <3>1. currentQueue[p] \in Levels /\ p \in Procs
      BY ReadyTags
    <3> QED
      BY <1>2, <1>3, <2>1, <3>1, LevelFacts DEF LevelInv, TypeOK
  <2>3. currentQueue[p] # 2 => quantumRemaining[p] # 0
    BY <1>1, <1>3, <2>1, <2>2, LevelFacts DEF Expired
  <2> QED
    BY <2>1, <2>2, <2>3 DEF OnSchedule, HasSlice
<1>4. \A c \in CPUs : c < i + 1 => c < i \/ c = i
  BY <1>2
<1>5. \A c \in CPUs : Passed(c)' => Passed(c) \/ c = i
  BY <1>1, <1>4 DEF Passed
<1> QED
  BY <1>1, <1>3, <1>5, QuietLevels

LEMMA WaitingLevels == PlaceInv /\ LevelInv /\ (Wake \/ KeepWaiting) => LevelInv'
<1> SUFFICES ASSUME PlaceInv, LevelInv, Wake \/ KeepWaiting PROVE LevelInv'
  OBVIOUS
<1>1. PICK p \in Waiting : p = Head(waitingQueue)
  BY WakePlaces, KeepWaitingPlaces
<1>2. Running' = Running /\ (IF Wake THEN Ready' = Ready \cup {p} ELSE Ready' = Ready)
  BY <1>1, WakePlaces, KeepWaitingPlaces
<1>3. TypeOK /\ p \in Procs /\ p \notin Ready /\ p \notin Running
  BY PlaceFacts
<1>4. p \in 1 .. nextProcessIndex /\ nextProcessIndex \in Nat
  <2>1. nextProcessIndex \in 0 .. Len(processes) /\ Len(processes) \in Nat
    BY <1>3, ProcFacts DEF TypeOK
  <2> QED
    BY <2>1, ActiveBurst DEF Active
<1>5. /\ phase = "io" /\ phase' = "io" /\ cpu' = cpu
      /\ UNCHANGED <<processes, tQuanta_0, tQuanta_1, nextProcessIndex>>
  BY DEF Wake, KeepWaiting, AtFront, At, Goto, input, time
<1>6. /\ \A q \in Procs : q # p => /\ step'[q] = step[q]
                                   /\ currentQueue'[q] = currentQueue[q]
                                   /\ quantumRemaining'[q] = quantumRemaining[q]
      /\ Wake => step'[p] = 0 /\ currentQueue'[p] = 0
  <2>1. CASE Wake
    <3>1. NextBurst(p) /\ Assign(p, 0, tQuanta_0)
      BY <1>1, <2>1 DEF Wake
    <3> QED
      BY <1>3, <3>1 DEF NextBurst, Assign, TypeOK
  <2>2. CASE KeepWaiting
    <3>1. /\ currentQueue' = [currentQueue EXCEPT ![p] = WAITQ]
          /\ UNCHANGED <<step, quantumRemaining>>
      BY <1>1, <2>2 DEF KeepWaiting, progress
    <3>2. ~Wake
      BY <2>2 DEF Wake, KeepWaiting, AtFront
    <3> QED
      BY <1>3, <3>1, <3>2 DEF TypeOK
  <2> QED
    BY <2>1, <2>2
<1>7. p \in Ready' => Wake
  BY <1>2, <1>3
<1>8. p \in Ready' => OnEntry(p)'
  BY <1>6, <1>7 DEF OnEntry, Used
<1>9. \A c \in CPUs : Passed(c) /\ (cpu[c] # NULL => cpu[c] # p)
  BY <1>3, <1>5 DEF Passed, Running
<1> QED
  BY <1>2, <1>3, <1>4, <1>5, <1>6, <1>8, <1>9, MovedLevels

LEMMA EnqueueReadyLevels == PlaceInv /\ LevelInv /\ EnqueueReady => LevelInv'
<1> SUFFICES ASSUME PlaceInv, LevelInv, EnqueueReady PROVE LevelInv'
  OBVIOUS
<1>1. PICK p \in preReadyQ : Assign(p, 0, tQuanta_0)
  BY DEF EnqueueReady
<1>2. TypeOK /\ p \in Procs /\ p \in Ready /\ p \notin Running
  BY PlaceFacts
<1>3. p \in 1 .. nextProcessIndex /\ nextProcessIndex \in Nat
  <2>1. nextProcessIndex \in 0 .. Len(processes) /\ Len(processes) \in Nat
    BY <1>2, ProcFacts DEF TypeOK
  <2> QED
    BY <1>2, <2>1, ActiveBurst DEF Active
<1>4. Ready' = Ready /\ Running' = Running
  BY EnqueueReadyPlaces
<1>5. /\ phase = "sort" /\ phase' = "sort" /\ cpu' = cpu /\ step' = step
      /\ UNCHANGED <<processes, tQuanta_0, tQuanta_1, nextProcessIndex>>
  BY DEF EnqueueReady, At, Goto, input, time, progress
<1>6. \A q \in Procs : q # p => /\ currentQueue'[q] = currentQueue[q]
                                /\ quantumRemaining'[q] = quantumRemaining[q]
  BY <1>1, <1>2 DEF Assign, TypeOK
<1>7. PositiveQuanta => OnEntry(p)'
  <2>1. PositiveQuanta => step[p] = Used(currentQueue[p])
    BY <1>2 DEF LevelInv, OnEntry
  <2>2. currentQueue[p] = 0 /\ currentQueue'[p] = 0
    BY <1>1, <1>2, Tagged DEF PlaceInv, QueueTags
  <2> QED
    BY <1>5, <2>1, <2>2 DEF OnEntry, Used
<1>8. \A c \in CPUs : Passed(c) /\ (cpu[c] # NULL => cpu[c] # p)
  BY <1>2, <1>5 DEF Passed, Running
<1>9. /\ p \notin Running' /\ Running' \ {p} \subseteq Running
      /\ Ready' \ {p} \subseteq Ready /\ ~(p > nextProcessIndex')
      /\ nextProcessIndex' >= nextProcessIndex /\ nextProcessIndex' \in Nat
  BY <1>2, <1>3, <1>4, <1>5
<1>10. \A c \in CPUs : cpu'[c] # NULL => Passed(c) /\ cpu'[c] = cpu[c] /\ cpu[c] # p
  BY <1>5, <1>8
<1>11. \A q \in Procs : q # p => step'[q] = step[q]
  BY <1>5
<1> QED
  BY <1>2, <1>5, <1>6, <1>7, <1>9, <1>10, <1>11, MovedLevels

(* A process dispatched from queue 0 or 1 is given that queue's quantum. *)
LEMMA DispatchLevels == PlaceInv /\ LevelInv /\ Dispatch => LevelInv'
<1> SUFFICES ASSUME PlaceInv, LevelInv, Dispatch PROVE LevelInv'
  OBVIOUS
<1>1. PICK k \in Levels, p \in Ready :
        /\ p \notin Running /\ currentQueue[p] = k
        /\ Ready' = Ready \ {p} /\ Running' = Running \cup {p}
        /\ cpu' = [cpu EXCEPT ![i] = p]
        /\ quantumRemaining' = [quantumRemaining EXCEPT
                                  ![p] = <<tQuanta_0, tQuanta_1, 0>>[k + 1]]
  BY DispatchPlaces
<1>2. TypeOK /\ p \in Procs
  BY PlaceFacts
<1>3. p \in 1 .. nextProcessIndex /\ nextProcessIndex \in Nat
  <2>1. nextProcessIndex \in 0 .. Len(processes) /\ Len(processes) \in Nat
    BY <1>2, ProcFacts DEF TypeOK
  <2> QED
    BY <2>1, ActiveBurst DEF Active
<1>4. /\ phase = "dispatch" /\ phase' = "dispatch" /\ i < NUMBER_OF_PROCESSORS
      /\ UNCHANGED <<processes, tQuanta_0, tQuanta_1, nextProcessIndex, step,
                     currentQueue>>
  BY DEF Dispatch, At, Goto, input, time, progress
<1>5. \A q \in Procs : q # p => quantumRemaining'[q] = quantumRemaining[q]
  BY <1>1, <1>2 DEF TypeOK
<1>6. ASSUME PositiveQuanta PROVE OnSchedule(p)' /\ HasSlice(p)'
  <2>1. step[p] = Used(k)
    BY <1>1, <1>6 DEF LevelInv, OnEntry
  <2>2. /\ tQuanta_0 \in Int /\ tQuanta_1 \in Int /\ tQuanta_0 > 0 /\ tQuanta_1 > 0
        /\ k \in {0, 1, 2}
    BY <1>2, <1>6, LevelFacts DEF TypeOK, PositiveQuanta
  <2>3. quantumRemaining'[p] = <<tQuanta_0, tQuanta_1, 0>>[k + 1]
    BY <1>1, <1>2 DEF TypeOK
  <2>4. /\ step'[p] = Used(k) /\ currentQueue'[p] = k
        /\ UNCHANGED <<tQuanta_0, tQuanta_1>>
    BY <1>1, <1>4, <2>1
  <2>5. CASE k = 0
    <3>1. quantumRemaining'[p] = tQuanta_0
      BY <2>3, <2>5
    <3> QED
      BY <2>2, <2>4, <2>5, <3>1 DEF OnSchedule, HasSlice, Used
  <2>6. CASE k = 1
    <3>1. quantumRemaining'[p] = tQuanta_1
      BY <2>3, <2>6
    <3> QED
      BY <2>2, <2>4, <2>6, <3>1 DEF OnSchedule, HasSlice, Used
  <2>7. CASE k = 2
    BY <2>2, <2>4, <2>7 DEF OnSchedule, HasSlice, Used
  <2> QED
    BY <2>2, <2>5, <2>6, <2>7
<1>7. \A c \in CPUs : cpu'[c] # NULL =>
        \/ Passed(c) /\ cpu'[c] = cpu[c] /\ cpu[c] # p
        \/ cpu'[c] = p
  <2>1. \A c \in CPUs : c # i => cpu'[c] = cpu[c]
    BY <1>1, <1>2 DEF TypeOK
  <2>2. i \in CPUs /\ cpu'[i] = p
    BY <1>1, <1>2, <1>4, CPUIndex DEF TypeOK
  <2>3. \A c \in CPUs : cpu[c] # NULL => cpu[c] # p
    BY <1>1, <1>2 DEF Running
  <2> QED
    BY <1>4, <2>1, <2>2, <2>3 DEF Passed
<1>8. p \notin Ready' /\ Running' \ {p} \subseteq Running /\ Ready' \subseteq Ready
  BY <1>1
<1> QED
  BY <1>1, <1>2, <1>3, <1>4, <1>5, <1>6, <1>7, <1>8, MovedLevels

(* A cycle: each running process uses one unit of its burst and its quantum. *)
LEMMA IncrementLevels == PlaceInv /\ LevelInv /\ increamentSteps => LevelInv'
<1> SUFFICES ASSUME PlaceInv, LevelInv, increamentSteps PROVE LevelInv'
  OBVIOUS
<1>1. /\ phase = "increment" /\ phase' = "endOfCycle"
      /\ step' = Bump(step, Waiting \cup Running)
      /\ quantumRemaining' = [p \in Procs |-> IF p \in Running
                                THEN quantumRemaining[p] - 1 ELSE quantumRemaining[p]]
      /\ UNCHANGED <<processes, tQuanta_0, tQuanta_1, nextProcessIndex, places,
                     currentBurst, currentQueue>>
  BY DEF increamentSteps, At, Goto, input, time, Waiting
<1>2. /\ TypeOK /\ Ready \subseteq Procs /\ Running \subseteq Procs
      /\ Ready \cap Running = {} /\ Ready \cap Waiting = {}
  BY PlaceFacts
<1>3. Ready' = Ready /\ Running' = Running /\ Procs' = Procs
  BY <1>1, QuietPlaces DEF PlaceInv
<1>4. PositiveQuanta' = PositiveQuanta
  BY <1>1 DEF PositiveQuanta
<1>5. \A p \in Procs : step'[p] = IF p \in Waiting \cup Running THEN step[p] + 1
                                                                ELSE step[p]
  BY <1>1, <1>2 DEF Bump
<1>6. \A p \in Ready : PositiveQuanta => OnEntry(p)'
  BY <1>1, <1>2, <1>5 DEF LevelInv, OnEntry, Used
<1>7. ASSUME NEW p \in Running, PositiveQuanta PROVE OnSchedule(p)'
  <2>1. OnSchedule(p) /\ p \in Procs
    BY <1>2, <1>7 DEF LevelInv
  <2>2. HasSlice(p)
    <3>1. PICK c \in CPUs : cpu[c] = p
      BY DEF Running
    <3>2. p # NULL
      BY <1>2, <2>1, ProcFacts
    <3> QED
      BY <1>1, <1>7, <3>1, <3>2 DEF LevelInv, Passed
  <2>3. step'[p] = step[p] + 1 /\ quantumRemaining'[p] = quantumRemaining[p] - 1
    BY <1>1, <1>5, <2>1
  <2>4. /\ step[p] \in Nat /\ quantumRemaining[p] \in Int
        /\ tQuanta_0 \in Int /\ tQuanta_1 \in Int
    BY <1>2, <2>1 DEF TypeOK
  <2> QED
    BY <1>1, <2>1, <2>2, <2>3, <2>4 DEF OnSchedule, HasSlice, Used
<1>8. \A p \in Procs : PositiveQuanta => (p > nextProcessIndex => step'[p] = 0)
  <2>1. ASSUME NEW p \in Procs, p > nextProcessIndex PROVE p \notin Waiting \cup Running
    <3>1. nextProcessIndex \in 0 .. Len(processes) /\ Len(processes) \in Nat
      BY <1>2, ProcFacts DEF TypeOK
    <3>2. p \notin 1 .. nextProcessIndex
      BY <2>1, <3>1
    <3> QED
      BY <3>2, ActiveBurst DEF Active
  <2> QED
    BY <1>5, <2>1 DEF LevelInv
<1>9. \A c : ~Passed(c)'
  BY <1>1 DEF Passed
<1> QED
  BY <1>1, <1>3, <1>4, <1>6, <1>7, <1>8, <1>9 DEF LevelInv

LEMMA NextLevelInv == PlaceInv /\ LevelInv /\ [Next]_vars => LevelInv'
<1> SUFFICES ASSUME PlaceInv, LevelInv, [Next]_vars PROVE LevelInv'
  OBVIOUS
<1>1. CASE Admit
  BY <1>1, AdmitLevels
<1>2. CASE Block \/ Finish
  BY <1>2, EndBurstLevels
<1>3. CASE Demote
  BY <1>3, DemoteLevels
<1>4. CASE Continue
  BY <1>4, ContinueLevels
<1>5. CASE Wake \/ KeepWaiting
  BY <1>5, WaitingLevels
<1>6. CASE EnqueueReady
  BY <1>6, EnqueueReadyLevels
<1>7. CASE Dispatch
  BY <1>7, DispatchLevels
<1>8. CASE increamentSteps
  BY <1>8, IncrementLevels
<1>9. CASE \/ AdmitDone \/ RunningDone \/ IODone \/ SortAssertFails \/ SortDone
           \/ NoDispatch \/ DispatchDone \/ EndOfCycle \/ UNCHANGED vars
  <2>1. UNCHANGED <<processes, tQuanta_0, tQuanta_1, nextProcessIndex, places, step,
                    currentBurst, currentQueue, quantumRemaining>>
    BY <1>9 DEF AdmitDone, RunningDone, IODone, SortAssertFails, SortDone, NoDispatch,
                DispatchDone, EndOfCycle, Proceed, Goto, vars, input, time, progress,
                queueing
  <2>2. TypeOK /\ \A c \in CPUs : c \in Int /\ c >= 0 /\ c < NUMBER_OF_PROCESSORS
    BY PlaceFacts, SchAssumption DEF CPUs
  <2>3. \A c \in CPUs : Passed(c)' => Passed(c)
    <3>1. CASE AdmitDone
      BY <2>2, <3>1 DEF AdmitDone, Proceed, Goto, Passed
    <3>2. CASE RunningDone
      BY <2>2, <3>2 DEF RunningDone, At, Proceed, Goto, Passed
    <3>3. CASE IODone \/ SortDone \/ NoDispatch \/ DispatchDone
      BY <3>3 DEF IODone, SortDone, NoDispatch, DispatchDone, At, Passed
    <3>4. CASE SortAssertFails \/ UNCHANGED vars
      BY <3>4 DEF SortAssertFails, vars, Passed
    <3>5. CASE EndOfCycle
      BY <3>5 DEF EndOfCycle, At, Passed
    <3> QED
      BY <1>9, <3>1, <3>2, <3>3, <3>4, <3>5
  <2> QED
    BY <2>1, <2>3, QuietLevels
<1> QED
  BY <1>1, <1>2, <1>3, <1>4, <1>5, <1>6, <1>7, <1>8, <1>9 DEF Next

LEMMA LevelInvLevels == PlaceInv /\ LevelInv => FeedbackLevels
<1> SUFFICES ASSUME PlaceInv, LevelInv, PositiveQuanta, NEW p \in Ready \cup Running
             PROVE
      LET used == <<0, tQuanta_0, tQuanta_0 + tQuanta_1>>[currentQueue[p] + 1]
          left == <<tQuanta_0, tQuanta_1>>[currentQueue[p] + 1] - quantumRemaining[p]
      IN /\ step[p] >= used
         /\ p \in Ready => step[p] = used
         /\ p \in Running /\ currentQueue[p] # 2 =>
              quantumRemaining[p] >= 0 /\ step[p] = used + left
  BY DEF FeedbackLevels
<1>1. currentQueue[p] \in {0, 1, 2} /\ p \in Procs
  BY ReadyTags, LevelFacts
<1>2. /\ tQuanta_0 \in Int /\ tQuanta_1 \in Int /\ step[p] \in Nat
      /\ quantumRemaining[p] \in Int
  BY <1>1, PlaceFacts DEF TypeOK
<1>3. /\ p \in Ready => step[p] = Used(currentQueue[p])
      /\ p \in Running => OnSchedule(p)
  BY DEF LevelInv, OnEntry
<1>4. CASE currentQueue[p] = 0
  BY <1>2, <1>3, <1>4 DEF OnSchedule, Used
<1>5. CASE currentQueue[p] = 1
  BY <1>2, <1>3, <1>5 DEF OnSchedule, Used
<1>6. CASE currentQueue[p] = 2
  BY <1>2, <1>3, <1>6 DEF OnSchedule, Used
<1> QED
  BY <1>1, <1>4, <1>5, <1>6

(* The queue of a process tells how much of its CPU burst it has used: nothing *)
(* in queue 0, the first quantum in queue 1, both in queue 2.                  *)
THEOREM LevelsCorrect == Spec => []FeedbackLevels
  BY PlaceInvCorrect, InitLevelInv, NextLevelInv, LevelInvLevels, PTL DEF Spec
-----------------------------------------------------------------------------
(* The times.  A process is admitted in the cycle it arrives in, because the *)
(* array is sorted and every process that has arrived is admitted, and is    *)
(* counted once in every cycle from then on, because preReadyQ, which no     *)
(* counter looks at, has been emptied by then.                               *)

PastSort == {"dispatch", "increment", "endOfCycle"}

\* A process that has not arrived has not been counted.
NotArrived(p) ==
  /\ waitingTime[p] = 0 /\ served[p] = 0
  /\ arrivalTime(p) >= clock_cycle
  /\ phase # "admit" => arrivalTime(p) > clock_cycle

AgeInv ==
  /\ SortedByArrival(processes)
  /\ TimeAccounting
  /\ \A p \in Procs : p > nextProcessIndex => NotArrived(p)
  /\ phase \in PastSort => preReadyQ = {}

LEMMA TimeTypes ==
  ASSUME TypeOK
  PROVE  /\ \A p \in Procs : /\ arrivalTime(p) \in Nat /\ waitingTime[p] \in Nat
                             /\ served[p] \in Nat /\ endTime[p] \in Nat
         /\ clock_cycle \in Nat /\ nextProcessIndex \in Nat
         /\ nextProcessIndex <= Len(processes) /\ Len(processes) \in Nat
         /\ Procs = 1 .. Len(processes)
<1>1. \A p \in Procs : processes[p] \in Process
  BY DEF TypeOK, Procs
<1>2. \A p \in Procs : arrivalTime(p) \in Nat
  BY <1>1 DEF Process, arrivalTime
<1>3. /\ Len(processes) \in Nat /\ nextProcessIndex \in 0 .. Len(processes)
  BY ProcFacts DEF TypeOK
<1>4. nextProcessIndex \in Nat /\ nextProcessIndex <= Len(processes)
  BY <1>3
<1> QED
  BY <1>2, <1>3, <1>4 DEF TypeOK, Procs

LEMMA InitAgeInv == Init => AgeInv
<1> SUFFICES ASSUME Init PROVE AgeInv
  OBVIOUS
<1>1. PlaceInv /\ TypeOK
  BY InitPlaceInv, PlaceFacts
<1>2. nextProcessIndex = 0 /\ Active = {} /\ Ended = {}
  <2>1. nextProcessIndex = 0
    BY DEF Init
  <2> QED
    BY <1>1, <2>1 DEF PlaceInv, OnePlace
<1>3. TimeAccounting
  BY <1>2 DEF TimeAccounting
<1>4. \A p \in Procs : NotArrived(p)
  BY <1>1, TimeTypes DEF Init, NotArrived
<1>5. SortedByArrival(processes) /\ phase = "admit"
  BY DEF Init, SortedInputs
<1> QED
  BY <1>3, <1>4, <1>5 DEF AgeInv, PastSort

(* The steps that change no counter, admit no process and end none. *)
LEMMA QuietTimes ==
  ASSUME PlaceInv, AgeInv, OnePlace',
         UNCHANGED <<processes, clock_cycle, nextProcessIndex, waitingTime, served,
                     endTime>>,
         Active' = Active, phase' = "endOfCycle" <=> phase = "endOfCycle",
         phase = "admit" => phase' = "admit",
         phase' \in PastSort => preReadyQ' = {}
  PROVE  AgeInv'
<1>1. Ended' = Ended
  <2>1. Active \cup Ended = 1 .. nextProcessIndex /\ Active \cap Ended = {}
    BY DEF PlaceInv, OnePlace
  <2>2. Active' \cup Ended' = 1 .. nextProcessIndex' /\ Active' \cap Ended' = {}
    BY DEF OnePlace
  <2> QED
    BY <2>1, <2>2
<1>2. Procs' = Procs /\ \A p : arrivalTime(p)' = arrivalTime(p)
  BY DEF Procs, arrivalTime
<1>3. TimeAccounting'
  BY <1>1, <1>2 DEF AgeInv, TimeAccounting
<1>4. \A p \in Procs : p > nextProcessIndex => NotArrived(p)'
  BY <1>2 DEF AgeInv, NotArrived
<1>5. SortedByArrival(processes)'
  BY DEF AgeInv, SortedByArrival
<1> QED
  BY <1>2, <1>3, <1>4, <1>5 DEF AgeInv

LEMMA FinishTimes == PlaceInv /\ AgeInv /\ OnePlace' /\ Finish => AgeInv'
<1> SUFFICES ASSUME PlaceInv, AgeInv, OnePlace', Finish PROVE AgeInv'
  OBVIOUS
<1>1. PICK p \in Running :
        /\ p = cpu[i] /\ Running' = Running \ {p} /\ Ended' = Ended \cup {p}
        /\ Ready' = Ready /\ Waiting' = Waiting
  BY FinishPlaces
<1>2. /\ phase = "running" /\ phase' = "running"
      /\ endTime' = [endTime EXCEPT ![p] = clock_cycle]
      /\ UNCHANGED <<processes, clock_cycle, nextProcessIndex, waitingTime, served>>
  BY <1>1 DEF Finish, Occupied, At, Vacate, Goto, input, time
<1>3. TypeOK /\ p \in Procs /\ p \in Active /\ Active' \subseteq Active
  BY <1>1, PlaceFacts DEF Active
<1>4. Procs' = Procs /\ \A q : arrivalTime(q)' = arrivalTime(q)
  BY <1>2 DEF Procs, arrivalTime
<1>5. \A q \in Active' :
        clock_cycle' - arrivalTime(q)' + (IF phase' = "endOfCycle" THEN 1 ELSE 0)
          = waitingTime'[q] + served'[q]
  BY <1>2, <1>3, <1>4 DEF AgeInv, TimeAccounting
<1>6. ASSUME NEW q \in Ended'
      PROVE  endTime'[q] - arrivalTime(q)' = waitingTime'[q] + served'[q]
  <2>1. CASE q = p
    <3>1. clock_cycle - arrivalTime(p) + 0 = waitingTime[p] + served[p]
      BY <1>2, <1>3 DEF AgeInv, TimeAccounting
    <3>2. endTime'[p] = clock_cycle
      BY <1>2, <1>3 DEF TypeOK
    <3> QED
      BY <1>2, <1>3, <1>4, <2>1, <3>1, <3>2, TimeTypes
  <2>2. CASE q # p
    <3>1. q \in Ended /\ q \in Procs
      BY <1>1, <2>2 DEF Ended
    <3>2. endTime'[q] = endTime[q]
      BY <1>2, <1>3, <2>2, <3>1 DEF TypeOK
    <3> QED
      BY <1>2, <1>4, <3>1, <3>2 DEF AgeInv, TimeAccounting
  <2> QED
    BY <2>1, <2>2
<1>7. TimeAccounting'
  BY <1>5, <1>6 DEF TimeAccounting
<1>8. \A q \in Procs : q > nextProcessIndex => NotArrived(q)'
  BY <1>2, <1>4 DEF AgeInv, NotArrived
<1>9. SortedByArrival(processes)' /\ ~(phase' \in PastSort)
  BY <1>2 DEF AgeInv, SortedByArrival, PastSort
<1> QED
  BY <1>2, <1>4, <1>7, <1>8, <1>9 DEF AgeInv

LEMMA AdmitTimes == PlaceInv /\ AgeInv /\ OnePlace' /\ Admit => AgeInv'
<1> SUFFICES ASSUME PlaceInv, AgeInv, OnePlace', Admit PROVE AgeInv'
  OBVIOUS
<1>1. PICK p \in Procs : /\ p = nextProcessIndex + 1 /\ p \notin Active
                         /\ Ready' = Ready \cup {p} /\ Running' = Running
                         /\ Waiting' = Waiting
  BY AdmitPlaces
<1>2. /\ phase = "admit" /\ phase' = "admit" /\ nextProcessIndex' = p
      /\ arrivalTime(p) <= clock_cycle
      /\ UNCHANGED <<processes, clock_cycle, waitingTime, served, endTime,
                     currentBurst>>
  BY <1>1 DEF Admit, Arrived, At, Goto, input, progress, times, arrivalTime
<1>3. TypeOK /\ Active' = Active \cup {p}
  BY <1>1, PlaceFacts DEF Active
<1>4. Procs' = Procs /\ \A q : arrivalTime(q)' = arrivalTime(q)
  BY <1>2 DEF Procs, arrivalTime
<1>5. Ended' = Ended
  BY <1>2 DEF Ended, Procs, numberOfBursts
<1>6. NotArrived(p) /\ p > nextProcessIndex
  BY <1>1, <1>3, TimeTypes DEF AgeInv
<1>7. clock_cycle - arrivalTime(p) + 0 = waitingTime[p] + served[p]
  BY <1>1, <1>2, <1>3, <1>6, TimeTypes DEF NotArrived
<1>8. TimeAccounting'
  BY <1>2, <1>3, <1>4, <1>5, <1>7 DEF AgeInv, TimeAccounting
<1>9. \A q \in Procs : q > nextProcessIndex' => NotArrived(q)'
  <2>1. \A q \in Procs : q > p => q > nextProcessIndex
    BY <1>1, <1>3, TimeTypes
  <2> QED
    BY <1>2, <1>4, <2>1 DEF AgeInv, NotArrived
<1>10. SortedByArrival(processes)' /\ ~(phase' \in PastSort)
  BY <1>2 DEF AgeInv, SortedByArrival, PastSort
<1> QED
  BY <1>4, <1>8, <1>9, <1>10 DEF AgeInv

(* Whoever has not been admitted by the end of the admission arrives later. *)
LEMMA AdmitDoneTimes == PlaceInv /\ AgeInv /\ OnePlace' /\ AdmitDone => AgeInv'
<1> SUFFICES ASSUME PlaceInv, AgeInv, OnePlace', AdmitDone PROVE AgeInv'
  OBVIOUS
<1>1. /\ phase = "admit" /\ phase' = "running" /\ ~Arrived
      /\ UNCHANGED <<processes, clock_cycle, nextProcessIndex, currentBurst,
                     waitingTime, served, endTime, places>>
  BY DEF AdmitDone, At, Proceed, Goto, input, time, progress, times
<1>2. TypeOK
  BY PlaceFacts
<1>3. ASSUME NEW p \in Procs, p > nextProcessIndex PROVE clock_cycle < arrivalTime(p)
  <2>0. PICK n : n = nextProcessIndex + 1
    OBVIOUS
  <2>1. /\ nextProcessIndex \in Nat /\ nextProcessIndex <= Len(processes)
        /\ Len(processes) \in Nat /\ Procs = 1 .. Len(processes)
    BY <1>2, TimeTypes
  <2>2. n \in Procs /\ (n < p \/ n = p) /\ nextProcessIndex < Len(processes)
    BY <1>3, <2>0, <2>1
  <2>3. arrivalTime(n) \in Nat /\ arrivalTime(p) \in Nat /\ clock_cycle \in Nat
    BY <1>2, <2>2, TimeTypes
  <2>4. ~(arrivalTime(n) <= clock_cycle)
    BY <1>1, <2>0, <2>2 DEF Arrived, arrivalTime
  <2>5. n < p => arrivalTime(n) <= arrivalTime(p)
    <3>1. DOMAIN processes = Procs
      BY <1>2 DEF TypeOK, Procs
    <3>2. n < p => compareByArrival(processes[n], processes[p]) <= 0
      BY <2>2, <3>1 DEF AgeInv, SortedByArrival
    <3>3. arrivalTime(n) > arrivalTime(p)
            => compareByArrival(processes[n], processes[p]) = 1
      BY <2>3 DEF compareByArrival, arrivalTime
    <3> QED
      BY <2>3, <3>2, <3>3
  <2> QED
    BY <2>2, <2>3, <2>4, <2>5
<1>4. /\ Procs' = Procs /\ Ended' = Ended /\ \A q : arrivalTime(q)' = arrivalTime(q)
  BY <1>1 DEF Procs, Ended, numberOfBursts, arrivalTime
<1>5. Active' = Active
  BY <1>1, <1>4 DEF places, Active, Ready, Queued, Running, Waiting
<1>6. TimeAccounting'
  BY <1>1, <1>4, <1>5 DEF AgeInv, TimeAccounting
<1>7. \A q \in Procs : q > nextProcessIndex => NotArrived(q)'
  BY <1>1, <1>2, <1>3, <1>4, TimeTypes DEF AgeInv, NotArrived
<1>8. SortedByArrival(processes)' /\ ~(phase' \in PastSort)
  BY <1>1 DEF AgeInv, SortedByArrival, PastSort
<1> QED
  BY <1>1, <1>4, <1>6, <1>7, <1>8 DEF AgeInv

(* Every process that is somewhere is counted, as waiting if it is queued for a *)
(* processor and as served if it is on one or in I/O.                           *)
LEMMA IncrementTimes == PlaceInv /\ AgeInv /\ increamentSteps => AgeInv'
<1> SUFFICES ASSUME PlaceInv, AgeInv, increamentSteps PROVE AgeInv'
  OBVIOUS
<1>1. /\ phase = "increment" /\ phase' = "endOfCycle"
      /\ served' = Bump(served, Waiting \cup Running)
      /\ waitingTime' = Bump(waitingTime, Queued)
      /\ UNCHANGED <<processes, clock_cycle, nextProcessIndex, currentBurst, endTime,
                     preReadyQ, readyQ, waitingQueue, cpu>>
  BY DEF increamentSteps, At, Goto, input, time, places, Waiting
<1>2. /\ TypeOK /\ Queued = Ready /\ preReadyQ = {}
      /\ Ready \cap Running = {} /\ Ready \cap Waiting = {}
  BY <1>1, PlaceFacts DEF AgeInv, PastSort
<1>3. /\ Procs' = Procs /\ Ended' = Ended /\ \A q : arrivalTime(q)' = arrivalTime(q)
      /\ Ready' = Ready /\ Running' = Running /\ Waiting' = Waiting
  BY <1>1 DEF Procs, Ended, numberOfBursts, arrivalTime, Ready, Queued, Running, Waiting
<1>4. Active' = Active /\ Active \subseteq Procs /\ Ended \subseteq Procs
      /\ Active \cap Ended = {}
  BY <1>3, ActiveBurst DEF Active, Ended
<1>5. \A q \in Procs :
        /\ served'[q] = IF q \in Waiting \cup Running THEN served[q] + 1 ELSE served[q]
        /\ waitingTime'[q] = IF q \in Ready THEN waitingTime[q] + 1 ELSE waitingTime[q]
  BY <1>1, <1>2 DEF Bump
<1>6. ASSUME NEW p \in Active
      PROVE  clock_cycle' - arrivalTime(p)' + (IF phase' = "endOfCycle" THEN 1 ELSE 0)
               = waitingTime'[p] + served'[p]
  <2>1. p \in Procs /\ clock_cycle - arrivalTime(p) + 0 = waitingTime[p] + served[p]
    BY <1>1, <1>4 DEF AgeInv, TimeAccounting
  <2>2. /\ clock_cycle \in Nat /\ arrivalTime(p) \in Nat
        /\ waitingTime[p] \in Nat /\ served[p] \in Nat
    BY <1>2, <2>1, TimeTypes
  <2>3. waitingTime'[p] + served'[p] = waitingTime[p] + served[p] + 1
    <3>1. CASE p \in Ready
      BY <1>2, <1>5, <2>1, <2>2, <3>1
    <3>2. CASE p \in Waiting \cup Running /\ p \notin Ready
      BY <1>5, <2>1, <2>2, <3>2
    <3> QED
      BY <3>1, <3>2 DEF Active
  <2> QED
    BY <1>1, <1>3, <2>1, <2>2, <2>3
<1>7. \A p \in Procs : p \notin Active => waitingTime'[p] = waitingTime[p]
                                           /\ served'[p] = served[p]
  BY <1>5 DEF Active
<1>8. TimeAccounting'
  <2>1. \A p \in Ended : endTime'[p] - arrivalTime(p)' = waitingTime'[p] + served'[p]
    BY <1>1, <1>3, <1>4, <1>7 DEF AgeInv, TimeAccounting
  <2> QED
    BY <1>3, <1>4, <1>6, <2>1 DEF TimeAccounting
<1>9. \A p \in Procs : p > nextProcessIndex => NotArrived(p)'
  <2>1. ASSUME NEW p \in Procs, p > nextProcessIndex PROVE p \notin Active
    <3>1. nextProcessIndex \in Nat
      BY <1>2, TimeTypes
    <3>2. p \notin 1 .. nextProcessIndex
      BY <2>1, <3>1
    <3> QED
      BY <3>2, ActiveBurst
  <2> QED
    BY <1>1, <1>3, <1>7, <2>1 DEF AgeInv, NotArrived
<1>10. SortedByArrival(processes)' /\ preReadyQ' = {}
  BY <1>1, <1>2 DEF AgeInv, SortedByArrival
<1> QED
  BY <1>1, <1>3, <1>8, <1>9, <1>10 DEF AgeInv

LEMMA EndOfCycleTimes == PlaceInv /\ AgeInv /\ EndOfCycle => AgeInv'
<1> SUFFICES ASSUME PlaceInv, AgeInv, EndOfCycle PROVE AgeInv'
  OBVIOUS
<1>1. /\ phase = "endOfCycle"
      /\ \/ phase' = "endOfCycle" /\ clock_cycle' = clock_cycle
         \/ phase' = "admit" /\ clock_cycle' = clock_cycle + 1
      /\ UNCHANGED <<processes, nextProcessIndex, waitingTime, served, endTime,
                     currentBurst, places, preReadyQ>>
  BY DEF EndOfCycle, At, input, progress, times, places
<1>2. TypeOK
  BY PlaceFacts
<1>3. /\ Procs' = Procs /\ Ended' = Ended /\ \A q : arrivalTime(q)' = arrivalTime(q)
  BY <1>1 DEF Procs, Ended, numberOfBursts, arrivalTime
<1>4. Active' = Active /\ Active \subseteq Procs
  BY <1>1, <1>3, ActiveBurst DEF places, Active, Ready, Queued, Running, Waiting
<1>5. ASSUME NEW p \in Active
      PROVE  clock_cycle' - arrivalTime(p)' + (IF phase' = "endOfCycle" THEN 1 ELSE 0)
               = waitingTime'[p] + served'[p]
  <2>1. p \in Procs /\ clock_cycle - arrivalTime(p) + 1 = waitingTime[p] + served[p]
    BY <1>1, <1>4 DEF AgeInv, TimeAccounting
  <2>2. clock_cycle \in Nat /\ arrivalTime(p) \in Nat
    BY <1>2, <2>1, TimeTypes
  <2> QED
    BY <1>1, <1>3, <2>1, <2>2
<1>6. \A p \in Ended : endTime'[p] - arrivalTime(p)' = waitingTime'[p] + served'[p]
  BY <1>1, <1>3 DEF AgeInv, TimeAccounting
<1>7. TimeAccounting'
  BY <1>3, <1>4, <1>5, <1>6 DEF TimeAccounting
<1>8. ASSUME NEW p \in Procs, p > nextProcessIndex PROVE NotArrived(p)'
  <2>1. clock_cycle \in Nat /\ arrivalTime(p) \in Nat /\ NotArrived(p)
    BY <1>2, <1>8, TimeTypes DEF AgeInv
  <2> QED
    BY <1>1, <1>3, <2>1 DEF NotArrived
<1>9. SortedByArrival(processes)' /\ preReadyQ' = {}
  BY <1>1 DEF AgeInv, SortedByArrival, PastSort
<1> QED
  BY <1>1, <1>3, <1>7, <1>8, <1>9 DEF AgeInv

LEMMA NextAgeInv == PlaceInv /\ AgeInv /\ [Next]_vars => AgeInv'
<1> SUFFICES ASSUME PlaceInv, AgeInv, [Next]_vars PROVE AgeInv'
  OBVIOUS
<1>0. OnePlace'
  BY NextPlaceInv DEF PlaceInv
<1>1. CASE Admit
  BY <1>0, <1>1, AdmitTimes
<1>2. CASE AdmitDone
  BY <1>0, <1>2, AdmitDoneTimes
<1>3. CASE Finish
  BY <1>0, <1>3, FinishTimes
<1>4. CASE increamentSteps
  BY <1>4, IncrementTimes
<1>5. CASE EndOfCycle
  BY <1>5, EndOfCycleTimes
<1>6. CASE Block \/ Demote \/ Wake \/ KeepWaiting \/ EnqueueReady \/ Dispatch
  <2>1. Active' = Active
    <3>1. CASE Block
      BY <3>1, BlockPlaces DEF Active
    <3>2. CASE Demote
      BY <3>2, DemotePlaces DEF Active
    <3>3. CASE Wake
      BY <3>3, WakePlaces DEF Active
    <3>4. CASE KeepWaiting
      BY <3>4, KeepWaitingPlaces DEF Active
    <3>5. CASE EnqueueReady
      BY <3>5, EnqueueReadyPlaces DEF Active
    <3>6. CASE Dispatch
      <4>1. PICK p \in Ready : /\ Ready' = Ready \ {p} /\ Running' = Running \cup {p}
                               /\ Waiting' = Waiting
        BY <3>6, DispatchPlaces
      <4> QED
        BY <4>1 DEF Active
    <3> QED
      BY <1>6, <3>1, <3>2, <3>3, <3>4, <3>5, <3>6
  <2>2. /\ UNCHANGED <<processes, clock_cycle, nextProcessIndex, waitingTime, served,
                       endTime>>
        /\ phase \in {"running", "io", "sort", "dispatch"} /\ phase' = phase
    BY <1>6 DEF Block, Demote, Wake, KeepWaiting, EnqueueReady, Dispatch, Occupied,
                AtFront, At, Vacate, Goto, input, time, times
  <2>3. phase' \in PastSort => preReadyQ' = {}
    <3>1. phase = "dispatch" => preReadyQ' = preReadyQ
      BY <1>6 DEF Block, Demote, Wake, KeepWaiting, EnqueueReady, Dispatch, Occupied,
                  AtFront, At
    <3> QED
      BY <2>2, <3>1 DEF AgeInv, PastSort
  <2> QED
    BY <1>0, <2>1, <2>2, <2>3, QuietTimes
<1>7. CASE \/ Continue \/ RunningDone \/ IODone \/ SortAssertFails \/ SortDone
           \/ NoDispatch \/ DispatchDone \/ UNCHANGED vars
  <2>1. /\ UNCHANGED <<processes, clock_cycle, nextProcessIndex, waitingTime, served,
                       endTime, preReadyQ, places>>
        /\ phase' = "endOfCycle" <=> phase = "endOfCycle"
        /\ phase = "admit" => phase' = "admit"
        /\ phase' \in PastSort => phase \in PastSort \/ preReadyQ = {}
    BY <1>7 DEF Continue, RunningDone, IODone, SortAssertFails, SortDone, NoDispatch,
                DispatchDone, At, Proceed, Goto, vars, input, time, times, places, PastSort
  <2>2. UNCHANGED <<currentBurst, currentQueue>>
    BY <1>7 DEF Continue, RunningDone, IODone, SortAssertFails, SortDone, NoDispatch,
                DispatchDone, Proceed, vars, progress, queueing
  <2>3. Active' = Active
    BY <2>1, <2>2, QuietPlaces DEF PlaceInv, Active
  <2>4. phase' \in PastSort => preReadyQ' = {}
    BY <2>1 DEF AgeInv
  <2> QED
    BY <1>0, <2>1, <2>3, <2>4, QuietTimes
<1> QED
  BY <1>1, <1>2, <1>3, <1>4, <1>5, <1>6, <1>7 DEF Next

(* Every cycle of a process since its arrival is counted exactly once. *)
THEOREM TimesAccounted == Spec => []TimeAccounting
<1>1. AgeInv => TimeAccounting
  BY DEF AgeInv
<1> QED
  BY PlaceInvCorrect, InitAgeInv, NextAgeInv, <1>1, PTL DEF Spec
-----------------------------------------------------------------------------
(* The life of the processes.  The simulator implements ProcessLifecycle.    *)

\* Where the processes are after a step.
Placed(ready, running, waiting) ==
  Ready' = ready /\ Running' = running /\ Waiting' = waiting

LEMMA PlaceTypes ==
  ASSUME PlaceInv
  PROVE  TypeOK /\ nextProcessIndex \in Nat
<1>1. TypeOK
  BY DEF PlaceInv, TypeInv
<1>2. Len(processes) \in Nat
  BY <1>1, ProcFacts
<1>3. nextProcessIndex \in 0 .. Len(processes)
  BY <1>1 DEF TypeOK
<1> QED
  BY <1>1, <1>2, <1>3

(* What the refinement mapping makes of the places. *)
LEMMA StateFacts ==
  ASSUME PlaceInv, NEW p \in Procs
  PROVE  /\ p \in Ready <=> StateOf(p) = "ready"
         /\ p \in Running <=> StateOf(p) = "running"
         /\ p \in Waiting <=> StateOf(p) = "waiting"
         /\ p > nextProcessIndex <=> StateOf(p) = "new"
         /\ p \in Ended <=> StateOf(p) = "terminated"
<1>1. p \in Nat /\ nextProcessIndex \in Nat /\ p > 0
  <2>1. TypeOK /\ nextProcessIndex \in Nat
    BY PlaceTypes
  <2>2. Procs \subseteq Nat \ {0}
    BY <2>1, ProcFacts
  <2> QED
    BY <2>1, <2>2
<1>2. p > nextProcessIndex <=> p \notin 1 .. nextProcessIndex
  BY <1>1
<1>3. p \in 1 .. nextProcessIndex <=> p \in Active \cup Ended
  BY DEF PlaceInv, OnePlace
<1>4. /\ ~(p \in Ready /\ p \in Running) /\ ~(p \in Ready /\ p \in Waiting)
      /\ ~(p \in Running /\ p \in Waiting) /\ ~(p \in Active /\ p \in Ended)
  BY DEF PlaceInv, OnePlace
<1>5. p \in Active <=> p \in Ready \/ p \in Running \/ p \in Waiting
  BY DEF Active
<1> QED
  BY <1>2, <1>3, <1>4, <1>5 DEF StateOf

LEMMA NextStateFacts ==
  ASSUME PlaceInv', UNCHANGED nextProcessIndex, nextProcessIndex \in Nat, NEW p \in 1 .. nextProcessIndex
  PROVE  /\ p \in Ready' => StateOf(p)' = "ready"
         /\ p \in Running' => StateOf(p)' = "running"
         /\ p \in Waiting' => StateOf(p)' = "waiting"
         /\ p \in Ended' => StateOf(p)' = "terminated"
<1>1. ~(p > nextProcessIndex')
  OBVIOUS
<1>2. /\ ~(p \in Ready' /\ p \in Running') /\ ~(p \in Ready' /\ p \in Waiting')
      /\ ~(p \in Running' /\ p \in Waiting') /\ ~(p \in Active' /\ p \in Ended')
  BY DEF PlaceInv, OnePlace
<1>3. p \in Ready' \/ p \in Running' \/ p \in Waiting' => p \in Active'
  BY DEF Active
<1> QED
  BY <1>1, <1>2, <1>3 DEF StateOf

LEMMA LifecycleStep ==
  ASSUME UNCHANGED processes, NEW p \in Procs, NEW from, NEW to,
         StateOf(p) = from, StateOf(p)' = to,
         \A q \in Procs : q # p => StateOf(q)' = StateOf(q)
  PROVE  Lifecycle!Step(p, from, to) /\ p \in Lifecycle!Procs
<1>1. Procs' = Procs /\ \A q \in Procs : numberOfBursts(q)' = numberOfBursts(q)
  BY DEF Procs, numberOfBursts
<1>2. [q \in Procs |-> StateOf(q)]' = [[q \in Procs |-> StateOf(q)] EXCEPT ![p] = to]
  BY <1>1
<1>3. [q \in Procs |-> numberOfBursts(q)]' = [q \in Procs |-> numberOfBursts(q)]
  BY <1>1
<1>4. [q \in Procs |-> StateOf(q)][p] = from
  OBVIOUS
<1> QED
  BY <1>2, <1>3, <1>4 DEF Lifecycle!Step, Lifecycle!Procs

(* A process moves and the others stay where they are. *)
LEMMA OthersStay ==
  ASSUME UNCHANGED nextProcessIndex, NEW p, NEW ready, NEW running, NEW waiting,
         Placed(ready, running, waiting),
         ready \ {p} = Ready \ {p}, running \ {p} = Running \ {p},
         waiting \ {p} = Waiting \ {p}
  PROVE  \A q \in Procs : q # p => StateOf(q)' = StateOf(q)
<1>1. \A q \in Procs : q # p => /\ q \in Ready' <=> q \in Ready
                                /\ q \in Running' <=> q \in Running
                                /\ q \in Waiting' <=> q \in Waiting
  BY DEF Placed
<1> QED
  BY <1>1 DEF StateOf

(* There is room for the process that is dispatched. *)
LEMMA FreeProcessor ==
  ASSUME TypeOK, i \in CPUs, cpu[i] = NULL
  PROVE  Cardinality(Running) < NUMBER_OF_PROCESSORS
<1> DEFINE Busy == {c \in CPUs : cpu[c] \in Running}
           f    == [c \in Busy |-> cpu[c]]
<1>1. cpu \in [CPUs -> Procs \cup {NULL}] /\ NULL \notin Procs
  BY ProcFacts DEF TypeOK
<1>2. f \in Surjection(Busy, Running)
  BY DEF Surjection, Running
<1>3. Busy \subseteq CPUs \ {i}
  BY <1>1 DEF Running
<1>4. /\ IsFiniteSet(CPUs) /\ Cardinality(CPUs) = NUMBER_OF_PROCESSORS
      /\ NUMBER_OF_PROCESSORS \in Nat
  <2>1. NUMBER_OF_PROCESSORS \in Nat \ {0}
    BY SchAssumption
  <2> QED
    BY <2>1, FS_Interval DEF CPUs
<1>5. /\ IsFiniteSet(CPUs \ {i})
      /\ Cardinality(CPUs \ {i}) = NUMBER_OF_PROCESSORS - 1
  BY <1>4, FS_RemoveElement
<1>6. IsFiniteSet(Busy) /\ Cardinality(Busy) <= NUMBER_OF_PROCESSORS - 1
  BY <1>3, <1>5, FS_Subset
<1>7. Cardinality(Running) <= Cardinality(Busy)
  <2> HIDE DEF Busy, f
  <2> QED
    BY <1>2, <1>6, FS_Surjection
<1>8. Cardinality(Running) \in Nat /\ Cardinality(Busy) \in Nat
  BY <1>6, ProcFacts, FS_CardinalityType
<1> QED
  BY <1>4, <1>6, <1>7, <1>8
-----------------------------------------------------------------------------
LEMMA InitRefines == Init => Lifecycle!Init
<1> SUFFICES ASSUME Init PROVE Lifecycle!Init
  OBVIOUS
<1>1. PlaceInv /\ TypeOK /\ IsFiniteSet(Procs)
  BY InitPlaceInv, ProcFacts DEF PlaceInv, TypeInv
<1>2. \A p \in Procs : StateOf(p) = "new"
  <2>1. \A p \in Procs : p > nextProcessIndex
    BY <1>1, ProcFacts DEF Init
  <2> QED
    BY <1>1, <2>1, StateFacts
<1>3. \A p \in Procs : numberOfBursts(p) \in Nat /\ numberOfBursts(p) % 2 = 1
  BY <1>1, OddBursts
<1>4. DOMAIN [p \in Procs |-> StateOf(p)] = Procs
  OBVIOUS
<1>5. [p \in Procs |-> StateOf(p)] = [p \in Procs |-> "new"]
  BY <1>2
<1>6. [p \in Procs |-> numberOfBursts(p)] \in [Procs -> {b \in Nat : b % 2 = 1}]
  BY <1>3
<1>7. Lifecycle!Procs = Procs
  BY <1>4 DEF Lifecycle!Procs
<1>8. Lifecycle!IsFiniteSet(Lifecycle!Procs)
  BY <1>1, <1>7 DEF IsFiniteSet, Lifecycle!IsFiniteSet
<1>9. [p \in Procs |-> StateOf(p)] = [p \in Lifecycle!Procs |-> "new"]
  BY <1>5, <1>7
<1>10. currentBurst = [p \in Lifecycle!Procs |-> 0]
  BY <1>7 DEF Init
<1>11. [p \in Procs |-> numberOfBursts(p)]
          \in [Lifecycle!Procs -> {b \in Nat : b % 2 = 1}]
  BY <1>6, <1>7
<1> HIDE DEF Init
<1> QED
  BY <1>8, <1>9, <1>10, <1>11 DEF Lifecycle!Init

LEMMA NextRefines ==
  PlaceInv /\ PlaceInv' /\ [Next]_vars
    => Lifecycle!Next \/ UNCHANGED Lifecycle!vars
<1> SUFFICES ASSUME PlaceInv, PlaceInv', [Next]_vars
             PROVE  Lifecycle!Next \/ UNCHANGED Lifecycle!vars
  OBVIOUS
<1> DEFINE states == [p \in Procs |-> StateOf(p)]
<1>1. /\ TypeOK /\ nextProcessIndex \in Nat /\ Active \subseteq Procs
      /\ Ready \subseteq Procs /\ Running \subseteq Procs /\ Waiting \subseteq Procs
  <2>1. TypeOK /\ nextProcessIndex \in Nat
    BY PlaceTypes
  <2>2. Active \subseteq Procs
    BY ActiveBurst
  <2> QED
    BY <2>1, <2>2 DEF Active
<1>2. ASSUME UNCHANGED processes
      PROVE  /\ Procs' = Procs
             /\ \A p \in Procs : numberOfBursts(p)' = numberOfBursts(p)
  BY <1>2 DEF Procs, numberOfBursts
<1>3. ASSUME UNCHANGED <<processes, nextProcessIndex, currentBurst>>,
             Placed(Ready, Running, Waiting)
      PROVE  UNCHANGED Lifecycle!vars
  <2>1. \A p \in Procs : StateOf(p)' = StateOf(p)
    BY <1>3 DEF StateOf, Placed
  <2>2. states' = states
    BY <1>2, <1>3, <2>1
  <2>3. [p \in Procs |-> numberOfBursts(p)]' = [p \in Procs |-> numberOfBursts(p)]
    BY <1>2, <1>3
  <2> QED
    BY <1>3, <2>2, <2>3 DEF Lifecycle!vars
<1>4. CASE Admit
  <2>0. PICK p : p = nextProcessIndex + 1
    OBVIOUS
  <2>1. /\ nextProcessIndex < Len(processes) /\ nextProcessIndex' = p
        /\ UNCHANGED <<processes, currentBurst>>
    BY <1>4, <2>0 DEF Admit, Arrived, Goto, input, progress
  <2>2. Placed(Ready \cup {p}, Running, Waiting)
    BY <1>4, <2>0, AdmitPlaces DEF Placed
  <2>3. nextProcessIndex \in Nat /\ Len(processes) \in Nat
    BY <1>1, ProcFacts DEF TypeOK
  <2>4. p \in Procs /\ p > nextProcessIndex /\ Procs' = Procs
    BY <1>2, <2>0, <2>1, <2>3 DEF Procs
  <2>5. StateOf(p) = "new" /\ StateOf(p)' = "ready"
    <3>1. p \in Ready' /\ ~(p > nextProcessIndex')
      BY <2>1, <2>2, <2>4 DEF Placed, Procs
    <3>2. StateOf(p)' = "ready"
      BY <3>1 DEF StateOf
    <3> QED
      BY <2>4, <3>2 DEF StateOf
  <2>6. \A q \in Procs : q # p => (q > nextProcessIndex' <=> q > nextProcessIndex)
    BY <2>0, <2>1, <2>3, <1>1, ProcFacts
  <2>7. \A q \in Procs : q # p => StateOf(q)' = StateOf(q)
    BY <2>2, <2>6 DEF StateOf, Placed
  <2>8. Lifecycle!Step(p, "new", "ready") /\ p \in Lifecycle!Procs
    BY <2>1, <2>4, <2>5, <2>7, LifecycleStep
  <2> QED
    BY <2>1, <2>8 DEF Lifecycle!Next, Lifecycle!Admit
<1>5. CASE Block
  <2>1. UNCHANGED <<processes, nextProcessIndex>>
    BY <1>5 DEF Block, Vacate, Goto, input, time
  <2>2. PICK p \in Running : /\ Placed(Ready, Running \ {p}, Waiting \cup {p})
                             /\ NextBurst(p)
                             /\ currentBurst[p] + 1 < numberOfBursts(p)
    BY <1>5, BlockPlaces DEF Block, Placed
  <2>3. p \in Procs /\ p \in 1 .. nextProcessIndex
    BY <2>2, ActiveBurst DEF Active
  <2>4. StateOf(p) = "running" /\ StateOf(p)' = "waiting"
    <3>1. p \in Waiting'
      BY <2>2 DEF Placed
    <3> QED
      BY <1>1, <2>1, <2>2, <2>3, <3>1, StateFacts, NextStateFacts
  <2>5. \A q \in Procs : q # p => StateOf(q)' = StateOf(q)
    BY <2>1, <2>2, OthersStay
  <2>6. Lifecycle!Step(p, "running", "waiting") /\ p \in Lifecycle!Procs
    BY <2>1, <2>3, <2>4, <2>5, LifecycleStep
  <2>7. [q \in Procs |-> numberOfBursts(q)][p] = numberOfBursts(p)
    BY <2>3
  <2> QED
    BY <2>2, <2>6, <2>7
       DEF Lifecycle!Next, Lifecycle!Block, Lifecycle!NextBurst, NextBurst
<1>6. CASE Finish
  <2>1. UNCHANGED <<processes, nextProcessIndex>>
    BY <1>6 DEF Finish, Vacate, Goto, input, time
  <2>2. PICK p \in Running : /\ Placed(Ready, Running \ {p}, Waiting)
                             /\ NextBurst(p)
                             /\ currentBurst[p] + 1 = numberOfBursts(p)
    <3>1. PICK p \in Running : /\ Placed(Ready, Running \ {p}, Waiting)
                               /\ NextBurst(p)
                               /\ currentBurst[p] + 1 >= numberOfBursts(p)
      BY <1>6, FinishPlaces DEF Finish, Placed
    <3>2. /\ currentBurst[p] \in Nat /\ numberOfBursts(p) \in Nat
          /\ currentBurst[p] < numberOfBursts(p)
      BY <3>1, ActiveBurst DEF Active
    <3>3. currentBurst[p] + 1 = numberOfBursts(p)
      BY <3>1, <3>2
    <3> QED
      BY <3>1, <3>3
  <2>3. p \in Procs /\ p \in 1 .. nextProcessIndex
    BY <2>2, ActiveBurst DEF Active
  <2>4. StateOf(p) = "running" /\ StateOf(p)' = "terminated"
    <3>1. p \in Ended'
      BY <1>1, <1>2, <2>1, <2>2, <2>3 DEF Ended, NextBurst, TypeOK
    <3> QED
      BY <1>1, <2>1, <2>2, <2>3, <3>1, StateFacts, NextStateFacts
  <2>5. \A q \in Procs : q # p => StateOf(q)' = StateOf(q)
    BY <2>1, <2>2, OthersStay
  <2>6. Lifecycle!Step(p, "running", "terminated") /\ p \in Lifecycle!Procs
    BY <2>1, <2>3, <2>4, <2>5, LifecycleStep
  <2>7. [q \in Procs |-> numberOfBursts(q)][p] = numberOfBursts(p)
    BY <2>3
  <2> QED
    BY <2>2, <2>6, <2>7
       DEF Lifecycle!Next, Lifecycle!Finish, Lifecycle!NextBurst, NextBurst
<1>7. CASE Demote
  <2>1. UNCHANGED <<processes, nextProcessIndex>>
    BY <1>7 DEF Demote, Vacate, Goto, input, time
  <2>2. PICK p \in Running : /\ Placed(Ready \cup {p}, Running \ {p}, Waiting)
    BY <1>7, DemotePlaces DEF Placed
  <2>3. p \in Procs /\ p \in 1 .. nextProcessIndex
    BY <2>2, ActiveBurst DEF Active
  <2>4. StateOf(p) = "running" /\ StateOf(p)' = "ready"
    <3>1. p \in Ready'
      BY <2>2 DEF Placed
    <3> QED
      BY <1>1, <2>1, <2>2, <2>3, <3>1, StateFacts, NextStateFacts
  <2>5. \A q \in Procs : q # p => StateOf(q)' = StateOf(q)
    BY <2>1, <2>2, OthersStay
  <2>6. Lifecycle!Step(p, "running", "ready") /\ p \in Lifecycle!Procs
    BY <2>1, <2>3, <2>4, <2>5, LifecycleStep
  <2>7. UNCHANGED currentBurst
    BY <1>7 DEF Demote, progress
  <2> QED
    BY <2>6, <2>7 DEF Lifecycle!Next, Lifecycle!Preempt
<1>8. CASE Wake
  <2>1. UNCHANGED <<processes, nextProcessIndex>>
    BY <1>8 DEF Wake, Goto, input, time
  <2>2. PICK p \in Waiting : /\ Placed(Ready \cup {p}, Running, Waiting \ {p})
                             /\ NextBurst(p)
    BY <1>8, WakePlaces DEF Wake, Placed
  <2>3. p \in Procs /\ p \in 1 .. nextProcessIndex
    BY <2>2, ActiveBurst DEF Active
  <2>4. StateOf(p) = "waiting" /\ StateOf(p)' = "ready"
    <3>1. p \in Ready'
      BY <2>2 DEF Placed
    <3> QED
      BY <1>1, <2>1, <2>2, <2>3, <3>1, StateFacts, NextStateFacts
  <2>5. \A q \in Procs : q # p => StateOf(q)' = StateOf(q)
    BY <2>1, <2>2, OthersStay
  <2>6. Lifecycle!Step(p, "waiting", "ready") /\ p \in Lifecycle!Procs
    BY <2>1, <2>3, <2>4, <2>5, LifecycleStep
  <2> QED
    BY <2>2, <2>6 DEF Lifecycle!Next, Lifecycle!Wake, Lifecycle!NextBurst, NextBurst
<1>9. CASE Dispatch
  <2>1. UNCHANGED <<processes, nextProcessIndex>>
    BY <1>9 DEF Dispatch, Goto, input, time
  <2>2. PICK p \in Ready : /\ Placed(Ready \ {p}, Running \cup {p}, Waiting)
    BY <1>9, DispatchPlaces DEF Placed
  <2>3. p \in Procs /\ p \in 1 .. nextProcessIndex
    BY <2>2, ActiveBurst DEF Active
  <2>4. StateOf(p) = "ready" /\ StateOf(p)' = "running"
    <3>1. p \in Running'
      BY <2>2 DEF Placed
    <3> QED
      BY <1>1, <2>1, <2>2, <2>3, <3>1, StateFacts, NextStateFacts
  <2>5. \A q \in Procs : q # p => StateOf(q)' = StateOf(q)
    BY <2>1, <2>2, OthersStay
  <2>6. Lifecycle!Step(p, "ready", "running") /\ p \in Lifecycle!Procs
    BY <2>1, <2>3, <2>4, <2>5, LifecycleStep
  <2>7. UNCHANGED currentBurst /\ currentBurst[p] % 2 = 0
    BY <1>9, <2>2 DEF Dispatch, progress, PlaceInv, BurstInv
  <2>8. Cardinality(Running) < NUMBER_OF_PROCESSORS
    BY <1>1, <1>9, CPUIndex, FreeProcessor DEF Dispatch
  <2>9. Lifecycle!Running = Running
    BY <1>1, StateFacts DEF Lifecycle!Running, Lifecycle!Procs
  <2>10. Lifecycle!Cardinality(Lifecycle!Running) < NUMBER_OF_PROCESSORS
    BY <2>8, <2>9 DEF Cardinality, Lifecycle!Cardinality
  <2>11. Lifecycle!Dispatch(p)
    BY <2>6, <2>7, <2>10 DEF Lifecycle!Dispatch
  <2> QED
    BY <2>6, <2>11 DEF Lifecycle!Next
<1>10. CASE KeepWaiting \/ EnqueueReady
  <2>1. UNCHANGED <<processes, nextProcessIndex, currentBurst>>
    BY <1>10 DEF KeepWaiting, EnqueueReady, Goto, input, time, progress
  <2> QED
    BY <1>3, <1>10, <2>1, KeepWaitingPlaces, EnqueueReadyPlaces DEF Placed
<1>11. CASE \/ AdmitDone \/ Continue \/ RunningDone \/ IODone \/ SortAssertFails
            \/ SortDone \/ NoDispatch \/ DispatchDone \/ increamentSteps
            \/ EndOfCycle \/ UNCHANGED vars
  <2>1. UNCHANGED <<processes, nextProcessIndex, places, currentBurst, currentQueue>>
    BY <1>11 DEF AdmitDone, Continue, RunningDone, IODone, SortAssertFails, SortDone,
                 NoDispatch, DispatchDone, increamentSteps, EndOfCycle, Proceed,
                 Goto, vars, input, time, progress, queueing
  <2>2. Placed(Ready, Running, Waiting)
    BY <2>1, QuietPlaces DEF PlaceInv, Placed
  <2> QED
    BY <1>3, <2>1, <2>2
<1> QED
  BY <1>4, <1>5, <1>6, <1>7, <1>8, <1>9, <1>10, <1>11 DEF Next

(* Every process goes through the states of the comment on struct process. *)
THEOREM LifecycleRefines == Spec => LifecycleSpec
  BY InitPlaceInv, NextPlaceInv, InitRefines, NextRefines, PTL
     DEF Spec, LifecycleSpec, Lifecycle!Spec
-----------------------------------------------------------------------------
(* The sums of the report.  A process has been served for the bursts it has *)
(* ended and the steps of the one it is in, and the processors for the CPU   *)
(* bursts among them.                                                        *)

bursts(p) == processes[p].bursts

ServedFor(p) == SumFunctionOnSet(bursts(p), 1 .. currentBurst[p]) + step[p]

CPUServedFor(p) ==
  SumFunctionOnSet(bursts(p), OddUpTo(currentBurst[p]))
    + (IF currentBurst[p] % 2 = 0 THEN step[p] ELSE 0)

ServedInv ==
  /\ \A p \in Procs : served[p] = ServedFor(p)
  /\ \A p \in Procs : p \in Ended \/ p > nextProcessIndex => step[p] = 0

UtilizedInv ==
  cpuTimeUtilized + (IF phase = "endOfCycle" THEN Cardinality(Running) ELSE 0)
    = SumFunctionOnSet([p \in Procs |-> CPUServedFor(p)], Procs)

\* The bursts of a process as numbers to add up.
LEMMA BurstSums ==
  ASSUME TypeOK, NEW p \in Procs, NEW n \in Nat, n <= numberOfBursts(p)
  PROVE  /\ \A k \in 1 .. n : bursts(p)[k] \in Nat
         /\ SumFunctionOnSet(bursts(p), 1 .. n) \in Nat
         /\ SumFunctionOnSet(bursts(p), OddUpTo(n)) \in Nat
<1>1. bursts(p) \in Seq(Nat) /\ numberOfBursts(p) = Len(bursts(p))
  BY OddBursts DEF bursts, numberOfBursts
<1>2. \A k \in 1 .. n : bursts(p)[k] \in Nat
  BY <1>1
<1>3. SumFunctionOnSet(bursts(p), 1 .. n) \in Nat
  <2>1. IsFiniteSet(1 .. n)
    BY FS_Interval
  <2> QED
    BY <1>2, <2>1, SumNat
<1> QED
  BY <1>2, <1>3, SumOdd

\* The end of a burst.
LEMMA EndBurstServed ==
  ASSUME PlaceInv, ServedInv, NEW p \in Active, BurstDone(p), NextBurst(p),
         UNCHANGED <<processes, served, nextProcessIndex>>
  PROVE  ServedInv' /\ \A q \in Procs : CPUServedFor(q)' = CPUServedFor(q)
<1> DEFINE c == currentBurst[p]
<1>1. /\ p \in Procs /\ c \in Nat /\ TypeOK /\ c < numberOfBursts(p)
      /\ numberOfBursts(p) \in Nat
      /\ c + 1 \in Nat /\ c + 1 <= numberOfBursts(p)
  BY ActiveBurst DEF PlaceInv, TypeInv
<1>2. /\ \A q \in Procs : q # p => /\ currentBurst'[q] = currentBurst[q]
                                   /\ step'[q] = step[q]
      /\ currentBurst'[p] = c + 1 /\ step'[p] = 0
      /\ step[p] = bursts(p)[c + 1]
      /\ step[p] \in Nat
      /\ Procs' = Procs
  BY <1>1 DEF NextBurst, TypeOK, BurstDone, length, bursts, Procs
<1>3. \A k \in 1 .. c + 1 : bursts(p)[k] \in Nat
  BY <1>1, BurstSums
<1>4. /\ SumFunctionOnSet(bursts(p), 1 .. c + 1)
           = SumFunctionOnSet(bursts(p), 1 .. c) + step[p]
      /\ SumFunctionOnSet(bursts(p), OddUpTo(c + 1))
           = SumFunctionOnSet(bursts(p), OddUpTo(c))
               + (IF c % 2 = 0 THEN step[p] ELSE 0)
  <2>1. SumFunctionOnSet(bursts(p), 1 .. c + 1)
          = SumFunctionOnSet(bursts(p), 1 .. c) + bursts(p)[c + 1]
    BY <1>1, <1>3, SumPrefix
  <2>2. SumFunctionOnSet(bursts(p), OddUpTo(c + 1))
          = SumFunctionOnSet(bursts(p), OddUpTo(c))
              + (IF c % 2 = 0 THEN bursts(p)[c + 1] ELSE 0)
    BY <1>1, <1>3, SumOddNext
  <2> QED
    BY <1>2, <2>1, <2>2
<1>5. /\ SumFunctionOnSet(bursts(p), 1 .. c + 1) \in Nat
      /\ SumFunctionOnSet(bursts(p), OddUpTo(c + 1)) \in Nat
  BY <1>1, BurstSums
<1>6. ServedFor(p)' = ServedFor(p)
  <2>1. ServedFor(p)' = SumFunctionOnSet(bursts(p), 1 .. c + 1) + 0
    BY <1>2 DEF ServedFor, bursts
  <2> QED
    BY <1>4, <1>5, <2>1 DEF ServedFor
<1>7. CPUServedFor(p)' = CPUServedFor(p)
  <2>1. CPUServedFor(p)' = SumFunctionOnSet(bursts(p), OddUpTo(c + 1)) + 0
    BY <1>2 DEF CPUServedFor, bursts
  <2> QED
    BY <1>4, <1>5, <2>1 DEF CPUServedFor
<1>8. \A q \in Procs : q # p => /\ ServedFor(q)' = ServedFor(q)
                                /\ CPUServedFor(q)' = CPUServedFor(q)
  BY <1>2 DEF ServedFor, CPUServedFor, bursts
<1>9. \A q \in Procs : q # p => (q \in Ended' <=> q \in Ended)
  BY <1>2 DEF Ended, numberOfBursts
<1> QED
  BY <1>2, <1>6, <1>7, <1>8, <1>9 DEF ServedInv

\* A step that ends no burst and counts no cycle.
LEMMA QuietServed ==
  ASSUME PlaceInv, ServedInv, \A p \in Procs : p > nextProcessIndex' => p > nextProcessIndex,
         UNCHANGED <<processes, currentBurst, step, served>>
  PROVE  ServedInv' /\ \A p \in Procs : CPUServedFor(p)' = CPUServedFor(p)
<1>1. /\ Procs' = Procs /\ Ended' = Ended
      /\ \A p \in Procs : ServedFor(p)' = ServedFor(p)
      /\ \A p \in Procs : CPUServedFor(p)' = CPUServedFor(p)
  BY DEF Procs, Ended, numberOfBursts, ServedFor, CPUServedFor, bursts
<1> QED
  BY <1>1 DEF ServedInv

LEMMA ServedTypes ==
  ASSUME PlaceInv, NEW p \in Procs
  PROVE  /\ step[p] \in Nat /\ served[p] \in Nat /\ currentBurst[p] \in Nat
         /\ SumFunctionOnSet(bursts(p), 1 .. currentBurst[p]) \in Nat
         /\ SumFunctionOnSet(bursts(p), OddUpTo(currentBurst[p])) \in Nat
         /\ CPUServedFor(p) \in Nat
<1>1. /\ TypeOK /\ step[p] \in Nat /\ served[p] \in Nat /\ currentBurst[p] \in Nat
      /\ currentBurst[p] <= numberOfBursts(p)
  BY DEF PlaceInv, TypeInv, TypeOK, BurstInv
<1>2. /\ SumFunctionOnSet(bursts(p), 1 .. currentBurst[p]) \in Nat
      /\ SumFunctionOnSet(bursts(p), OddUpTo(currentBurst[p])) \in Nat
  BY <1>1, BurstSums
<1> QED
  BY <1>1, <1>2 DEF CPUServedFor

\* A cycle of service.
LEMMA IncrementServed ==
  ASSUME PlaceInv, ServedInv, increamentSteps
  PROVE  /\ ServedInv'
         /\ \A p \in Procs : CPUServedFor(p)'
              = IF p \in Running THEN CPUServedFor(p) + 1 ELSE CPUServedFor(p)
<1> DEFINE S == Waiting \cup Running
<1>1. /\ step' = Bump(step, S) /\ served' = Bump(served, S)
      /\ UNCHANGED <<processes, currentBurst, nextProcessIndex>>
  BY DEF increamentSteps, Goto, input, time, Waiting
<1>2. TypeOK /\ Procs' = Procs /\ Ended' = Ended
  BY <1>1, PlaceFacts DEF Procs, Ended, numberOfBursts
<1>3. \A p \in S : p \in Procs /\ p \notin Ended /\ ~(p > nextProcessIndex)
  <2>1. \A p \in S : p \in Procs /\ p \notin Ended /\ p \in 1 .. nextProcessIndex
    BY ActiveBurst DEF Active
  <2> QED
    BY <1>2, <2>1, TimeTypes
<1>4. \A p \in Procs : p \in S /\ currentBurst[p] % 2 = 0 <=> p \in Running
  BY DEF PlaceInv, BurstInv
<1>5. ASSUME NEW p \in Procs
      PROVE  /\ served'[p] = ServedFor(p)'
             /\ CPUServedFor(p)'
                  = IF p \in Running THEN CPUServedFor(p) + 1 ELSE CPUServedFor(p)
  <2>1. /\ step'[p] = IF p \in S THEN step[p] + 1 ELSE step[p]
        /\ served'[p] = IF p \in S THEN served[p] + 1 ELSE served[p]
    BY <1>1 DEF Bump
  <2> DEFINE a == SumFunctionOnSet(bursts(p), 1 .. currentBurst[p])
             b == SumFunctionOnSet(bursts(p), OddUpTo(currentBurst[p]))
  <2>2. /\ ServedFor(p) = a + step[p] /\ ServedFor(p)' = a + step'[p]
        /\ CPUServedFor(p) = b + (IF currentBurst[p] % 2 = 0 THEN step[p] ELSE 0)
        /\ CPUServedFor(p)' = b + (IF currentBurst[p] % 2 = 0 THEN step'[p] ELSE 0)
    BY <1>1 DEF ServedFor, CPUServedFor, bursts
  <2>3. a \in Nat /\ b \in Nat /\ step[p] \in Nat /\ served[p] \in Nat
    BY ServedTypes
  <2>4. served[p] = a + step[p]
    BY <2>2 DEF ServedInv
  <2> HIDE DEF a, b, S
  <2> QED
    BY <1>4, <2>1, <2>2, <2>3, <2>4
<1>6. \A p \in Procs : p \in Ended \/ p > nextProcessIndex => step'[p] = 0
  BY <1>1, <1>3 DEF ServedInv, Bump
<1> QED
  BY <1>1, <1>2, <1>5, <1>6 DEF ServedInv

\* When no CPU burst is served the processors have been busy for as long.
LEMMA QuietUtilized ==
  ASSUME PlaceInv, UtilizedInv, UNCHANGED processes,
         \A p \in Procs : CPUServedFor(p)' = CPUServedFor(p),
         cpuTimeUtilized' + (IF phase' = "endOfCycle" THEN Cardinality(Running') ELSE 0)
           = cpuTimeUtilized + (IF phase = "endOfCycle" THEN Cardinality(Running) ELSE 0)
  PROVE  UtilizedInv'
<1>1. Procs' = Procs
  BY DEF Procs
<1>2. [p \in Procs |-> CPUServedFor(p)]' = [p \in Procs |-> CPUServedFor(p)]
  BY <1>1
<1> QED
  BY <1>1, <1>2 DEF UtilizedInv

SumsInv == ServedInv /\ UtilizedInv

LEMMA InitSums == Init => SumsInv
<1> SUFFICES ASSUME Init PROVE SumsInv
  OBVIOUS
<1>1. PlaceInv /\ TypeOK /\ IsFiniteSet(Procs)
  BY InitPlaceInv, PlaceFacts, ProcFacts
<1>2. 1 .. 0 = {} /\ OddUpTo(0) = {}
  BY DEF OddUpTo
<1>3. \A p \in Procs : currentBurst[p] = 0 /\ step[p] = 0 /\ served[p] = 0
  BY DEF Init
<1>4. ASSUME NEW p \in Procs PROVE ServedFor(p) = 0 /\ CPUServedFor(p) = 0
  <2>1. SumFunctionOnSet(bursts(p), {}) = 0 /\ currentBurst[p] = 0 /\ step[p] = 0
    BY <1>3, SumEmpty
  <2>2. ServedFor(p) = 0 + 0
    BY <1>2, <2>1 DEF ServedFor
  <2>3. CPUServedFor(p) = 0 + (IF 0 % 2 = 0 THEN 0 ELSE 0)
    BY <1>2, <2>1 DEF CPUServedFor
  <2> QED
    BY <2>2, <2>3
<1>5. SumFunctionOnSet([p \in Procs |-> CPUServedFor(p)], Procs) = 0
  <2> DEFINE f == [p \in Procs |-> CPUServedFor(p)]
  <2>1. \A p \in Procs : f[p] = 0
    BY <1>4
  <2> HIDE DEF f
  <2>2. SumFunctionOnSet(f, Procs) = 0
    BY <1>1, <2>1, SumZero
  <2> QED
    BY <2>2 DEF f
<1>6. cpuTimeUtilized = 0 /\ phase = "admit"
  BY DEF Init
<1> QED
  BY <1>3, <1>4, <1>5, <1>6 DEF SumsInv, ServedInv, UtilizedInv

LEMMA NextSums == PlaceInv /\ SumsInv /\ [Next]_vars => SumsInv'
<1> SUFFICES ASSUME PlaceInv, SumsInv, [Next]_vars PROVE SumsInv'
  OBVIOUS
<1>1. /\ TypeInv /\ TypeOK /\ ServedInv /\ UtilizedInv
      /\ nextProcessIndex \in Nat /\ cpuTimeUtilized \in Nat
      /\ Cardinality(Running) \in Nat /\ IsFiniteSet(Procs) /\ Running \subseteq Procs
  <2>1. TypeInv /\ TypeOK /\ ServedInv /\ UtilizedInv /\ cpuTimeUtilized \in Nat
    BY DEF PlaceInv, TypeInv, TypeOK, SumsInv
  <2> QED
    BY <2>1, ProcFacts, TimeTypes
<1>2. CASE Block \/ Finish
  <2>0. PICK p : p = cpu[i]
    OBVIOUS
  <2>1. /\ NextBurst(p) /\ BurstDone(p) /\ phase = "running" /\ phase' = "running"
        /\ UNCHANGED <<processes, nextProcessIndex, served, cpuTimeUtilized>>
    BY <1>2, <2>0 DEF Block, Finish, Occupied, At, Vacate, Goto, input, time, times, counters
  <2>2. p \in Active
    BY <1>2, <2>0, BlockPlaces, FinishPlaces DEF Active
  <2>3. ServedInv' /\ \A q \in Procs : CPUServedFor(q)' = CPUServedFor(q)
    BY <1>1, <2>1, <2>2, EndBurstServed
  <2>4. UtilizedInv'
    BY <1>1, <2>1, <2>3, QuietUtilized
  <2> QED
    BY <2>3, <2>4 DEF SumsInv
<1>3. CASE Wake
  <2>0. PICK p : p = Head(waitingQueue)
    OBVIOUS
  <2>1. /\ NextBurst(p) /\ BurstDone(p) /\ phase = "io" /\ phase' = "io"
        /\ UNCHANGED <<processes, nextProcessIndex, served, cpuTimeUtilized>>
    BY <1>3, <2>0 DEF Wake, AtFront, At, Goto, input, time, times, counters
  <2>2. p \in Active
    BY <1>3, <2>0, WakePlaces DEF Active
  <2>3. ServedInv' /\ \A q \in Procs : CPUServedFor(q)' = CPUServedFor(q)
    BY <1>1, <2>1, <2>2, EndBurstServed
  <2>4. UtilizedInv'
    BY <1>1, <2>1, <2>3, QuietUtilized
  <2> QED
    BY <2>3, <2>4 DEF SumsInv
<1>4. CASE increamentSteps
  <2>1. /\ phase = "increment" /\ phase' = "endOfCycle"
        /\ UNCHANGED <<processes, cpuTimeUtilized, cpu>>
    BY <1>4 DEF increamentSteps, At, Goto, input, counters, places
  <2>2. /\ ServedInv'
        /\ \A q \in Procs : CPUServedFor(q)' =
             IF q \in Running THEN CPUServedFor(q) + 1 ELSE CPUServedFor(q)
    BY <1>1, <1>4, IncrementServed
  <2>3. UtilizedInv'
    <3> DEFINE f == [p \in Procs |-> CPUServedFor(p)]
               e == [p \in Procs |-> CPUServedFor(p)]'
    <3>1. /\ \A p \in Procs : f[p] \in Int
          /\ \A p \in Procs : e[p] = IF p \in Running THEN f[p] + 1 ELSE f[p]
          /\ Procs' = Procs /\ Running' = Running
      BY <2>1, <2>2, ServedTypes DEF Procs, Running
    <3>2. SumFunctionOnSet(e, Procs) = SumFunctionOnSet(f, Procs) + Cardinality(Running)
      <4> HIDE DEF e, f
      <4> QED
        BY <1>1, <3>1, SumBump
    <3>3. cpuTimeUtilized = SumFunctionOnSet(f, Procs)
      BY <1>1, <2>1 DEF UtilizedInv
    <3>4. cpuTimeUtilized' + Cardinality(Running') = SumFunctionOnSet(e, Procs)
      BY <1>1, <2>1, <3>1, <3>2, <3>3
    <3> QED
      BY <2>1, <3>1, <3>4 DEF UtilizedInv
  <2> QED
    BY <2>2, <2>3 DEF SumsInv
<1>5. CASE EndOfCycle
  <2>1. /\ phase = "endOfCycle"
        /\ cpuTimeUtilized' = cpuTimeUtilized + Cardinality(Running)
        /\ phase' = "admit" \/ (phase' = "endOfCycle" /\ Running = {})
        /\ UNCHANGED <<processes, nextProcessIndex, currentBurst, step, served, cpu>>
    BY <1>5 DEF EndOfCycle, At, input, progress, times, places, LastCycle
  <2>2. ServedInv' /\ \A q \in Procs : CPUServedFor(q)' = CPUServedFor(q)
    BY <1>1, <2>1, QuietServed
  <2>3. Running' = Running /\ Cardinality({}) = 0
    BY <2>1, FS_EmptySet DEF Running, Procs
  <2>4. UtilizedInv'
    BY <1>1, <2>1, <2>2, <2>3, QuietUtilized
  <2> QED
    BY <2>2, <2>4 DEF SumsInv
<1>6. CASE \/ Admit \/ AdmitDone \/ Demote \/ Continue \/ RunningDone \/ KeepWaiting
           \/ IODone \/ SortAssertFails \/ EnqueueReady \/ SortDone \/ Dispatch
           \/ NoDispatch \/ DispatchDone
  <2>1. /\ phase # "endOfCycle" /\ phase' # "endOfCycle"
        /\ nextProcessIndex' = nextProcessIndex \/ nextProcessIndex' = nextProcessIndex + 1
        /\ UNCHANGED <<processes, currentBurst, step, served, cpuTimeUtilized>>
    BY <1>1, <1>6 DEF Admit, AdmitDone, Demote, Continue, RunningDone, KeepWaiting,
       IODone, SortAssertFails, EnqueueReady, SortDone, Dispatch, NoDispatch,
       DispatchDone, AtFront, Occupied, At, Proceed, Vacate, Goto, input, progress, time,
       times, counters
  <2>2. \A q \in Procs : q > nextProcessIndex' => q > nextProcessIndex
    <3>1. nextProcessIndex \in Nat /\ \A q \in Procs : q \in Nat
      BY <1>1, ProcFacts
    <3> QED
      BY <2>1, <3>1
  <2>3. ServedInv' /\ \A q \in Procs : CPUServedFor(q)' = CPUServedFor(q)
    BY <1>1, <2>1, <2>2, QuietServed
  <2>4. UtilizedInv'
    BY <1>1, <2>1, <2>3, QuietUtilized
  <2> QED
    BY <2>3, <2>4 DEF SumsInv
<1>7. CASE UNCHANGED vars
  <2>1. UNCHANGED <<processes, nextProcessIndex, currentBurst, step, served, cpu,
                    phase, cpuTimeUtilized>>
    BY <1>7 DEF vars, input, time, places, progress, times, counters
  <2>2. ServedInv' /\ \A q \in Procs : CPUServedFor(q)' = CPUServedFor(q)
    BY <1>1, <2>1, QuietServed
  <2>3. Running' = Running
    BY <2>1 DEF Running, Procs
  <2>4. UtilizedInv'
    BY <1>1, <2>1, <2>2, <2>3, QuietUtilized
  <2> QED
    BY <2>2, <2>4 DEF SumsInv
<1> QED
  BY <1>2, <1>3, <1>4, <1>5, <1>6, <1>7 DEF Next
-----------------------------------------------------------------------------
(* How the simulation ends, and what the clock says of it. *)

ExitInv ==
  /\ outcome = "finished" => phase = "endOfCycle" /\ LastCycle
  /\ outcome # "rejected" => Procs # {}

ClockInv ==
  /\ \A p \in Procs : endTime[p] <= clock_cycle
  /\ clock_cycle = 0 => Ended = {} /\ (phase \in {"admit", "running"} => Running = {})
  /\ outcome # "rejected" /\ Ended = Procs => \E p \in Procs : endTime[p] = clock_cycle
  /\ cpuTimeUtilized <= clock_cycle * NUMBER_OF_PROCESSORS

LEMMA InitExit == Init => ExitInv
<1> SUFFICES ASSUME Init PROVE ExitInv
  OBVIOUS
<1>1. Len(processes) \in Nat
  <2>1. TypeOK
    BY InitPlaceInv DEF PlaceInv, TypeInv
  <2> QED
    BY <2>1, ProcFacts
<1>2. outcome # "rejected" => Len(processes) >= 1
  BY SchAssumption DEF Init, Accepted
<1>3. outcome \in {"simulating", "rejected"}
  BY DEF Init
<1> QED
  BY <1>1, <1>2, <1>3 DEF ExitInv, Procs

LEMMA NextExit == ExitInv /\ [Next]_vars => ExitInv'
<1> SUFFICES ASSUME ExitInv, [Next]_vars PROVE ExitInv'
  OBVIOUS
<1>1. UNCHANGED processes
  BY DEF Next, vars, Admit, AdmitDone, Block, Finish, Demote, Continue, RunningDone, Wake,
     KeepWaiting, IODone, SortAssertFails, EnqueueReady, SortDone, Dispatch, NoDispatch,
     DispatchDone, increamentSteps, EndOfCycle, Proceed, Vacate, Goto, input
<1>2. Procs' = Procs
  BY <1>1 DEF Procs
<1>3. CASE Next /\ ~EndOfCycle
  <2>1. outcome = "simulating" /\ outcome' \in {"simulating", "aborted"}
    BY <1>3 DEF Next, Admit, AdmitDone, Block, Finish, Demote, Continue, RunningDone, Wake,
       KeepWaiting, IODone, SortAssertFails, EnqueueReady, SortDone, Dispatch, NoDispatch,
       DispatchDone, increamentSteps, AtFront, Occupied, At, Proceed, Vacate, Goto
  <2> QED
    BY <1>2, <2>1 DEF ExitInv
<1>4. CASE EndOfCycle
  <2>1. /\ outcome = "simulating" /\ phase = "endOfCycle"
        /\ UNCHANGED <<nextProcessIndex, readyQ, waitingQueue, cpu>>
        /\ \/ LastCycle /\ phase' = phase /\ outcome' = "finished"
           \/ outcome' = "simulating"
    BY <1>4 DEF EndOfCycle, At, places
  <2>2. LastCycle' = LastCycle
    BY <1>1, <1>2, <2>1 DEF LastCycle, Running, Queued
  <2> QED
    BY <1>2, <2>1, <2>2 DEF ExitInv
<1>5. CASE UNCHANGED vars
  <2>1. UNCHANGED <<outcome, phase, nextProcessIndex, readyQ, waitingQueue, cpu>>
    BY <1>5 DEF vars, time, places
  <2>2. LastCycle' = LastCycle
    BY <1>1, <1>2, <2>1 DEF LastCycle, Running, Queued
  <2> QED
    BY <1>2, <2>1, <2>2 DEF ExitInv
<1> QED
  BY <1>3, <1>4, <1>5

\* No more processes run than there are processors.
LEMMA BusyProcessors ==
  ASSUME TypeOK PROVE Cardinality(Running) <= NUMBER_OF_PROCESSORS
<1> DEFINE Busy == {c \in CPUs : cpu[c] \in Running}
           f    == [c \in Busy |-> cpu[c]]
<1>1. f \in Surjection(Busy, Running)
  BY DEF Surjection, Running
<1>2. /\ IsFiniteSet(CPUs) /\ Cardinality(CPUs) = NUMBER_OF_PROCESSORS
      /\ NUMBER_OF_PROCESSORS \in Nat
  <2>1. NUMBER_OF_PROCESSORS \in Nat \ {0}
    BY SchAssumption
  <2> QED
    BY <2>1, FS_Interval DEF CPUs
<1>3. IsFiniteSet(Busy) /\ Cardinality(Busy) <= NUMBER_OF_PROCESSORS
  BY <1>2, FS_Subset
<1>4. Cardinality(Running) <= Cardinality(Busy)
  <2> HIDE DEF Busy, f
  <2> QED
    BY <1>1, <1>3, FS_Surjection
<1>5. Cardinality(Running) \in Nat /\ Cardinality(Busy) \in Nat
  BY <1>3, ProcFacts, FS_CardinalityType
<1> QED
  BY <1>2, <1>3, <1>4, <1>5

LEMMA InitClock == Init => ClockInv
<1> SUFFICES ASSUME Init PROVE ClockInv
  OBVIOUS
<1>1. PlaceInv /\ TypeOK
  BY InitPlaceInv DEF PlaceInv, TypeInv
<1>2. Running = {} /\ Ended = {}
  <2>1. \A p \in Procs : p # NULL
    BY <1>1, ProcFacts
  <2>2. Active \cup Ended = 1 .. 0
    BY <1>1 DEF Init, PlaceInv, OnePlace
  <2> QED
    BY <2>1, <2>2 DEF Init, Running
<1>3. outcome # "rejected" => Ended # Procs
  BY <1>2, InitExit DEF ExitInv
<1>4. /\ \A p \in Procs : endTime[p] <= clock_cycle
      /\ cpuTimeUtilized <= clock_cycle * NUMBER_OF_PROCESSORS
  BY SchAssumption DEF Init
<1> QED
  BY <1>2, <1>3, <1>4 DEF ClockInv

\* Steps that neither end a process nor advance the clock.
LEMMA QuietClock ==
  ASSUME PlaceInv, ClockInv, Ended' = Ended,
         UNCHANGED <<processes, endTime, clock_cycle, cpuTimeUtilized>>,
         outcome' # "rejected" => outcome # "rejected",
         \/ phase' \notin {"admit", "running"}
         \/ phase \in {"admit", "running"} /\ Running' \subseteq Running
  PROVE  ClockInv'
<1>1. Procs' = Procs
  BY DEF Procs
<1> QED
  BY <1>1 DEF ClockInv

LEMMA SameEnded ==
  ASSUME UNCHANGED <<processes, currentBurst>>
  PROVE  Ended' = Ended
  BY DEF Ended, Procs, numberOfBursts

\* The end of a burst that is not the last ends no process.
LEMMA BurstNotLast ==
  ASSUME PlaceInv, NEW p \in Active, NextBurst(p), UNCHANGED processes,
         currentBurst[p] + 1 < numberOfBursts(p)
  PROVE  Ended' = Ended
<1>1. TypeOK /\ p \in Procs
  BY PlaceFacts, ActiveBurst
<1>2. /\ currentBurst[p] < numberOfBursts(p) /\ currentBurst[p] \in Nat
      /\ numberOfBursts(p) \in Nat
  BY ActiveBurst
<1> QED
  BY <1>1, <1>2, EndedNext

LEMMA BlockClock ==
  ASSUME PlaceInv, ClockInv, Block PROVE ClockInv'
<1>0. PICK p : p = cpu[i]
  OBVIOUS
<1>1. /\ phase = "running" /\ outcome' = outcome
      /\ UNCHANGED <<processes, clock_cycle, endTime, cpuTimeUtilized>>
      /\ NextBurst(p) /\ currentBurst[p] + 1 < numberOfBursts(p)
  BY <1>0 DEF Block, Occupied, At, Vacate, Goto, input, time, times, counters
<1>2. p \in Active /\ Running' \subseteq Running
  BY <1>0, BlockPlaces DEF Active
<1>3. Ended' = Ended
  BY <1>1, <1>2, BurstNotLast
<1> QED
  BY <1>1, <1>2, <1>3, QuietClock

LEMMA WakeClock ==
  ASSUME PlaceInv, ClockInv, Wake PROVE ClockInv'
<1>0. PICK p : p = Head(waitingQueue)
  OBVIOUS
<1>1. /\ phase' = "io" /\ outcome' = outcome
      /\ UNCHANGED <<processes, clock_cycle, endTime, cpuTimeUtilized>>
      /\ NextBurst(p)
  BY <1>0 DEF Wake, AtFront, At, Goto, input, time, times, counters
<1>2. p \in Active /\ p \in Waiting
  BY <1>0, WakePlaces DEF Active
<1>3. currentBurst[p] + 1 < numberOfBursts(p)
  <2>1. currentBurst[p] % 2 = 1
    BY <1>2 DEF PlaceInv, BurstInv
  <2> QED
    BY <1>2, <2>1, ActiveBurst
<1>4. Ended' = Ended
  BY <1>1, <1>2, <1>3, BurstNotLast
<1> QED
  BY <1>1, <1>4, QuietClock

LEMMA FinishClock ==
  ASSUME PlaceInv, ClockInv, Finish PROVE ClockInv'
<1>0. PICK p : p = cpu[i]
  OBVIOUS
<1>1. /\ phase = "running" /\ endTime' = [endTime EXCEPT ![p] = clock_cycle]
      /\ UNCHANGED <<processes, clock_cycle, cpuTimeUtilized>>
  BY <1>0 DEF Finish, Occupied, At, Vacate, Goto, input, time, counters
<1>2. TypeOK /\ clock_cycle \in Nat /\ p \in Running /\ p \in Procs
  BY <1>0, FinishPlaces, PlaceFacts DEF TypeOK
<1>3. clock_cycle # 0
  BY <1>1, <1>2 DEF ClockInv
<1>4. /\ endTime'[p] = clock_cycle
      /\ \A q \in Procs : q # p => endTime'[q] = endTime[q]
  BY <1>1, <1>2 DEF TypeOK
<1>5. Procs' = Procs
  BY <1>1 DEF Procs
<1>6. \A q \in Procs : endTime'[q] <= clock_cycle
  BY <1>2, <1>4 DEF ClockInv
<1> QED
  BY <1>1, <1>2, <1>3, <1>4, <1>5, <1>6 DEF ClockInv

\* When everybody has ended the cycle is the last.
LEMMA EndedLastCycle ==
  ASSUME PlaceInv, Ended = Procs PROVE LastCycle
<1>1. /\ TypeOK /\ nextProcessIndex \in Nat /\ Len(processes) \in Nat
      /\ nextProcessIndex <= Len(processes)
  BY PlaceFacts, TimeTypes
<1>2. Active = {}
  BY ActiveBurst
<1>3. Running = {} /\ waitingQueue = <<>> /\ Queued = {}
  <2>1. /\ Running = {} /\ Range(waitingQueue) = {} /\ waitingQueue \in Seq(Procs)
        /\ Queued = {}
    BY <1>1, <1>2 DEF Active, Waiting, Ready, TypeOK
  <2> QED
    BY <2>1, RangeSubset
<1>4. 1 .. Len(processes) = 1 .. nextProcessIndex
  BY <1>2 DEF PlaceInv, OnePlace, Procs
<1>5. nextProcessIndex = Len(processes)
  <2>1. Len(processes) >= 1 => Len(processes) \in 1 .. nextProcessIndex
    BY <1>1, <1>4
  <2> QED
    BY <1>1, <2>1
<1> QED
  BY <1>3, <1>5 DEF LastCycle

LEMMA EndOfCycleClock ==
  ASSUME PlaceInv, ClockInv, EndOfCycle PROVE ClockInv'
<1>1. /\ phase = "endOfCycle" /\ outcome # "rejected" /\ outcome' # "rejected"
      /\ UNCHANGED <<processes, currentBurst, endTime, cpu>>
      /\ cpuTimeUtilized' = cpuTimeUtilized + Cardinality(Running)
  BY DEF EndOfCycle, At, input, progress, times, places
<1>2. /\ TypeOK /\ clock_cycle \in Nat /\ cpuTimeUtilized \in Nat
      /\ \A p \in Procs : endTime[p] \in Nat
  BY DEF PlaceInv, TypeInv, TypeOK
<1>3. NUMBER_OF_PROCESSORS \in Nat
  BY SchAssumption
<1>4. /\ Cardinality(Running) \in Nat /\ Cardinality(Running) <= NUMBER_OF_PROCESSORS
  BY <1>2, BusyProcessors, ProcFacts
<1>5. Procs' = Procs /\ Ended' = Ended /\ Running' = Running
  BY <1>1 DEF Procs, Ended, numberOfBursts, Running
<1>6. CASE LastCycle
  <2>1. phase' = phase /\ clock_cycle' = clock_cycle /\ Running = {}
    BY <1>6 DEF EndOfCycle, LastCycle
  <2>2. Cardinality(Running) = 0
    BY <2>1, FS_EmptySet
  <2>3. cpuTimeUtilized' = cpuTimeUtilized
    BY <1>1, <1>2, <2>2
  <2> QED
    BY <1>1, <1>5, <2>1, <2>3 DEF ClockInv
<1>7. CASE ~LastCycle
  <2>1. phase' = "admit" /\ clock_cycle' = clock_cycle + 1
    BY <1>7 DEF EndOfCycle
  <2>2. Ended # Procs
    BY <1>7, EndedLastCycle
  <2>3. \A p \in Procs : endTime[p] <= clock_cycle + 1
    BY <1>2 DEF ClockInv
  <2>4. cpuTimeUtilized' <= (clock_cycle + 1) * NUMBER_OF_PROCESSORS
    <3>1. /\ (clock_cycle + 1) * NUMBER_OF_PROCESSORS
               = clock_cycle * NUMBER_OF_PROCESSORS + NUMBER_OF_PROCESSORS
          /\ clock_cycle * NUMBER_OF_PROCESSORS \in Nat
      BY <1>2, <1>3
    <3>2. cpuTimeUtilized <= clock_cycle * NUMBER_OF_PROCESSORS
      BY DEF ClockInv
    <3> QED
      BY <1>1, <1>2, <1>3, <1>4, <3>1, <3>2
  <2> QED
    BY <1>1, <1>2, <1>5, <2>1, <2>2, <2>3, <2>4 DEF ClockInv
<1> QED
  BY <1>6, <1>7

LEMMA NextClock == PlaceInv /\ ClockInv /\ [Next]_vars => ClockInv'
<1> SUFFICES ASSUME PlaceInv, ClockInv, [Next]_vars PROVE ClockInv'
  OBVIOUS
<1>1. CASE Block \/ Finish \/ Wake \/ EndOfCycle
  BY <1>1, BlockClock, FinishClock, WakeClock, EndOfCycleClock
<1>2. CASE Admit \/ AdmitDone \/ Demote \/ Continue
  <2>1. /\ UNCHANGED <<processes, currentBurst, endTime, clock_cycle, cpuTimeUtilized,
                       outcome>>
        /\ phase \in {"admit", "running"}
    BY <1>2 DEF Admit, AdmitDone, Demote, Continue, Occupied, At, Proceed, Vacate, Goto,
       input, progress, time, times, counters
  <2>2. Running' \subseteq Running
    <3>1. CASE Demote
      BY <3>1, DemotePlaces
    <3>2. CASE Admit
      BY <3>2, AdmitPlaces
    <3>3. CASE AdmitDone \/ Continue
      BY <3>3 DEF AdmitDone, Continue, Proceed, Goto, input, places, Running, Procs
    <3> QED
      BY <1>2, <3>1, <3>2, <3>3
  <2>3. Ended' = Ended
    BY <2>1, SameEnded
  <2> QED
    BY <2>1, <2>2, <2>3, QuietClock
<1>3. CASE \/ RunningDone \/ KeepWaiting \/ IODone \/ SortAssertFails \/ EnqueueReady
           \/ SortDone \/ Dispatch \/ NoDispatch \/ DispatchDone \/ increamentSteps
  <2>1. /\ UNCHANGED <<processes, currentBurst, endTime, clock_cycle, cpuTimeUtilized>>
        /\ outcome # "rejected" /\ phase' \notin {"admit", "running"}
    BY <1>3 DEF RunningDone, KeepWaiting, IODone, SortAssertFails, EnqueueReady, SortDone,
       Dispatch, NoDispatch, DispatchDone, increamentSteps, AtFront, At, Proceed, Goto,
       input, progress, time, times, counters
  <2>2. Ended' = Ended
    BY <2>1, SameEnded
  <2> QED
    BY <2>1, <2>2, QuietClock
<1>4. CASE UNCHANGED vars
  <2>1. UNCHANGED <<processes, currentBurst, endTime, clock_cycle, cpuTimeUtilized,
                    outcome, phase, cpu>>
    BY <1>4 DEF vars, input, time, places, progress, times, counters
  <2>2. Running' = Running /\ Ended' = Ended /\ Procs' = Procs
    BY <2>1, SameEnded DEF Running, Procs
  <2> QED
    BY <2>1, <2>2 DEF ClockInv
<1> QED
  BY <1>1, <1>2, <1>3, <1>4 DEF Next
-----------------------------------------------------------------------------
(* What is printed. *)

\* A process that has ended was served for its bursts.
LEMMA EndedServed ==
  ASSUME PlaceInv, ServedInv, NEW p \in Ended
  PROVE  /\ p \in Procs /\ served[p] = Need(p) /\ Need(p) \in Nat
         /\ CPUServedFor(p) = CPUNeed(p)
<1>1. p \in Procs /\ currentBurst[p] = numberOfBursts(p) /\ step[p] = 0 /\ TypeOK
  BY DEF Ended, ServedInv, PlaceInv, TypeInv
<1>2. bursts(p) \in Seq(Nat) /\ numberOfBursts(p) = Len(bursts(p))
      /\ numberOfBursts(p) \in Nat
  BY <1>1, OddBursts DEF bursts, numberOfBursts
<1>3. DOMAIN bursts(p) = 1 .. numberOfBursts(p)
  BY <1>2
<1>4. /\ Need(p) = SumFunctionOnSet(bursts(p), 1 .. numberOfBursts(p))
      /\ CPUNeed(p) = SumFunctionOnSet(bursts(p), OddUpTo(numberOfBursts(p)))
  BY <1>3 DEF Need, CPUNeed, SumFunction, bursts, OddUpTo
<1>5. /\ SumFunctionOnSet(bursts(p), 1 .. numberOfBursts(p)) \in Nat
      /\ SumFunctionOnSet(bursts(p), OddUpTo(numberOfBursts(p))) \in Nat
  BY <1>1, <1>2, BurstSums
<1>6. /\ ServedFor(p) = Need(p) + 0
      /\ CPUServedFor(p) = CPUNeed(p) + (IF numberOfBursts(p) % 2 = 0 THEN 0 ELSE 0)
  BY <1>1, <1>4 DEF ServedFor, CPUServedFor
<1>7. ServedFor(p) = Need(p) /\ CPUServedFor(p) = CPUNeed(p)
  BY <1>4, <1>5, <1>6
<1> QED
  BY <1>1, <1>4, <1>5, <1>7 DEF ServedInv

\* When the simulation has finished nobody is anywhere any more.
LEMMA AllEnded ==
  ASSUME PlaceInv, AgeInv, ExitInv, outcome = "finished"
  PROVE  Active = {} /\ Ended = Procs /\ Running = {}
<1>1. phase = "endOfCycle" /\ LastCycle
  BY DEF ExitInv
<1>2. preReadyQ = {} /\ Queued = {} /\ Running = {} /\ waitingQueue = <<>>
  BY <1>1 DEF AgeInv, PastSort, LastCycle
<1>3. Active = {}
  BY <1>2, RangeEmpty DEF Active, Ready, Waiting
<1>4. Ended = 1 .. nextProcessIndex
  BY <1>3 DEF PlaceInv, OnePlace
<1> QED
  BY <1>1, <1>2, <1>3, <1>4 DEF LastCycle, Procs

LEMMA ReportFromInv ==
  PlaceInv /\ AgeInv /\ SumsInv /\ ExitInv /\ ClockInv => ReportSound
<1> SUFFICES ASSUME PlaceInv, AgeInv, SumsInv, ExitInv, ClockInv, outcome = "finished"
             PROVE  /\ clock_cycle > 0
                    /\ cpuTimeUtilized <= clock_cycle * NUMBER_OF_PROCESSORS
                    /\ Ended = Procs
                    /\ \A p \in Procs : served[p] = Need(p) /\ endTime[p] <= clock_cycle
                    /\ cpuTimeUtilized = SumFunction([p \in Procs |-> CPUNeed(p)])
                    /\ sumOfTurnaroundTimes = totalWaitingTime
                                                + SumFunction([p \in Procs |-> Need(p)])
                    /\ \E p \in LastToFinish : getLastPID = pid(p)
  BY DEF ReportSound
<1>1. /\ TypeOK /\ IsFiniteSet(Procs) /\ clock_cycle \in Nat /\ cpuTimeUtilized \in Nat
      /\ Len(processes) \in Nat
  <2>1. TypeOK /\ clock_cycle \in Nat /\ cpuTimeUtilized \in Nat
    BY DEF PlaceInv, TypeInv, TypeOK
  <2> QED
    BY <2>1, ProcFacts
<1>2. phase = "endOfCycle" /\ Procs # {}
  BY DEF ExitInv
<1>3. Ended = Procs /\ Running = {}
  BY AllEnded
<1>4. clock_cycle > 0
  BY <1>1, <1>2, <1>3 DEF ClockInv
<1>5. \A p \in Procs : /\ served[p] = Need(p) /\ Need(p) \in Nat
                       /\ CPUServedFor(p) = CPUNeed(p)
  BY <1>3, EndedServed DEF SumsInv
<1>6. cpuTimeUtilized = SumFunction([p \in Procs |-> CPUNeed(p)])
  <2>1. [p \in Procs |-> CPUServedFor(p)] = [p \in Procs |-> CPUNeed(p)]
    BY <1>5
  <2>2. Cardinality(Running) = 0
    BY <1>3, FS_EmptySet
  <2>3. cpuTimeUtilized = SumFunctionOnSet([p \in Procs |-> CPUServedFor(p)], Procs)
    BY <1>1, <1>2, <2>2 DEF SumsInv, UtilizedInv
  <2> QED
    BY <2>1, <2>3 DEF SumFunction
<1>7. sumOfTurnaroundTimes = totalWaitingTime + SumFunction([p \in Procs |-> Need(p)])
  <2> DEFINE d == [p \in Procs |-> endTime[p] - processes[p].arrivalTime]
             e == [p \in Procs |-> Need(p)]
  <2>1. \A p \in Procs : /\ waitingTime[p] \in Int /\ e[p] \in Int
                         /\ d[p] = waitingTime[p] + e[p]
    <3>1. \A p \in Procs : d[p] = waitingTime[p] + served[p]
      BY <1>3 DEF AgeInv, TimeAccounting, arrivalTime
    <3> QED
      BY <1>1, <1>5, <3>1 DEF TypeOK
  <2>2. DOMAIN waitingTime = Procs /\ DOMAIN d = Procs /\ DOMAIN e = Procs
    BY <1>1 DEF TypeOK
  <2>3. SumFunctionOnSet(d, Procs)
          = SumFunctionOnSet(waitingTime, Procs) + SumFunctionOnSet(e, Procs)
    <3> HIDE DEF d, e
    <3> QED
      BY <1>1, <2>1, SumAdd
  <2>4. /\ sumOfTurnaroundTimes = SumFunctionOnSet(d, Procs)
        /\ totalWaitingTime = SumFunctionOnSet(waitingTime, Procs)
        /\ SumFunction(e) = SumFunctionOnSet(e, Procs)
    BY <2>2 DEF sumOfTurnaroundTimes, totalWaitingTime, SumFunction
  <2> QED
    BY <2>3, <2>4
<1>8. \E p \in LastToFinish : getLastPID = pid(p)
  <2>1. LastToFinish # {}
    BY <1>3 DEF ClockInv, LastToFinish
  <2>2. PICK p \in LastToFinish : \A q \in LastToFinish : q <= p
    <3>1. LastToFinish \in SUBSET (1 .. Len(processes))
      BY DEF LastToFinish, Procs
    <3> QED
      BY <1>1, <2>1, <3>1, GreatestNatural
  <2> DEFINE last == CHOOSE x \in LastToFinish : \A q \in LastToFinish : q <= x
  <2>3. last \in LastToFinish
    BY <2>2
  <2>4. getLastPID = pid(last)
    BY <2>1 DEF getLastPID
  <2> QED
    BY <2>3, <2>4
<1>9. /\ cpuTimeUtilized <= clock_cycle * NUMBER_OF_PROCESSORS
      /\ \A p \in Procs : endTime[p] <= clock_cycle
  BY DEF ClockInv
<1> QED
  BY <1>3, <1>4, <1>5, <1>6, <1>7, <1>8, <1>9

(* What is printed at the end agrees with the data file: every process ended
   and was served for its bursts and no more, the processors were busy for the
   CPU bursts only, the turnaround times are the waiting times and the bursts,
   no division is by zero, and the pid that getLastPID returns is that of one of
   the last to finish. *)
THEOREM ReportCorrect == Spec => []ReportSound
  BY InitPlaceInv, NextPlaceInv, InitAgeInv, NextAgeInv, InitSums, NextSums,
     InitExit, NextExit, InitClock, NextClock, ReportFromInv, PTL DEF Spec
-----------------------------------------------------------------------------
(* The context switches.  A process has been moved a queue down as often as  *)
(* the CPU bursts it has ended call for, and as often as the queue it is in  *)
(* now says.                                                                 *)

demotions(p) == [k \in DOMAIN bursts(p) |-> Demotions(bursts(p)[k])]

DemotedFor(p) ==
  SumFunctionOnSet(demotions(p), OddUpTo(currentBurst[p]))
    + (IF p \in Ready \cup Running THEN currentQueue[p] ELSE 0)

\* A process that was moved down had not ended its burst with the quantum.
Outlasts(p) == currentQueue[p] # 0 => length(p) # Used(currentQueue[p])

SwitchInv ==
  PositiveQuanta =>
    /\ totalContextSwitches = SumFunctionOnSet([p \in Procs |-> DemotedFor(p)], Procs)
    /\ \A p \in Ready \cup Running : Outlasts(p)

LEMMA DemotionsType == \A n : Demotions(n) \in 0 .. 2 /\ Demotions(n) \in Nat
  BY DEF Demotions

\* The demotions of the first n bursts as numbers to add up.
LEMMA DemotionSums ==
  ASSUME TypeOK, NEW p \in Procs, NEW n \in Nat, n <= numberOfBursts(p)
  PROVE  /\ \A k \in 1 .. n : /\ demotions(p)[k] = Demotions(bursts(p)[k])
                              /\ demotions(p)[k] \in Nat
         /\ SumFunctionOnSet(demotions(p), OddUpTo(n)) \in Nat
<1>1. bursts(p) \in Seq(Nat) /\ numberOfBursts(p) = Len(bursts(p))
  BY OddBursts DEF bursts, numberOfBursts
<1>2. \A k \in 1 .. n : k \in DOMAIN bursts(p)
  BY <1>1
<1>3. \A k \in 1 .. n : /\ demotions(p)[k] = Demotions(bursts(p)[k])
                        /\ demotions(p)[k] \in Nat
  BY <1>2, DemotionsType DEF demotions
<1> QED
  BY <1>3, SumOdd

LEMMA DemotedTypes ==
  ASSUME PlaceInv, NEW p \in Procs
  PROVE  /\ currentBurst[p] \in Nat /\ currentBurst[p] <= numberOfBursts(p)
         /\ SumFunctionOnSet(demotions(p), OddUpTo(currentBurst[p])) \in Nat
         /\ DemotedFor(p) \in Int
<1>1. /\ TypeOK /\ currentBurst[p] \in Nat /\ currentBurst[p] <= numberOfBursts(p)
      /\ currentQueue[p] \in Int
  <2>1. /\ TypeOK /\ currentQueue[p] \in Levels \cup {WAITQ}
        /\ currentBurst[p] \in Nat
    BY DEF PlaceInv, TypeInv, TypeOK
  <2>2. currentBurst[p] <= numberOfBursts(p)
    BY DEF PlaceInv, BurstInv
  <2>3. currentQueue[p] \in Int
    BY <2>1 DEF Levels, WAITQ
  <2> QED
    BY <2>1, <2>2, <2>3
<1>2. SumFunctionOnSet(demotions(p), OddUpTo(currentBurst[p])) \in Nat
  BY <1>1, DemotionSums
<1> QED
  BY <1>1, <1>2 DEF DemotedFor

\* A step of one process.
LEMMA MovedSwitches ==
  ASSUME PlaceInv, SwitchInv, NEW p \in Procs, NEW d \in Int,
         UNCHANGED <<processes, tQuanta_0, tQuanta_1>>,
         \A q \in Procs : q # p =>
           /\ currentBurst'[q] = currentBurst[q] /\ currentQueue'[q] = currentQueue[q]
           /\ q \in Ready' \cup Running' <=> q \in Ready \cup Running,
         Ready' \cup Running' \subseteq Procs,
         PositiveQuanta => /\ DemotedFor(p)' = DemotedFor(p) + d
                           /\ totalContextSwitches' = totalContextSwitches + d
                           /\ p \in Ready' \cup Running' => Outlasts(p)'
  PROVE  SwitchInv'
<1>1. Procs' = Procs /\ PositiveQuanta' = PositiveQuanta /\ IsFiniteSet(Procs)
  <2>1. IsFiniteSet(Procs)
    BY PlaceFacts, ProcFacts
  <2> QED
    BY <2>1 DEF Procs, PositiveQuanta
<1>2. \A q \in Procs : q # p => DemotedFor(q)' = DemotedFor(q) /\ Outlasts(q)' = Outlasts(q)
  BY DEF DemotedFor, demotions, bursts, Outlasts, length, Used, Demotions
<1> SUFFICES ASSUME PositiveQuanta
             PROVE  /\ totalContextSwitches'
                         = SumFunctionOnSet([q \in Procs |-> DemotedFor(q)'], Procs)
                    /\ \A q \in Ready' \cup Running' : Outlasts(q)'
  BY <1>1 DEF SwitchInv
<1>3. \A q \in Ready' \cup Running' : Outlasts(q)'
  BY <1>2 DEF SwitchInv
<1> DEFINE f == [q \in Procs |-> DemotedFor(q)]
           e == [q \in Procs |-> DemotedFor(q)']
<1>4. /\ \A q \in Procs : f[q] \in Int /\ (q # p => e[q] = f[q])
      /\ e[p] = f[p] + d
  BY <1>2, DemotedTypes
<1>5. totalContextSwitches = SumFunctionOnSet(f, Procs)
  BY DEF SwitchInv
<1> HIDE DEF e, f
<1>6. SumFunctionOnSet(f, Procs) \in Int
  BY <1>1, <1>4, SumType
<1>7. SumFunctionOnSet(e, Procs) = SumFunctionOnSet(f, Procs) + (e[p] - f[p])
  BY <1>1, <1>4, SumChange
<1>8. SumFunctionOnSet(e, Procs) = SumFunctionOnSet(f, Procs) + d
  BY <1>4, <1>6, <1>7
<1>9. totalContextSwitches' = SumFunctionOnSet(e, Procs)
  BY <1>5, <1>8
<1> QED
  BY <1>3, <1>9 DEF e

\* A step that moves no process but from a queue to another or to a processor.
LEMMA QuietSwitches ==
  ASSUME PlaceInv, SwitchInv,
         UNCHANGED <<processes, tQuanta_0, tQuanta_1, currentBurst, totalContextSwitches>>,
         Ready' \cup Running' = Ready \cup Running,
         \A q \in Ready \cup Running : currentQueue'[q] = currentQueue[q]
  PROVE  SwitchInv'
<1>1. Procs' = Procs /\ PositiveQuanta' = PositiveQuanta
  BY DEF Procs, PositiveQuanta
<1>2. \A q \in Procs : DemotedFor(q)' = DemotedFor(q)
  BY DEF DemotedFor, demotions, bursts, Demotions
<1>3. \A q \in Ready' \cup Running' : Outlasts(q)' = Outlasts(q)
  BY DEF Outlasts, length, Used
<1>4. [q \in Procs |-> DemotedFor(q)]' = [q \in Procs |-> DemotedFor(q)]
  BY <1>1, <1>2
<1> QED
  BY <1>1, <1>3, <1>4 DEF SwitchInv

LEMMA InitSwitch == Init => SwitchInv
<1> SUFFICES ASSUME Init PROVE SwitchInv
  OBVIOUS
<1>1. PlaceInv /\ IsFiniteSet(Procs)
  BY InitPlaceInv, PlaceFacts, ProcFacts
<1>2. Ready = {} /\ Running = {}
  <2>1. nextProcessIndex = 0
    BY DEF Init
  <2>2. Active = {}
    BY <1>1, <2>1 DEF PlaceInv, OnePlace
  <2> QED
    BY <2>2 DEF Active
<1>3. OddUpTo(0) = {}
  BY DEF OddUpTo
<1>4. \A p \in Procs : DemotedFor(p) = 0
  <2>1. \A p \in Procs : currentBurst[p] = 0
    BY DEF Init
  <2>2. \A p \in Procs : SumFunctionOnSet(demotions(p), {}) = 0
    BY SumEmpty
  <2>3. \A p \in Procs : DemotedFor(p) = 0 + 0
    BY <1>2, <1>3, <2>1, <2>2 DEF DemotedFor
  <2> QED
    BY <2>3
<1> DEFINE f == [p \in Procs |-> DemotedFor(p)]
<1>5. SumFunctionOnSet(f, Procs) = 0
  <2>1. \A p \in Procs : f[p] = 0
    BY <1>4
  <2> HIDE DEF f
  <2> QED
    BY <1>1, <2>1, SumZero
<1>6. totalContextSwitches = 0
  BY DEF Init
<1> QED
  BY <1>2, <1>5, <1>6 DEF SwitchInv

\* The end of a CPU burst: the queue the process is in says how often the burst
\* was interrupted.
LEMMA LeavesQueue ==
  ASSUME PlaceInv, LevelInv, SwitchInv, PositiveQuanta, NEW p \in Running, BurstDone(p)
  PROVE  currentQueue[p] = Demotions(length(p))
<1>1. /\ TypeOK /\ p \in Procs /\ currentQueue[p] \in Levels /\ step[p] \in Nat
      /\ quantumRemaining[p] \in Int /\ tQuanta_0 \in Int /\ tQuanta_1 \in Int
  BY PlaceFacts, ReadyTags DEF TypeOK
<1>2. OnSchedule(p) /\ Outlasts(p) /\ step[p] = length(p)
  BY DEF LevelInv, SwitchInv, BurstDone
<1> DEFINE n == length(p)
<1>3. n = step[p] /\ n \in Nat
  BY <1>1, <1>2
<1>4. CASE currentQueue[p] = 0
  <2>1. n <= tQuanta_0
    BY <1>1, <1>2, <1>4 DEF OnSchedule, Used
  <2> QED
    BY <1>1, <1>3, <1>4, <2>1 DEF Demotions, PositiveQuanta
<1>5. CASE currentQueue[p] = 1
  <2>1. n <= tQuanta_0 + tQuanta_1 /\ n >= tQuanta_0 /\ n # tQuanta_0
    BY <1>1, <1>2, <1>5 DEF OnSchedule, Used, Outlasts
  <2> QED
    BY <1>1, <1>3, <1>5, <2>1 DEF Demotions
<1>6. CASE currentQueue[p] = 2
  <2>1. n >= tQuanta_0 + tQuanta_1 /\ n # tQuanta_0 + tQuanta_1
    BY <1>1, <1>2, <1>6 DEF OnSchedule, Used, Outlasts
  <2> QED
    BY <1>1, <1>3, <1>6, <2>1 DEF Demotions
<1> QED
  BY <1>1, <1>4, <1>5, <1>6, LevelFacts

LEMMA EndBurstSwitches ==
  ASSUME PlaceInv, LevelInv, SwitchInv, Block \/ Finish
  PROVE  SwitchInv'
<1>0. PICK p : p = cpu[i]
  OBVIOUS
<1>1. /\ NextBurst(p) /\ BurstDone(p)
      /\ UNCHANGED <<processes, tQuanta_0, tQuanta_1, totalContextSwitches>>
      /\ currentQueue' = currentQueue \/ \E q : Assign(p, WAITQ, q)
  BY <1>0 DEF Block, Finish, Vacate, Goto, input, time, times, counters, queueing
<1>2. /\ p \in Running /\ Running' = Running \ {p} /\ Ready' = Ready
      /\ TypeOK /\ p \in Procs /\ p \in Active /\ p \notin Ready
      /\ Ready \cup Running \subseteq Procs
  BY <1>0, BlockPlaces, FinishPlaces, PlaceFacts DEF Active
<1> DEFINE c == currentBurst[p]
<1>3. /\ c \in Nat /\ c + 1 \in Nat /\ c + 1 <= numberOfBursts(p) /\ c % 2 = 0
      /\ numberOfBursts(p) \in Nat
  <2>1. c % 2 = 0
    BY <1>2 DEF PlaceInv, BurstInv
  <2>2. c \in Nat /\ c < numberOfBursts(p) /\ numberOfBursts(p) \in Nat
    BY <1>2, ActiveBurst
  <2> QED
    BY <2>1, <2>2
<1>4. /\ \A q \in Procs : q # p => /\ currentBurst'[q] = currentBurst[q]
                                   /\ currentQueue'[q] = currentQueue[q]
      /\ currentBurst'[p] = c + 1
  <2>1. \A q \in Procs : q # p => currentQueue'[q] = currentQueue[q]
    BY <1>1, <1>2 DEF TypeOK, Assign
  <2> QED
    BY <1>1, <1>2, <2>1 DEF TypeOK, NextBurst
<1>5. ASSUME PositiveQuanta PROVE DemotedFor(p)' = DemotedFor(p) + 0
  <2>1. currentQueue[p] = Demotions(length(p)) /\ currentQueue[p] \in Nat
    BY <1>1, <1>2, <1>5, LeavesQueue, DemotionsType
  <2>2. /\ \A k \in 1 .. c + 1 : demotions(p)[k] \in Nat
        /\ demotions(p)[c + 1] = Demotions(length(p))
    BY <1>2, <1>3, DemotionSums DEF length, bursts
  <2>3. SumFunctionOnSet(demotions(p), OddUpTo(c + 1))
          = SumFunctionOnSet(demotions(p), OddUpTo(c)) + demotions(p)[c + 1]
    BY <1>3, <2>2, SumOddNext
  <2>4. /\ SumFunctionOnSet(demotions(p), OddUpTo(c)) \in Nat
        /\ SumFunctionOnSet(demotions(p), OddUpTo(c + 1)) \in Nat
    BY <1>2, <1>3, DemotionSums, DemotedTypes
  <2>5. demotions(p)' = demotions(p)
    BY <1>1 DEF demotions, bursts, Demotions
  <2>6. DemotedFor(p)' = SumFunctionOnSet(demotions(p), OddUpTo(c + 1)) + 0
    BY <1>2, <1>4, <2>5 DEF DemotedFor
  <2>7. DemotedFor(p) = SumFunctionOnSet(demotions(p), OddUpTo(c)) + currentQueue[p]
    BY <1>2 DEF DemotedFor
  <2> QED
    BY <2>1, <2>2, <2>3, <2>4, <2>6, <2>7
<1>6. totalContextSwitches' = totalContextSwitches + 0
  BY <1>1, <1>2 DEF TypeOK
<1>7. p \notin Ready' \cup Running'
  BY <1>2
<1> QED
  BY <1>1, <1>2, <1>4, <1>5, <1>6, <1>7, MovedSwitches

LEMMA DemoteSwitches ==
  ASSUME PlaceInv, LevelInv, SwitchInv, Demote
  PROVE  SwitchInv'
<1>0. PICK p : p = cpu[i]
  OBVIOUS
<1>1. /\ ~BurstDone(p) /\ currentQueue[p] \in {0, 1} /\ quantumRemaining[p] = 0
      /\ \E q : Assign(p, currentQueue[p] + 1, q)
      /\ totalContextSwitches' = totalContextSwitches + 1
      /\ UNCHANGED <<processes, tQuanta_0, tQuanta_1, currentBurst, step>>
  BY <1>0 DEF Demote, Expired, Vacate, Goto, input, progress
<1>2. /\ p \in Running /\ Running' = Running \ {p} /\ Ready' = Ready \cup {p}
      /\ TypeOK /\ p \in Procs /\ Ready \cup Running \subseteq Procs
  BY <1>0, DemotePlaces, PlaceFacts
<1>3. /\ \A q \in Procs : q # p => currentQueue'[q] = currentQueue[q]
      /\ currentQueue'[p] = currentQueue[p] + 1
  BY <1>1, <1>2 DEF TypeOK, Assign
<1>4. DemotedFor(p)' = DemotedFor(p) + 1
  <2>1. demotions(p)' = demotions(p)
    BY <1>1 DEF demotions, bursts, Demotions
  <2>2. SumFunctionOnSet(demotions(p), OddUpTo(currentBurst[p])) \in Nat
    BY <1>2, DemotedTypes
  <2>3. DemotedFor(p)' = SumFunctionOnSet(demotions(p), OddUpTo(currentBurst[p]))
                           + (currentQueue[p] + 1)
    BY <1>1, <1>2, <1>3, <2>1 DEF DemotedFor
  <2>4. DemotedFor(p) = SumFunctionOnSet(demotions(p), OddUpTo(currentBurst[p]))
                          + currentQueue[p]
    BY <1>2 DEF DemotedFor
  <2> QED
    BY <1>1, <2>2, <2>3, <2>4
<1>5. ASSUME PositiveQuanta PROVE Outlasts(p)'
  <2>1. OnSchedule(p) /\ step[p] \in Nat /\ tQuanta_0 \in Int /\ tQuanta_1 \in Int
    BY <1>2, <1>5 DEF LevelInv, TypeOK
  <2>2. step[p] = Used(currentQueue[p] + 1)
    BY <1>1, <2>1 DEF OnSchedule, Used
  <2>3. length(p) # Used(currentQueue[p] + 1)
    BY <1>1, <2>2 DEF BurstDone
  <2> QED
    BY <1>1, <1>3, <2>3 DEF Outlasts, length, Used
<1> QED
  BY <1>1, <1>2, <1>3, <1>4, <1>5, MovedSwitches

\* An I/O burst is not interrupted, and a process comes out of it into queue 0.
LEMMA WakeSwitches ==
  ASSUME PlaceInv, SwitchInv, Wake
  PROVE  SwitchInv'
<1>0. PICK p : p = Head(waitingQueue)
  OBVIOUS
<1>1. /\ NextBurst(p) /\ Assign(p, 0, tQuanta_0)
      /\ UNCHANGED <<processes, tQuanta_0, tQuanta_1, totalContextSwitches>>
  BY <1>0 DEF Wake, Goto, input, time, times, counters
<1>2. /\ p \in Waiting /\ Running' = Running /\ Ready' = Ready \cup {p}
      /\ TypeOK /\ p \in Procs /\ p \in Active /\ p \notin Ready /\ p \notin Running
      /\ Ready \cup Running \subseteq Procs
  BY <1>0, WakePlaces, PlaceFacts DEF Active
<1> DEFINE c == currentBurst[p]
<1>3. /\ c \in Nat /\ c + 1 \in Nat /\ c + 1 <= numberOfBursts(p) /\ c % 2 = 1
      /\ numberOfBursts(p) \in Nat
  <2>1. c % 2 = 1
    BY <1>2 DEF PlaceInv, BurstInv
  <2>2. c \in Nat /\ c < numberOfBursts(p) /\ numberOfBursts(p) \in Nat
    BY <1>2, ActiveBurst
  <2> QED
    BY <2>1, <2>2
<1>4. /\ \A q \in Procs : q # p => /\ currentBurst'[q] = currentBurst[q]
                                   /\ currentQueue'[q] = currentQueue[q]
      /\ currentBurst'[p] = c + 1 /\ currentQueue'[p] = 0
  BY <1>1, <1>2 DEF TypeOK, Assign, NextBurst
<1>5. DemotedFor(p)' = DemotedFor(p) + 0
  <2>1. \A k \in 1 .. c + 1 : demotions(p)[k] \in Nat
    BY <1>2, <1>3, DemotionSums
  <2>2. SumFunctionOnSet(demotions(p), OddUpTo(c)) \in Nat
    BY <1>2, DemotedTypes
  <2>3. SumFunctionOnSet(demotions(p), OddUpTo(c + 1))
          = SumFunctionOnSet(demotions(p), OddUpTo(c)) + 0
    BY <1>3, <2>1, SumOddNext
  <2>4. demotions(p)' = demotions(p)
    BY <1>1 DEF demotions, bursts, Demotions
  <2>5. DemotedFor(p)' = SumFunctionOnSet(demotions(p), OddUpTo(c + 1)) + 0
    BY <1>2, <1>4, <2>4 DEF DemotedFor
  <2>6. DemotedFor(p) = SumFunctionOnSet(demotions(p), OddUpTo(c)) + 0
    BY <1>2 DEF DemotedFor
  <2> QED
    BY <2>2, <2>3, <2>5, <2>6
<1>6. totalContextSwitches' = totalContextSwitches + 0
  BY <1>1, <1>2 DEF TypeOK
<1>7. Outlasts(p)'
  BY <1>4 DEF Outlasts
<1> QED
  BY <1>1, <1>2, <1>4, <1>5, <1>6, <1>7, MovedSwitches

LEMMA AdmitSwitches ==
  ASSUME PlaceInv, SwitchInv, Admit
  PROVE  SwitchInv'
<1>0. PICK p : p = nextProcessIndex + 1
  OBVIOUS
<1>1. /\ Assign(p, 0, tQuanta_0)
      /\ UNCHANGED <<processes, tQuanta_0, tQuanta_1, currentBurst, totalContextSwitches>>
  BY <1>0 DEF Admit, Goto, input, progress, counters
<1>2. /\ p \in Procs /\ p \notin Active /\ Ready' = Ready \cup {p} /\ Running' = Running
      /\ TypeOK /\ p \notin Ready /\ p \notin Running /\ Ready \cup Running \subseteq Procs
  BY <1>0, AdmitPlaces, PlaceFacts DEF Active
<1>3. /\ \A q \in Procs : q # p => currentQueue'[q] = currentQueue[q]
      /\ currentQueue'[p] = 0
  BY <1>1, <1>2 DEF TypeOK, Assign
<1>4. DemotedFor(p)' = DemotedFor(p) + 0
  <2>1. demotions(p)' = demotions(p)
    BY <1>1 DEF demotions, bursts, Demotions
  <2>2. SumFunctionOnSet(demotions(p), OddUpTo(currentBurst[p])) \in Nat
    BY <1>2, DemotedTypes
  <2>3. /\ DemotedFor(p)' = SumFunctionOnSet(demotions(p), OddUpTo(currentBurst[p])) + 0
        /\ DemotedFor(p) = SumFunctionOnSet(demotions(p), OddUpTo(currentBurst[p])) + 0
    BY <1>1, <1>2, <1>3, <2>1 DEF DemotedFor
  <2> QED
    BY <2>2, <2>3
<1>5. totalContextSwitches' = totalContextSwitches + 0
  BY <1>1, <1>2 DEF TypeOK
<1>6. Outlasts(p)'
  BY <1>3 DEF Outlasts
<1> QED
  BY <1>1, <1>2, <1>3, <1>4, <1>5, <1>6, MovedSwitches

LEMMA NextSwitch ==
  PlaceInv /\ LevelInv /\ SwitchInv /\ [Next]_vars => SwitchInv'
<1> SUFFICES ASSUME PlaceInv, LevelInv, SwitchInv, [Next]_vars PROVE SwitchInv'
  OBVIOUS
<1>1. CASE Block \/ Finish \/ Demote \/ Wake \/ Admit
  BY <1>1, EndBurstSwitches, DemoteSwitches, WakeSwitches, AdmitSwitches
<1>2. CASE KeepWaiting
  <2>0. PICK p : p = Head(waitingQueue)
    OBVIOUS
  <2>1. /\ p \in Waiting /\ Ready' = Ready /\ Running' = Running
        /\ TypeOK /\ p \notin Ready /\ p \notin Running
        /\ Ready \cup Running \subseteq Procs
    BY <1>2, <2>0, KeepWaitingPlaces, PlaceFacts
  <2>2. /\ currentQueue' = [currentQueue EXCEPT ![p] = WAITQ]
        /\ UNCHANGED <<processes, tQuanta_0, tQuanta_1, currentBurst, totalContextSwitches>>
    BY <1>2, <2>0 DEF KeepWaiting, Goto, input, progress, counters
  <2>3. \A q \in Ready \cup Running : currentQueue'[q] = currentQueue[q]
    BY <2>1, <2>2 DEF TypeOK
  <2> QED
    BY <2>1, <2>2, <2>3, QuietSwitches
<1>3. CASE EnqueueReady
  <2>1. PICK p \in preReadyQ : Assign(p, 0, tQuanta_0)
    BY <1>3 DEF EnqueueReady
  <2>2. /\ Ready' = Ready /\ Running' = Running /\ TypeOK
        /\ Ready \cup Running \subseteq Procs
    BY <1>3, EnqueueReadyPlaces, PlaceFacts
  <2>3. currentQueue[p] = 0
    BY <2>1 DEF PlaceInv, QueueTags
  <2>4. \A q \in Ready \cup Running : currentQueue'[q] = currentQueue[q]
    BY <2>1, <2>2, <2>3 DEF Assign, TypeOK
  <2>5. UNCHANGED <<processes, tQuanta_0, tQuanta_1, currentBurst, totalContextSwitches>>
    BY <1>3 DEF EnqueueReady, Goto, input, progress, counters
  <2> QED
    BY <2>2, <2>4, <2>5, QuietSwitches
<1>4. CASE Dispatch
  <2>1. PICK p \in Ready : Ready' = Ready \ {p} /\ Running' = Running \cup {p}
    BY <1>4, DispatchPlaces
  <2>2. UNCHANGED <<processes, tQuanta_0, tQuanta_1, currentBurst, currentQueue,
                    totalContextSwitches>>
    BY <1>4 DEF Dispatch, Goto, input, progress, counters
  <2> QED
    BY <2>1, <2>2, QuietSwitches
<1>5. CASE \/ AdmitDone \/ Continue \/ RunningDone \/ IODone \/ SortAssertFails \/ SortDone
           \/ NoDispatch \/ DispatchDone \/ increamentSteps \/ EndOfCycle
           \/ UNCHANGED vars
  <2>1. UNCHANGED <<processes, tQuanta_0, tQuanta_1, nextProcessIndex, places, currentBurst,
                    currentQueue, totalContextSwitches>>
    BY <1>5 DEF AdmitDone, Continue, RunningDone, IODone, SortAssertFails, SortDone,
       NoDispatch, DispatchDone, increamentSteps, EndOfCycle, Proceed, Goto, input, vars,
       time, progress, queueing, counters
  <2>2. Ready' = Ready /\ Running' = Running
    BY <2>1, QuietPlaces DEF PlaceInv
  <2> QED
    BY <2>1, <2>2, QuietSwitches
<1> QED
  BY <1>1, <1>2, <1>3, <1>4, <1>5 DEF Next

LEMMA SwitchesFromInv ==
  PlaceInv /\ AgeInv /\ ExitInv /\ SwitchInv => SwitchesCounted
<1> SUFFICES ASSUME PlaceInv, AgeInv, ExitInv, SwitchInv, outcome = "finished",
                    PositiveQuanta
             PROVE  totalContextSwitches = SumFunction([p \in Procs |-> DemotionsOf(p)])
  BY DEF SwitchesCounted
<1>1. Active = {} /\ Ended = Procs /\ Running = {} /\ TypeOK
  BY AllEnded, PlaceFacts
<1>2. ASSUME NEW p \in Procs PROVE DemotedFor(p) = DemotionsOf(p)
  <2>1. bursts(p) \in Seq(Nat) /\ currentBurst[p] = Len(bursts(p))
    BY <1>1, OddBursts DEF bursts, numberOfBursts, Ended
  <2>2. OddUpTo(currentBurst[p]) = {k \in DOMAIN bursts(p) : k % 2 = 1}
    BY <2>1 DEF OddUpTo
  <2>3. DemotionsOf(p) = SumFunctionOnSet(demotions(p), OddUpTo(currentBurst[p]))
    BY <2>2 DEF DemotionsOf, demotions, bursts
  <2>4. SumFunctionOnSet(demotions(p), OddUpTo(currentBurst[p])) \in Nat
    BY DemotedTypes
  <2>5. DemotedFor(p) = SumFunctionOnSet(demotions(p), OddUpTo(currentBurst[p])) + 0
    BY <1>1 DEF DemotedFor, Active
  <2> QED
    BY <2>3, <2>4, <2>5
<1>3. [p \in Procs |-> DemotedFor(p)] = [p \in Procs |-> DemotionsOf(p)]
  BY <1>2
<1> QED
  BY <1>3 DEF SwitchInv, SumFunction

(* The context switches reported do not depend on how the processes compete for
   the processors: a CPU burst causes one for each of the two quanta it does
   not fit in. *)
THEOREM SwitchesCorrect == Spec => []SwitchesCounted
  BY InitPlaceInv, NextPlaceInv, InitLevelInv, NextLevelInv, InitAgeInv, NextAgeInv,
     InitExit, NextExit, InitSwitch, NextSwitch, SwitchesFromInv, PTL DEF Spec
=============================================================================
