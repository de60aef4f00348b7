------------------------------ MODULE CopyProofs ------------------------------
(*****************************************************************************)
(* Proofs about A2/copy.c for every number of threads, slots and bytes,      *)
(* whatever the buf fields hold and whichever system calls fail: the locks,  *)
(* the tokens, the circular buffer as an implementation of BoundedBuffer     *)
(* with a slack of one, and, for distinct buf fields, the bytes themselves.  *)
(*****************************************************************************)
EXTENDS CopyProperties, DataLemmas

(* A thread with one of these labels has used buf[t], so it is not null. *)
Holding == {"read", "waitEmpty", "lockInsert", "insert", "advanceRemove",
            "postEmpty", "lockWrite", "seekOut", "write", "exit"}

TypeInv ==
  /\ TypeOK
  /\ \A t \in Threads : pc[t] \in Holding => buf[t] \in Cells

\* A pointer that is advanced stays within the buffer.
LEMMA NextSlot == \A p \in Slots : (p + 1) % bufSize \in Slots
<1> SUFFICES ASSUME NEW p \in Slots PROVE (p + 1) % bufSize \in Slots
  OBVIOUS
<1>1. bufSize \in Nat \ {0} /\ p + 1 \in Nat
  BY CopyAssumption DEF Slots
<1> QED
  BY <1>1, ModRange DEF Slots

LEMMA ThreadFacts ==
  /\ Producers \subseteq Threads /\ Consumers \subseteq Threads
  /\ Free \notin Threads
  BY CopyAssumption DEF Producers, Consumers, Threads, Free

-----------------------------------------------------------------------------
(* Type correctness. *)

LEMMA InitTypeInv == Init => TypeInv
<1> SUFFICES ASSUME Init PROVE TypeInv
  OBVIOUS
<1>1. pc \in [Threads -> Labels] /\ \A t \in Threads : pc[t] \notin Holding
  BY DEF Init, Labels, Holding
<1>2. buffer \in [Slots -> Items] /\ item \in [Cells -> Items]
  BY CopyAssumption DEF Init
<1>3. buf \in [Threads -> Cells \cup {NULL}]
  BY CopyAssumption DEF Init
<1>4. mutex \in Threads \cup {Free} /\ empty \in Nat /\ full \in Nat
  BY CopyAssumption DEF Init
<1>5. insertPointer \in Slots /\ removePointer \in Slots
  BY CopyAssumption DEF Init, Slots
<1>6. /\ posIn \in 0 .. FileSize /\ posOut \in Nat
      /\ created \in 0 .. nIN + nOUT /\ joined \in 0 .. nIN + nOUT
      /\ outcome \in {"running", "returned", "exit1", "crash"}
      /\ absent \subseteq Threads
  BY CopyAssumption DEF Init
<1>7. DOMAIN fileOut = {}
  BY DEF Init
<1>8. put \in Seq(Items) /\ got \in Seq(Items)
  BY DEF Init
<1> QED
  BY <1>1, <1>2, <1>3, <1>4, <1>5, <1>6, <1>7, <1>8 DEF TypeInv, TypeOK

LEMMA NextTypeInv == TypeInv /\ [Next]_vars => TypeInv'
<1> SUFFICES ASSUME TypeInv, [Next]_vars PROVE TypeInv'
  OBVIOUS
<1> USE ThreadFacts, CopyAssumption DEF TypeInv, TypeOK, Goto, At, Move, Lock,
        Stop, sems, ring, files, mainv, history
<1>1. ASSUME NEW t \in Producers, LockRead(t) PROVE TypeInv'
  BY <1>1 DEF LockRead, Labels, Holding
<1>2. ASSUME NEW t \in Producers, SeekIn(t) PROVE TypeInv'
  <2>1. CASE NullFault(t, "seekIn")
    BY <2>1 DEF NullFault
  <2>2. CASE /\ Fail(t, "seekIn")
             /\ "seekIn" \in Faults /\ buf[t] # NULL
             /\ item' = [item EXCEPT ![buf[t]].offset = -1]
    <3>0. -1 \in -1 .. FileSize
      BY SMT
    <3>1. -1 \in Offsets /\ buf[t] \in Cells /\ item[buf[t]] \in Items
      BY <2>2, <3>0
    <3>2. [item[buf[t]] EXCEPT !.offset = -1] \in Items
      BY <3>1 DEF Items
    <3>3. item' \in [Cells -> Items]
      BY <2>2, <3>1, <3>2
    <3> QED
      BY <2>2, <3>3 DEF Fail, Labels, Holding
  <2>3. CASE /\ Goto(t, "seekIn", "read")
             /\ buf[t] # NULL
             /\ item' = [item EXCEPT ![buf[t]].offset = posIn]
             /\ UNCHANGED <<mutex, sems, ring, files, history>>
    <3>1. posIn \in Offsets /\ buf[t] \in Cells /\ item[buf[t]] \in Items
      BY <2>3
    <3>2. [item[buf[t]] EXCEPT !.offset = posIn] \in Items
      BY <3>1 DEF Items
    <3>3. item' \in [Cells -> Items]
      BY <2>3, <3>1, <3>2
    <3> QED
      BY <2>3, <3>1, <3>3 DEF Labels, Holding
  <2> QED
    BY <1>2, <2>1, <2>2, <2>3 DEF SeekIn
<1>3. ASSUME NEW t \in Producers, ReadByte(t) PROVE TypeInv'
  <2>1. File[posIn] \in Bytes /\ buf[t] \in Cells /\ item[buf[t]] \in Items
    <3>1. posIn \in 0 .. FileSize - 1
      BY <1>3 DEF ReadByte
    <3>2. buf[t] \in Cells
      BY <1>3 DEF ReadByte, Holding
    <3> QED
      BY <3>1, <3>2
  <2>2. [item[buf[t]] EXCEPT !.data = File[posIn]] \in Items
    BY <2>1 DEF Items
  <2>3. item' \in [Cells -> Items]
    BY <1>3, <2>1, <2>2 DEF ReadByte
  <2>4. /\ pc' \in [Threads -> Labels]
        /\ \A u \in Threads : pc'[u] \in Holding => pc[u] \in Holding
    BY <1>3 DEF ReadByte, Labels, Holding
  <2>5. posIn' \in 0 .. FileSize /\ mutex' \in Threads \cup {Free}
    <3>1. /\ posIn < FileSize /\ posIn' = posIn + 1 /\ mutex' = Free
          /\ posIn \in 0 .. FileSize
      BY <1>3 DEF ReadByte
    <3> QED
      BY <3>1, CopyAssumption
  <2>6. UNCHANGED <<sems, ring, buf, posOut, fileOut, mainv, history>>
    BY <1>3 DEF ReadByte
  <2> QED
    BY <2>3, <2>4, <2>5, <2>6, SMTT(20)
<1>4. ASSUME NEW t \in Producers, ReadNothing(t) PROVE TypeInv'
  BY <1>4 DEF ReadNothing, Labels, Holding
<1>5. ASSUME NEW t \in Producers, WaitEmpty(t) PROVE TypeInv'
  BY <1>5 DEF WaitEmpty, Labels, Holding
<1>6. ASSUME NEW t \in Producers, LockInsert(t) PROVE TypeInv'
  BY <1>6 DEF LockInsert, Labels, Holding
<1>7. ASSUME NEW t \in Producers, InsertItem(t) PROVE TypeInv'
  <2>1. item[buf[t]] \in Items
    BY <1>7 DEF InsertItem, Holding
  <2>2. buffer' \in [Slots -> Items] /\ put' \in Seq(Items)
    BY <1>7, <2>1 DEF InsertItem
  <2> QED
    BY <1>7, <2>2 DEF InsertItem, Labels, Holding
<1>8. ASSUME NEW t \in Producers, AdvanceInsert(t) PROVE TypeInv'
  <2>1. insertPointer' \in Slots
    BY <1>8, NextSlot DEF AdvanceInsert
  <2>2. /\ pc' \in [Threads -> Labels]
        /\ \A s \in Threads : pc'[s] \in Holding => buf'[s] \in Cells
    BY <1>8 DEF AdvanceInsert, Labels, Holding
  <2>3. /\ mutex' = Free
        /\ UNCHANGED <<empty, full, removePointer, buffer, buf, item, posIn,
                       posOut, fileOut, mainv, history>>
    BY <1>8 DEF AdvanceInsert
  <2> QED
    BY <2>1, <2>2, <2>3
<1>9. ASSUME NEW t \in Producers, PostFull(t) PROVE TypeInv'
  BY <1>9 DEF PostFull, Labels, Holding
<1>10. ASSUME NEW t \in Consumers, Test(t) PROVE TypeInv'
  BY <1>10 DEF Test, Labels, Holding
<1>11. ASSUME NEW t \in Consumers, WaitFull(t) PROVE TypeInv'
  BY <1>11 DEF WaitFull, Labels, Holding
<1>12. ASSUME NEW t \in Consumers, LockRemove(t) PROVE TypeInv'
  BY <1>12 DEF LockRemove, Labels, Holding
<1>13. ASSUME NEW t \in Consumers, RemoveItem(t) PROVE TypeInv'
  <2>1. CASE NullFault(t, "remove")
    BY <2>1 DEF NullFault
  <2>2. CASE /\ Goto(t, "remove", "advanceRemove")
             /\ buf[t] # NULL
             /\ item' = [item EXCEPT ![buf[t]] = buffer[removePointer]]
             /\ got' = Append(got, buffer[removePointer])
             /\ UNCHANGED <<mutex, sems, ring, files, put>>
    <3>1. buffer[removePointer] \in Items /\ buf[t] \in Cells
      BY <2>2
    <3>2. item' \in [Cells -> Items] /\ got' \in Seq(Items)
      BY <2>2, <3>1
    <3> QED
      BY <2>2, <3>1, <3>2 DEF Labels, Holding
  <2> QED
    BY <1>13, <2>1, <2>2 DEF RemoveItem
<1>14. ASSUME NEW t \in Consumers, AdvanceRemove(t) PROVE TypeInv'
  <2>1. removePointer' \in Slots
    BY <1>14, NextSlot DEF AdvanceRemove
  <2>2. /\ pc' \in [Threads -> Labels]
        /\ \A s \in Threads : pc'[s] \in Holding => buf'[s] \in Cells
    BY <1>14 DEF AdvanceRemove, Labels, Holding
  <2>3. /\ mutex' = Free
        /\ UNCHANGED <<empty, full, insertPointer, buffer, buf, item, posIn,
                       posOut, fileOut, mainv, history>>
    BY <1>14 DEF AdvanceRemove
  <2> QED
    BY <2>1, <2>2, <2>3
<1>15. ASSUME NEW t \in Consumers, PostEmpty(t) PROVE TypeInv'
  BY <1>15 DEF PostEmpty, Labels, Holding
<1>16. ASSUME NEW t \in Consumers, LockWrite(t) PROVE TypeInv'
  BY <1>16 DEF LockWrite, Labels, Holding
<1>17. ASSUME NEW t \in Consumers, SeekOut(t) PROVE TypeInv'
  <2>1. CASE Fail(t, "seekOut") /\ UNCHANGED item
    BY <2>1 DEF Fail, Labels, Holding
  <2>2. CASE /\ Goto(t, "seekOut", "write")
             /\ item[buf[t]].offset >= 0
             /\ posOut' = item[buf[t]].offset
             /\ UNCHANGED <<mutex, sems, ring, item, posIn, fileOut, history>>
    <3>1. item[buf[t]] \in Items
      BY <2>2 DEF Holding
    <3>2. posOut' \in Nat
      <4>1. item[buf[t]].offset \in Int
        BY <3>1 DEF Items
      <4> QED
        BY <2>2, <4>1
    <3>3. /\ pc' \in [Threads -> Labels]
          /\ \A s \in Threads : pc'[s] \in Holding => buf'[s] \in Cells
      BY <2>2 DEF Labels, Holding
    <3>4. UNCHANGED <<mutex, empty, full, insertPointer, removePointer, buffer,
                      buf, item, posIn, fileOut, mainv, history>>
      BY <2>2
    <3> QED
      BY <3>2, <3>3, <3>4
  <2> QED
    BY <1>17, <2>1, <2>2 DEF SeekOut
<1>18. ASSUME NEW t \in Consumers, WriteByte(t) PROVE TypeInv'
  <2>1. CASE Fail(t, "write") /\ UNCHANGED item
    BY <2>1 DEF Fail, Labels, Holding
  <2>2. CASE /\ Goto(t, "write", "test")
             /\ fileOut' = [o \in DOMAIN fileOut \cup {posOut} |->
                              IF o = posOut THEN item[buf[t]].data
                                            ELSE fileOut[o]]
             /\ posOut' = posOut + 1
             /\ mutex' = Free
             /\ UNCHANGED <<sems, ring, item, posIn, history>>
    <3>1. item[buf[t]] \in Items
      BY <2>2 DEF Holding
    <3>2. item[buf[t]].data \in Bytes
      BY <3>1 DEF Items
    <3>3. /\ DOMAIN fileOut' \subseteq Nat
          /\ \A o \in DOMAIN fileOut' : fileOut'[o] \in Bytes
      BY <2>2, <3>2
    <3>4. /\ pc' \in [Threads -> Labels]
          /\ \A s \in Threads : pc'[s] \in Holding => buf'[s] \in Cells
      BY <2>2 DEF Labels, Holding
    <3>5. /\ mutex' = Free /\ posOut' \in Nat
          /\ UNCHANGED <<empty, full, insertPointer, removePointer, buffer, buf,
                         item, posIn, mainv, history>>
      BY <2>2
    <3> QED
      BY <3>3, <3>4, <3>5
  <2> QED
    BY <1>18, <2>1, <2>2 DEF WriteByte
<1>19. ASSUME Main PROVE TypeInv'
  <2>1. UNCHANGED <<pc, mutex, sems, ring, buf, item, files, history>>
    BY <1>19 DEF Main
  <2>2. CASE CreateThread
    <3>1. created \in Threads
      BY <2>2 DEF CreateThread, Threads
    <3>2. created' \in 0 .. nIN + nOUT
      BY <2>2 DEF CreateThread
    <3> QED
      BY <2>1, <2>2, <3>1, <3>2 DEF CreateThread
  <2>3. CASE JoinThread
    BY <2>1, <2>3 DEF JoinThread, Joining
  <2>4. CASE JoinCrashes
    BY <2>1, <2>4 DEF JoinCrashes, Joining
  <2>5. CASE Return
    BY <2>1, <2>5 DEF Return
  <2> QED
    BY <1>19, <2>2, <2>3, <2>4, <2>5 DEF Main
<1>20. CASE UNCHANGED vars
  BY <1>20 DEF vars
<1>21. ASSUME NEW t \in Threads, Exit(t) PROVE TypeInv'
  BY <1>21 DEF Exit
<1> QED
  BY <1>1, <1>2, <1>3, <1>4, <1>5, <1>6, <1>7, <1>8, <1>9, <1>10, <1>11,
     <1>12, <1>13, <1>14, <1>15, <1>16, <1>17, <1>18, <1>19, <1>20, <1>21
     DEF Next, Producer, Consumer

\* Every variable of the program keeps its type, for every instance.
THEOREM TypeCorrect == Spec => []TypeOK
<1>1. TypeInv => TypeOK
  BY DEF TypeInv
<1> QED
  BY InitTypeInv, NextTypeInv, <1>1, PTL DEF Spec
-----------------------------------------------------------------------------
(* Mutual exclusion. *)

MutexInv ==
  /\ MutualExclusion
  /\ outcome = "running" => \A t \in Threads : pc[t] \in Critical => mutex = t

\* A thread that unlocks, or moves without entering a critical section.
LEMMA LeaveMutexInv ==
  ASSUME TypeOK, MutexInv, NEW t \in Threads, NEW to, Goto(t, pc[t], to),
         \/ to \notin Critical /\ mutex' = mutex
         \/ pc[t] \in Critical /\ to \notin Critical
         \/ pc[t] \in Critical /\ to \in Critical /\ mutex' = mutex
  PROVE  MutexInv'
<1>1. \A s \in Threads : pc'[s] = IF s = t THEN to ELSE pc[s]
  BY DEF Goto, TypeOK
<1>2. outcome = "running" /\ outcome' = outcome
  BY DEF Goto, At, mainv
<1> QED
  BY <1>1, <1>2 DEF MutexInv, MutualExclusion

LEMMA LockMutexInv ==
  ASSUME TypeOK, MutexInv, NEW t \in Threads, NEW from, NEW to,
         Lock(t, from, to)
  PROVE  MutexInv'
<1>1. \A s \in Threads : pc[s] \notin Critical
  BY ThreadFacts DEF Lock, Goto, At, MutexInv
<1>2. \A s \in Threads : pc'[s] = IF s = t THEN to ELSE pc[s]
  BY DEF Lock, Goto, TypeOK
<1> QED
  BY <1>1, <1>2 DEF MutexInv, MutualExclusion, Lock

LEMMA NextMutexInv == TypeOK /\ MutexInv /\ [Next]_vars => MutexInv'
<1> SUFFICES ASSUME TypeOK, MutexInv, [Next]_vars PROVE MutexInv'
  OBVIOUS
<1> USE ThreadFacts
<1>1. ASSUME NEW t \in Threads, NEW at, Exit(t) \/ NullFault(t, at)
      PROVE MutexInv'
  BY <1>1 DEF Exit, NullFault, Stop, MutexInv, MutualExclusion
<1>f. ASSUME NEW t \in Threads, NEW at \in Critical, Fail(t, at) PROVE MutexInv'
  BY <1>f, LeaveMutexInv DEF Fail, Critical, Goto, At
<1>2. ASSUME NEW t \in Producers, Producer(t) PROVE MutexInv'
  <2>1. CASE LockRead(t) \/ LockInsert(t)
    BY <2>1, LockMutexInv DEF LockRead, LockInsert
  <2>2. CASE SeekIn(t)
    <3>1. CASE Goto(t, "seekIn", "read") /\ UNCHANGED mutex
      BY <3>1, LeaveMutexInv DEF Critical, Goto, At
    <3> QED
      BY <2>2, <3>1, <1>1, <1>f DEF SeekIn, Critical
  <2>3. CASE ReadByte(t) \/ ReadNothing(t) \/ AdvanceInsert(t)
    BY <2>3, LeaveMutexInv
       DEF ReadByte, ReadNothing, AdvanceInsert, Critical, Goto, At
  <2>4. CASE WaitEmpty(t) \/ InsertItem(t) \/ PostFull(t)
    BY <2>4, LeaveMutexInv
       DEF WaitEmpty, InsertItem, PostFull, Critical, Goto, At
  <2> QED
    BY <1>1, <1>2, <2>1, <2>2, <2>3, <2>4 DEF Producer
<1>3. ASSUME NEW t \in Consumers, Consumer(t) PROVE MutexInv'
  <2>1. CASE LockRemove(t) \/ LockWrite(t)
    BY <2>1, LockMutexInv DEF LockRemove, LockWrite
  <2>2. CASE Test(t)
    BY <2>2, LeaveMutexInv DEF Test, Move, Critical, Goto, At
  <2>3. CASE WaitFull(t) \/ PostEmpty(t) \/ AdvanceRemove(t)
    BY <2>3, LeaveMutexInv
       DEF WaitFull, PostEmpty, AdvanceRemove, Critical, Goto, At
  <2>4. CASE RemoveItem(t)
    <3>1. CASE Goto(t, "remove", "advanceRemove") /\ UNCHANGED mutex
      BY <3>1, LeaveMutexInv DEF Critical, Goto, At
    <3> QED
      BY <2>4, <3>1, <1>1 DEF RemoveItem
  <2>5. CASE SeekOut(t)
    <3>1. CASE Goto(t, "seekOut", "write") /\ UNCHANGED mutex
      BY <3>1, LeaveMutexInv DEF Critical, Goto, At
    <3> QED
      BY <2>5, <3>1, <1>f DEF SeekOut, Critical
  <2>6. CASE WriteByte(t)
    <3>1. CASE Goto(t, "write", "test")
      BY <3>1, LeaveMutexInv DEF Critical, Goto, At
    <3> QED
      BY <2>6, <3>1, <1>f DEF WriteByte, Critical
  <2> QED
    BY <1>1, <1>3, <2>1, <2>2, <2>3, <2>4, <2>5, <2>6 DEF Consumer
<1>4. CASE Main
  BY <1>4 DEF Main, CreateThread, JoinThread, JoinCrashes, Joining, Return,
              MutexInv, MutualExclusion
<1>5. CASE UNCHANGED vars
  BY <1>5 DEF vars, mainv, MutexInv, MutualExclusion
<1> QED
  BY <1>2, <1>3, <1>4, <1>5 DEF Next

\* The mutex keeps all eight critical sections apart.
THEOREM MutexSafe == Spec => []MutualExclusion
<1>1. Init => MutexInv
  BY DEF Init, MutexInv, MutualExclusion, Critical
<1>2. TypeInv => TypeOK
  BY DEF TypeInv
<1>3. MutexInv => MutualExclusion
  BY DEF MutexInv
<1> QED
  BY InitTypeInv, NextTypeInv, NextMutexInv, <1>1, <1>2, <1>3, PTL DEF Spec
-----------------------------------------------------------------------------
(* The semaphores.  A count of threads changes by at most one in a step. *)

Ind(label, labels) == IF label \in labels THEN 1 ELSE 0

Count(labels) == Cardinality(ThreadsAt(labels))

LEMMA CountFinite ==
  ASSUME NEW labels
  PROVE  /\ IsFiniteSet(ThreadsAt(labels))
         /\ Count(labels) \in Nat
<1>1. IsFiniteSet(Threads)
  BY CopyAssumption, FS_Interval DEF Threads
<1>2. IsFiniteSet(ThreadsAt(labels))
  BY <1>1, FS_Subset DEF ThreadsAt
<1> QED
  BY <1>2, FS_CardinalityType DEF Count

LEMMA CountMove ==
  ASSUME TypeOK, NEW labels, NEW t \in Threads, NEW from, NEW to,
         Goto(t, from, to)
  PROVE  Count(labels)' = Count(labels) + Ind(to, labels) - Ind(from, labels)
<1> DEFINE old == ThreadsAt(labels)
           new == ThreadsAt(labels)'
<1>1. /\ pc[t] = from
      /\ \A s \in Threads : pc'[s] = IF s = t THEN to ELSE pc[s]
  BY DEF Goto, At, TypeOK
<1>2. IsFiniteSet(old) /\ Cardinality(old) \in Nat
  BY CountFinite DEF Count
<1>3. CASE from \in labels /\ to \in labels
  <2>1. new = old
    BY <1>1, <1>3 DEF ThreadsAt
  <2> QED
    BY <1>2, <1>3, <2>1 DEF Count, Ind
<1>4. CASE from \in labels /\ to \notin labels
  <2>1. new = old \ {t} /\ t \in old
    BY <1>1, <1>4 DEF ThreadsAt
  <2>2. Cardinality(new) = Cardinality(old) - 1
    BY <1>2, <2>1, FS_RemoveElement
  <2> QED
    BY <1>2, <1>4, <2>2 DEF Count, Ind
<1>5. CASE from \notin labels /\ to \in labels
  <2>1. new = old \cup {t} /\ t \notin old
    BY <1>1, <1>5 DEF ThreadsAt
  <2>2. Cardinality(new) = Cardinality(old) + 1
    BY <1>2, <2>1, FS_AddElement
  <2> QED
    BY <1>2, <1>5, <2>2 DEF Count, Ind
<1>6. CASE from \notin labels /\ to \notin labels
  <2>1. new = old
    BY <1>1, <1>6 DEF ThreadsAt
  <2> QED
    BY <1>2, <1>6, <2>1 DEF Count, Ind
<1> QED
  BY <1>3, <1>4, <1>5, <1>6

LEMMA TokenMove ==
  ASSUME TypeOK, NEW t \in Threads, NEW from, NEW to, Goto(t, from, to)
  PROVE  /\ Count(Inserting)' =
              Count(Inserting) + Ind(to, Inserting) - Ind(from, Inserting)
         /\ Count(Inserted)' =
              Count(Inserted) + Ind(to, Inserted) - Ind(from, Inserted)
         /\ Count(Removing)' =
              Count(Removing) + Ind(to, Removing) - Ind(from, Removing)
         /\ Count(Removed)' =
              Count(Removed) + Ind(to, Removed) - Ind(from, Removed)
  BY CountMove

TokenInv == EmptyTokens /\ FullTokens

\* The token equations over the four counts.
LEMMA TokenCounts ==
  TokenInv <=>
    /\ empty + Count(Inserting) + (Len(put) - Len(got)) + Count(Removed)
         = bufSize
    /\ full + Count(Inserted) + Count(Removing) + Len(got) = Len(put) + 1
  BY DEF TokenInv, EmptyTokens, FullTokens, Count

LEMMA InitTokens == Init => TokenInv
<1> SUFFICES ASSUME Init PROVE TokenInv
  OBVIOUS
<1>1. ASSUME NEW labels, \A t \in Threads : pc[t] \notin labels
      PROVE Cardinality(ThreadsAt(labels)) = 0
  BY <1>1, FS_EmptySet DEF ThreadsAt
<1>2. \A t \in Threads : pc[t] \in {"lockRead", "test"}
  BY DEF Init
<1>3. /\ Cardinality(ThreadsAt(Inserting)) = 0
      /\ Cardinality(ThreadsAt(Inserted)) = 0
      /\ Cardinality(ThreadsAt(Removing)) = 0
      /\ Cardinality(ThreadsAt(Removed)) = 0
  BY <1>1, <1>2 DEF Inserting, Inserted, Removing, Removed
<1>4. empty = bufSize /\ full = 1 /\ Len(put) = 0 /\ Len(got) = 0
  BY DEF Init
<1> QED
  BY <1>3, <1>4, CopyAssumption DEF TokenInv, EmptyTokens, FullTokens

\* A step that touches neither the semaphores nor the buffer, from a label to
\* one that counts alike.
LEMMA QuietTokens ==
  ASSUME TypeOK, TokenInv, NEW t \in Threads, NEW from, NEW to,
         Goto(t, from, to), UNCHANGED <<sems, history>>,
         \A L \in {Inserting, Inserted, Removing, Removed} :
           from \in L <=> to \in L
  PROVE  TokenInv'
<1>1. /\ Count(Inserting)' = Count(Inserting)
      /\ Count(Inserted)' = Count(Inserted)
      /\ Count(Removing)' = Count(Removing)
      /\ Count(Removed)' = Count(Removed)
  BY CountMove, CountFinite DEF Ind
<1> QED
  BY <1>1 DEF TokenInv, EmptyTokens, FullTokens, Count, sems, history

LEMMA NextTokens == TypeInv /\ TokenInv /\ [Next]_vars => TokenInv'
<1> SUFFICES ASSUME TypeInv, TokenInv, [Next]_vars PROVE TokenInv'
  OBVIOUS
<1> USE ThreadFacts
<1>1. TypeOK /\ empty \in Nat /\ full \in Nat /\ bufSize \in Nat
  BY CopyAssumption DEF TypeInv, TypeOK
<1>2. put \in Seq(Items) /\ got \in Seq(Items)
  BY <1>1 DEF TypeOK
<1>3. Len(put) \in Nat /\ Len(got) \in Nat
  BY <1>2
<1>4. ASSUME UNCHANGED <<pc, sems, history>> PROVE TokenInv'
  BY <1>4 DEF TokenInv, EmptyTokens, FullTokens, ThreadsAt, sems, history
<1>5. ASSUME NEW t \in Threads, NEW at, Exit(t) \/ NullFault(t, at)
      PROVE TokenInv'
  BY <1>4, <1>5 DEF Exit, NullFault, Stop
<1>f. ASSUME NEW t \in Threads, NEW at \in {"seekIn", "seekOut", "write"},
             Fail(t, at)
      PROVE  TokenInv'
  BY <1>f, <1>1, QuietTokens DEF Fail, Inserting, Inserted, Removing, Removed
<1>a. /\ empty + Count(Inserting) + (Len(put) - Len(got)) + Count(Removed)
           = bufSize
      /\ full + Count(Inserted) + Count(Removing) + Len(got) = Len(put) + 1
  BY TokenCounts
<1>b. /\ empty' + Count(Inserting)' + (Len(put') - Len(got')) + Count(Removed)'
           = bufSize
      /\ full' + Count(Inserted)' + Count(Removing)' + Len(got') = Len(put') + 1
      => TokenInv'
  BY DEF TokenInv, EmptyTokens, FullTokens, Count
<1>c. /\ Count(Inserting) \in Nat /\ Count(Inserted) \in Nat
      /\ Count(Removing) \in Nat /\ Count(Removed) \in Nat
  BY CountFinite
<1>6. ASSUME NEW t \in Producers, Producer(t) PROVE TokenInv'
  <2>1. CASE LockRead(t) \/ LockInsert(t)
    BY <2>1, <1>1, QuietTokens
       DEF Inserting, Inserted, Removing, Removed, LockRead, LockInsert, Lock
  <2>2. CASE SeekIn(t)
    <3>1. CASE Goto(t, "seekIn", "read") /\ UNCHANGED <<sems, history>>
      BY <3>1, <1>1, QuietTokens
       DEF Inserting, Inserted, Removing, Removed
    <3> QED
      BY <2>2, <3>1, <1>5, <1>f DEF SeekIn
  <2>3. CASE ReadByte(t) \/ ReadNothing(t) \/ AdvanceInsert(t)
    BY <2>3, <1>1, QuietTokens
       DEF Inserting, Inserted, Removing, Removed, ReadByte, ReadNothing,
           AdvanceInsert
  <2>4. CASE WaitEmpty(t)
    <3>1. Goto(t, "waitEmpty", "lockInsert")
      BY <2>4 DEF WaitEmpty
    <3>2. /\ Count(Inserting)' = Count(Inserting) + 1
          /\ Count(Inserted)' = Count(Inserted)
          /\ Count(Removing)' = Count(Removing)
          /\ Count(Removed)' = Count(Removed)
      BY <1>1, <3>1, TokenMove, <1>c
         DEF Ind, Inserting, Inserted, Removing, Removed
    <3>3. empty' = empty - 1 /\ full' = full /\ UNCHANGED history
      BY <2>4 DEF WaitEmpty
    <3> QED
      BY <1>1, <1>3, <1>a, <1>b, <1>c, <3>2, <3>3 DEF history
  <2>5. CASE InsertItem(t)
    <3>1. Goto(t, "insert", "advanceInsert") /\ item[buf[t]] \in Items
      BY <2>5, <1>1 DEF InsertItem, TypeInv, TypeOK, Holding, Goto, At
    <3>2. /\ Count(Inserting)' = Count(Inserting) - 1
          /\ Count(Inserted)' = Count(Inserted) + 1
          /\ Count(Removing)' = Count(Removing)
          /\ Count(Removed)' = Count(Removed)
      BY <1>1, <3>1, TokenMove, <1>c
         DEF Ind, Inserting, Inserted, Removing, Removed
    <3>3. /\ empty' = empty /\ full' = full
          /\ Len(got') = Len(got) /\ Len(put') = Len(put) + 1
          /\ Len(got') \in Nat /\ Len(put') \in Nat
      BY <2>5, <1>2, <3>1 DEF InsertItem, sems
    <3>4. empty' + Count(Inserting)' + (Len(put') - Len(got'))
           + Count(Removed)' = bufSize
      BY <1>1, <1>3, <1>a, <1>c, <3>2, <3>3, SMTT(60)
    <3>5. full' + Count(Inserted)' + Count(Removing)' + Len(got') = Len(put') + 1
      BY <1>1, <1>3, <1>a, <1>c, <3>2, <3>3, SMTT(60)
    <3> QED
      BY <1>b, <3>4, <3>5
  <2>6. CASE PostFull(t)
    <3>1. Goto(t, "postFull", "lockRead")
      BY <2>6 DEF PostFull
    <3>2. /\ Count(Inserting)' = Count(Inserting)
          /\ Count(Inserted)' = Count(Inserted) - 1
          /\ Count(Removing)' = Count(Removing)
          /\ Count(Removed)' = Count(Removed)
      BY <1>1, <3>1, TokenMove, <1>c
         DEF Ind, Inserting, Inserted, Removing, Removed
    <3>3. empty' = empty /\ full' = full + 1 /\ UNCHANGED history
      BY <2>6 DEF PostFull
    <3> QED
      BY <1>1, <1>3, <1>a, <1>b, <1>c, <3>2, <3>3 DEF history
  <2> QED
    BY <1>5, <1>6, <2>1, <2>2, <2>3, <2>4, <2>5, <2>6 DEF Producer
<1>7. ASSUME NEW t \in Consumers, Consumer(t) PROVE TokenInv'
  <2>1. CASE LockRemove(t) \/ LockWrite(t)
    BY <2>1, <1>1, QuietTokens
       DEF Inserting, Inserted, Removing, Removed, LockRemove, LockWrite, Lock
  <2>2. CASE Test(t) \/ AdvanceRemove(t)
    BY <2>2, <1>1, QuietTokens
       DEF Inserting, Inserted, Removing, Removed, Test, Move, AdvanceRemove
  <2>3. CASE WaitFull(t)
    <3>1. Goto(t, "waitFull", "lockRemove")
      BY <2>3 DEF WaitFull
    <3>2. /\ Count(Inserting)' = Count(Inserting)
          /\ Count(Inserted)' = Count(Inserted)
          /\ Count(Removing)' = Count(Removing) + 1
          /\ Count(Removed)' = Count(Removed)
      BY <1>1, <3>1, TokenMove, <1>c
         DEF Ind, Inserting, Inserted, Removing, Removed
    <3>3. full' = full - 1 /\ empty' = empty /\ UNCHANGED history
      BY <2>3 DEF WaitFull
    <3> QED
      BY <1>1, <1>3, <1>a, <1>b, <1>c, <3>2, <3>3 DEF history
  <2>4. CASE RemoveItem(t)
    <3>1. CASE NullFault(t, "remove")
      BY <3>1, <1>5
    <3>2. CASE /\ Goto(t, "remove", "advanceRemove")
               /\ got' = Append(got, buffer[removePointer])
               /\ UNCHANGED <<sems, put>>
      <4>0. Goto(t, "remove", "advanceRemove")
        BY <3>2
      <4>1. /\ Count(Inserting)' = Count(Inserting)
            /\ Count(Inserted)' = Count(Inserted)
            /\ Count(Removing)' = Count(Removing) - 1
            /\ Count(Removed)' = Count(Removed) + 1
        BY <1>1, <4>0, TokenMove, <1>c
         DEF Ind, Inserting, Inserted, Removing, Removed
      <4>2. /\ empty' = empty /\ full' = full
            /\ Len(put') = Len(put) /\ Len(got') = Len(got) + 1
            /\ Len(got') \in Nat /\ Len(put') \in Nat
        BY <3>2, <1>1, <1>2 DEF sems, TypeOK
      <4>4. empty' + Count(Inserting)' + (Len(put') - Len(got'))
             + Count(Removed)' = bufSize
        BY <1>1, <1>3, <1>a, <1>c, <4>1, <4>2, SMTT(60)
      <4>5. full' + Count(Inserted)' + Count(Removing)' + Len(got') = Len(put') + 1
        BY <1>1, <1>3, <1>a, <1>c, <4>1, <4>2, SMTT(60)
      <4> QED
        BY <1>b, <4>4, <4>5
    <3> QED
      BY <2>4, <3>1, <3>2 DEF RemoveItem
  <2>5. CASE PostEmpty(t)
    <3>1. Goto(t, "postEmpty", "lockWrite")
      BY <2>5 DEF PostEmpty
    <3>2. /\ Count(Inserting)' = Count(Inserting)
          /\ Count(Inserted)' = Count(Inserted)
          /\ Count(Removing)' = Count(Removing)
          /\ Count(Removed)' = Count(Removed) - 1
      BY <1>1, <3>1, TokenMove, <1>c
         DEF Ind, Inserting, Inserted, Removing, Removed
    <3>3. empty' = empty + 1 /\ full' = full /\ UNCHANGED history
      BY <2>5 DEF PostEmpty
    <3> QED
      BY <1>1, <1>3, <1>a, <1>b, <1>c, <3>2, <3>3, SMTT(20) DEF history
  <2>6. CASE SeekOut(t)
    <3>1. CASE Goto(t, "seekOut", "write") /\ UNCHANGED <<sems, history>>
      BY <3>1, <1>1, QuietTokens
       DEF Inserting, Inserted, Removing, Removed
    <3> QED
      BY <2>6, <3>1, <1>f DEF SeekOut
  <2>7. CASE WriteByte(t)
    <3>1. CASE Goto(t, "write", "test") /\ UNCHANGED <<sems, history>>
      BY <3>1, <1>1, QuietTokens
       DEF Inserting, Inserted, Removing, Removed
    <3> QED
      BY <2>7, <3>1, <1>f DEF WriteByte
  <2> QED
    BY <1>5, <1>7, <2>1, <2>2, <2>3, <2>4, <2>5, <2>6, <2>7 DEF Consumer
<1>8. CASE Main
  BY <1>8, <1>4 DEF Main
<1>9. CASE UNCHANGED vars
  BY <1>9, <1>4 DEF vars
<1> QED
  BY <1>6, <1>7, <1>8, <1>9 DEF Next

LEMMA TokenInvCorrect == Spec => []TokenInv
  BY InitTypeInv, NextTypeInv, InitTokens, NextTokens, PTL DEF Spec

\* The slots are each counted once, by the semaphore empty or by a thread that
\* has taken one, in whatever order the threads run.
THEOREM EmptyTokensCorrect == Spec => []EmptyTokens
<1>1. TokenInv => EmptyTokens
  BY DEF TokenInv
<1> QED
  BY TokenInvCorrect, <1>1, PTL

\* The same of the stored items and the semaphore full, which starts one high.
THEOREM FullTokensCorrect == Spec => []FullTokens
<1>1. TokenInv => FullTokens
  BY DEF TokenInv
<1> QED
  BY TokenInvCorrect, <1>1, PTL

LEMMA TokenBounds ==
  TypeOK /\ TokenInv => NoOverwrite /\ ReadAheadByOne
<1> SUFFICES ASSUME TypeOK, TokenInv PROVE NoOverwrite /\ ReadAheadByOne
  OBVIOUS
<1>1. /\ Count(Inserting) \in Nat /\ Count(Inserted) \in Nat
      /\ Count(Removing) \in Nat /\ Count(Removed) \in Nat
  BY CountFinite
<1>2. empty \in Nat /\ full \in Nat /\ Len(put) \in Nat /\ Len(got) \in Nat
  BY DEF TypeOK
<1>3. /\ empty + Count(Inserting) + (Len(put) - Len(got)) + Count(Removed)
           = bufSize
      /\ full + Count(Inserted) + Count(Removing) + Len(got) = Len(put) + 1
  BY TokenCounts
<1>4. Len(put) - Len(got) <= bufSize
  <2>1. bufSize \in Nat
    BY CopyAssumption
  <2> QED
    BY <1>1, <1>2, <1>3, <2>1, SMTT(20)
<1>5. Len(got) <= Len(put) + 1
  BY <1>1, <1>2, <1>3
<1> QED
  BY <1>4, <1>5 DEF NoOverwrite, ReadAheadByOne

\* No item is overwritten before it is fetched, and the consumers fetch at most
\* one item that was never stored, for every number of threads and slots.
THEOREM BufferBounds == Spec => [](NoOverwrite /\ ReadAheadByOne)
<1>1. TypeInv => TypeOK
  BY DEF TypeInv
<1> QED
  BY InitTypeInv, NextTypeInv, InitTokens, NextTokens, TokenBounds, <1>1, PTL
     DEF Spec
-----------------------------------------------------------------------------
(* The two pointers and the items between them. *)

\* A pointer counts modulo bufSize, one step behind while it is advanced.
PointerInv ==
  /\ insertPointer = IF \E t \in Threads : pc[t] = "advanceInsert"
                       THEN (Len(put) - 1) % bufSize ELSE Len(put) % bufSize
  /\ removePointer = IF \E t \in Threads : pc[t] = "advanceRemove"
                       THEN (Len(got) - 1) % bufSize ELSE Len(got) % bufSize

\* The items stored and not fetched are where they were stored.
WindowInv ==
  \A k \in Len(got) + 1 .. Len(put) : buffer[(k - 1) % bufSize] = put[k]

RingInv == PointerInv /\ WindowInv

\* A thread about to store has a free slot; one about to fetch runs at most one
\* ahead.
LEMMA InsertRoom ==
  ASSUME TypeOK, TokenInv, NEW t \in Threads, pc[t] = "insert"
  PROVE  Len(put) - Len(got) < bufSize
<1>1. t \in ThreadsAt(Inserting)
  BY DEF ThreadsAt, Inserting
<1>2. IsFiniteSet(ThreadsAt(Inserting)) /\ Count(Removed) \in Nat
  BY CountFinite
<1>3. Count(Inserting) \in Nat \ {0}
  BY <1>1, <1>2, FS_EmptySet, CountFinite DEF Count
<1>4. empty \in Nat /\ Len(put) \in Nat /\ Len(got) \in Nat
  BY DEF TypeOK
<1> QED
  BY <1>2, <1>3, <1>4, TokenCounts, CopyAssumption

LEMMA RemoveRoom ==
  ASSUME TypeOK, TokenInv, NEW t \in Threads, pc[t] = "remove"
  PROVE  Len(got) < Len(put) + 1
<1>1. t \in ThreadsAt(Removing)
  BY DEF ThreadsAt, Removing
<1>2. IsFiniteSet(ThreadsAt(Removing)) /\ Count(Inserted) \in Nat
  BY CountFinite
<1>3. Count(Removing) \in Nat \ {0}
  BY <1>1, <1>2, FS_EmptySet, CountFinite DEF Count
<1>4. full \in Nat /\ Len(put) \in Nat /\ Len(got) \in Nat
  BY DEF TypeOK
<1> QED
  BY <1>2, <1>3, <1>4, TokenCounts

LEMMA InitRing == Init => RingInv
<1> SUFFICES ASSUME Init PROVE RingInv
  OBVIOUS
<1>1. Len(put) = 0 /\ Len(got) = 0
  BY DEF Init
<1>2. \A t \in Threads : pc[t] \in {"lockRead", "test"}
  BY DEF Init
<1>3. 0 % bufSize = 0
  BY CopyAssumption, SMT
<1> QED
  BY <1>1, <1>2, <1>3 DEF Init, RingInv, PointerInv, WindowInv

\* A step between labels that are not the advance of a pointer.
LEMMA QuietRing ==
  ASSUME TypeOK, RingInv, NEW t \in Threads, NEW from, NEW to,
         Goto(t, from, to), UNCHANGED <<ring, history>>,
         {from, to} \cap {"advanceInsert", "advanceRemove"} = {}
  PROVE  RingInv'
<1>1. \A s \in Threads : pc'[s] = IF s = t THEN to ELSE pc[s]
  BY DEF Goto, TypeOK
<1>2. pc[t] = from
  BY DEF Goto, At
<1>3. /\ (\E s \in Threads : pc'[s] = "advanceInsert")
           <=> (\E s \in Threads : pc[s] = "advanceInsert")
      /\ (\E s \in Threads : pc'[s] = "advanceRemove")
           <=> (\E s \in Threads : pc[s] = "advanceRemove")
  BY <1>1, <1>2
<1>4. /\ insertPointer' = insertPointer /\ removePointer' = removePointer
      /\ buffer' = buffer /\ put' = put /\ got' = got
  BY DEF ring, history
<1>5. PointerInv'
  BY <1>3, <1>4 DEF RingInv, PointerInv
<1>6. WindowInv'
  BY <1>4 DEF RingInv, WindowInv
<1> QED
  BY <1>5, <1>6 DEF RingInv

LEMMA InsertRing ==
  ASSUME TypeInv, MutexInv, TokenInv, RingInv, NEW t \in Producers, InsertItem(t)
  PROVE  RingInv'
<1> DEFINE B == bufSize
<1>0. t \in Threads /\ TypeOK /\ B \in Nat \ {0}
  BY ThreadFacts, CopyAssumption DEF TypeInv
<1>1. pc[t] = "insert" /\ \A s \in Threads : pc'[s] = IF s = t THEN "advanceInsert"
                                                          ELSE pc[s]
  BY <1>0 DEF InsertItem, Goto, At, TypeOK
<1>2. \A s \in Threads : pc[s] \notin {"advanceInsert", "advanceRemove"}
  BY <1>0, <1>1 DEF MutexInv, MutualExclusion, Critical
<1>3. item[buf[t]] \in Items
  BY <1>0, <1>1 DEF TypeInv, TypeOK, Holding
<1>4. put \in Seq(Items) /\ got \in Seq(Items)
  BY <1>0 DEF TypeOK
<1>5. /\ put' = Append(put, item[buf[t]]) /\ got' = got
      /\ insertPointer' = insertPointer /\ removePointer' = removePointer
      /\ buffer' = [buffer EXCEPT ![insertPointer] = item[buf[t]]]
  BY DEF InsertItem
<1>6. /\ Len(put) \in Nat /\ Len(got) \in Nat /\ Len(put') = Len(put) + 1
      /\ \A k \in 1 .. Len(put) : put'[k] = put[k]
      /\ put'[Len(put) + 1] = item[buf[t]]
  BY <1>3, <1>4, <1>5
<1>7. insertPointer = Len(put) % B /\ removePointer = Len(got) % B
  BY <1>2 DEF RingInv, PointerInv
<1>8. PointerInv'
  <2>1. \E s \in Threads : pc'[s] = "advanceInsert"
    BY <1>0, <1>1
  <2>2. ~ \E s \in Threads : pc'[s] = "advanceRemove"
    BY <1>1, <1>2
  <2>3. Len(put') - 1 = Len(put)
    BY <1>6
  <2> QED
    BY <2>1, <2>2, <2>3, <1>5, <1>7 DEF PointerInv
<1>9. ASSUME NEW k \in Len(got) + 1 .. Len(put')
      PROVE buffer'[(k - 1) % B] = put'[k]
  <2>1. buffer \in [Slots -> Items] /\ insertPointer \in Slots
    BY <1>0 DEF TypeOK
  <2>2. k \in Int /\ k >= 1 /\ k >= Len(got) + 1 /\ k <= Len(put) + 1
    BY <1>6, <1>9
  <2>a. k - 1 \in Int
    BY <2>2
  <2>3. (k - 1) % B \in Slots
    <3>1. (k - 1) % B \in 0 .. B - 1
      BY <1>0, <2>a, ModRange
    <3> QED
      BY <3>1 DEF Slots
  <2>4. CASE k = Len(put) + 1
    <3>1. k - 1 = Len(put)
      BY <1>6, <2>4
    <3> QED
      BY <1>5, <1>6, <1>7, <2>1, <2>4, <3>1
  <2>5. CASE k # Len(put) + 1
    <3>1. k \in Len(got) + 1 .. Len(put) /\ k \in 1 .. Len(put)
      BY <1>6, <2>2, <2>5
    <3>2. Len(put) - Len(got) < B
      BY <1>0, <1>1, InsertRoom
    <3>3. k - 1 < Len(put) /\ Len(put) - (k - 1) < B
      BY <1>6, <2>2, <2>5, <3>2, <1>0
    <3>4. (k - 1) % B # insertPointer
      <4>1. (k - 1) % B # Len(put) % B
        <5>1. \A i, j \in Int : i < j /\ j - i < B => i % B # j % B
          BY <1>0, ModInjective
        <5>2. Len(put) \in Int
          BY <1>6
        <5> QED
          BY <2>a, <3>3, <5>1, <5>2
      <4> QED
        BY <1>7, <4>1
    <3>5. buffer'[(k - 1) % B] = buffer[(k - 1) % B]
      BY <1>5, <2>1, <2>3, <3>4
    <3>6. buffer[(k - 1) % B] = put[k]
      BY <3>1 DEF RingInv, WindowInv
    <3> QED
      BY <1>6, <3>1, <3>5, <3>6
  <2> QED
    BY <2>4, <2>5
<1>10. WindowInv'
  BY <1>5, <1>9 DEF WindowInv
<1> QED
  BY <1>8, <1>10 DEF RingInv

LEMMA RemoveRing ==
  ASSUME TypeInv, MutexInv, TokenInv, RingInv, NEW t \in Consumers,
         Goto(t, "remove", "advanceRemove"), UNCHANGED <<ring, put>>,
         got' = Append(got, buffer[removePointer])
  PROVE  RingInv'
<1>0. t \in Threads /\ TypeOK
  BY ThreadFacts DEF TypeInv
<1>1. pc[t] = "remove" /\ \A s \in Threads : pc'[s] = IF s = t THEN "advanceRemove"
                                                          ELSE pc[s]
  BY <1>0 DEF Goto, At, TypeOK
<1>2. \A s \in Threads : pc[s] \notin {"advanceInsert", "advanceRemove"}
  BY <1>0, <1>1 DEF MutexInv, MutualExclusion, Critical
<1>3. /\ insertPointer' = insertPointer /\ removePointer' = removePointer
      /\ buffer' = buffer /\ put' = put
  BY DEF ring
<1>4. Len(put) \in Nat /\ Len(got) \in Nat /\ Len(got') = Len(got) + 1
  BY <1>0 DEF TypeOK
<1>5. PointerInv'
  <2>1. \E s \in Threads : pc'[s] = "advanceRemove"
    BY <1>0, <1>1
  <2>2. ~ \E s \in Threads : pc'[s] = "advanceInsert"
    BY <1>1, <1>2
  <2>3. Len(got') - 1 = Len(got)
    BY <1>4
  <2>4. insertPointer = Len(put) % bufSize /\ removePointer = Len(got) % bufSize
    BY <1>2 DEF RingInv, PointerInv
  <2> QED
    BY <2>1, <2>2, <2>3, <2>4, <1>3 DEF PointerInv
<1>6. WindowInv'
  <2> SUFFICES ASSUME NEW k \in Len(got') + 1 .. Len(put)
               PROVE buffer[(k - 1) % bufSize] = put[k]
    BY <1>3 DEF WindowInv
  <2>1. k \in Len(got) + 1 .. Len(put)
    BY <1>4
  <2> QED
    BY <2>1 DEF RingInv, WindowInv
<1> QED
  BY <1>5, <1>6 DEF RingInv

LEMMA AdvanceRing ==
  ASSUME TypeInv, MutexInv, RingInv, NEW t \in Threads,
         AdvanceInsert(t) \/ AdvanceRemove(t)
  PROVE  RingInv'
<1>1. TypeOK /\ Len(put) \in Nat /\ Len(got) \in Nat /\ bufSize \in Nat \ {0}
  BY CopyAssumption DEF TypeInv, TypeOK
<1>2. /\ (((Len(put) - 1) % bufSize) + 1) % bufSize = Len(put) % bufSize
      /\ (((Len(got) - 1) % bufSize) + 1) % bufSize = Len(got) % bufSize
  <2>1. ASSUME NEW n \in Nat PROVE (((n - 1) % bufSize) + 1) % bufSize = n % bufSize
    <3>1. n - 1 \in Int /\ (n - 1) + 1 = n
      OBVIOUS
    <3>2. (((n - 1) % bufSize) + 1) % bufSize = ((n - 1) + 1) % bufSize
      BY <1>1, <3>1, ModSuccessor
    <3> QED
      BY <3>1, <3>2
  <2> QED
    BY <1>1, <2>1
<1>3. WindowInv'
  BY DEF AdvanceInsert, AdvanceRemove, RingInv, WindowInv, history
<1>4. CASE AdvanceInsert(t)
  <2>1. pc[t] = "advanceInsert" /\ \A s \in Threads : pc'[s] = IF s = t THEN "postFull"
                                                                  ELSE pc[s]
    BY <1>1, <1>4 DEF AdvanceInsert, Goto, At, TypeOK
  <2>2. \A s \in Threads \ {t} : pc[s] \notin {"advanceInsert", "advanceRemove"}
    BY <2>1 DEF MutexInv, MutualExclusion, Critical
  <2>3. ~ \E s \in Threads : pc'[s] \in {"advanceInsert", "advanceRemove"}
    BY <2>1, <2>2
  <2>4. ~ \E s \in Threads : pc[s] = "advanceRemove"
    BY <2>1, <2>2
  <2>5. insertPointer = (Len(put) - 1) % bufSize /\ removePointer = Len(got) % bufSize
    BY <2>1, <2>4 DEF RingInv, PointerInv
  <2>6. /\ insertPointer' = (insertPointer + 1) % bufSize
        /\ removePointer' = removePointer /\ put' = put /\ got' = got
    BY <1>4 DEF AdvanceInsert, history
  <2>7. PointerInv'
    BY <1>2, <2>3, <2>5, <2>6 DEF PointerInv
  <2> QED
    BY <1>3, <2>7 DEF RingInv
<1>5. CASE AdvanceRemove(t)
  <2>1. pc[t] = "advanceRemove" /\ \A s \in Threads : pc'[s] = IF s = t THEN "postEmpty"
                                                                  ELSE pc[s]
    BY <1>1, <1>5 DEF AdvanceRemove, Goto, At, TypeOK
  <2>2. \A s \in Threads \ {t} : pc[s] \notin {"advanceInsert", "advanceRemove"}
    BY <2>1 DEF MutexInv, MutualExclusion, Critical
  <2>3. ~ \E s \in Threads : pc'[s] \in {"advanceInsert", "advanceRemove"}
    BY <2>1, <2>2
  <2>4. ~ \E s \in Threads : pc[s] = "advanceInsert"
    BY <2>1, <2>2
  <2>5. insertPointer = Len(put) % bufSize /\ removePointer = (Len(got) - 1) % bufSize
    BY <2>1, <2>4 DEF RingInv, PointerInv
  <2>6. /\ removePointer' = (removePointer + 1) % bufSize
        /\ insertPointer' = insertPointer /\ put' = put /\ got' = got
    BY <1>5 DEF AdvanceRemove, history
  <2>7. PointerInv'
    BY <1>2, <2>3, <2>5, <2>6 DEF PointerInv
  <2> QED
    BY <1>3, <2>7 DEF RingInv
<1> QED
  BY <1>4, <1>5

LEMMA NextRing ==
  TypeInv /\ MutexInv /\ TokenInv /\ RingInv /\ [Next]_vars => RingInv'
<1> SUFFICES ASSUME TypeInv, MutexInv, TokenInv, RingInv, [Next]_vars PROVE RingInv'
  OBVIOUS
<1> USE ThreadFacts
<1>1. TypeOK
  BY DEF TypeInv
<1>2. ASSUME UNCHANGED <<pc, ring, history>> PROVE RingInv'
  BY <1>2 DEF RingInv, PointerInv, WindowInv, ring, history
<1>3. ASSUME NEW t \in Threads, NEW at, Exit(t) \/ NullFault(t, at)
      PROVE RingInv'
  BY <1>2, <1>3 DEF Exit, NullFault, Stop
<1>f. ASSUME NEW t \in Threads, NEW at \in {"seekIn", "seekOut", "write"},
             Fail(t, at)
      PROVE  RingInv'
  BY <1>f, <1>1, QuietRing DEF Fail
<1>4. ASSUME NEW t \in Producers, Producer(t) PROVE RingInv'
  <2>1. CASE LockRead(t) \/ LockInsert(t)
    BY <2>1, <1>1, QuietRing DEF LockRead, LockInsert, Lock
  <2>2. CASE SeekIn(t)
    <3>1. CASE Goto(t, "seekIn", "read") /\ UNCHANGED <<ring, history>>
      BY <3>1, <1>1, QuietRing
    <3> QED
      BY <2>2, <3>1, <1>3, <1>f DEF SeekIn
  <2>3. CASE ReadByte(t) \/ ReadNothing(t)
    BY <2>3, <1>1, QuietRing DEF ReadByte, ReadNothing
  <2>4. CASE WaitEmpty(t) \/ PostFull(t)
    BY <2>4, <1>1, QuietRing DEF WaitEmpty, PostFull
  <2> QED
    BY <1>3, <1>4, <2>1, <2>2, <2>3, <2>4, InsertRing, AdvanceRing DEF Producer
<1>5. ASSUME NEW t \in Consumers, Consumer(t) PROVE RingInv'
  <2>1. CASE LockRemove(t) \/ LockWrite(t)
    BY <2>1, <1>1, QuietRing DEF LockRemove, LockWrite, Lock
  <2>2. CASE Test(t)
    BY <2>2, <1>1, QuietRing DEF Test, Move
  <2>3. CASE WaitFull(t) \/ PostEmpty(t)
    BY <2>3, <1>1, QuietRing DEF WaitFull, PostEmpty
  <2>4. CASE RemoveItem(t)
    BY <2>4, <1>3, RemoveRing DEF RemoveItem
  <2>5. CASE SeekOut(t)
    <3>1. CASE Goto(t, "seekOut", "write") /\ UNCHANGED <<ring, history>>
      BY <3>1, <1>1, QuietRing
    <3> QED
      BY <2>5, <3>1, <1>f DEF SeekOut
  <2>6. CASE WriteByte(t)
    <3>1. CASE Goto(t, "write", "test") /\ UNCHANGED <<ring, history>>
      BY <3>1, <1>1, QuietRing
    <3> QED
      BY <2>6, <3>1, <1>f DEF WriteByte
  <2> QED
    BY <1>3, <1>5, <2>1, <2>2, <2>3, <2>4, <2>5, <2>6, AdvanceRing DEF Consumer
<1>6. CASE Main
  BY <1>6, <1>2 DEF Main
<1>7. CASE UNCHANGED vars
  BY <1>7, <1>2 DEF vars
<1> QED
  BY <1>4, <1>5, <1>6, <1>7 DEF Next
-----------------------------------------------------------------------------
(* Refinement. *)

LEMMA NextRefines ==
  TypeInv /\ MutexInv /\ TokenInv /\ RingInv /\ [Next]_vars
    => [Ring!Next]_<<put, got>>
<1> SUFFICES ASSUME TypeInv, MutexInv, TokenInv, RingInv, [Next]_vars
             PROVE Ring!Next \/ UNCHANGED <<put, got>>
  OBVIOUS
<1> USE ThreadFacts
<1>1. TypeOK /\ put \in Seq(Items) /\ got \in Seq(Items)
  BY DEF TypeInv, TypeOK
<1>2. ASSUME NEW t \in Producers, InsertItem(t) PROVE Ring!Next
  <2>1. pc[t] = "insert"
    BY <1>2 DEF InsertItem, Goto, At
  <2>2. item[buf[t]] \in Items
    BY <1>1, <2>1 DEF TypeInv, TypeOK, Holding
  <2>3. Ring!Put(item[buf[t]])
    BY <1>1, <1>2, <2>1, InsertRoom DEF InsertItem, Ring!Put
  <2> QED
    BY <2>2, <2>3 DEF Ring!Next
<1>3. ASSUME NEW t \in Consumers, Goto(t, "remove", "advanceRemove"),
             UNCHANGED <<ring, put>>, got' = Append(got, buffer[removePointer])
      PROVE Ring!Next
  <2>1. pc[t] = "remove"
    BY <1>3 DEF Goto, At
  <2>2. buffer[removePointer] \in Items
    BY <1>1 DEF TypeOK
  <2>3. removePointer = Len(got) % bufSize
    BY <2>1 DEF MutexInv, MutualExclusion, Critical, RingInv, PointerInv
  <2>4. Len(got) < Len(put) => buffer[removePointer] = put[Len(got) + 1]
    <3>1. ASSUME Len(got) < Len(put)
          PROVE Len(got) + 1 \in Len(got) + 1 .. Len(put) /\ (Len(got) + 1) - 1 = Len(got)
      BY <1>1, <3>1
    <3> QED
      BY <2>3, <3>1 DEF RingInv, WindowInv
  <2>5. Ring!Take(buffer[removePointer])
    BY <1>1, <1>3, <2>1, <2>4, RemoveRoom DEF Ring!Take
  <2> QED
    BY <2>2, <2>5 DEF Ring!Next
<1>4. ASSUME NEW t \in Producers, Producer(t), ~InsertItem(t)
      PROVE UNCHANGED <<put, got>>
  BY <1>4 DEF Producer, LockRead, SeekIn, ReadByte, ReadNothing, WaitEmpty,
     LockInsert, AdvanceInsert, PostFull, Lock, NullFault, Fail, Exit, Stop, history
<1>5. ASSUME NEW t \in Consumers, Consumer(t), ~RemoveItem(t)
      PROVE UNCHANGED <<put, got>>
  BY <1>5 DEF Consumer, Test, Move, WaitFull, LockRemove, AdvanceRemove,
     PostEmpty, LockWrite, SeekOut, WriteByte, Lock, Fail, Exit, Stop, history
<1>6. ASSUME NEW t \in Consumers, RemoveItem(t)
      PROVE Ring!Next \/ UNCHANGED <<put, got>>
  BY <1>3, <1>6 DEF RemoveItem, NullFault, Stop, history
<1>7. CASE Main \/ UNCHANGED vars
  BY <1>7 DEF Main, vars, history
<1> QED
  BY <1>2, <1>4, <1>5, <1>6, <1>7 DEF Next

\* Whatever the interleaving, the k-th item fetched is the k-th item stored,
\* within the capacity, as long as it had been stored.
THEOREM RingRefines == Spec => RingSpec
<1>1. Init => Ring!Init
  BY DEF Init, Ring!Init
<1>2. Init => MutexInv
  BY DEF Init, MutexInv, MutualExclusion, Critical
<1>3. TypeInv => TypeOK
  BY DEF TypeInv
<1> QED
  BY InitTypeInv, NextTypeInv, <1>1, <1>2, <1>3, NextMutexInv, InitTokens,
     NextTokens, InitRing, NextRing, NextRefines, PTL
     DEF Spec, RingSpec, Ring!Spec, Ring!vars
-----------------------------------------------------------------------------
(* The end of the program. *)

\* With no more slots than consumers no consumer ends, so main, in its joins,
\* is never past a consumer that could be created.
EndInv ==
  bufSize <= nOUT =>
    /\ \A t \in Consumers : pc[t] # "done"
    /\ \A t \in Consumers \ absent : joined <= t
    /\ outcome = "returned" => Consumers \subseteq absent

LEMMA ProducersOnly == \A t \in Producers : t \notin Consumers
  BY CopyAssumption DEF Producers, Consumers

LEMMA NextEndInv == TypeInv /\ EndInv /\ [Next]_vars => EndInv'
<1> DEFINE Goal == /\ \A t \in Consumers : pc'[t] # "done"
                   /\ \A t \in Consumers \ absent' : joined' <= t
                   /\ outcome' = "returned" => Consumers \subseteq absent'
<1> SUFFICES ASSUME TypeInv, EndInv, [Next]_vars, bufSize <= nOUT PROVE Goal
  BY DEF EndInv
<1> USE ThreadFacts
<1>1. /\ TypeOK /\ \A t \in Consumers : pc[t] # "done"
      /\ \A t \in Consumers \ absent : joined <= t
      /\ outcome = "returned" => Consumers \subseteq absent
  BY DEF TypeInv, EndInv
<1>2. ASSUME NEW t \in Threads, NEW from, NEW to, Goto(t, from, to),
             t \in Consumers => to # "done"
      PROVE  Goal
  <2>1. \A s \in Threads : pc'[s] = IF s = t THEN to ELSE pc[s]
    BY <1>1, <1>2 DEF Goto, TypeOK
  <2> QED
    BY <1>1, <1>2, <2>1 DEF Goto, mainv
<1>3. ASSUME NEW t \in Threads, NEW at, Exit(t) \/ NullFault(t, at)
      PROVE  Goal
  BY <1>1, <1>3 DEF Exit, NullFault, Stop
<1>4. ASSUME NEW t \in Producers, Producer(t) PROVE Goal
  <2>1. \/ \E from, to : Goto(t, from, to)
        \/ \E at : Exit(t) \/ NullFault(t, at)
    BY <1>4 DEF Producer, LockRead, SeekIn, ReadByte, ReadNothing, WaitEmpty,
       LockInsert, InsertItem, AdvanceInsert, PostFull, Lock, Fail
  <2> QED
    BY <2>1, <1>2, <1>3, ProducersOnly
<1>5. ASSUME NEW t \in Consumers, Consumer(t) PROVE Goal
  <2>1. removePointer < nOUT
    BY <1>1, CopyAssumption DEF TypeOK, Slots
  <2>2. \/ \E from, to : Goto(t, from, to) /\ to # "done"
        \/ \E at : Exit(t) \/ NullFault(t, at)
    BY <1>5, <2>1 DEF Consumer, Test, Move, WaitFull, LockRemove, RemoveItem,
       AdvanceRemove, PostEmpty, LockWrite, SeekOut, WriteByte, Lock, Fail
  <2> QED
    BY <2>2, <1>2, <1>3
<1>6. CASE Main
  <2>1. pc' = pc
    BY <1>6 DEF Main
  <2>2. CASE CreateThread
    BY <1>1, <2>1, <2>2 DEF CreateThread
  <2>3. CASE JoinThread
    <3>1. joined \in 0 .. nIN + nOUT - 1 /\ joined \notin Consumers \ absent
      BY <1>1, <2>3, CopyAssumption DEF JoinThread, Joining, TypeOK
    <3>2. ASSUME NEW t \in Consumers \ absent PROVE joined + 1 <= t
      <4>1. joined <= t /\ joined # t /\ t \in Int /\ joined \in Int
        BY <1>1, <3>1, CopyAssumption DEF Consumers
      <4> QED
        BY <4>1
    <3> QED
      BY <1>1, <2>1, <2>3, <3>2 DEF JoinThread, Joining
  <2>4. CASE JoinCrashes
    BY <1>1, <2>1, <2>4 DEF JoinCrashes, Joining
  <2>5. CASE Return
    <3>1. \A t \in Consumers : ~(joined <= t)
      BY <2>5, CopyAssumption DEF Return, Consumers
    <3> QED
      BY <1>1, <2>1, <2>5, <3>1 DEF Return
  <2> QED
    BY <1>6, <2>2, <2>3, <2>4, <2>5 DEF Main
<1>7. CASE UNCHANGED vars
  BY <1>1, <1>7 DEF vars, mainv
<1> QED
  BY <1>4, <1>5, <1>6, <1>7 DEF Next

\* Whatever the file, the threads and the faults, a run with bufSize <= nOUT
\* and a consumer never gets to the return of main.
THEOREM NoReturn == Spec => []NeverReturns
<1>1. Init => EndInv
  <2>1. \A t \in Consumers : 0 <= t
    BY CopyAssumption DEF Consumers
  <2> QED
    BY <2>1, ThreadFacts, ProducersOnly DEF Init, EndInv
<1>2. EndInv => NeverReturns
  BY DEF EndInv, NeverReturns
<1> QED
  BY InitTypeInv, NextTypeInv, NextEndInv, <1>1, <1>2, PTL DEF Spec
-----------------------------------------------------------------------------
(* The bytes, in every run in which the threads' buf pointers are distinct.  *)

Carrying == {"waitEmpty", "lockInsert", "insert"}
Fetching == {"advanceRemove", "postEmpty", "lockWrite", "seekOut", "write"}
Lingering == Fetching \cup {"exit"}

\* What is between the file and the buffer: the seek and the read of a producer
\* meet, and every item stored or carried is a byte read with its own offset.
ReadInv ==
  /\ \A t \in Threads : pc[t] = "read" => item[buf[t]].offset = posIn
  /\ Len(put) + Count(Carrying) = posIn
  /\ \A t \in Threads :
       pc[t] \in Carrying => \E o \in 0 .. posIn - 1 : item[buf[t]] = FileItem(o)
  /\ \A i \in 1 .. Len(put) : \E o \in 0 .. posIn - 1 : put[i] = FileItem(o)
  /\ \A o \in 0 .. posIn - 1 :
       \/ \E i \in 1 .. Len(put) : put[i] = FileItem(o)
       \/ \E t \in Threads : pc[t] \in Carrying /\ item[buf[t]] = FileItem(o)

\* What is between the buffer and the copy: the seek and the write of a consumer
\* meet, every byte written was fetched with its offset, and every item fetched
\* is written or in the hands of a consumer, which may be about to exit.
WriteInv ==
  /\ \A t \in Threads : pc[t] = "write" => item[buf[t]].offset = posOut
  /\ \A t \in Threads :
       pc[t] \in Fetching => \E i \in 1 .. Len(got) : got[i] = item[buf[t]]
  /\ \A o \in DOMAIN fileOut :
       \E i \in 1 .. Len(got) : got[i].offset = o /\ got[i].data = fileOut[o]
  /\ \A i \in 1 .. Len(got) :
       \/ got[i].offset \in DOMAIN fileOut
       \/ \E t \in Consumers : pc[t] \in Lingering /\ item[buf[t]] = got[i]

ByteInv == DistinctBufs /\ ReadInv /\ WriteInv

\* No step of one thread reaches the cell another thread is using.
LEMMA CellsApart ==
  ASSUME TypeInv, DistinctBufs, NEW s \in Threads, NEW t \in Threads,
         s # t, pc[s] \in Holding
  PROVE  buf[s] \in Cells /\ buf[s] # buf[t]
BY CopyAssumption DEF TypeInv, DistinctBufs

\* A step of t that touches no item another thread holds, stores nothing, and
\* from and to labels that carry the same item.
LEMMA QuietRead ==
  ASSUME TypeInv, ReadInv, NEW t \in Threads, NEW from, NEW to,
         Goto(t, from, to), UNCHANGED <<put, posIn>>,
         from \in Carrying <=> to \in Carrying, to # "read",
         \A s \in Threads : s # t /\ pc[s] \in Holding
                              => item'[buf[s]] = item[buf[s]],
         from \in Carrying => item'[buf[t]] = item[buf[t]]
  PROVE  ReadInv'
<1>1. /\ pc[t] = from /\ pc'[t] = to /\ buf' = buf
      /\ \A s \in Threads : s # t => pc'[s] = pc[s]
  BY DEF TypeInv, TypeOK, Goto, At
<1>2. \A s \in Threads : pc'[s] \in Carrying \cup {"read"} /\ s # t
                           => item'[buf[s]] = item[buf[s]]
  BY <1>1 DEF Carrying, Holding
<1>3. \A s \in Threads : pc'[s] \in Carrying
                           <=> pc[s] \in Carrying
  BY <1>1
<1>4. \A s \in Threads : pc'[s] \in Carrying => item'[buf'[s]] = item[buf[s]]
  BY <1>1, <1>2
<1>5. \A s \in Threads : pc'[s] = "read" => item'[buf'[s]].offset = posIn'
  BY <1>1, <1>2 DEF ReadInv
<1>6. Count(Carrying)' = Count(Carrying)
  BY CountMove, CountFinite DEF TypeInv, Ind
<1>7. Len(put') + Count(Carrying)' = posIn'
  BY <1>6 DEF ReadInv
<1>8. \A s \in Threads : pc'[s] \in Carrying
           => \E o \in 0 .. posIn' - 1 : item'[buf'[s]] = FileItem(o)
  BY <1>3, <1>4 DEF ReadInv
<1>9. \A i \in 1 .. Len(put') : \E o \in 0 .. posIn' - 1 : put'[i] = FileItem(o)
  BY DEF ReadInv
<1>10. \A o \in 0 .. posIn' - 1 :
       \/ \E i \in 1 .. Len(put') : put'[i] = FileItem(o)
       \/ \E s \in Threads : pc'[s] \in Carrying /\ item'[buf'[s]] = FileItem(o)
  BY <1>3, <1>4 DEF ReadInv
<1> QED
  BY <1>5, <1>7, <1>8, <1>9, <1>10 DEF ReadInv, FileItem

LEMMA QuietWrite ==
  ASSUME TypeInv, WriteInv, NEW t \in Threads, NEW from, NEW to,
         Goto(t, from, to), UNCHANGED <<got, fileOut>>,
         to \in Fetching => from \in Fetching, to # "write",
         from \in Lingering => to \in Lingering,
         posOut' = posOut \/ from \in Critical, MutexInv,
         \A s \in Threads : s # t /\ pc[s] \in Holding
                              => item'[buf[s]] = item[buf[s]],
         from \in Lingering => item'[buf[t]] = item[buf[t]]
  PROVE  WriteInv'
<1>1. /\ pc[t] = from /\ pc'[t] = to /\ buf' = buf
      /\ \A s \in Threads : s # t => pc'[s] = pc[s]
  BY DEF TypeInv, TypeOK, Goto, At
<1>2. \A s \in Threads : /\ pc'[s] \in Fetching => pc[s] \in Fetching
                         /\ pc[s] \in Lingering => pc'[s] \in Lingering
  BY <1>1
<1>3. \A s \in Threads : pc[s] \in Lingering => item'[buf'[s]] = item[buf[s]]
  BY <1>1 DEF Lingering, Fetching, Holding
<1>4. ASSUME NEW s \in Threads, pc'[s] = "write"
      PROVE  item'[buf'[s]].offset = posOut'
  <2>1. s # t /\ pc[s] = "write" /\ pc[s] \in Fetching /\ pc[s] \in Critical
    BY <1>1, <1>4 DEF Fetching, Critical
  <2>2. posOut' = posOut
    BY <1>1, <2>1 DEF MutexInv, MutualExclusion
  <2> QED
    BY <1>3, <2>1, <2>2 DEF WriteInv, Lingering
<1>5. \A s \in Threads :
        pc'[s] \in Fetching => \E i \in 1 .. Len(got') : got'[i] = item'[buf'[s]]
  BY <1>2, <1>3 DEF WriteInv, Lingering
<1>6. \A i \in 1 .. Len(got') :
       \/ got'[i].offset \in DOMAIN fileOut'
       \/ \E s \in Consumers : pc'[s] \in Lingering /\ item'[buf'[s]] = got'[i]
  BY <1>2, <1>3, ThreadFacts DEF WriteInv
<1>7. \A o \in DOMAIN fileOut' :
       \E i \in 1 .. Len(got') : got'[i].offset = o /\ got'[i].data = fileOut'[o]
  BY DEF WriteInv
<1> QED
  BY <1>4, <1>5, <1>6, <1>7 DEF WriteInv

\* A step of one thread that leaves the items alone, and the files but for posOut.
LEMMA QuietBytes ==
  ASSUME TypeInv, MutexInv, ByteInv, NEW t \in Threads, NEW from, NEW to,
         Goto(t, from, to), UNCHANGED <<item, posIn, fileOut, history>>,
         from \in Carrying <=> to \in Carrying, to # "read",
         to \in Fetching => from \in Fetching, to # "write",
         from \in Lingering => to \in Lingering,
         posOut' = posOut \/ from \in Critical
  PROVE  ByteInv'
<1>1. put' = put /\ got' = got
  BY DEF history
<1>2. ReadInv'
  BY <1>1, QuietRead DEF ByteInv
<1>3. WriteInv'
  BY <1>1, QuietWrite DEF ByteInv
<1>4. DistinctBufs'
  BY DEF ByteInv, DistinctBufs, Goto
<1> QED
  BY <1>2, <1>3, <1>4 DEF ByteInv


LEMMA SeekInBytes ==
  ASSUME TypeInv, MutexInv, ByteInv, NEW t \in Threads,
         Goto(t, "seekIn", "read"), buf[t] # NULL,
         item' = [item EXCEPT ![buf[t]].offset = posIn],
         UNCHANGED <<files, history>>
  PROVE  ByteInv'
<1>1. /\ pc[t] = "seekIn" /\ pc'[t] = "read" /\ buf' = buf /\ buf[t] \in Cells
      /\ \A s \in Threads : s # t => pc'[s] = pc[s]
      /\ UNCHANGED <<posIn, posOut, fileOut, put, got>>
  BY DEF TypeInv, TypeOK, Goto, At, files, history
<1>2. \A s \in Threads : s # t /\ pc[s] \in Holding
                           => item'[buf[s]] = item[buf[s]]
  <2>1. \A s \in Threads : s # t /\ pc[s] \in Holding => buf[s] \in Cells /\ buf[s] # buf[t]
    BY CellsApart DEF ByteInv
  <2> QED
    BY <2>1 DEF TypeInv, TypeOK
<1>3. WriteInv'
  BY <1>1, <1>2, QuietWrite DEF ByteInv, Fetching, Lingering
<1>4. \A s \in Threads : pc[s] = "read" => FALSE
  BY <1>1 DEF MutexInv, MutualExclusion, Critical
<1>5. item'[buf[t]].offset = posIn
  <2>1. item[buf[t]] \in Items /\ item \in [Cells -> Items]
    BY <1>1 DEF TypeInv, TypeOK
  <2> QED
    BY <1>1, <2>1 DEF Items
<1>6. \A s \in Threads : pc'[s] = "read" => item'[buf'[s]].offset = posIn'
  BY <1>1, <1>4, <1>5
<1>7. \A s \in Threads : /\ pc'[s] \in Carrying <=> pc[s] \in Carrying
                         /\ pc[s] \in Carrying => item'[buf'[s]] = item[buf[s]]
  BY <1>1, <1>2 DEF Carrying, Holding
<1>8. Count(Carrying)' = Count(Carrying)
  BY CountMove, CountFinite DEF TypeInv, Ind, Carrying
<1>9. ReadInv'
  <2>1. Len(put') + Count(Carrying)' = posIn'
    BY <1>1, <1>8 DEF ByteInv, ReadInv
  <2>2. \A s \in Threads : pc'[s] \in Carrying
             => \E o \in 0 .. posIn' - 1 : item'[buf'[s]] = FileItem(o)
    BY <1>1, <1>7 DEF ByteInv, ReadInv
  <2>3. \A i \in 1 .. Len(put') : \E o \in 0 .. posIn' - 1 : put'[i] = FileItem(o)
    BY <1>1 DEF ByteInv, ReadInv
  <2>4. \A o \in 0 .. posIn' - 1 :
         \/ \E i \in 1 .. Len(put') : put'[i] = FileItem(o)
         \/ \E s \in Threads : pc'[s] \in Carrying /\ item'[buf'[s]] = FileItem(o)
    BY <1>1, <1>7 DEF ByteInv, ReadInv
  <2> QED
    BY <1>6, <2>1, <2>2, <2>3, <2>4 DEF ReadInv, FileItem
<1> QED
  BY <1>1, <1>3, <1>9 DEF ByteInv, DistinctBufs

\* A failing call: the cell of a producer may hold the -1 of its lseek.
LEMMA FailBytes ==
  ASSUME TypeInv, MutexInv, ByteInv, NEW t \in Threads,
         NEW at \in {"seekIn", "seekOut", "write"}, Fail(t, at),
         \/ UNCHANGED item
         \/ /\ at = "seekIn" /\ buf[t] # NULL
            /\ item' = [item EXCEPT ![buf[t]].offset = -1]
  PROVE  ByteInv'
<1>1. /\ Goto(t, at, "exit") /\ UNCHANGED <<posIn, posOut, fileOut, put, got>>
      /\ buf' = buf
  BY DEF Fail, Goto, files, history
<1>2. \A s \in Threads : s # t /\ pc[s] \in Holding
                           => item'[buf[s]] = item[buf[s]]
  <2>1. \A s \in Threads : s # t /\ pc[s] \in Holding => buf[s] \in Cells /\ buf[s] # buf[t]
    BY CellsApart DEF ByteInv
  <2> QED
    BY <2>1 DEF TypeInv, TypeOK
<1>3. at \notin Carrying /\ "exit" \notin Carrying
  BY DEF Carrying
<1>4. ReadInv'
  BY <1>1, <1>2, <1>3, QuietRead DEF ByteInv
<1>5. /\ "exit" \notin Fetching /\ "exit" \in Lingering
      /\ at \in Lingering => item' = item
  BY DEF Fetching, Lingering
<1>6. WriteInv'
  BY <1>1, <1>2, <1>5, QuietWrite DEF ByteInv
<1> QED
  BY <1>1, <1>4, <1>6 DEF ByteInv, DistinctBufs

LEMMA ReadByteBytes ==
  ASSUME TypeInv, MutexInv, ByteInv, NEW t \in Threads, ReadByte(t)
  PROVE  ByteInv'
<1>1. /\ pc[t] = "read" /\ pc'[t] = "waitEmpty" /\ buf' = buf /\ buf[t] \in Cells
      /\ \A s \in Threads : s # t => pc'[s] = pc[s]
      /\ UNCHANGED <<posOut, fileOut, put, got>>
      /\ posIn' = posIn + 1 /\ posIn \in Nat
      /\ item' = [item EXCEPT ![buf[t]].data = File[posIn]]
      /\ Goto(t, "read", "waitEmpty")
  BY DEF TypeInv, TypeOK, ReadByte, Goto, At, history, Holding
<1>2. \A s \in Threads : s # t /\ pc[s] \in Holding
                           => item'[buf[s]] = item[buf[s]]
  <2>1. \A s \in Threads : s # t /\ pc[s] \in Holding => buf[s] \in Cells /\ buf[s] # buf[t]
    BY CellsApart DEF ByteInv
  <2> QED
    BY <1>1, <2>1 DEF TypeInv, TypeOK
<1>3. WriteInv'
  BY <1>1, <1>2, QuietWrite DEF ByteInv, Fetching, Lingering
<1>4. \A s \in Threads : pc'[s] # "read"
  BY <1>1 DEF MutexInv, MutualExclusion, Critical
<1>5. item'[buf'[t]] = FileItem(posIn)
  <2>1. item[buf[t]] \in Items /\ item \in [Cells -> Items]
    BY <1>1 DEF TypeInv, TypeOK
  <2>2. item[buf[t]].offset = posIn
    BY <1>1 DEF ByteInv, ReadInv
  <2>3. item'[buf[t]] = [item[buf[t]] EXCEPT !.data = File[posIn]]
    BY <1>1, <2>1
  <2> QED
    BY <1>1, <2>1, <2>2, <2>3 DEF Items, FileItem
<1>6. \A s \in Threads : s # t =>
         /\ pc'[s] \in Carrying <=> pc[s] \in Carrying
         /\ pc[s] \in Carrying => item'[buf'[s]] = item[buf[s]]
  BY <1>1, <1>2 DEF Carrying, Holding
<1>7. pc[t] \notin Carrying /\ pc'[t] \in Carrying
  BY <1>1 DEF Carrying
<1>8. Count(Carrying)' = Count(Carrying) + 1 /\ Count(Carrying) \in Nat
  BY <1>1, CountMove, CountFinite DEF TypeInv, Ind, Carrying
<1>9. ReadInv'
  <2>1. Len(put') + Count(Carrying)' = posIn'
    BY <1>1, <1>8 DEF ByteInv, ReadInv, TypeInv, TypeOK
  <2>2. \A s \in Threads : pc'[s] \in Carrying
             => \E o \in 0 .. posIn' - 1 : item'[buf'[s]] = FileItem(o)
    BY <1>1, <1>5, <1>6 DEF ByteInv, ReadInv
  <2>3. \A i \in 1 .. Len(put') : \E o \in 0 .. posIn' - 1 : put'[i] = FileItem(o)
    BY <1>1 DEF ByteInv, ReadInv
  <2>4. ASSUME NEW o \in 0 .. posIn' - 1
        PROVE  \/ \E i \in 1 .. Len(put') : put'[i] = FileItem(o)
               \/ \E s \in Threads : pc'[s] \in Carrying /\ item'[buf'[s]] = FileItem(o)
    <3>1. CASE o = posIn
      BY <3>1, <1>5, <1>7
    <3>2. CASE o \in 0 .. posIn - 1
      BY <3>2, <1>1, <1>6, <1>7 DEF ByteInv, ReadInv
    <3> QED
      BY <1>1, <3>1, <3>2
  <2> QED
    BY <1>4, <2>1, <2>2, <2>3, <2>4 DEF ReadInv, FileItem
<1> QED
  BY <1>1, <1>3, <1>9 DEF ByteInv, DistinctBufs

LEMMA InsertBytes ==
  ASSUME TypeInv, MutexInv, ByteInv, NEW t \in Threads, InsertItem(t)
  PROVE  ByteInv'
<1>1. /\ pc[t] = "insert" /\ pc'[t] = "advanceInsert" /\ buf' = buf
      /\ \A s \in Threads : s # t => pc'[s] = pc[s]
      /\ UNCHANGED <<posIn, posOut, fileOut, item, got>>
      /\ Goto(t, "insert", "advanceInsert")
  BY DEF TypeInv, TypeOK, InsertItem, Goto, At, files
<1>2. /\ Len(put') = Len(put) + 1 /\ Len(put) \in Nat
      /\ \A i \in 1 .. Len(put) : put'[i] = put[i]
      /\ put'[Len(put) + 1] = item[buf[t]]
  <2>1. item[buf[t]] \in Items /\ put \in Seq(Items)
    BY <1>1 DEF TypeInv, TypeOK, Holding
  <2>2. put' = Append(put, item[buf[t]])
    BY DEF InsertItem
  <2> QED
    BY <2>1, <2>2
<1>3. WriteInv'
  BY <1>1, QuietWrite DEF ByteInv, Fetching, Lingering
<1>4. pc[t] \in Carrying /\ pc'[t] \notin Carrying /\ pc'[t] # "read"
  BY <1>1 DEF Carrying
<1>5. \A s \in Threads : pc'[s] \in Carrying => pc[s] \in Carrying
  BY <1>1, <1>4
<1>6. Count(Carrying)' = Count(Carrying) - 1 /\ Count(Carrying) \in Nat
  BY <1>1, CountMove, CountFinite DEF TypeInv, Ind, Carrying
<1>7. PICK p \in 0 .. posIn - 1 : item[buf[t]] = FileItem(p)
  BY <1>4 DEF ByteInv, ReadInv
<1>8. ReadInv'
  <2>0. \A s \in Threads : pc'[s] = "read" => item'[buf'[s]].offset = posIn'
    BY <1>1, <1>4 DEF ByteInv, ReadInv
  <2>1. Len(put') + Count(Carrying)' = posIn'
    BY <1>1, <1>2, <1>6 DEF ByteInv, ReadInv, TypeInv, TypeOK
  <2>2. \A s \in Threads : pc'[s] \in Carrying
             => \E o \in 0 .. posIn' - 1 : item'[buf'[s]] = FileItem(o)
    BY <1>1, <1>5 DEF ByteInv, ReadInv
  <2>3. ASSUME NEW i \in 1 .. Len(put')
        PROVE  \E o \in 0 .. posIn' - 1 : put'[i] = FileItem(o)
    <3>1. CASE i \in 1 .. Len(put)
      BY <1>1, <1>2, <3>1 DEF ByteInv, ReadInv
    <3>2. CASE i = Len(put) + 1
      BY <1>1, <1>2, <1>7, <3>2
    <3> QED
      BY <1>2, <3>1, <3>2
  <2>4. ASSUME NEW o \in 0 .. posIn' - 1
        PROVE  \/ \E i \in 1 .. Len(put') : put'[i] = FileItem(o)
               \/ \E s \in Threads : pc'[s] \in Carrying /\ item'[buf'[s]] = FileItem(o)
    <3>1. CASE \E i \in 1 .. Len(put) : put[i] = FileItem(o)
      BY <1>2, <3>1
    <3>2. CASE \E s \in Threads : pc[s] \in Carrying /\ item[buf[s]] = FileItem(o)
      <4>1. PICK s \in Threads : pc[s] \in Carrying /\ item[buf[s]] = FileItem(o)
        BY <3>2
      <4>2. CASE s = t
        BY <1>2, <4>1, <4>2
      <4>3. CASE s # t
        BY <1>1, <4>1, <4>3
      <4> QED
        BY <4>2, <4>3
    <3> QED
      BY <1>1, <3>1, <3>2 DEF ByteInv, ReadInv
  <2> QED
    BY <2>0, <2>1, <2>2, <2>3, <2>4 DEF ReadInv, FileItem
<1> QED
  BY <1>1, <1>3, <1>8 DEF ByteInv, DistinctBufs

LEMMA RemoveBytes ==
  ASSUME TypeInv, MutexInv, ByteInv, NEW t \in Consumers,
         Goto(t, "remove", "advanceRemove"), buf[t] # NULL,
         item' = [item EXCEPT ![buf[t]] = buffer[removePointer]],
         got' = Append(got, buffer[removePointer]),
         UNCHANGED <<files, put>>
  PROVE  ByteInv'
<1> USE ThreadFacts
<1>1. /\ pc[t] = "remove" /\ pc'[t] = "advanceRemove" /\ buf' = buf
      /\ buf[t] \in Cells
      /\ \A s \in Threads : s # t => pc'[s] = pc[s]
      /\ UNCHANGED <<posIn, posOut, fileOut, put>>
  BY DEF TypeInv, TypeOK, Goto, At, files
<1>2. \A s \in Threads : s # t /\ pc[s] \in Holding
                           => item'[buf[s]] = item[buf[s]]
  <2>1. \A s \in Threads : s # t /\ pc[s] \in Holding => buf[s] \in Cells /\ buf[s] # buf[t]
    BY CellsApart DEF ByteInv
  <2> QED
    BY <1>1, <2>1 DEF TypeInv, TypeOK
<1>3. ReadInv'
  BY <1>1, <1>2, QuietRead DEF ByteInv, Carrying
<1>4. /\ Len(got') = Len(got) + 1 /\ Len(got) \in Nat
      /\ \A i \in 1 .. Len(got) : got'[i] = got[i]
      /\ got'[Len(got) + 1] = item'[buf'[t]]
  <2>1. buffer[removePointer] \in Items /\ got \in Seq(Items)
    BY DEF TypeInv, TypeOK
  <2>2. item'[buf[t]] = buffer[removePointer]
    BY <1>1 DEF TypeInv, TypeOK
  <2> QED
    BY <1>1, <2>1, <2>2
<1>5. pc[t] \notin Lingering /\ pc'[t] \in Lingering
  BY <1>1 DEF Fetching, Lingering
<1>6. \A s \in Threads : s # t =>
         /\ pc'[s] = pc[s]
         /\ pc[s] \in Lingering => item'[buf'[s]] = item[buf[s]]
  BY <1>1, <1>2 DEF Fetching, Lingering, Holding
<1>7. WriteInv'
  <2>1. \A s \in Threads : pc'[s] = "write" => item'[buf'[s]].offset = posOut'
    BY <1>1, <1>2 DEF ByteInv, WriteInv, Holding
  <2>2. ASSUME NEW s \in Threads, pc'[s] \in Fetching
        PROVE  \E i \in 1 .. Len(got') : got'[i] = item'[buf'[s]]
    <3>1. CASE s = t
      BY <1>4, <3>1
    <3>2. CASE s # t
      BY <1>4, <1>6, <2>2, <3>2 DEF ByteInv, WriteInv, Lingering
    <3> QED
      BY <3>1, <3>2
  <2>3. \A o \in DOMAIN fileOut' :
          \E i \in 1 .. Len(got') : got'[i].offset = o /\ got'[i].data = fileOut'[o]
    BY <1>1, <1>4 DEF ByteInv, WriteInv
  <2>4. ASSUME NEW i \in 1 .. Len(got')
        PROVE  \/ got'[i].offset \in DOMAIN fileOut'
               \/ \E s \in Consumers : pc'[s] \in Lingering /\ item'[buf'[s]] = got'[i]
    <3>1. CASE i = Len(got) + 1
      BY <1>4, <1>5, <3>1
    <3>2. CASE i \in 1 .. Len(got)
      <4>1. got'[i] = got[i]
        BY <1>4, <3>2
      <4>2. CASE got[i].offset \in DOMAIN fileOut
        BY <1>1, <4>1, <4>2
      <4>3. CASE \E s \in Consumers : pc[s] \in Lingering /\ item[buf[s]] = got[i]
        BY <1>5, <1>6, <4>1, <4>3, ThreadFacts
      <4> QED
        BY <3>2, <4>2, <4>3 DEF ByteInv, WriteInv
    <3> QED
      BY <1>4, <3>1, <3>2
  <2> QED
    BY <2>1, <2>2, <2>3, <2>4 DEF WriteInv
<1> QED
  BY <1>1, <1>3, <1>7 DEF ByteInv, DistinctBufs

LEMMA SeekOutBytes ==
  ASSUME TypeInv, MutexInv, ByteInv, NEW t \in Threads,
         Goto(t, "seekOut", "write"), posOut' = item[buf[t]].offset,
         UNCHANGED <<item, posIn, fileOut, history>>
  PROVE  ByteInv'
<1>1. /\ pc[t] = "seekOut" /\ pc'[t] = "write" /\ buf' = buf
      /\ \A s \in Threads : s # t => pc'[s] = pc[s]
      /\ UNCHANGED <<put, got>>
  BY DEF TypeInv, TypeOK, Goto, At, history
<1>2. ReadInv'
  BY <1>1, QuietRead DEF ByteInv, Carrying
<1>3. \A s \in Threads : pc'[s] = "write" => item'[buf'[s]].offset = posOut'
  <2>1. \A s \in Threads : s # t => pc[s] # "write"
    BY <1>1 DEF MutexInv, MutualExclusion, Critical
  <2> QED
    BY <1>1, <2>1
<1>4. \A s \in Threads : /\ pc'[s] \in Fetching <=> pc[s] \in Fetching
                         /\ pc'[s] \in Lingering <=> pc[s] \in Lingering
  BY <1>1 DEF Fetching, Lingering
<1>5. WriteInv'
  BY <1>1, <1>3, <1>4, ThreadFacts DEF ByteInv, WriteInv
<1> QED
  BY <1>1, <1>2, <1>5 DEF ByteInv, DistinctBufs

LEMMA WriteByteBytes ==
  ASSUME TypeInv, MutexInv, ByteInv, NEW t \in Threads,
         Goto(t, "write", "test"),
         fileOut' = [o \in DOMAIN fileOut \cup {posOut} |->
                       IF o = posOut THEN item[buf[t]].data ELSE fileOut[o]],
         posOut' = posOut + 1,
         UNCHANGED <<item, posIn, history>>
  PROVE  ByteInv'
<1>1. /\ pc[t] = "write" /\ pc'[t] = "test" /\ buf' = buf
      /\ \A s \in Threads : s # t => pc'[s] = pc[s]
      /\ UNCHANGED <<put, got>>
  BY DEF TypeInv, TypeOK, Goto, At, history
<1>2. ReadInv'
  BY <1>1, QuietRead DEF ByteInv, Carrying
<1>3. \A s \in Threads : pc'[s] # "write"
  BY <1>1 DEF MutexInv, MutualExclusion, Critical
<1>4. \A s \in Threads : /\ pc'[s] \in Fetching <=> pc[s] \in Fetching /\ s # t
                         /\ pc'[s] \in Lingering <=> pc[s] \in Lingering /\ s # t
  BY <1>1 DEF Fetching, Lingering
<1>5. item[buf[t]].offset = posOut
  BY <1>1 DEF ByteInv, WriteInv
<1>6. PICK j \in 1 .. Len(got) : got[j] = item[buf[t]]
  BY <1>1 DEF ByteInv, WriteInv, Fetching
<1>7. WriteInv'
  <2>1. \A s \in Threads :
          pc'[s] \in Fetching => \E i \in 1 .. Len(got') : got'[i] = item'[buf'[s]]
    BY <1>1, <1>4 DEF ByteInv, WriteInv
  <2>2. ASSUME NEW o \in DOMAIN fileOut'
        PROVE  \E i \in 1 .. Len(got') : got'[i].offset = o /\ got'[i].data = fileOut'[o]
    <3>1. CASE o = posOut
      BY <1>1, <1>5, <1>6, <3>1
    <3>2. CASE o # posOut
      BY <1>1, <2>2, <3>2 DEF ByteInv, WriteInv
    <3> QED
      BY <3>1, <3>2
  <2>3. ASSUME NEW i \in 1 .. Len(got')
        PROVE  \/ got'[i].offset \in DOMAIN fileOut'
               \/ \E s \in Consumers : pc'[s] \in Lingering /\ item'[buf'[s]] = got'[i]
    <3>1. CASE got[i].offset \in DOMAIN fileOut
      BY <1>1, <3>1
    <3>2. CASE \E s \in Consumers : pc[s] \in Lingering /\ item[buf[s]] = got[i]
      BY <1>1, <1>4, <1>5, <3>2, ThreadFacts
    <3> QED
      BY <1>1, <3>1, <3>2 DEF ByteInv, WriteInv
  <2> QED
    BY <1>3, <2>1, <2>2, <2>3 DEF WriteInv
<1> QED
  BY <1>1, <1>2, <1>7 DEF ByteInv, DistinctBufs

LEMMA NextByteInv ==
  TypeInv /\ MutexInv /\ ByteInv /\ [Next]_vars => ByteInv'
<1> SUFFICES ASSUME TypeInv, MutexInv, ByteInv, [Next]_vars PROVE ByteInv'
  OBVIOUS
<1> USE ThreadFacts
<1>a. TypeOK /\ DistinctBufs /\ ReadInv /\ WriteInv
  BY DEF TypeInv, ByteInv
<1>b. UNCHANGED buf => DistinctBufs'
  BY <1>a DEF DistinctBufs
<1>c. ASSUME UNCHANGED <<pc, buf, item, posIn, posOut, fileOut, put, got>>
      PROVE  ByteInv'
  BY <1>a, <1>b, <1>c
     DEF ByteInv, ReadInv, WriteInv, Count, ThreadsAt
<1>d. ASSUME NEW t \in Threads, NEW at, Exit(t) \/ NullFault(t, at)
      PROVE  ByteInv'
  BY <1>c, <1>d DEF Exit, NullFault, Stop, files, history
<1>1. ASSUME NEW t \in Producers, Producer(t) PROVE ByteInv'
  <2>0. t \in Threads
    OBVIOUS
  <2>1. CASE LockRead(t) \/ LockInsert(t)
    BY <2>1, QuietBytes
       DEF LockRead, LockInsert, Lock, Carrying, Fetching, Lingering, files
  <2>2. CASE SeekIn(t)
    <3>1. CASE /\ Goto(t, "seekIn", "read") /\ buf[t] # NULL
               /\ item' = [item EXCEPT ![buf[t]].offset = posIn]
               /\ UNCHANGED <<files, history>>
      BY <3>1, <2>0, SeekInBytes
    <3> QED
      BY <2>2, <3>1, <1>d, FailBytes DEF SeekIn
  <2>3. CASE ReadByte(t)
    BY <2>3, ReadByteBytes
  <2>4. CASE ReadNothing(t) \/ WaitEmpty(t) \/ AdvanceInsert(t) \/ PostFull(t)
    BY <2>4, QuietBytes
       DEF ReadNothing, WaitEmpty, AdvanceInsert, PostFull, Carrying, Fetching,
           Lingering, files
  <2>5. CASE InsertItem(t)
    BY <2>5, InsertBytes
  <2> QED
    BY <1>d, <1>1, <2>1, <2>2, <2>3, <2>4, <2>5 DEF Producer
<1>2. ASSUME NEW t \in Consumers, Consumer(t) PROVE ByteInv'
  <2>0. t \in Threads
    OBVIOUS
  <2>1. CASE LockRemove(t) \/ LockWrite(t)
    BY <2>1, QuietBytes
       DEF LockRemove, LockWrite, Lock, Carrying, Fetching, Lingering, files
  <2>2. CASE Test(t) \/ WaitFull(t) \/ AdvanceRemove(t) \/ PostEmpty(t)
    BY <2>2, QuietBytes
       DEF Test, Move, WaitFull, AdvanceRemove, PostEmpty, Carrying, Fetching,
           Lingering, files
  <2>3. CASE RemoveItem(t)
    <3>1. CASE /\ Goto(t, "remove", "advanceRemove") /\ buf[t] # NULL
               /\ item' = [item EXCEPT ![buf[t]] = buffer[removePointer]]
               /\ got' = Append(got, buffer[removePointer])
               /\ UNCHANGED <<files, put>>
      BY <3>1, <2>0, RemoveBytes
    <3> QED
      BY <2>3, <3>1, <1>d DEF RemoveItem
  <2>4. CASE SeekOut(t)
    <3>1. CASE /\ Goto(t, "seekOut", "write")
               /\ posOut' = item[buf[t]].offset
               /\ UNCHANGED <<item, posIn, fileOut, history>>
      BY <3>1, <2>0, SeekOutBytes
    <3> QED
      BY <2>0, <2>4, <3>1, FailBytes DEF SeekOut
  <2>5. CASE WriteByte(t)
    <3>1. CASE /\ Goto(t, "write", "test")
               /\ fileOut' = [o \in DOMAIN fileOut \cup {posOut} |->
                                IF o = posOut THEN item[buf[t]].data
                                              ELSE fileOut[o]]
               /\ posOut' = posOut + 1
               /\ UNCHANGED <<item, posIn, history>>
      BY <3>1, <2>0, WriteByteBytes
    <3> QED
      BY <2>0, <2>5, <3>1, FailBytes DEF WriteByte
  <2> QED
    BY <1>d, <1>2, <2>1, <2>2, <2>3, <2>4, <2>5 DEF Consumer
<1>3. CASE Main
  BY <1>3, <1>c DEF Main, files, history, CreateThread, JoinThread,
                  JoinCrashes, Joining, Return
<1>4. CASE UNCHANGED vars
  BY <1>4, <1>c DEF vars, files, history
<1> QED
  BY <1>1, <1>2, <1>3, <1>4 DEF Next

LEMMA InitByteInv == Init /\ DistinctBufs => ByteInv
<1> SUFFICES ASSUME Init, DistinctBufs PROVE ByteInv
  OBVIOUS
<1>1. \A t \in Threads : pc[t] \in {"lockRead", "test"}
  BY DEF Init
<1>2. Count(Carrying) = 0
  BY <1>1, FS_EmptySet DEF Count, ThreadsAt, Carrying
<1>3. Len(put) = 0 /\ Len(got) = 0 /\ posIn = 0 /\ DOMAIN fileOut = {}
  BY DEF Init
<1>4. \A t \in Threads : pc[t] \notin Carrying \cup Lingering \cup {"read", "write"}
  BY <1>1 DEF Carrying, Fetching, Lingering
<1> QED
  BY <1>2, <1>3, <1>4 DEF ByteInv, ReadInv, WriteInv, Lingering

LEMMA BytesFromInv == TypeOK /\ ByteInv => EveryByteOnce /\ OutputFaithful
<1> SUFFICES ASSUME TypeOK, ByteInv PROVE EveryByteOnce /\ OutputFaithful
  OBVIOUS
<1>1. /\ Carried = ThreadsAt(Carrying)
      /\ Fetched = {t \in Consumers : pc[t] \in Lingering}
  BY DEF Carried, Carrying, Fetched, Fetching, Lingering
<1>2. EveryByteOnce
  BY <1>1 DEF ByteInv, ReadInv, EveryByteOnce, Count, ThreadsAt
<1>3. ASSUME InStep
      PROVE  /\ \A o \in DOMAIN fileOut : o < FileSize /\ fileOut[o] = File[o]
             /\ \A i \in 1 .. Len(got) :
                  \/ got[i].offset \in DOMAIN fileOut
                  \/ \E t \in Fetched : item[buf[t]] = got[i]
  <2>1. ASSUME NEW o \in DOMAIN fileOut
        PROVE  o < FileSize /\ fileOut[o] = File[o]
    <3>1. PICK i \in 1 .. Len(got) : got[i].offset = o /\ got[i].data = fileOut[o]
      BY DEF ByteInv, WriteInv
    <3>2. i \in 1 .. Len(put) /\ got[i] = put[i]
      BY <1>3 DEF InStep, TypeOK
    <3>3. PICK p \in 0 .. posIn - 1 : put[i] = FileItem(p)
      BY <3>2 DEF ByteInv, ReadInv
    <3>4. p < FileSize /\ p = o /\ fileOut[o] = File[p]
      BY <3>1, <3>2, <3>3, CopyAssumption DEF TypeOK, FileItem
    <3> QED
      BY <3>4
  <2>2. \A i \in 1 .. Len(got) :
          \/ got[i].offset \in DOMAIN fileOut
          \/ \E t \in Fetched : item[buf[t]] = got[i]
    BY <1>1 DEF ByteInv, WriteInv, ThreadsAt
  <2> QED
    BY <2>1, <2>2
<1> QED
  BY <1>2, <1>3 DEF OutputFaithful

\* No step assigns a buf pointer.
LEMMA BufsStay == [Next]_vars => UNCHANGED buf
<1> SUFFICES ASSUME [Next]_vars PROVE UNCHANGED buf
  OBVIOUS
<1>1. ASSUME NEW t, Producer(t) PROVE UNCHANGED buf
  BY <1>1 DEF Producer, LockRead, Lock, SeekIn, ReadByte, ReadNothing, WaitEmpty,
              LockInsert, InsertItem, AdvanceInsert, PostFull, Exit, NullFault,
              Fail, Stop, Goto
<1>2. ASSUME NEW t, Consumer(t) PROVE UNCHANGED buf
  BY <1>2 DEF Consumer, Test, Move, WaitFull, LockRemove, Lock, RemoveItem, PostEmpty,
              AdvanceRemove, LockWrite, SeekOut, WriteByte, Exit, NullFault, Fail,
              Stop, Goto
<1> QED
  BY <1>1, <1>2 DEF Next, Main, vars

\* So the invariant holds of every run that starts with distinct pointers.
BytesIfDistinct == DistinctBufs => ByteInv

LEMMA NextBytesIfDistinct ==
  TypeInv /\ MutexInv /\ BytesIfDistinct /\ [Next]_vars => BytesIfDistinct'
BY BufsStay, NextByteInv DEF BytesIfDistinct, DistinctBufs

\* When no two threads share a BufferItem, every byte read from file_in is
\* stored once or carried by one producer, with its own offset, for every number
\* of threads, slots and bytes and whichever system calls fail.
THEOREM BytesStored == Spec => []EveryByteOnce
<1>1. TypeInv => TypeOK
  BY DEF TypeInv
<1>2. Init => MutexInv
  BY DEF Init, MutexInv, MutualExclusion, Critical
<1>3. Init => BytesIfDistinct
  BY InitByteInv DEF BytesIfDistinct
<1>4. TypeOK /\ BytesIfDistinct => EveryByteOnce /\ OutputFaithful
  BY BytesFromInv DEF BytesIfDistinct, EveryByteOnce, OutputFaithful
<1> QED
  BY InitTypeInv, NextTypeInv, NextMutexInv, NextBytesIfDistinct, <1>1, <1>2,
     <1>3, <1>4, PTL DEF Spec

\* ... and as long as the consumers have fetched what the producers stored, the
\* copy holds only the file's bytes at their own offsets and misses none that
\* was fetched.
THEOREM BytesWritten == Spec => []OutputFaithful
<1>1. TypeInv => TypeOK
  BY DEF TypeInv
<1>2. Init => MutexInv
  BY DEF Init, MutexInv, MutualExclusion, Critical
<1>3. Init => BytesIfDistinct
  BY InitByteInv DEF BytesIfDistinct
<1>4. TypeOK /\ BytesIfDistinct => EveryByteOnce /\ OutputFaithful
  BY BytesFromInv DEF BytesIfDistinct, EveryByteOnce, OutputFaithful
<1> QED
  BY InitTypeInv, NextTypeInv, NextMutexInv, NextBytesIfDistinct, <1>1, <1>2,
     <1>3, <1>4, PTL DEF Spec
=============================================================================
