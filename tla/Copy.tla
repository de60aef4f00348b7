-------------------------------- MODULE Copy --------------------------------
(***************************************************************************)
(* The multi-threaded file copier A2/copy.c.  nIN producers read file_in   *)
(* one byte at a time and put <<byte, offset>> items into a circular       *)
(* buffer; nOUT consumers take the items and write each byte at its        *)
(* offset.  One mutex protects both files and the buffer; the semaphores   *)
(* empty and full count slots.  main creates the producers, then the       *)
(* consumers, joins them in that order and returns; a thread that cannot   *)
(* be created is absent.                                                   *)
(*                                                                         *)
(* A step is one access to shared state: a lock, a semaphore operation, a  *)
(* system call or the update of a pointer.  An unlock is part of the last  *)
(* access made under the lock; an exit(1) after it is a step of its own.   *)
(***************************************************************************)
EXTENDS Integers, Sequences, FiniteSets

CONSTANTS
  nIN, nOUT, bufSize,  \* the command line
  FileSize, File,      \* the bytes of file_in: File[o] for o < FileSize
  Bytes, Offsets,      \* the values of a char and of an off_t told apart
  JunkItems,           \* what a slot of malloc'ed memory may hold
  Cells, NULL,         \* the BufferItems a `buf' pointer may point to
  BufValues,           \* the values the `buf' fields, never assigned, may have
  Faults               \* the calls that may fail

Threads   == 0 .. nIN + nOUT - 1
Producers == 0 .. nIN - 1
Consumers == nIN .. nIN + nOUT - 1
Slots     == 0 .. bufSize - 1
Items     == [data : Bytes, offset : Offsets]
Free      == -1                        \* nobody holds the mutex

ASSUME CopyAssumption ==
  /\ nIN \in Nat \ {0} /\ nOUT \in Nat \ {0} /\ bufSize \in Nat \ {0}
  /\ FileSize \in Nat /\ -1 .. FileSize \subseteq Offsets /\ Offsets \subseteq Int
  /\ File \in [0 .. FileSize - 1 -> Bytes]
  /\ JunkItems \subseteq Items
  /\ NULL \notin Cells
  /\ BufValues \subseteq [Threads -> Cells \cup {NULL}]

VARIABLES
  pc,                                    \* where each thread is
  mutex, empty, full,                    \* the lock and the semaphores
  insertPointer, removePointer, buffer,  \* the circular buffer
  buf, item,                \* each thread's pointer; the item in each cell
  posIn, posOut, fileOut,   \* file offsets; the bytes written by offset
  created, joined, outcome, \* main's progress; how the process stands
  absent,                   \* the threads that could not be created
  put, got                  \* history: the items stored and fetched

sems    == <<empty, full>>
ring    == <<insertPointer, removePointer, buffer>>
files   == <<posIn, posOut, fileOut>>
mainv   == <<created, joined, outcome, absent>>
history == <<put, got>>
vars    == <<pc, mutex, sems, ring, buf, item, files, mainv, history>>

Init ==
  /\ pc = [t \in Threads |-> IF t \in Producers THEN "lockRead" ELSE "test"]
  /\ mutex = Free
  /\ empty = bufSize /\ full = 1
  /\ insertPointer = 0 /\ removePointer = 0 /\ buffer \in [Slots -> JunkItems]
  /\ buf \in BufValues /\ item \in [Cells -> JunkItems]
  /\ posIn = 0 /\ posOut = 0 /\ fileOut = [o \in {} |-> 0]
  /\ created = 0 /\ joined = 0 /\ outcome = "running" /\ absent = {}
  /\ put = <<>> /\ got = <<>>
-----------------------------------------------------------------------------
(* The steps threads are built from. *)

At(t, label) ==
  outcome = "running" /\ t < created /\ t \notin absent /\ pc[t] = label

Goto(t, from, to) ==
  /\ At(t, from)
  /\ pc' = [pc EXCEPT ![t] = to]
  /\ UNCHANGED <<buf, mainv>>

\* A step of one thread alone (and a mutant of Lock that takes no lock).
Move(t, from, to) ==
  Goto(t, from, to) /\ UNCHANGED <<mutex, sems, ring, item, files, history>>

Lock(t, from, to) ==
  /\ Goto(t, from, to)
  /\ mutex = Free /\ mutex' = t
  /\ UNCHANGED <<sems, ring, item, files, history>>

\* The process ends here and every thread stops where it is.
Stop(how) ==
  /\ outcome' = how
  /\ UNCHANGED <<pc, mutex, sems, ring, buf, item, files, created, joined,
                 absent, history>>

NullFault(t, at) == At(t, at) /\ buf[t] = NULL /\ Stop("crash")

\* A call has failed: the thread unlocks and is on its way to exit(1).
Fail(t, at) ==
  /\ Goto(t, at, "exit")
  /\ mutex' = Free
  /\ UNCHANGED <<sems, ring, files, history>>

Exit(t) == At(t, "exit") /\ Stop("exit1")
-----------------------------------------------------------------------------
(* A producer.  It reads with read(2) on the descriptor, so the end-of-file *)
(* flag tested by while(!feof(file_in)) is never set.                       *)

LockRead(t) == Lock(t, "lockRead", "seekIn")

SeekIn(t) ==
  \/ NullFault(t, "seekIn")
  \/ /\ Fail(t, "seekIn")
     /\ "seekIn" \in Faults /\ buf[t] # NULL
     /\ item' = [item EXCEPT ![buf[t]].offset = -1]
  \/ /\ Goto(t, "seekIn", "read")
     /\ buf[t] # NULL
     /\ item' = [item EXCEPT ![buf[t]].offset = posIn]
     /\ UNCHANGED <<mutex, sems, ring, files, history>>

ReadByte(t) ==
  /\ Goto(t, "read", "waitEmpty")
  /\ posIn < FileSize
  /\ item' = [item EXCEPT ![buf[t]].data = File[posIn]]
  /\ posIn' = posIn + 1
  /\ mutex' = Free
  /\ UNCHANGED <<sems, ring, posOut, fileOut, history>>

\* Mutant: the thread exits with the mutex locked.
ReadNothingLocked(t) ==
  (posIn = FileSize \/ "read" \in Faults) /\ Move(t, "read", "done")

\* End of file, or a failed read, which the code cannot tell apart.
ReadNothing(t) ==
  /\ Goto(t, "read", "done")
  /\ posIn = FileSize \/ "read" \in Faults
  /\ mutex' = Free
  /\ UNCHANGED <<sems, ring, item, files, history>>

\* Mutant: an interrupted sem_wait, taken for a successful one.
WaitEmptyEINTR(t) == Move(t, "waitEmpty", "lockInsert")

WaitEmpty(t) ==
  /\ Goto(t, "waitEmpty", "lockInsert")
  /\ empty > 0 /\ empty' = empty - 1
  /\ UNCHANGED <<mutex, full, ring, item, files, history>>

LockInsert(t) == Lock(t, "lockInsert", "insert")

\* The thread has read a byte through buf[t], so buf[t] is not null.
InsertItem(t) ==
  /\ Goto(t, "insert", "advanceInsert")
  /\ buffer' = [buffer EXCEPT ![insertPointer] = item[buf[t]]]
  /\ put' = Append(put, item[buf[t]])
  /\ UNCHANGED <<mutex, sems, insertPointer, removePointer, item, files, got>>

AdvanceInsert(t) ==
  /\ Goto(t, "advanceInsert", "postFull")
  /\ insertPointer' = (insertPointer + 1) % bufSize
  /\ mutex' = Free
  /\ UNCHANGED <<sems, removePointer, buffer, item, files, history>>

PostFull(t) ==
  /\ Goto(t, "postFull", "lockRead")
  /\ full' = full + 1
  /\ UNCHANGED <<mutex, empty, ring, item, files, history>>
-----------------------------------------------------------------------------
(* A consumer.  The loop condition reads removePointer without the mutex.   *)

\* Mutant: the loop ends with the file.
TestEndOfFile(t) ==
  Move(t, "test", IF posIn < FileSize THEN "waitFull" ELSE "done")

Test(t) == Move(t, "test", IF removePointer < nOUT THEN "waitFull" ELSE "done")

\* Mutant: an interrupted sem_wait, taken for a successful one.
WaitFullEINTR(t) == Move(t, "waitFull", "lockRemove")

WaitFull(t) ==
  /\ Goto(t, "waitFull", "lockRemove")
  /\ full > 0 /\ full' = full - 1
  /\ UNCHANGED <<mutex, empty, ring, item, files, history>>

LockRemove(t) == Lock(t, "lockRemove", "remove")

RemoveItem(t) ==
  \/ NullFault(t, "remove")
  \/ /\ Goto(t, "remove", "advanceRemove")
     /\ buf[t] # NULL
     /\ item' = [item EXCEPT ![buf[t]] = buffer[removePointer]]
     /\ got' = Append(got, buffer[removePointer])
     /\ UNCHANGED <<mutex, sems, ring, files, put>>

\* Mutant: the pointer does not wrap.
AdvanceRemoveNoWrap(t) ==
  /\ Goto(t, "advanceRemove", "postEmpty")
  /\ removePointer' = removePointer + 1
  /\ mutex' = Free
  /\ UNCHANGED <<sems, insertPointer, buffer, item, files, history>>

AdvanceRemove(t) ==
  /\ Goto(t, "advanceRemove", "postEmpty")
  /\ removePointer' = (removePointer + 1) % bufSize
  /\ mutex' = Free
  /\ UNCHANGED <<sems, insertPointer, buffer, item, files, history>>

PostEmpty(t) ==
  /\ Goto(t, "postEmpty", "lockWrite")
  /\ empty' = empty + 1
  /\ UNCHANGED <<mutex, full, ring, item, files, history>>

LockWrite(t) == Lock(t, "lockWrite", "seekOut")

SeekOut(t) ==
  \/ /\ Fail(t, "seekOut")
     /\ item[buf[t]].offset < 0 \/ "seekOut" \in Faults
     /\ UNCHANGED item
  \/ /\ Goto(t, "seekOut", "write")
     /\ item[buf[t]].offset >= 0
     /\ posOut' = item[buf[t]].offset
     /\ UNCHANGED <<mutex, sems, ring, item, posIn, fileOut, history>>

WriteByte(t) ==
  \/ "write" \in Faults /\ Fail(t, "write") /\ UNCHANGED item
  \/ /\ Goto(t, "write", "test")
     /\ fileOut' = [o \in DOMAIN fileOut \cup {posOut} |->
                      IF o = posOut THEN item[buf[t]].data ELSE fileOut[o]]
     /\ posOut' = posOut + 1
     /\ mutex' = Free
     /\ UNCHANGED <<sems, ring, item, posIn, history>>
-----------------------------------------------------------------------------
(* main: `created' is the next thread to create, `joined' the next to join. *)

CreateThread ==
  /\ outcome = "running" /\ created < nIN + nOUT
  /\ created' = created + 1
  /\ \/ absent' = absent
     \/ "create" \in Faults /\ absent' = absent \cup {created}
  /\ UNCHANGED <<joined, outcome>>

\* No result is looked at, so the identifier of an absent thread, never
\* assigned, is joined too: an error, which is ignored, or a crash.
Joining ==
  /\ outcome = "running" /\ created = nIN + nOUT /\ joined < nIN + nOUT
  /\ UNCHANGED <<created, absent>>

JoinThread ==
  /\ Joining
  /\ joined \in absent \/ pc[joined] = "done"
  /\ joined' = joined + 1
  /\ UNCHANGED outcome

JoinCrashes ==
  /\ Joining
  /\ joined \in absent
  /\ outcome' = "crash"
  /\ UNCHANGED joined

Return ==
  /\ outcome = "running" /\ joined = nIN + nOUT
  /\ outcome' = "returned"
  /\ UNCHANGED <<created, joined, absent>>

Main ==
  /\ CreateThread \/ JoinThread \/ JoinCrashes \/ Return
  /\ UNCHANGED <<pc, mutex, sems, ring, buf, item, files, history>>

Producer(t) ==
  \/ LockRead(t) \/ SeekIn(t) \/ ReadByte(t) \/ ReadNothing(t) \/ WaitEmpty(t)
  \/ LockInsert(t) \/ InsertItem(t) \/ AdvanceInsert(t) \/ PostFull(t)
  \/ Exit(t)

Consumer(t) ==
  \/ Test(t) \/ WaitFull(t) \/ LockRemove(t) \/ RemoveItem(t) \/ PostEmpty(t)
  \/ AdvanceRemove(t) \/ LockWrite(t) \/ SeekOut(t) \/ WriteByte(t)
  \/ Exit(t)

Next ==
  \/ \E t \in Producers : Producer(t)
  \/ \E t \in Consumers : Consumer(t)
  \/ Main

Spec == Init /\ [][Next]_vars

\* The operating system keeps running every thread that can run.
FairSpec ==
  /\ Spec
  /\ \A t \in Producers : WF_vars(Producer(t))
  /\ \A t \in Consumers : WF_vars(Consumer(t))
  /\ WF_vars(Main)
=============================================================================
