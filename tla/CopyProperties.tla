--------------------------- MODULE CopyProperties ---------------------------
(* What A2/copy.c guarantees, and what it says of itself but does not.      *)
EXTENDS Copy

Labels == {"lockRead", "seekIn", "read", "waitEmpty", "lockInsert", "insert",
           "advanceInsert", "postFull", "test", "waitFull", "lockRemove",
           "remove", "advanceRemove", "postEmpty", "lockWrite", "seekOut",
           "write", "exit", "done"}

\* The labels between pthread_mutex_lock and pthread_mutex_unlock.
Critical == {"seekIn", "read", "insert", "advanceInsert", "remove",
             "advanceRemove", "seekOut", "write"}

\* Type invariant of all the program's variables.
TypeOK ==
  /\ pc \in [Threads -> Labels]
  /\ mutex \in Threads \cup {Free}
  /\ empty \in Nat /\ full \in Nat
  /\ insertPointer \in Slots /\ removePointer \in Slots
  /\ buffer \in [Slots -> Items]
  /\ buf \in [Threads -> Cells \cup {NULL}]
  /\ item \in [Cells -> Items]
  /\ posIn \in 0 .. FileSize /\ posOut \in Nat
  /\ DOMAIN fileOut \subseteq Nat /\ \A o \in DOMAIN fileOut : fileOut[o] \in Bytes
  /\ created \in 0 .. nIN + nOUT /\ joined \in 0 .. nIN + nOUT
  /\ outcome \in {"running", "returned", "exit1", "crash"}
  /\ absent \subseteq Threads
  /\ put \in Seq(Items) /\ got \in Seq(Items)

\* No two threads are between pthread_mutex_lock and pthread_mutex_unlock at
\* once, on any path out of the eight critical sections, exit paths included.
MutualExclusion ==
  \A s, t \in Threads : pc[s] \in Critical /\ pc[t] \in Critical => s = t
-----------------------------------------------------------------------------
(* The semaphores. *)

ThreadsAt(labels) == {t \in Threads : pc[t] \in labels}

Inserting == {"lockInsert", "insert"}            \* waited on empty, not stored
Inserted  == {"advanceInsert", "postFull"}       \* stored, full not posted
Removing  == {"lockRemove", "remove"}            \* waited on full, not fetched
Removed   == {"advanceRemove", "postEmpty"}      \* fetched, empty not posted

\* Every slot is counted once: in empty, by a producer that has waited on
\* empty and not stored yet, by an item in the buffer, or by a consumer that
\* has fetched and not posted empty yet.
EmptyTokens ==
  empty + Cardinality(ThreadsAt(Inserting)) + (Len(put) - Len(got))
        + Cardinality(ThreadsAt(Removed)) = bufSize

\* Every item is counted once in full, or by a thread on its way to post or
\* to fetch it, and there is always one count more than there are items:
\* main initialises full to 1.
FullTokens ==
  full + Cardinality(ThreadsAt(Inserted)) + Cardinality(ThreadsAt(Removing))
       + Len(got) = Len(put) + 1

\* A producer never overwrites an item that was not fetched: however the
\* threads interleave, at most bufSize items are stored and not fetched.
NoOverwrite == Len(put) - Len(got) <= bufSize

\* However many consumers there are, fetching runs at most one item ahead.
ReadAheadByOne == Len(got) <= Len(put) + 1

\* The buffer is a bounded queue whose takes may run one ahead of its puts.
Ring == INSTANCE BoundedBuffer WITH Capacity <- bufSize, Slack <- 1
RingSpec == Ring!Spec
-----------------------------------------------------------------------------
(* The bytes, in every run in which no two threads share a BufferItem.  A    *)
(* null pointer may be shared: its threads end the process at first use.    *)

DistinctBufs ==
  \A s, t \in Threads : buf[s] = buf[t] /\ buf[s] # NULL => s = t

FileItem(o) == [data |-> File[o], offset |-> o]

\* A producer's item from the end of read_byte to its insertion.
Carried == ThreadsAt({"waitEmpty", "lockInsert", "insert"})

\* Of all the bytes read so far, each one has been stored once, or is carried
\* by one producer, together with its own offset: lseek and read of
\* concurrent producers never mix, and no byte is read twice or skipped.
EveryByteOnce ==
  DistinctBufs =>
    /\ Len(put) + Cardinality(Carried) = posIn
    /\ \A o \in 0 .. posIn - 1 :
         \/ \E i \in 1 .. Len(put) : put[i] = FileItem(o)
         \/ \E t \in Carried : item[buf[t]] = FileItem(o)

\* The consumers have so far fetched what the producers stored, in order.
InStep ==
  /\ Len(got) <= Len(put)
  /\ \A i \in 1 .. Len(got) : got[i] = put[i]

Fetched ==
  {t \in Consumers : pc[t] \in {"advanceRemove", "postEmpty", "lockWrite",
                                "seekOut", "write", "exit"}}

\* As long as no consumer ran ahead, the copy holds nothing but the file's
\* bytes at their own offsets, and every fetched item is written or about to
\* be, or in the hands of a consumer whose write failed: the seek and the
\* write of concurrent consumers never mix.
OutputFaithful ==
  DistinctBufs /\ InStep =>
    /\ \A o \in DOMAIN fileOut : o < FileSize /\ fileOut[o] = File[o]
    /\ \A i \in 1 .. Len(got) :
         \/ got[i].offset \in DOMAIN fileOut
         \/ \E t \in Fetched : item[buf[t]] = got[i]
-----------------------------------------------------------------------------
(* The end of the program. *)

AllIn(T, label) == \A t \in T : pc[t] = label

\* With no more slots than consumers the loop condition removePointer < nOUT
\* never fails, so no consumer ends and main, if one could be created, never
\* gets past its joins.
NeverReturns ==
  bufSize <= nOUT /\ ~(Consumers \subseteq absent) => outcome # "returned"

\* ... and every run ends with the producers gone and all the consumers
\* blocked for ever on a full semaphore that nobody will post, whichever reads
\* fail and whichever threads could not be created.
ConsumersStarve ==
  bufSize <= nOUT =>
    <>[](\/ outcome \in {"exit1", "crash"} \/ Consumers \subseteq absent
         \/ /\ AllIn(Producers \ absent, "done")
            /\ AllIn(Consumers \ absent, "waitFull") /\ full = 0)

\* The arguments <file> and <copy>: once every thread is done or blocked for
\* good, the copy is the file.
CopyComplete ==
  /\ outcome = "running" /\ AllIn(Producers, "done")
  /\ AllIn(Consumers, "waitFull") /\ full = 0
  => fileOut = File
=============================================================================
