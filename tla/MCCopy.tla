------------------------------- MODULE MCCopy -------------------------------
(* Instances of Copy for TLC. *)
EXTENDS CopyProperties

\* Every byte of the file has a value of its own; 0 is in no file.
MCFile  == [o \in 0 .. FileSize - 1 |-> o + 1]
MCBytes == 0 .. FileSize

\* -1 stands for every offset that cannot be sought to.
MCOffsets == -1 .. FileSize

\* Fresh heap memory: all zeroes.
ZeroJunk == {[data |-> 0, offset |-> 0]}

\* Recycled heap memory: an offset that cannot be sought to.
RecycledJunk == {[data |-> 0, offset |-> -1]}

\* There is a cell for each thread.
OwnCells == Threads

\* Each thread has a BufferItem of its own.
OwnBufs == {[t \in Threads |-> t]}

\* ... or a producer and a consumer share one and the others have none.
SomeBufs == OwnBufs \cup {[t \in Threads |-> IF t \in {0, nIN} THEN 0 ELSE NULL]}

NoFaults  == {}
AllFaults == {"seekIn", "read", "seekOut", "write", "create"}
=============================================================================
