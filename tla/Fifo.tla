-------------------------------- MODULE Fifo --------------------------------
(***************************************************************************)
(* What the comments on the queue functions of sch-helpers.c promise of a  *)
(* set of process queues: each is first in, first out.                     *)
(***************************************************************************)
EXTENDS Integers, Sequences

CONSTANTS Queues, Elements

VARIABLE contents    \* the elements of each queue, the front first

Init == contents = [q \in Queues |-> <<>>]

Put(q, p) == contents' = [contents EXCEPT ![q] = Append(@, p)]

Take(q) == contents[q] # <<>> /\ contents' = [contents EXCEPT ![q] = Tail(@)]

Next == \E q \in Queues : Take(q) \/ \E p \in Elements : Put(q, p)

Spec == Init /\ [][Next]_contents
=============================================================================
