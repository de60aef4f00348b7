---------------------------- MODULE ProcessQueue ----------------------------
(***************************************************************************)
(* The singly-linked lists of P1__1/sch-helpers.c (P__2 has a copy) that   *)
(* serve as process queues: the nodes on the heap, the queues that point   *)
(* to them, and the calls any program may make, one at a time.             *)
(***************************************************************************)
EXTENDS SchHelpers

CONSTANTS Queues,    \* the process_queue variables of the program
          Nodes      \* the addresses malloc may return

ASSUME QueueAssumption == NULL \notin Nodes

\* What a node may point to: an element of the array of processes.
Elements == 1 .. MAX_PROCESSES + 1

VARIABLES
  front, back, size,   \* of each queue
  data, next,          \* of each node; free leaves them as they are
  allocated,           \* the nodes that are not free
  chain                \* history: the nodes enqueued and not dequeued, in order

lists == <<front, back, size, data, next, allocated, chain>>

initializeProcessQueue ==
  /\ front = [q \in Queues |-> NULL] /\ back = [q \in Queues |-> NULL]
  /\ size = [q \in Queues |-> 0] /\ chain = [q \in Queues |-> <<>>]

QInit ==
  /\ initializeProcessQueue
  /\ data = [n \in Nodes |-> NULL] /\ next = [n \in Nodes |-> NULL]
  /\ allocated = {}

\* Mutant: the process is not stored in the node.
createProcessNodeEmpty(p, node) ==
  /\ node \in Nodes \ allocated
  /\ allocated' = allocated \cup {node} /\ UNCHANGED data

\* A node for p; a malloc that fails ends the program.
createProcessNode(p, node) ==
  /\ node \in Nodes \ allocated
  /\ allocated' = allocated \cup {node}
  /\ data' = [data EXCEPT ![node] = p]

\* A node that the program created for itself and put in no queue.
Spare(p, node) ==
  /\ createProcessNode(p, node)
  /\ next' = [next EXCEPT ![node] = NULL]
  /\ UNCHANGED <<front, back, size, chain>>

\* The assertions of enqueueProcess and dequeueProcess: a program whose
\* assertion fails makes no further step.
EnqueueAssertion(q) == front[q] = NULL <=> back[q] = NULL
DequeueAssertion(q) ==
  size[q] > 0 /\ (size[q] = 1 \/ next[front[q]] # NULL)

enqueueProcess(q, p, node) ==
  /\ EnqueueAssertion(q) /\ createProcessNode(p, node)
  /\ next' = IF front[q] = NULL THEN [next EXCEPT ![node] = NULL]
             ELSE [next EXCEPT ![node] = NULL, ![back[q]] = node]
  /\ front' = [front EXCEPT ![q] = IF @ = NULL THEN node ELSE @]
  /\ back' = [back EXCEPT ![q] = node]
  /\ size' = [size EXCEPT ![q] = @ + 1]
  /\ chain' = [chain EXCEPT ![q] = Append(@, node)]

\* Mutant: back is left behind when the last node is freed.
dequeueProcessKeepBack(q) ==
  /\ DequeueAssertion(q)
  /\ front' = [front EXCEPT ![q] = IF size[q] = 1 THEN NULL ELSE next[@]]
  /\ allocated' = allocated \ {front[q]}
  /\ size' = [size EXCEPT ![q] = @ - 1]
  /\ chain' = [chain EXCEPT ![q] = Tail(@)]
  /\ UNCHANGED <<back, data, next>>

dequeueProcess(q) ==
  /\ DequeueAssertion(q)
  /\ front' = [front EXCEPT ![q] = IF size[q] = 1 THEN NULL ELSE next[@]]
  /\ back' = [back EXCEPT ![q] = IF size[q] = 1 THEN NULL ELSE @]
  /\ allocated' = allocated \ {front[q]}
  /\ size' = [size EXCEPT ![q] = @ - 1]
  /\ chain' = [chain EXCEPT ![q] = Tail(@)]
  /\ UNCHANGED <<data, next>>

QNext ==
  \/ \E p \in Elements, node \in Nodes :
       Spare(p, node) \/ \E q \in Queues : enqueueProcess(q, p, node)
  \/ \E q \in Queues : dequeueProcess(q)

QSpec == QInit /\ [][QNext]_lists
-----------------------------------------------------------------------------
\* The pointers of every queue lead from front to back through the nodes
\* enqueued and not dequeued, size of them, all allocated and none of them in
\* two places; the last one ends the list.
ListsSound ==
  /\ \A q \in Queues : LET c == chain[q] IN
       /\ size[q] = Len(c)
       /\ front[q] = (IF c = <<>> THEN NULL ELSE c[1])
       /\ back[q] = (IF c = <<>> THEN NULL ELSE c[Len(c)])
       /\ \A k \in 1 .. Len(c) :
            /\ c[k] \in allocated
            /\ next[c[k]] = (IF k = Len(c) THEN NULL ELSE c[k + 1])
       /\ IsInjective(c)
  /\ \A q, r \in Queues : q # r => Range(chain[q]) \cap Range(chain[r]) = {}

\* The processes in a queue, as a program that follows the pointers finds them.
InQueue(q) == [k \in DOMAIN chain[q] |-> data[chain[q][k]]]

\* The lists are first-in first-out queues.
Abstract == INSTANCE Fifo WITH contents <- [q \in Queues |-> InQueue(q)]
FifoSpec == Abstract!Spec
=============================================================================
