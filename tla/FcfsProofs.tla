----------------------------- MODULE FcfsProofs -----------------------------
(***************************************************************************)
(* Proofs about P1__1/fcfs.c and the linked lists it is built on.          *)
(*                                                                         *)
(* The lists of sch-helpers.c are sound and are first-in first-out queues, *)
(* for any queues, nodes and processes and any calls.  fcfs.c only makes   *)
(* calls on its lists that any program may make, so that this holds of its *)
(* lists; a process is in one place at a time and the simulator implements *)
(* ProcessLifecycle; the cycles of a process and of the processors are     *)
(* accounted for, and the report agrees with the data file.                *)
(***************************************************************************)
EXTENDS FcfsProperties, DataLemmas

(* The lists. *)

TypeInv ==
  /\ front \in [Queues -> Nodes \cup {NULL}] /\ back \in [Queues -> Nodes \cup {NULL}]
  /\ size \in [Queues -> Nat]
  /\ data \in [Nodes -> Elements \cup {NULL}]
  /\ next \in [Nodes -> Nodes \cup {NULL}]
  /\ allocated \subseteq Nodes
  /\ chain \in [Queues -> Seq(Nodes)]

\* ListsSound for one queue, and for two.
Linked(q) ==
  /\ size[q] = Len(chain[q])
  /\ front[q] = (IF chain[q] = <<>> THEN NULL ELSE chain[q][1])
  /\ back[q] = (IF chain[q] = <<>> THEN NULL ELSE chain[q][Len(chain[q])])
  /\ \A k \in 1 .. Len(chain[q]) :
       /\ chain[q][k] \in allocated
       /\ next[chain[q][k]] =
            (IF k = Len(chain[q]) THEN NULL ELSE chain[q][k + 1])
  /\ \A j, k \in 1 .. Len(chain[q]) : chain[q][j] = chain[q][k] => j = k

Apart(q, r) ==
  \A j \in 1 .. Len(chain[q]), k \in 1 .. Len(chain[r]) : chain[q][j] # chain[r][k]

ListInv ==
  /\ TypeInv /\ \A q \in Queues : Linked(q)
  /\ \A q, r \in Queues : q # r => Apart(q, r)

LEMMA ListInvSound == ListInv => ListsSound
<1> SUFFICES ASSUME ListInv PROVE ListsSound
  OBVIOUS
<1>1. \A q \in Queues : chain[q] \in Seq(Nodes)
  BY DEF ListInv, TypeInv
<1>2. \A q \in Queues : DOMAIN chain[q] = 1 .. Len(chain[q])
  BY <1>1
<1>3. ASSUME NEW q \in Queues PROVE IsInjective(chain[q])
  <2>1. \A j, k \in 1 .. Len(chain[q]) : chain[q][j] = chain[q][k] => j = k
    BY DEF ListInv, Linked
  <2> QED
    BY <1>2, <2>1 DEF IsInjective
<1>4. \A q, r \in Queues : q # r => Range(chain[q]) \cap Range(chain[r]) = {}
  BY <1>2 DEF Range, ListInv, Apart
<1> QED
  BY <1>3, <1>4 DEF ListsSound, ListInv, Linked
-----------------------------------------------------------------------------
LEMMA InitListInv == QInit => ListInv
BY DEF QInit, initializeProcessQueue, ListInv, TypeInv, Linked, Apart

\* What a list holds is neither free nor the node that malloc returned.
LEMMA ChainAllocated ==
  ASSUME ListInv, NEW q \in Queues, NEW k \in 1 .. Len(chain[q])
  PROVE  chain[q][k] \in allocated /\ chain[q][k] \in Nodes
BY DEF ListInv, TypeInv, Linked

LEMMA SpareListInv ==
  ASSUME ListInv, NEW p \in Elements, NEW cell \in Nodes, Spare(p, cell)
  PROVE  ListInv'
<1>1. /\ cell \notin allocated /\ allocated' = allocated \cup {cell}
      /\ data' = [data EXCEPT ![cell] = p] /\ next' = [next EXCEPT ![cell] = NULL]
      /\ UNCHANGED <<front, back, size, chain>>
  BY DEF Spare, createProcessNode
<1>2. TypeInv'
  BY <1>1 DEF ListInv, TypeInv
<1>3. ASSUME NEW q \in Queues PROVE Linked(q)'
  <2>1. \A k \in 1 .. Len(chain[q]) : chain[q][k] \in allocated /\ chain[q][k] # cell
    BY <1>1, ChainAllocated
  <2>2. \A k \in 1 .. Len(chain[q]) : next'[chain[q][k]] = next[chain[q][k]]
    BY <1>1, <2>1 DEF ListInv, TypeInv
  <2> QED
    BY <1>1, <2>1, <2>2 DEF ListInv, Linked
<1> QED
  BY <1>1, <1>2, <1>3 DEF ListInv, Apart

LEMMA EnqueueListInv ==
  ASSUME ListInv, NEW q \in Queues, NEW p \in Elements, NEW cell \in Nodes,
         enqueueProcess(q, p, cell)
  PROVE  ListInv'
<1> DEFINE c == chain[q]
<1>1. /\ cell \notin allocated /\ allocated' = allocated \cup {cell}
      /\ data' = [data EXCEPT ![cell] = p]
  BY DEF enqueueProcess, createProcessNode
<1>2. TypeInv
  BY DEF ListInv
<1>3. c \in Seq(Nodes) /\ Len(c) \in Nat
  BY <1>2 DEF TypeInv
<1>4. c = <<>> \/ Len(c) \in 1 .. Len(c)
  BY <1>3
<1>5. /\ front[q] = NULL <=> c = <<>>
      /\ c # <<>> => back[q] = c[Len(c)] /\ back[q] \in Nodes
  BY <1>3, <1>4, ChainAllocated, QueueAssumption DEF ListInv, Linked
<1>6. \A r \in Queues : \A k \in 1 .. Len(chain[r]) :
         chain[r][k] \in allocated /\ chain[r][k] \in Nodes /\ chain[r][k] # cell
  BY <1>1, ChainAllocated
<1>7. /\ next' = IF c = <<>> THEN [next EXCEPT ![cell] = NULL]
                 ELSE [next EXCEPT ![cell] = NULL, ![back[q]] = cell]
      /\ front' = [front EXCEPT ![q] = IF c = <<>> THEN cell ELSE @]
      /\ back' = [back EXCEPT ![q] = cell]
      /\ size' = [size EXCEPT ![q] = @ + 1]
      /\ chain' = [chain EXCEPT ![q] = Append(@, cell)]
  BY <1>5 DEF enqueueProcess
<1>8. TypeInv'
  <2>1. next' \in [Nodes -> Nodes \cup {NULL}]
    BY <1>2, <1>7 DEF TypeInv
  <2>2. front' \in [Queues -> Nodes \cup {NULL}] /\ back' \in [Queues -> Nodes \cup {NULL}]
    BY <1>2, <1>7 DEF TypeInv
  <2>3. chain' \in [Queues -> Seq(Nodes)] /\ size' \in [Queues -> Nat]
    BY <1>2, <1>3, <1>7 DEF TypeInv
  <2> QED
    BY <1>1, <1>2, <2>1, <2>2, <2>3 DEF TypeInv
<1>9. ASSUME NEW n \in Nodes
      PROVE  next'[n] = IF n = cell /\ (c = <<>> \/ n # back[q]) THEN NULL
                        ELSE IF c # <<>> /\ n = back[q] THEN cell ELSE next[n]
  BY <1>2, <1>7 DEF TypeInv
<1>10. c # <<>> => back[q] # cell
  BY <1>3, <1>4, <1>5, <1>6
<1>11. Linked(q)'
  <2> DEFINE d == Append(c, cell)
  <2>1. chain'[q] = d /\ Len(d) = Len(c) + 1 /\ d # <<>> /\ d[Len(c) + 1] = cell
    BY <1>2, <1>3, <1>7 DEF TypeInv
  <2>2. \A k \in 1 .. Len(c) : d[k] = c[k]
    BY <1>3
  <2>3. size'[q] = Len(d) /\ front'[q] = d[1] /\ back'[q] = d[Len(d)]
    BY <1>2, <1>3, <1>4, <1>7, <2>1, <2>2 DEF TypeInv, ListInv, Linked
  <2>4. \A j, k \in 1 .. Len(d) : d[j] = d[k] => j = k
    <3>1. \A j, k \in 1 .. Len(c) : c[j] = c[k] => j = k
      BY DEF ListInv, Linked
    <3>2. \A k \in 1 .. Len(c) : d[k] # cell
      BY <1>6, <2>2
    <3>3. \A k \in 1 .. Len(d) : k \in 1 .. Len(c) \/ k = Len(c) + 1
      BY <1>3, <2>1
    <3> HIDE DEF c, d
    <3> QED
      BY <2>1, <2>2, <3>1, <3>2, <3>3
  <2>5. ASSUME NEW k \in 1 .. Len(d)
        PROVE  d[k] \in allocated'
                 /\ next'[d[k]] = (IF k = Len(d) THEN NULL ELSE d[k + 1])
    <3>1. CASE k = Len(d)
      BY <1>1, <1>9, <1>10, <2>1, <3>1
    <3>2. CASE k = Len(c) /\ c # <<>>
      BY <1>1, <1>3, <1>5, <1>6, <1>9, <1>10, <2>1, <2>2, <3>2
    <3>3. CASE k \in 1 .. Len(c) - 1
      <4>1. k \in 1 .. Len(c) /\ k + 1 \in 1 .. Len(c) /\ Len(c) \in 1 .. Len(c)
        BY <1>3, <3>3
      <4>2. c[k] # c[Len(c)]
        BY <1>3, <3>3, <4>1 DEF ListInv, Linked
      <4>3. next'[c[k]] = next[c[k]]
        BY <1>4, <1>5, <1>6, <1>9, <4>1, <4>2
      <4>4. next[c[k]] = c[k + 1]
        BY <1>3, <3>3, <4>1 DEF ListInv, Linked
      <4> QED
        BY <1>1, <1>3, <1>6, <2>1, <2>2, <3>3, <4>1, <4>3, <4>4
    <3> QED
      BY <1>3, <1>4, <2>1, <3>1, <3>2, <3>3
  <2> HIDE DEF c, d
  <2> QED
    BY <2>1, <2>3, <2>4, <2>5 DEF Linked
<1>12. ASSUME NEW r \in Queues, r # q PROVE Linked(r)'
  <2>1. /\ chain'[r] = chain[r] /\ size'[r] = size[r]
        /\ front'[r] = front[r] /\ back'[r] = back[r]
    BY <1>2, <1>7, <1>12 DEF TypeInv
  <2>2. \A k \in 1 .. Len(chain[r]) : next'[chain[r][k]] = next[chain[r][k]]
    BY <1>3, <1>4, <1>5, <1>6, <1>9, <1>12 DEF ListInv, Apart
  <2>3. Linked(r)
    BY DEF ListInv
  <2>4. \A k \in 1 .. Len(chain[r]) : chain[r][k] \in allocated'
    BY <1>1, <1>6
  <2> QED
    BY <2>1, <2>2, <2>3, <2>4 DEF Linked
<1>13. ASSUME NEW r \in Queues, NEW s \in Queues, r # s PROVE Apart(r, s)'
  <2>1. ASSUME NEW t \in Queues, NEW k \in 1 .. Len(chain'[t])
        PROVE  \/ k \in 1 .. Len(chain[t]) /\ chain'[t][k] = chain[t][k]
               \/ t = q /\ chain'[t][k] = cell
    BY <1>2, <1>3, <1>7 DEF TypeInv
  <2>2. Apart(r, s) /\ ~(r = q /\ s = q)
    BY <1>13 DEF ListInv
  <2>3. \A t \in Queues : \A k \in 1 .. Len(chain[t]) : chain[t][k] # cell
    BY <1>6
  <2> QED
    BY <2>1, <2>2, <2>3 DEF Apart
<1> QED
  BY <1>8, <1>11, <1>12, <1>13 DEF ListInv

LEMMA DequeueListInv ==
  ASSUME ListInv, NEW q \in Queues, dequeueProcess(q)
  PROVE  ListInv' /\ chain[q] # <<>>
<1> DEFINE c == chain[q]
<1>1. TypeInv
  BY DEF ListInv
<1>2. c \in Seq(Nodes) /\ Len(c) \in Nat
  BY <1>1 DEF TypeInv
<1>3. size[q] = Len(c) /\ Len(c) > 0 /\ Len(c) \in Nat
  BY <1>2 DEF ListInv, Linked, dequeueProcess, DequeueAssertion
<1>4. size[q] = Len(c) /\ Len(c) > 0 /\ c # <<>>
  BY <1>2, <1>3
<1>5. front[q] = c[1] /\ back[q] = c[Len(c)] /\ c[1] \in Nodes
  BY <1>2, <1>4 DEF ListInv, Linked
<1>6. Len(c) # 1 => next[c[1]] = c[2] /\ c[2] \in Nodes
  <2> SUFFICES ASSUME Len(c) # 1 PROVE next[c[1]] = c[2] /\ c[2] \in Nodes
    OBVIOUS
  <2>0. \A n \in Nat : n > 0 /\ n # 1 => 1 \in 1 .. n /\ 2 \in 1 .. n
    OBVIOUS
  <2>1. 1 \in 1 .. Len(c) /\ 2 \in 1 .. Len(c)
    BY <1>3, <2>0
  <2>2. next[c[1]] = (IF 1 = Len(c) THEN NULL ELSE c[1 + 1])
    BY <2>1 DEF ListInv, Linked
  <2> QED
    BY <1>2, <2>1, <2>2
<1>7. /\ front' = [front EXCEPT ![q] = IF Len(c) = 1 THEN NULL ELSE next[@]]
      /\ back' = [back EXCEPT ![q] = IF Len(c) = 1 THEN NULL ELSE @]
      /\ allocated' = allocated \ {c[1]}
      /\ size' = [size EXCEPT ![q] = @ - 1]
      /\ chain' = [chain EXCEPT ![q] = Tail(@)]
      /\ UNCHANGED <<data, next>>
  BY <1>4, <1>5 DEF dequeueProcess
<1>8. /\ Tail(c) \in Seq(Nodes) /\ Len(Tail(c)) = Len(c) - 1
      /\ \A k \in 1 .. Len(c) - 1 : Tail(c)[k] = c[k + 1]
  BY <1>2, <1>4
<1>9. TypeInv'
  <2>1. front' \in [Queues -> Nodes \cup {NULL}] /\ back' \in [Queues -> Nodes \cup {NULL}]
    BY <1>1, <1>5, <1>6, <1>7 DEF TypeInv
  <2>2. size' \in [Queues -> Nat]
    BY <1>1, <1>2, <1>4, <1>7 DEF TypeInv
  <2>3. chain' \in [Queues -> Seq(Nodes)]
    BY <1>1, <1>7, <1>8 DEF TypeInv
  <2> QED
    BY <1>1, <1>7, <2>1, <2>2, <2>3 DEF TypeInv
<1>10. \A j \in 2 .. Len(c) : c[j] # c[1]
  BY <1>2, <1>4 DEF ListInv, Linked
<1>11. Linked(q)'
  <2> DEFINE d == Tail(c)
  <2>1. d = <<>> <=> Len(c) = 1
    <3>1. \A n \in Nat : n > 0 => (n - 1 = 0 <=> n = 1)
      OBVIOUS
    <3>2. Len(d) = 0 <=> Len(c) = 1
      BY <1>8, <1>3, <3>1
    <3>3. \A s \in Seq(Nodes) : s = <<>> <=> Len(s) = 0
      OBVIOUS
    <3> QED
      BY <1>8, <3>2, <3>3
  <2>2. chain'[q] = d
    BY <1>1, <1>7 DEF TypeInv
  <2>3. size'[q] = Len(d)
    BY <1>1, <1>7, <1>8, <1>3 DEF TypeInv
  <2>4. front'[q] = (IF d = <<>> THEN NULL ELSE d[1])
    BY <1>1, <1>2, <1>4, <1>5, <1>6, <1>7, <1>8, <2>1, <2>2 DEF TypeInv
  <2>5. back'[q] = (IF d = <<>> THEN NULL ELSE d[Len(d)])
    BY <1>1, <1>2, <1>4, <1>5, <1>7, <1>8, <2>1, <2>2 DEF TypeInv
  <2>6. \A j, k \in 1 .. Len(d) : d[j] = d[k] => j = k
    <3>1. \A j, k \in 1 .. Len(c) : c[j] = c[k] => j = k
      BY DEF ListInv, Linked
    <3>2. /\ Len(c) \in Nat /\ Len(d) = Len(c) - 1
          /\ \A k \in 1 .. Len(c) - 1 : d[k] = c[k + 1]
      BY <1>2, <1>4, <1>8
    <3> HIDE DEF c, d
    <3>3. \A k \in 1 .. Len(d) : k + 1 \in 1 .. Len(c) /\ d[k] = c[k + 1]
      BY <3>2
    <3> QED
      BY <3>1, <3>2, <3>3
  <2>7. ASSUME NEW k \in 1 .. Len(d)
        PROVE  d[k] \in allocated'
                 /\ next'[d[k]] = (IF k = Len(d) THEN NULL ELSE d[k + 1])
    <3>1. k + 1 \in 2 .. Len(c) /\ k + 1 \in 1 .. Len(c) /\ d[k] = c[k + 1]
      BY <1>2, <1>4, <1>8
    <3>2. c[k + 1] \in allocated
            /\ next[c[k + 1]] = (IF k + 1 = Len(c) THEN NULL ELSE c[(k + 1) + 1])
      BY <3>1 DEF ListInv, Linked
    <3>3. k # Len(d) => d[k + 1] = c[(k + 1) + 1]
      BY <1>2, <1>4, <1>8
    <3>4. k = Len(d) <=> k + 1 = Len(c)
      BY <1>2, <1>4, <1>8
    <3>5. c[k + 1] # c[1]
      BY <1>10, <3>1
    <3> HIDE DEF c, d
    <3> QED
      BY <1>7, <3>1, <3>2, <3>3, <3>4, <3>5
  <2> HIDE DEF c, d
  <2> QED
    BY <2>4, <2>5, <2>6, <2>7, <2>2, <2>3 DEF Linked
<1>12. ASSUME NEW r \in Queues, r # q PROVE Linked(r)'
  <2>1. /\ chain'[r] = chain[r] /\ size'[r] = size[r]
        /\ front'[r] = front[r] /\ back'[r] = back[r] /\ next' = next
    BY <1>1, <1>7, <1>12 DEF TypeInv
  <2>2. \A k \in 1 .. Len(chain[r]) : chain[r][k] # c[1]
    BY <1>2, <1>4, <1>12 DEF ListInv, Apart
  <2>3. Linked(r)
    BY DEF ListInv
  <2>4. \A k \in 1 .. Len(chain[r]) : chain[r][k] \in allocated'
    BY <1>7, <2>2, <2>3 DEF Linked
  <2> QED
    BY <2>1, <2>3, <2>4 DEF Linked
<1>13. ASSUME NEW r \in Queues, NEW s \in Queues, r # s PROVE Apart(r, s)'
  <2>1. ASSUME NEW t \in Queues, NEW k \in 1 .. Len(chain'[t])
        PROVE  \E j \in 1 .. Len(chain[t]) : chain'[t][k] = chain[t][j]
    <3>1. CASE t = q
      <4>1. k + 1 \in 1 .. Len(c) /\ chain'[t][k] = c[k + 1]
        BY <1>1, <1>2, <1>4, <1>7, <1>8, <3>1 DEF TypeInv
      <4> QED
        BY <3>1, <4>1
    <3>2. CASE t # q
      BY <1>1, <1>7, <3>2 DEF TypeInv
    <3> QED
      BY <3>1, <3>2
  <2> QED
    BY <1>13, <2>1 DEF ListInv, Apart
<1> QED
  BY <1>4, <1>9, <1>11, <1>12, <1>13 DEF ListInv

LEMMA StepListInv == ListInv /\ [QNext]_lists => ListInv'
<1> SUFFICES ASSUME ListInv, [QNext]_lists PROVE ListInv'
  OBVIOUS
<1>1. CASE QNext
  BY <1>1, SpareListInv, EnqueueListInv, DequeueListInv DEF QNext
<1>2. CASE UNCHANGED lists
  BY <1>2 DEF lists, ListInv, TypeInv, Linked, Apart
<1> QED
  BY <1>1, <1>2

\* The pointers of every list lead from front to back through the nodes it
\* should hold, whatever the calls.
THEOREM ListsAreSound == QSpec => []ListsSound
<1>1. ListInv => ListsSound
  BY ListInvSound
<1> QED
  BY InitListInv, StepListInv, <1>1, PTL DEF QSpec
-----------------------------------------------------------------------------
\* The values of a function along a sequence that grows, or that shrinks.
LEMMA AlongAppend ==
  ASSUME NEW S, NEW T, NEW c \in Seq(S), NEW n \in S, NEW f \in [S -> T],
         NEW g \in [S -> T], \A k \in 1 .. Len(c) : g[c[k]] = f[c[k]]
  PROVE  [k \in DOMAIN Append(c, n) |-> g[Append(c, n)[k]]]
           = Append([k \in DOMAIN c |-> f[c[k]]], g[n])
<1> DEFINE a == [k \in DOMAIN c |-> f[c[k]]]
           b == [k \in DOMAIN Append(c, n) |-> g[Append(c, n)[k]]]
<1>1. /\ Append(c, n) \in Seq(S) /\ Len(Append(c, n)) = Len(c) + 1 /\ Len(c) \in Nat
      /\ Append(c, n)[Len(c) + 1] = n /\ \A k \in 1 .. Len(c) : Append(c, n)[k] = c[k]
  OBVIOUS
<1>2. a = [k \in 1 .. Len(c) |-> f[c[k]]] /\ \A k \in 1 .. Len(c) : f[c[k]] \in T
  OBVIOUS
<1>3. a \in Seq(T) /\ Len(a) = Len(c)
  BY <1>1, <1>2
<1>4. /\ Append(a, g[n]) \in Seq(T) /\ Len(Append(a, g[n])) = Len(c) + 1
      /\ Append(a, g[n])[Len(c) + 1] = g[n]
      /\ \A k \in 1 .. Len(c) : Append(a, g[n])[k] = a[k]
  <2>1. g[n] \in T
    OBVIOUS
  <2> HIDE DEF a
  <2> QED
    BY <1>3, <2>1
<1>5. b = [k \in 1 .. Len(c) + 1 |-> g[Append(c, n)[k]]]
  BY <1>1
<1>6. \A k \in 1 .. Len(c) + 1 : b[k] = Append(a, g[n])[k]
  <2> TAKE k \in 1 .. Len(c) + 1
  <2>1. CASE k = Len(c) + 1
    BY <1>1, <1>4, <1>5, <2>1
  <2>2. CASE k \in 1 .. Len(c)
    BY <1>1, <1>2, <1>4, <1>5, <2>2
  <2> QED
    BY <1>1, <2>1, <2>2
<1>7. Append(a, g[n]) = [k \in 1 .. Len(c) + 1 |-> Append(a, g[n])[k]]
  <2> HIDE DEF a
  <2> QED
    BY <1>4
<1> QED
  BY <1>5, <1>6, <1>7

LEMMA AlongTail ==
  ASSUME NEW S, NEW T, NEW c \in Seq(S), c # <<>>, NEW f \in [S -> T]
  PROVE  /\ [k \in DOMAIN Tail(c) |-> f[Tail(c)[k]]] = Tail([k \in DOMAIN c |-> f[c[k]]])
         /\ [k \in DOMAIN c |-> f[c[k]]] # <<>>
<1> DEFINE a == [k \in DOMAIN c |-> f[c[k]]]
           b == [k \in DOMAIN Tail(c) |-> f[Tail(c)[k]]]
<1>1. /\ Tail(c) \in Seq(S) /\ Len(Tail(c)) = Len(c) - 1 /\ Len(c) \in Nat /\ Len(c) > 0
      /\ \A k \in 1 .. Len(c) - 1 : Tail(c)[k] = c[k + 1]
  OBVIOUS
<1>2. a = [k \in 1 .. Len(c) |-> f[c[k]]] /\ \A k \in 1 .. Len(c) : f[c[k]] \in T
  OBVIOUS
<1>3. a \in Seq(T) /\ Len(a) = Len(c)
  BY <1>1, <1>2
<1>4. /\ Tail(a) \in Seq(T) /\ Len(Tail(a)) = Len(c) - 1 /\ a # <<>>
      /\ \A k \in 1 .. Len(c) - 1 : Tail(a)[k] = a[k + 1]
  <2> HIDE DEF a
  <2>1. a # <<>>
    BY <1>1, <1>3
  <2> QED
    BY <1>1, <1>3, <2>1
<1>5. b = [k \in 1 .. Len(c) - 1 |-> f[Tail(c)[k]]]
  BY <1>1
<1>6. \A k \in 1 .. Len(c) - 1 : b[k] = Tail(a)[k]
  BY <1>1, <1>2, <1>4, <1>5
<1>7. Tail(a) = [k \in 1 .. Len(c) - 1 |-> Tail(a)[k]]
  <2>1. \A s \in Seq(T) : s = [k \in 1 .. Len(s) |-> s[k]]
    OBVIOUS
  <2>2. Tail(a) = [k \in 1 .. Len(Tail(a)) |-> Tail(a)[k]]
    BY <1>4, <2>1
  <2> HIDE DEF a
  <2> QED
    BY <1>4, <2>2
<1> QED
  BY <1>4, <1>5, <1>6, <1>7

\* What is in the lists, as FifoSpec sees it.
held == [q \in Queues |-> InQueue(q)]

LEMMA SpareStutters ==
  ASSUME ListInv, NEW p \in Elements, NEW cell \in Nodes, Spare(p, cell)
  PROVE  UNCHANGED held
<1>1. cell \notin allocated /\ data' = [data EXCEPT ![cell] = p] /\ chain' = chain
  BY DEF Spare, createProcessNode
<1>2. ASSUME NEW q \in Queues PROVE InQueue(q)' = InQueue(q)
  <2>1. \A k \in DOMAIN chain[q] : data'[chain[q][k]] = data[chain[q][k]]
    <3>1. DOMAIN chain[q] = 1 .. Len(chain[q])
      BY DEF ListInv, TypeInv
    <3> QED
      BY <1>1, <3>1, ChainAllocated DEF ListInv, TypeInv
  <2> QED
    BY <1>1, <2>1 DEF InQueue
<1> QED
  BY <1>2 DEF held

LEMMA EnqueuePuts ==
  ASSUME ListInv, NEW q \in Queues, NEW p \in Elements, NEW cell \in Nodes,
         enqueueProcess(q, p, cell)
  PROVE  held' = [held EXCEPT ![q] = Append(@, p)]
<1>1. /\ cell \notin allocated /\ data' = [data EXCEPT ![cell] = p]
      /\ chain' = [chain EXCEPT ![q] = Append(@, cell)]
  BY DEF enqueueProcess, createProcessNode
<1>2. TypeInv
  BY DEF ListInv
<1>3. \A r \in Queues : \A k \in 1 .. Len(chain[r]) :
         chain[r][k] \in Nodes /\ data'[chain[r][k]] = data[chain[r][k]]
  BY <1>1, <1>2, ChainAllocated DEF TypeInv
<1>4. data'[cell] = p /\ data' \in [Nodes -> Elements \cup {NULL}]
  BY <1>1, <1>2 DEF TypeInv
<1>5. InQueue(q)' = Append(InQueue(q), p)
  <2>1. chain'[q] = Append(chain[q], cell) /\ chain[q] \in Seq(Nodes)
    BY <1>1, <1>2 DEF TypeInv
  <2>2. data \in [Nodes -> Elements \cup {NULL}]
    BY <1>2 DEF TypeInv
  <2> HIDE DEF Elements
  <2> QED
    BY <1>3, <1>4, <2>1, <2>2, AlongAppend DEF InQueue
<1>6. ASSUME NEW r \in Queues, r # q PROVE InQueue(r)' = InQueue(r)
  <2>1. chain'[r] = chain[r] /\ DOMAIN chain[r] = 1 .. Len(chain[r])
    BY <1>1, <1>2, <1>6 DEF TypeInv
  <2> QED
    BY <1>3, <2>1 DEF InQueue
<1> QED
  BY <1>5, <1>6 DEF held

LEMMA DequeueTakes ==
  ASSUME ListInv, NEW q \in Queues, dequeueProcess(q)
  PROVE  held[q] # <<>> /\ held' = [held EXCEPT ![q] = Tail(@)]
<1>1. chain' = [chain EXCEPT ![q] = Tail(@)] /\ data' = data /\ chain[q] # <<>>
  BY DequeueListInv DEF dequeueProcess
<1>2. chain \in [Queues -> Seq(Nodes)] /\ data \in [Nodes -> Elements \cup {NULL}]
  BY DEF ListInv, TypeInv
<1>3. InQueue(q)' = Tail(InQueue(q)) /\ InQueue(q) # <<>>
  <2>1. chain'[q] = Tail(chain[q]) /\ chain[q] \in Seq(Nodes)
    BY <1>1, <1>2
  <2> QED
    BY <1>1, <1>2, <2>1, AlongTail DEF InQueue
<1>4. ASSUME NEW r \in Queues, r # q PROVE InQueue(r)' = InQueue(r)
  BY <1>1, <1>2, <1>4 DEF InQueue
<1> QED
  BY <1>3, <1>4 DEF held

LEMMA StepImplementsFifo == ListInv /\ [QNext]_lists => [Abstract!Next]_held
<1> SUFFICES ASSUME ListInv, [QNext]_lists PROVE Abstract!Next \/ UNCHANGED held
  BY DEF held
<1>1. ASSUME NEW p \in Elements, NEW cell \in Nodes, Spare(p, cell)
      PROVE  UNCHANGED held
  BY <1>1, SpareStutters
<1>2. ASSUME NEW q \in Queues, NEW p \in Elements, NEW cell \in Nodes,
             enqueueProcess(q, p, cell)
      PROVE  Abstract!Next
  BY <1>2, EnqueuePuts DEF held, Abstract!Next, Abstract!Put
<1>3. ASSUME NEW q \in Queues, dequeueProcess(q) PROVE Abstract!Next
  BY <1>3, DequeueTakes DEF held, Abstract!Next, Abstract!Take
<1>4. CASE UNCHANGED lists
  BY <1>4 DEF lists, held, InQueue
<1> QED
  BY <1>1, <1>2, <1>3, <1>4 DEF QNext

\* Whatever the calls, the processes in the lists are those of first-in
\* first-out queues: the enqueued leave from the front, in the order they came.
THEOREM ListsAreFifo == QSpec => FifoSpec
<1>1. QInit => Abstract!Init
  BY DEF QInit, initializeProcessQueue, Abstract!Init, InQueue
<1>2. ListInv /\ [QNext]_lists => [Abstract!Next]_held
  BY StepImplementsFifo
<1> QED
  BY <1>1, <1>2, InitListInv, StepListInv, PTL DEF QSpec, FifoSpec, Abstract!Spec, held
-----------------------------------------------------------------------------
(* The program. *)

\* Where node points to a node that the program created for itself.
NodePhases == {"load", "ioRotate", "ioRequeue", "reportRotate", "reportRequeue"}

FcfsTypeInv ==
  /\ processes \in SortedInputs /\ i \in Nat /\ sizeIO \in Nat
  /\ cpu \in [CPUs -> Elements \cup {NULL}]
  /\ phase \in NodePhases => node \in Nodes /\ data[node] \in Elements

\* What is left of the pass over ioWaitQ is still in it; the same for terminatedQ,
\* whose size is looked at before each turn.
PassInv ==
  /\ phase \in {"io", "ioLeave", "ioRotate"} => size[ioWaitQ] >= sizeIO - i
  /\ phase \in {"ioLeave", "ioRotate"} => i < sizeIO
  /\ phase = "ioRequeue" => size[ioWaitQ] + 1 >= sizeIO - i
  /\ phase = "reportRotate" => size[terminatedQ] > 0

FcfsInv ==
  /\ ListInv /\ held \in [Queues -> Seq(Elements)]
  /\ FcfsTypeInv /\ PassInv

LEMMA InitFcfsInv == Init => FcfsInv
<1> SUFFICES ASSUME Init PROVE FcfsInv
  OBVIOUS
<1>1. ListInv
  BY InitListInv DEF Init
<1>2. held \in [Queues -> Seq(Elements)]
  <2>1. \A q \in Queues : InQueue(q) = <<>>
    BY DEF Init, QInit, initializeProcessQueue, InQueue
  <2>2. <<>> \in Seq(Elements)
    OBVIOUS
  <2> QED
    BY <2>1, <2>2 DEF held
<1>3. FcfsTypeInv /\ PassInv
  BY DEF Init, FcfsTypeInv, PassInv, NodePhases
<1> QED
  BY <1>1, <1>2, <1>3 DEF FcfsInv

\* The lists of the program.
LEMMA TheQueues ==
  /\ readyQ \in Queues /\ ioWaitQ \in Queues /\ terminatedQ \in Queues
  /\ readyQ # ioWaitQ /\ terminatedQ # ioWaitQ /\ readyQ # terminatedQ
BY FcfsAssumption DEF readyQ, ioWaitQ, terminatedQ

\* At the front of a list that is not empty there is a process.
LEMMA FrontIsElement ==
  ASSUME FcfsInv, NEW q \in Queues, size[q] > 0
  PROVE  FrontOf(q) \in Elements
<1>1. chain[q] \in Seq(Nodes) /\ Linked(q) /\ InQueue(q) \in Seq(Elements)
  BY DEF FcfsInv, ListInv, TypeInv, held
<1>2. 1 \in 1 .. Len(chain[q]) /\ chain[q] # <<>>
  BY <1>1 DEF Linked
<1>3. DOMAIN chain[q] = 1 .. Len(chain[q])
  BY <1>1
<1>4. InQueue(q)[1] = data[front[q]] /\ 1 \in DOMAIN InQueue(q)
  BY <1>1, <1>2, <1>3 DEF InQueue, Linked
<1> HIDE DEF Elements
<1> QED
  BY <1>1, <1>4 DEF FrontOf
-----------------------------------------------------------------------------
(* Every step makes a call that any program may make, or none. *)

LEMMA CreateCall == ASSUME FcfsInv, Create PROVE QNext /\ i + 1 \in Elements
<1>1. processes \in Seq(Process) /\ Len(processes) <= MAX_PROCESSES + 1
  BY FcfsAssumption, SchAssumption DEF FcfsInv, FcfsTypeInv, SortedInputs
<1>2. i \in Nat /\ i < Len(processes)
  BY DEF FcfsInv, FcfsTypeInv, Create
<1>3. Spare(i + 1, Fresh) /\ Fresh \in Nodes
  BY DEF Create, Spare, createProcessNode
<1>4. i + 1 \in Elements
  BY <1>1, <1>2, SchAssumption DEF Elements
<1> QED
  BY <1>3, <1>4 DEF QNext

LEMMA EnqueueCall ==
  ASSUME NEW q \in Queues, NEW p \in Elements, enqueueProcess(q, p, Fresh)
  PROVE  QNext /\ Fresh \in Nodes
BY DEF QNext, enqueueProcess, createProcessNode

LEMMA SpareCall ==
  ASSUME NEW p \in Elements, Spare(p, Fresh) PROVE QNext /\ Fresh \in Nodes
BY DEF QNext, Spare, createProcessNode

LEMMA BurstDoneCall ==
  ASSUME NEW q \in Queues, NEW p \in Elements, BurstDone(p, q)
  PROVE  /\ QNext
         /\ enqueueProcess(q, p, Fresh) \/ enqueueProcess(terminatedQ, p, Fresh)
BY EnqueueCall, TheQueues DEF BurstDone

LEMMA OnCPUProcess ==
  ASSUME FcfsInv, OnCPU(cpu[i]), cpu[i] # NULL
  PROVE  i \in CPUs /\ cpu[i] \in Elements
<1>1. i \in CPUs
  BY SchAssumption DEF FcfsInv, FcfsTypeInv, OnCPU, CPUs
<1> QED
  BY <1>1 DEF FcfsInv, FcfsTypeInv

LEMMA InIOProcess ==
  ASSUME FcfsInv, InIO(FrontOf(ioWaitQ)) PROVE FrontOf(ioWaitQ) \in Elements
<1>1. size[ioWaitQ] >= sizeIO - i /\ i < sizeIO /\ i \in Nat /\ sizeIO \in Nat
  BY DEF FcfsInv, PassInv, FcfsTypeInv, InIO, At
<1>2. size[ioWaitQ] \in Nat
  BY TheQueues DEF FcfsInv, ListInv, TypeInv
<1> QED
  BY <1>1, <1>2, FrontIsElement, TheQueues

LEMMA ReportProcess == ASSUME FcfsInv, Report PROVE FrontOf(terminatedQ) \in Elements
<1>1. size[terminatedQ] \in Nat /\ i \in Nat /\ i < size[terminatedQ]
  BY TheQueues DEF FcfsInv, ListInv, TypeInv, FcfsTypeInv, Report
<1> QED
  BY <1>1, FrontIsElement, TheQueues

LEMMA NodeProcess ==
  ASSUME FcfsInv, NEW name \in NodePhases, At(name) PROVE data[node] \in Elements
BY DEF FcfsInv, FcfsTypeInv, At

LEMMA StepCalls == FcfsInv /\ [Next]_vars => [QNext]_lists
<1> SUFFICES ASSUME FcfsInv, [Next]_vars PROVE [QNext]_lists
  OBVIOUS
<1>1. CASE Create
  BY <1>1, CreateCall
<1>2. CASE Load
  BY <1>2, NodeProcess, EnqueueCall, TheQueues DEF Load, NodePhases
<1>3. CASE CPUBurstDone
  BY <1>3, OnCPUProcess, BurstDoneCall, TheQueues DEF CPUBurstDone
<1>4. CASE Dispatch
  BY <1>4, TheQueues DEF Dispatch, QNext
<1>5. CASE IOBurstDone
  BY <1>5, InIOProcess, BurstDoneCall, TheQueues DEF IOBurstDone
<1>6. CASE IOLeave
  BY <1>6, TheQueues DEF IOLeave, QNext
<1>7. CASE IOStep
  BY <1>7, InIOProcess, SpareCall DEF IOStep
<1>8. CASE Rotate(ioWaitQ, "ioRotate", "ioRequeue")
  BY <1>8, TheQueues DEF Rotate, QNext
<1>9. CASE Rotate(terminatedQ, "reportRotate", "reportRequeue")
  BY <1>9, TheQueues DEF Rotate, QNext
<1>10. CASE Requeue(ioWaitQ, "ioRequeue", "io")
  BY <1>10, NodeProcess, EnqueueCall, TheQueues DEF Requeue, NodePhases
<1>11. CASE Requeue(terminatedQ, "reportRequeue", "report")
  BY <1>11, NodeProcess, EnqueueCall, TheQueues DEF Requeue, NodePhases
<1>12. CASE Report
  BY <1>12, ReportProcess, SpareCall DEF Report
<1>13. ASSUME LoadDone \/ Test \/ CPUStep \/ Idle \/ CPUsDone \/ IODone
                \/ Wait \/ EndOfCycle \/ ReportDone \/ UNCHANGED vars
       PROVE  UNCHANGED lists
  BY <1>13 DEF LoadDone, Test, CPUStep, Idle, CPUsDone, IODone, Wait, EndOfCycle,
     ReportDone, Proceed, vars
<1> QED
  BY <1>1, <1>2, <1>3, <1>4, <1>5, <1>6, <1>7, <1>8, <1>9, <1>10, <1>11, <1>12,
     <1>13 DEF Next
-----------------------------------------------------------------------------
LEMMA HeldElements ==
  ASSUME FcfsInv, [QNext]_lists PROVE held' \in [Queues -> Seq(Elements)]
<1>1. [Abstract!Next]_held
  BY StepImplementsFifo DEF FcfsInv
<1>2. held \in [Queues -> Seq(Elements)]
  BY DEF FcfsInv
<1>3. ASSUME NEW q \in Queues, NEW p \in Elements, Abstract!Put(q, p)
      PROVE  held' \in [Queues -> Seq(Elements)]
  <2>1. held' = [held EXCEPT ![q] = Append(@, p)]
    BY <1>3 DEF Abstract!Put, held
  <2> HIDE DEF held, Elements
  <2> QED
    BY <1>2, <2>1
<1>4. ASSUME NEW q \in Queues, Abstract!Take(q)
      PROVE  held' \in [Queues -> Seq(Elements)]
  <2>1. held[q] # <<>> /\ held' = [held EXCEPT ![q] = Tail(@)]
    BY <1>4 DEF Abstract!Take, held
  <2> HIDE DEF held, Elements
  <2> QED
    BY <1>2, <2>1
<1> QED
  BY <1>1, <1>2, <1>3, <1>4 DEF Abstract!Next

\* The sizes that PassInv speaks of.
LEMMA DequeueSize ==
  ASSUME ListInv, NEW q \in Queues, dequeueProcess(q)
  PROVE  size'[q] = size[q] - 1 /\ size[q] \in Nat
<1>1. size \in [Queues -> Nat]
  BY DEF ListInv, TypeInv
<1> QED
  BY <1>1 DEF dequeueProcess

LEMMA EnqueueSize ==
  ASSUME ListInv, NEW q \in Queues, NEW p, enqueueProcess(q, p, Fresh)
  PROVE  /\ size'[q] = size[q] + 1 /\ size[q] \in Nat
         /\ \A r \in Queues : r # q => size'[r] = size[r]
<1>1. size \in [Queues -> Nat]
  BY DEF ListInv, TypeInv
<1> QED
  BY <1>1 DEF enqueueProcess

\* The node made for a process holds it.
LEMMA SpareNode ==
  ASSUME ListInv, NEW p \in Elements, Spare(p, Fresh), node' = Fresh
  PROVE  node' \in Nodes /\ data'[node'] = p /\ size' = size
<1>1. data \in [Nodes -> Elements \cup {NULL}]
  BY DEF ListInv, TypeInv
<1>2. Fresh \in Nodes /\ data' = [data EXCEPT ![Fresh] = p] /\ size' = size
  BY DEF Spare, createProcessNode
<1> QED
  BY <1>1, <1>2

LEMMA StepTypeInv == FcfsInv /\ [Next]_vars => FcfsTypeInv'
<1> SUFFICES ASSUME FcfsInv, [Next]_vars PROVE FcfsTypeInv'
  OBVIOUS
<1>1. ListInv /\ FcfsTypeInv /\ PassInv
  BY DEF FcfsInv
<1>2. size \in [Queues -> Nat]
  BY <1>1 DEF ListInv, TypeInv
<1> USE DEF NodePhases
<1>3. CASE Create
  <2>1. i + 1 \in Elements /\ Spare(i + 1, Fresh) /\ node' = Fresh
    BY <1>3, CreateCall DEF Create
  <2>2. node' \in Nodes /\ data'[node'] \in Elements
    BY <1>1, <2>1, SpareNode
  <2> QED
    BY <1>1, <1>3, <2>2 DEF Create, Goto, running, FcfsTypeInv
<1>4. CASE Load
  BY <1>1, <1>4 DEF Load, Goto, running, FcfsTypeInv
<1>5. CASE CPUBurstDone
  BY <1>1, <1>5, OnCPUProcess DEF CPUBurstDone, OnCPU, Goto, FcfsTypeInv
<1>6. CASE Dispatch
  <2>1. FrontOf(readyQ) \in Elements
    BY <1>6, TheQueues, FrontIsElement DEF Dispatch
  <2>2. cpu' \in [CPUs -> Elements \cup {NULL}]
    BY <1>1, <1>6, <2>1 DEF Dispatch, FcfsTypeInv
  <2> QED
    BY <1>1, <1>6, <2>2 DEF Dispatch, Goto, FcfsTypeInv
<1>7. CASE IOBurstDone
  BY <1>1, <1>7 DEF IOBurstDone, Goto, FcfsTypeInv
<1>8. CASE IOLeave
  BY <1>1, <1>8 DEF IOLeave, Goto, running, FcfsTypeInv
<1>9. CASE IOStep
  <2>1. node' \in Nodes /\ data'[node'] \in Elements
    BY <1>1, <1>9, InIOProcess, SpareNode DEF IOStep
  <2> QED
    BY <1>1, <1>9, <2>1 DEF IOStep, Goto, FcfsTypeInv
<1>10. ASSUME NEW q, Rotate(q, "ioRotate", "ioRequeue")
                       \/ Rotate(q, "reportRotate", "reportRequeue")
       PROVE  FcfsTypeInv'
  BY <1>1, <1>10 DEF Rotate, At, Goto, running, FcfsTypeInv, dequeueProcess
<1>11. ASSUME NEW q, Requeue(q, "ioRequeue", "io")
                       \/ Requeue(q, "reportRequeue", "report")
       PROVE  FcfsTypeInv'
  BY <1>1, <1>11 DEF Requeue, At, Goto, running, FcfsTypeInv
<1>12. CASE Report
  <2>1. node' \in Nodes /\ data'[node'] \in Elements
    BY <1>1, <1>12, ReportProcess, SpareNode DEF Report
  <2> QED
    BY <1>1, <1>12, <2>1 DEF Report, Goto, running, FcfsTypeInv
<1>13. CASE LoadDone \/ Test \/ Idle \/ CPUStep
  BY <1>1, <1>13 DEF LoadDone, Test, Idle, CPUStep, Proceed, Goto, running, FcfsTypeInv
<1>14. CASE CPUsDone
  BY <1>1, <1>2, <1>14, TheQueues DEF CPUsDone, running, FcfsTypeInv
<1>15. CASE IODone \/ Wait \/ EndOfCycle
  BY <1>1, <1>15 DEF IODone, Wait, EndOfCycle, Goto, running, FcfsTypeInv
<1>16. CASE ReportDone \/ UNCHANGED vars
  BY <1>1, <1>16 DEF ReportDone, vars, position, lists, running, FcfsTypeInv
<1> QED
  BY <1>3, <1>4, <1>5, <1>6, <1>7, <1>8, <1>9, <1>10, <1>11, <1>12, <1>13, <1>14,
     <1>15, <1>16 DEF Next

LEMMA StepPassInv == FcfsInv /\ [Next]_vars => PassInv'
<1> SUFFICES ASSUME FcfsInv, [Next]_vars PROVE PassInv'
  OBVIOUS
<1>1. ListInv /\ PassInv /\ i \in Nat /\ sizeIO \in Nat
  BY DEF FcfsInv, FcfsTypeInv
<1>2. size[ioWaitQ] \in Nat
  BY <1>1, TheQueues DEF ListInv, TypeInv
<1>3. CASE IOBurstDone
  <2>1. size'[ioWaitQ] = size[ioWaitQ]
    BY <1>1, <1>3, InIOProcess, BurstDoneCall, TheQueues, EnqueueSize DEF IOBurstDone
  <2> QED
    BY <1>1, <1>3, <2>1 DEF IOBurstDone, InIO, At, Goto, PassInv
<1>4. CASE IOLeave
  <2>1. size'[ioWaitQ] = size[ioWaitQ] - 1
    BY <1>1, <1>4, TheQueues, DequeueSize DEF IOLeave
  <2> QED
    BY <1>1, <1>2, <1>4, <2>1 DEF IOLeave, At, Goto, PassInv
<1>5. CASE IOStep
  <2>1. size' = size
    BY <1>5 DEF IOStep, Spare
  <2> QED
    BY <1>1, <1>5, <2>1 DEF IOStep, InIO, At, Goto, PassInv
<1>6. CASE Rotate(ioWaitQ, "ioRotate", "ioRequeue")
  <2>1. size'[ioWaitQ] = size[ioWaitQ] - 1
    BY <1>1, <1>6, TheQueues, DequeueSize DEF Rotate
  <2> QED
    BY <1>1, <1>2, <1>6, <2>1 DEF Rotate, At, Goto, PassInv
<1>7. CASE Requeue(ioWaitQ, "ioRequeue", "io")
  <2>1. size'[ioWaitQ] = size[ioWaitQ] + 1
    BY <1>1, <1>7, TheQueues, EnqueueSize DEF Requeue
  <2> QED
    BY <1>1, <1>2, <1>7, <2>1 DEF Requeue, At, Goto, PassInv
<1>8. CASE CPUsDone
  BY <1>2, <1>8 DEF CPUsDone, lists, PassInv
<1>9. ASSUME \/ Create \/ Load \/ LoadDone \/ Test \/ CPUBurstDone \/ CPUStep
             \/ Dispatch \/ Idle \/ IODone \/ Wait \/ EndOfCycle
             \/ Rotate(terminatedQ, "reportRotate", "reportRequeue")
             \/ Requeue(terminatedQ, "reportRequeue", "report")
      PROVE  phase' \notin {"io", "ioLeave", "ioRotate", "ioRequeue", "reportRotate"}
  BY <1>9 DEF Create, Load, LoadDone, Test, CPUBurstDone, CPUStep, Dispatch, Idle,
     IODone, Wait, EndOfCycle, Rotate, Requeue, Proceed, Goto
<1>10. CASE ReportDone \/ UNCHANGED vars
  BY <1>1, <1>10 DEF ReportDone, vars, position, lists, PassInv
<1>11. CASE Report
  <2>1. size' = size /\ size[terminatedQ] \in Nat
    BY <1>1, <1>11, TheQueues DEF Report, Spare, ListInv, TypeInv
  <2> QED
    BY <1>1, <1>11, <2>1 DEF Report, Goto, PassInv
<1> QED
  BY <1>3, <1>4, <1>5, <1>6, <1>7, <1>8, <1>9, <1>10, <1>11 DEF Next, PassInv

LEMMA StepFcfsInv == FcfsInv /\ [Next]_vars => FcfsInv'
<1> SUFFICES ASSUME FcfsInv, [Next]_vars PROVE FcfsInv'
  OBVIOUS
<1>1. [QNext]_lists
  BY StepCalls
<1>2. ListInv'
  BY <1>1, StepListInv DEF FcfsInv
<1> QED
  BY <1>1, <1>2, HeldElements, StepTypeInv, StepPassInv DEF FcfsInv

\* fcfs.c only calls the functions of its lists, one at a time, with a process
\* each: it never takes a process from a node that holds none.
THEOREM CallsOnly == Spec => QSpec
<1>1. Init => QInit
  BY DEF Init
<1> QED
  BY <1>1, InitFcfsInv, StepFcfsInv, StepCalls, PTL DEF Spec, QSpec

\* The lists of fcfs.c are sound whatever its input.
THEOREM FcfsListsSound == Spec => []ListsSound
BY CallsOnly, ListsAreSound, PTL

\* They are first-in first-out queues.
THEOREM FcfsListsFifo == Spec => FifoSpec
BY CallsOnly, ListsAreFifo, PTL

\* The assertions that fcfs.c may meet in its lists.
Assertions ==
  /\ \A q \in Queues : EnqueueAssertion(q)
  /\ phase = "cpu" /\ size[readyQ] > 0 => DequeueAssertion(readyQ)
  /\ phase \in {"ioLeave", "ioRotate"} => DequeueAssertion(ioWaitQ)
  /\ phase = "reportRotate" => DequeueAssertion(terminatedQ)

\* No assertion of the lists stops the simulation.
THEOREM AssertionsPass == Spec => []Assertions
<1>1. ASSUME ListInv, NEW q \in Queues, size[q] > 0 PROVE DequeueAssertion(q)
  <2> DEFINE c == chain[q]
  <2>1. Linked(q) /\ c \in Seq(Nodes) /\ QueueAssumption
    BY <1>1, QueueAssumption DEF ListInv, TypeInv
  <2>2. Len(c) \in Nat /\ size[q] = Len(c) /\ Len(c) > 0
    BY <1>1, <2>1 DEF Linked
  <2>3. \A n \in Nat : n > 0 => n = 1 \/ (1 \in 1 .. n /\ 2 \in 1 .. n /\ 1 # n)
    OBVIOUS
  <2>4. size[q] = 1 \/ (1 \in 1 .. Len(c) /\ 2 \in 1 .. Len(c) /\ 1 # Len(c))
    BY <2>2, <2>3
  <2>5. c # <<>>
    BY <2>1, <2>2
  <2>6. CASE 1 \in 1 .. Len(c) /\ 2 \in 1 .. Len(c) /\ 1 # Len(c)
    <3>1. next[c[1]] = c[1 + 1] /\ c[2] \in Nodes
      BY <2>1, <2>6 DEF Linked
    <3>2. front[q] = c[1]
      BY <2>1, <2>5 DEF Linked
    <3> QED
      BY <1>1, <3>1, <3>2, QueueAssumption DEF DequeueAssertion
  <2> QED
    BY <1>1, <2>4, <2>6 DEF DequeueAssertion
<1>2. ASSUME ListInv, NEW q \in Queues PROVE EnqueueAssertion(q)
  <2>1. Linked(q) /\ chain[q] \in Seq(Nodes)
    BY <1>2 DEF ListInv, TypeInv
  <2>2. chain[q] # <<>> => chain[q][1] \in Nodes /\ chain[q][Len(chain[q])] \in Nodes
    BY <2>1
  <2> QED
    BY <2>1, <2>2, QueueAssumption DEF Linked, EnqueueAssertion
<1>3. FcfsInv => Assertions
  <2> SUFFICES ASSUME FcfsInv PROVE Assertions
    OBVIOUS
  <2>1. ListInv /\ PassInv /\ i \in Nat /\ sizeIO \in Nat
    BY DEF FcfsInv, FcfsTypeInv
  <2>2. phase \in {"ioLeave", "ioRotate"} => size[ioWaitQ] > 0
    <3>1. size[ioWaitQ] \in Nat
      BY <2>1, TheQueues DEF ListInv, TypeInv
    <3> QED
      BY <2>1, <3>1 DEF PassInv
  <2> QED
    BY <1>1, <1>2, <2>1, <2>2, TheQueues DEF Assertions, PassInv
<1> QED
  BY <1>3, InitFcfsInv, StepFcfsInv, PTL DEF Spec
-----------------------------------------------------------------------------
(* The lists as queues of processes. *)

\* A list that is not empty, as the pointers show it and as a queue.
LEMMA HeldFacts ==
  ASSUME FcfsInv, NEW q \in Queues
  PROVE  /\ held[q] \in Seq(Elements) /\ held[q] = InQueue(q)
         /\ size[q] = Len(held[q])
         /\ size[q] > 0 => held[q] # <<>> /\ FrontOf(q) = Head(held[q])
                           /\ data[back[q]] = held[q][Len(held[q])]
<1>1. /\ chain[q] \in Seq(Nodes) /\ Linked(q) /\ held[q] \in Seq(Elements)
      /\ held[q] = InQueue(q)
  BY DEF FcfsInv, ListInv, TypeInv, held
<1>2. /\ DOMAIN chain[q] = 1 .. Len(chain[q]) /\ Len(chain[q]) \in Nat
      /\ chain[q] # <<>> <=> Len(chain[q]) > 0
  BY <1>1
<1>3. /\ DOMAIN held[q] = 1 .. Len(chain[q])
      /\ \A k \in 1 .. Len(chain[q]) : held[q][k] = data[chain[q][k]]
  BY <1>1, <1>2 DEF InQueue
<1>4. Len(held[q]) = Len(chain[q])
  <2> HIDE DEF Elements
  <2>1. DOMAIN held[q] = 1 .. Len(held[q]) /\ Len(held[q]) \in Nat
    BY <1>1
  <2> QED
    BY <1>2, <1>3, <2>1
<1>5. size[q] = Len(held[q])
  BY <1>1, <1>4 DEF Linked
<1>6. ASSUME size[q] > 0
      PROVE  held[q] # <<>> /\ FrontOf(q) = Head(held[q])
             /\ data[back[q]] = held[q][Len(held[q])]
  <2>1. 1 \in 1 .. Len(chain[q]) /\ Len(chain[q]) \in 1 .. Len(chain[q])
        /\ chain[q] # <<>> /\ Len(held[q]) > 0
    BY <1>2, <1>4, <1>5, <1>6
  <2>2. front[q] = chain[q][1] /\ back[q] = chain[q][Len(chain[q])]
    BY <1>1, <2>1 DEF Linked
  <2>3. held[q][1] = data[front[q]] /\ held[q][Len(held[q])] = data[back[q]]
    BY <1>3, <1>4, <2>1, <2>2
  <2>4. held[q] # <<>> /\ Head(held[q]) = held[q][1]
    <3> HIDE DEF Elements
    <3> QED
      BY <1>1, <2>1
  <2> QED
    BY <2>3, <2>4 DEF FrontOf
<1> QED
  BY <1>1, <1>5, <1>6

LEMMA EnqueueHeld ==
  ASSUME FcfsInv, NEW q \in Queues, NEW p \in Elements, enqueueProcess(q, p, Fresh)
  PROVE  /\ held'[q] = Append(held[q], p)
         /\ \A r \in Queues : r # q => held'[r] = held[r]
<1>1. Fresh \in Nodes
  BY DEF enqueueProcess, createProcessNode
<1>2. held' = [held EXCEPT ![q] = Append(@, p)]
  BY <1>1, EnqueuePuts DEF FcfsInv
<1>3. held \in [Queues -> Seq(Elements)]
  BY DEF FcfsInv
<1> HIDE DEF held, Elements
<1> QED
  BY <1>2, <1>3

LEMMA DequeueHeld ==
  ASSUME FcfsInv, NEW q \in Queues, dequeueProcess(q)
  PROVE  /\ held[q] # <<>> /\ held'[q] = Tail(held[q])
         /\ \A r \in Queues : r # q => held'[r] = held[r]
<1>1. held[q] # <<>> /\ held' = [held EXCEPT ![q] = Tail(@)]
  BY DequeueTakes DEF FcfsInv
<1>2. held \in [Queues -> Seq(Elements)]
  BY DEF FcfsInv
<1> HIDE DEF held, Elements
<1> QED
  BY <1>1, <1>2

LEMMA SpareHeld ==
  ASSUME FcfsInv, NEW p \in Elements, Spare(p, Fresh), node' = Fresh
  PROVE  held' = held /\ data'[node'] = p
<1>1. Fresh \in Nodes
  BY DEF Spare, createProcessNode
<1>2. held' = held
  BY <1>1, SpareStutters DEF FcfsInv
<1> QED
  BY <1>2, SpareNode DEF FcfsInv

LEMMA SameHeld == UNCHANGED lists => UNCHANGED <<held, data>>
BY DEF lists, held, InQueue

\* The queues as the passes over them see them.  A process in the middle of its
\* turn is not in the queue it came from: it is already where it goes to, or at a
\* node of its own, outside the lists.
inReady == held[readyQ]
inIO    == IF phase \in {"ioLeave", "ioRotate"} THEN Tail(held[ioWaitQ])
           ELSE held[ioWaitQ]
inEnded == IF phase = "reportRotate" THEN Tail(held[terminatedQ])
           ELSE held[terminatedQ]
turningIO    == IF phase \in {"ioRotate", "ioRequeue"} THEN {data[node]} ELSE {}
turningEnded == IF phase \in {"reportRotate", "reportRequeue"} THEN {data[node]} ELSE {}

places == <<inReady, inIO, inEnded, turningIO, turningEnded>>

LEMMA QuietMoves ==
  ASSUME FcfsInv,
         \/ Create \/ LoadDone \/ Test \/ CPUStep \/ Idle \/ CPUsDone \/ IOLeave
         \/ Rotate(ioWaitQ, "ioRotate", "ioRequeue") \/ IODone \/ Wait \/ EndOfCycle
         \/ Rotate(terminatedQ, "reportRotate", "reportRequeue") \/ ReportDone
         \/ UNCHANGED vars
  PROVE  UNCHANGED places
<1>1. CASE Create
  <2>1. held' = held
    BY <1>1, CreateCall, SpareHeld DEF Create
  <2> QED
    BY <1>1, <2>1 DEF Create, At, Goto, places, inReady, inIO, inEnded, turningIO,
       turningEnded
<1>2. CASE LoadDone \/ Test \/ CPUStep \/ Idle \/ CPUsDone
  <2>1. UNCHANGED <<held, data>>
    BY <1>2, SameHeld DEF LoadDone, Test, CPUStep, Idle, CPUsDone, Proceed
  <2> QED
    BY <1>2, <2>1 DEF LoadDone, Test, CPUStep, Idle, CPUsDone, Proceed, OnCPU,
       At, Goto, places, inReady, inIO, inEnded, turningIO, turningEnded
<1>3. CASE IODone \/ Wait \/ EndOfCycle
  <2>1. UNCHANGED <<held, data>>
    BY <1>3, SameHeld DEF IODone, Wait, EndOfCycle
  <2> QED
    BY <1>3, <2>1 DEF IODone, Wait, EndOfCycle, At, Goto, places, inReady, inIO,
       inEnded, turningIO, turningEnded
<1>4. CASE ReportDone \/ UNCHANGED vars
  <2>1. UNCHANGED <<held, data>>
    BY <1>4, SameHeld DEF ReportDone, vars
  <2> QED
    BY <1>4, <2>1 DEF ReportDone, vars, position, places, inReady, inIO, inEnded,
       turningIO, turningEnded
<1>5. CASE IOLeave
  <2>1. held'[ioWaitQ] = Tail(held[ioWaitQ])
        /\ \A r \in Queues : r # ioWaitQ => held'[r] = held[r]
    BY <1>5, DequeueHeld, TheQueues DEF IOLeave
  <2>2. held'[readyQ] = held[readyQ] /\ held'[terminatedQ] = held[terminatedQ]
    BY <2>1, TheQueues
  <2> QED
    BY <1>5, <2>1, <2>2 DEF IOLeave, At, Goto, places, inReady, inIO, inEnded,
       turningIO, turningEnded
<1>6. CASE Rotate(ioWaitQ, "ioRotate", "ioRequeue")
  <2>1. held'[ioWaitQ] = Tail(held[ioWaitQ]) /\ data' = data /\ node' = node
        /\ \A r \in Queues : r # ioWaitQ => held'[r] = held[r]
    BY <1>6, DequeueHeld, TheQueues DEF Rotate, dequeueProcess
  <2>2. held'[readyQ] = held[readyQ] /\ held'[terminatedQ] = held[terminatedQ]
    BY <2>1, TheQueues
  <2> QED
    BY <1>6, <2>1, <2>2 DEF Rotate, At, Goto, places, inReady, inIO, inEnded,
       turningIO, turningEnded
<1>7. CASE Rotate(terminatedQ, "reportRotate", "reportRequeue")
  <2>1. held'[terminatedQ] = Tail(held[terminatedQ]) /\ data' = data /\ node' = node
        /\ \A r \in Queues : r # terminatedQ => held'[r] = held[r]
    BY <1>7, DequeueHeld, TheQueues DEF Rotate, dequeueProcess
  <2>2. held'[readyQ] = held[readyQ] /\ held'[ioWaitQ] = held[ioWaitQ]
    BY <2>1, TheQueues
  <2> QED
    BY <1>7, <2>1, <2>2 DEF Rotate, At, Goto, places, inReady, inIO, inEnded,
       turningIO, turningEnded
<1> QED
  BY <1>1, <1>2, <1>3, <1>4, <1>5, <1>6, <1>7

LEMMA LoadMoves ==
  ASSUME FcfsInv, Load
  PROVE  /\ data[node] \in Elements /\ inReady' = Append(inReady, data[node])
         /\ UNCHANGED <<inIO, inEnded, turningIO, turningEnded>>
<1>1. data[node] \in Elements /\ enqueueProcess(readyQ, data[node], Fresh)
  BY NodeProcess DEF Load, NodePhases
<1>2. /\ held'[readyQ] = Append(held[readyQ], data[node])
      /\ held'[ioWaitQ] = held[ioWaitQ] /\ held'[terminatedQ] = held[terminatedQ]
  BY <1>1, EnqueueHeld, TheQueues
<1> QED
  BY <1>1, <1>2 DEF Load, At, Goto, inReady, inIO, inEnded, turningIO, turningEnded

LEMMA DispatchMoves ==
  ASSUME FcfsInv, Dispatch
  PROVE  /\ i \in CPUs /\ cpu[i] = NULL /\ inReady # <<>>
         /\ cpu' = [cpu EXCEPT ![i] = Head(inReady)] /\ inReady' = Tail(inReady)
         /\ UNCHANGED <<inIO, inEnded, turningIO, turningEnded>>
<1>1. i \in CPUs /\ cpu[i] = NULL /\ dequeueProcess(readyQ) /\ size[readyQ] > 0
  BY SchAssumption DEF Dispatch, OnCPU, CPUs, FcfsInv, FcfsTypeInv
<1>2. /\ held[readyQ] # <<>> /\ held'[readyQ] = Tail(held[readyQ])
      /\ held'[ioWaitQ] = held[ioWaitQ] /\ held'[terminatedQ] = held[terminatedQ]
  BY <1>1, DequeueHeld, TheQueues
<1>3. FrontOf(readyQ) = Head(held[readyQ])
  BY <1>1, HeldFacts, TheQueues
<1> QED
  BY <1>1, <1>2, <1>3 DEF Dispatch, OnCPU, At, Goto, inReady, inIO, inEnded,
     turningIO, turningEnded

LEMMA BlockMoves ==
  ASSUME FcfsInv, CPUBurstDone, NEW p, p = cpu[i],
         currentBurst[p] + 1 <= numberOfBursts(p)
  PROVE  /\ i \in CPUs /\ p \in Elements /\ p # NULL
         /\ cpu' = [cpu EXCEPT ![i] = NULL] /\ NextBurst(p)
         /\ inIO' = Append(inIO, p) /\ endTime' = endTime
         /\ UNCHANGED <<inReady, inEnded, turningIO, turningEnded>>
<1>1. /\ i \in CPUs /\ p \in Elements /\ enqueueProcess(ioWaitQ, p, Fresh)
      /\ p # NULL /\ NextBurst(p) /\ endTime' = endTime
  BY OnCPUProcess DEF CPUBurstDone, BurstDone
<1>2. /\ held'[ioWaitQ] = Append(held[ioWaitQ], p)
      /\ held'[readyQ] = held[readyQ] /\ held'[terminatedQ] = held[terminatedQ]
  BY <1>1, EnqueueHeld, TheQueues
<1> QED
  BY <1>1, <1>2 DEF CPUBurstDone, OnCPU, At, Goto, inReady, inIO, inEnded,
     turningIO, turningEnded

\* The process whose turn in ioWaitQ it is.
LEMMA TurnIO ==
  ASSUME FcfsInv, InIO(FrontOf(ioWaitQ))
  PROVE  /\ FrontOf(ioWaitQ) \in Elements /\ phase = "io" /\ inIO = held[ioWaitQ]
         /\ inIO # <<>> /\ FrontOf(ioWaitQ) = Head(inIO) /\ Len(inIO) >= sizeIO - i
         /\ i \in Nat /\ sizeIO \in Nat /\ i < sizeIO
<1>1. /\ size[ioWaitQ] >= sizeIO - i /\ i < sizeIO /\ i \in Nat /\ sizeIO \in Nat
      /\ phase = "io"
  BY DEF FcfsInv, PassInv, FcfsTypeInv, InIO, At
<1>2. size[ioWaitQ] \in Nat
  BY TheQueues DEF FcfsInv, ListInv, TypeInv
<1>3. size[ioWaitQ] > 0
  BY <1>1, <1>2
<1> QED
  BY <1>1, <1>3, HeldFacts, InIOProcess, TheQueues DEF inIO

LEMMA WakeMoves ==
  ASSUME FcfsInv, IOBurstDone, NEW p, p = Head(inIO),
         currentBurst[p] + 1 <= numberOfBursts(p)
  PROVE  /\ p \in Elements /\ inIO # <<>> /\ NextBurst(p) /\ endTime' = endTime
         /\ inReady' = Append(inReady, p) /\ inIO' = Tail(inIO)
         /\ UNCHANGED <<inEnded, turningIO, turningEnded>>
<1>1. /\ p = FrontOf(ioWaitQ) /\ p \in Elements /\ phase = "io"
      /\ inIO = held[ioWaitQ] /\ inIO # <<>>
  BY TurnIO DEF IOBurstDone
<1>2. enqueueProcess(readyQ, p, Fresh) /\ NextBurst(p) /\ endTime' = endTime
  BY <1>1 DEF IOBurstDone, BurstDone
<1>3. /\ held'[readyQ] = Append(held[readyQ], p)
      /\ held'[ioWaitQ] = held[ioWaitQ] /\ held'[terminatedQ] = held[terminatedQ]
  BY <1>1, <1>2, EnqueueHeld, TheQueues
<1> QED
  BY <1>1, <1>2, <1>3 DEF IOBurstDone, Goto, inReady, inIO, inEnded, turningIO,
     turningEnded

LEMMA EndMoves ==
  ASSUME FcfsInv, IOBurstDone, NEW p, p = Head(inIO),
         ~(currentBurst[p] + 1 <= numberOfBursts(p))
  PROVE  /\ p \in Elements /\ inIO # <<>> /\ UNCHANGED <<currentBurst, step>>
         /\ endTime' = [endTime EXCEPT ![p] = time]
         /\ inEnded' = Append(inEnded, p) /\ inIO' = Tail(inIO)
         /\ UNCHANGED <<inReady, turningIO, turningEnded>>
<1>1. /\ p = FrontOf(ioWaitQ) /\ p \in Elements /\ phase = "io"
      /\ inIO = held[ioWaitQ] /\ inIO # <<>>
  BY TurnIO DEF IOBurstDone
<1>2. /\ enqueueProcess(terminatedQ, p, Fresh) /\ UNCHANGED <<currentBurst, step>>
      /\ endTime' = [endTime EXCEPT ![p] = time]
  BY <1>1 DEF IOBurstDone, BurstDone
<1>3. /\ held'[terminatedQ] = Append(held[terminatedQ], p)
      /\ held'[ioWaitQ] = held[ioWaitQ] /\ held'[readyQ] = held[readyQ]
  BY <1>1, <1>2, EnqueueHeld, TheQueues
<1> QED
  BY <1>1, <1>2, <1>3 DEF IOBurstDone, Goto, inReady, inIO, inEnded, turningIO,
     turningEnded

LEMMA IOStepMoves ==
  ASSUME FcfsInv, IOStep
  PROVE  /\ Head(inIO) \in Elements /\ inIO # <<>> /\ turningIO = {}
         /\ step' = [step EXCEPT ![Head(inIO)] = @ + 1]
         /\ remainingTime(Head(inIO)) # 0
         /\ inIO' = Tail(inIO) /\ turningIO' = {Head(inIO)}
         /\ UNCHANGED <<inReady, inEnded, turningEnded>>
<1> DEFINE p == FrontOf(ioWaitQ)
<1>1. /\ p = Head(inIO) /\ p \in Elements /\ phase = "io"
      /\ inIO = held[ioWaitQ] /\ inIO # <<>>
  BY TurnIO DEF IOStep
<1>2. held' = held /\ data'[node'] = p
  BY <1>1, SpareHeld DEF IOStep
<1> QED
  BY <1>1, <1>2 DEF IOStep, Goto, inReady, inIO, inEnded, turningIO, turningEnded

LEMMA RequeueMoves ==
  ASSUME FcfsInv, Requeue(ioWaitQ, "ioRequeue", "io")
  PROVE  /\ data[node] \in Elements /\ turningIO = {data[node]} /\ turningIO' = {}
         /\ inIO' = Append(inIO, data[node])
         /\ UNCHANGED <<inReady, inEnded, turningEnded>>
<1>1. data[node] \in Elements /\ enqueueProcess(ioWaitQ, data[node], Fresh)
  BY NodeProcess DEF Requeue, NodePhases
<1>2. /\ held'[ioWaitQ] = Append(held[ioWaitQ], data[node])
      /\ held'[readyQ] = held[readyQ] /\ held'[terminatedQ] = held[terminatedQ]
  BY <1>1, EnqueueHeld, TheQueues
<1> QED
  BY <1>1, <1>2 DEF Requeue, At, Goto, inReady, inIO, inEnded, turningIO, turningEnded

LEMMA ReportMoves ==
  ASSUME FcfsInv, Report
  PROVE  /\ Head(inEnded) \in Elements /\ inEnded # <<>> /\ turningEnded = {}
         /\ Head(inEnded) = FrontOf(terminatedQ) /\ i \in Nat /\ i < Len(inEnded)
         /\ inEnded' = Tail(inEnded) /\ turningEnded' = {Head(inEnded)}
         /\ UNCHANGED <<inReady, inIO, turningIO>>
<1> DEFINE p == FrontOf(terminatedQ)
<1>1. /\ size[terminatedQ] \in Nat /\ i \in Nat /\ i < size[terminatedQ]
      /\ phase = "report"
  BY TheQueues DEF FcfsInv, ListInv, TypeInv, FcfsTypeInv, Report, At
<1>2. /\ p = Head(held[terminatedQ]) /\ p \in Elements /\ held[terminatedQ] # <<>>
      /\ i < Len(held[terminatedQ])
  BY <1>1, HeldFacts, ReportProcess, TheQueues
<1>3. held' = held /\ data'[node'] = p
  BY <1>2, SpareHeld DEF Report
<1> QED
  BY <1>1, <1>2, <1>3 DEF Report, Goto, inReady, inIO, inEnded, turningIO, turningEnded

LEMMA ReportRequeueMoves ==
  ASSUME FcfsInv, Requeue(terminatedQ, "reportRequeue", "report")
  PROVE  /\ data[node] \in Elements
         /\ turningEnded = {data[node]} /\ turningEnded' = {}
         /\ inEnded' = Append(inEnded, data[node])
         /\ UNCHANGED <<inReady, inIO, turningIO>>
<1>1. data[node] \in Elements /\ enqueueProcess(terminatedQ, data[node], Fresh)
  BY NodeProcess DEF Requeue, NodePhases
<1>2. /\ held'[terminatedQ] = Append(held[terminatedQ], data[node])
      /\ held'[readyQ] = held[readyQ] /\ held'[ioWaitQ] = held[ioWaitQ]
  BY <1>1, EnqueueHeld, TheQueues
<1> QED
  BY <1>1, <1>2 DEF Requeue, At, Goto, inReady, inIO, inEnded, turningIO, turningEnded
-----------------------------------------------------------------------------
(* Every process is in one place. *)

ReadySet == Range(inReady)
CPUSet   == {cpu[c] : c \in CPUs} \ {NULL}
IOSet    == Range(inIO) \cup turningIO
EndedSet == Range(inEnded) \cup turningEnded
NewSet   == {p \in Procs : phase \in {"create", "load"} /\ p > i}

sets == <<ReadySet, CPUSet, IOSet, EndedSet, NewSet>>

ValuesInv ==
  /\ currentBurst \in [Procs -> Nat] /\ step \in [Procs -> Nat]
  /\ waitingTime \in [Procs -> Nat] /\ endTime \in [Procs -> Nat] /\ time \in Nat

\* No queue holds a process twice, and no process is on two processors.
OnceInv ==
  /\ IsInjective(inReady) /\ IsInjective(inIO) /\ IsInjective(inEnded)
  /\ turningIO \cap Range(inIO) = {} /\ turningEnded \cap Range(inEnded) = {}
  /\ \A c, d \in CPUs : cpu[c] = cpu[d] /\ cpu[c] # NULL => c = d

ApartInv ==
  /\ Procs = ReadySet \cup CPUSet \cup IOSet \cup EndedSet \cup NewSet
  /\ ReadySet \cap CPUSet = {} /\ ReadySet \cap IOSet = {}
  /\ ReadySet \cap EndedSet = {} /\ ReadySet \cap NewSet = {}
  /\ CPUSet \cap IOSet = {} /\ CPUSet \cap EndedSet = {} /\ CPUSet \cap NewSet = {}
  /\ IOSet \cap EndedSet = {} /\ IOSet \cap NewSet = {} /\ EndedSet \cap NewSet = {}
  /\ phase = "load" => i < Len(processes) /\ data[node] = i + 1

\* A process is on a processor, or ready for one, in a CPU burst, in ioWaitQ in an
\* I/O burst or past its last, and in terminatedQ past its last.
BurstInv ==
  /\ \A p \in ReadySet \cup CPUSet :
       currentBurst[p] % 2 = 0 /\ currentBurst[p] < numberOfBursts(p)
  /\ \A p \in ReadySet : step[p] = 0
  /\ \A p \in IOSet :
       currentBurst[p] % 2 = 1 /\ currentBurst[p] <= numberOfBursts(p)
  /\ \A p \in EndedSet : currentBurst[p] = numberOfBursts(p)
  /\ \A p \in NewSet : currentBurst[p] = 0 /\ step[p] = 0
  /\ \A p \in Procs : step[p] <= length(p)

PlaceInv == FcfsInv /\ ValuesInv /\ OnceInv /\ ApartInv /\ BurstInv

LEMMA ProcFacts ==
  ASSUME FcfsInv
  PROVE  /\ processes \in Seq(Process) /\ Len(processes) \in Nat
         /\ Procs \subseteq Elements /\ NULL \notin Procs /\ IsFiniteSet(Procs)
         /\ \A p \in Procs :
              /\ processes[p].bursts \in Seq(Nat)
              /\ numberOfBursts(p) \in Nat /\ numberOfBursts(p) % 2 = 1
<1>1. processes \in Seq(Process) /\ Len(processes) <= MAX_PROCESSES + 1
  BY FcfsAssumption, SchAssumption DEF FcfsInv, FcfsTypeInv, SortedInputs
<1>2. Len(processes) \in Nat
  BY <1>1
<1>3. Procs \subseteq Elements /\ NULL \notin Procs
  BY <1>1, <1>2, SchAssumption DEF Procs, Elements, NULL
<1>4. IsFiniteSet(Procs)
  BY <1>2, FS_Interval DEF Procs
<1>5. ASSUME NEW p \in Procs
      PROVE  /\ processes[p].bursts \in Seq(Nat)
             /\ numberOfBursts(p) \in Nat /\ numberOfBursts(p) % 2 = 1
  <2>1. processes[p] \in Process
    BY <1>1, <1>5 DEF Procs
  <2>2. processes[p].bursts \in Seq(Nat) /\ Len(processes[p].bursts) % 2 = 1
    BY <2>1 DEF Process
  <2>3. Len(processes[p].bursts) \in Nat
    BY <2>2
  <2> QED
    BY <2>2, <2>3 DEF numberOfBursts
<1> QED
  BY <1>1, <1>2, <1>3, <1>4, <1>5

LEMMA LengthType ==
  ASSUME FcfsInv, ValuesInv, NEW p \in Procs
  PROVE  /\ length(p) \in Nat
         /\ currentBurst[p] < numberOfBursts(p) =>
              currentBurst[p] + 1 \in 1 .. numberOfBursts(p)
              /\ length(p) = processes[p].bursts[currentBurst[p] + 1]
<1>1. /\ processes[p].bursts \in Seq(Nat)
      /\ numberOfBursts(p) \in Nat /\ currentBurst[p] \in Nat
  BY ProcFacts DEF ValuesInv
<1>2. currentBurst[p] < numberOfBursts(p) =>
        currentBurst[p] + 1 \in 1 .. numberOfBursts(p)
  BY <1>1
<1>3. \A k \in 1 .. numberOfBursts(p) : processes[p].bursts[k] \in Nat
  BY <1>1 DEF numberOfBursts
<1> QED
  BY <1>2, <1>3 DEF length

LEMMA QueueTypes ==
  ASSUME FcfsInv
  PROVE  /\ inReady \in Seq(Elements) /\ inIO \in Seq(Elements)
         /\ inEnded \in Seq(Elements)
<1>1. /\ held[readyQ] \in Seq(Elements) /\ held[ioWaitQ] \in Seq(Elements)
      /\ held[terminatedQ] \in Seq(Elements)
  BY HeldFacts, TheQueues
<1>2. phase \in {"ioLeave", "ioRotate"} => held[ioWaitQ] # <<>>
  <2>1. size[ioWaitQ] \in Nat
    BY TheQueues DEF FcfsInv, ListInv, TypeInv
  <2>2. phase \in {"ioLeave", "ioRotate"} => size[ioWaitQ] > 0
    BY <2>1 DEF FcfsInv, FcfsTypeInv, PassInv
  <2> QED
    BY <2>2, HeldFacts, TheQueues
<1>3. phase = "reportRotate" => held[terminatedQ] # <<>>
  BY HeldFacts, TheQueues DEF FcfsInv, PassInv
<1> HIDE DEF Elements, held
<1>4. \A s \in Seq(Elements) : s # <<>> => Tail(s) \in Seq(Elements)
  OBVIOUS
<1> QED
  BY <1>1, <1>2, <1>3, <1>4 DEF inReady, inIO, inEnded

LEMMA InitPlaceInv == Init => PlaceInv
<1> SUFFICES ASSUME Init PROVE PlaceInv
  OBVIOUS
<1>1. FcfsInv
  BY InitFcfsInv
<1>2. inReady = <<>> /\ inIO = <<>> /\ inEnded = <<>>
  <2>1. \A q \in Queues : held[q] = <<>>
    <3>1. \A q \in Queues : held[q] = InQueue(q)
      BY <1>1, HeldFacts
    <3> QED
      BY <3>1 DEF Init, QInit, initializeProcessQueue, InQueue
  <2> QED
    BY <2>1, TheQueues DEF Init, inReady, inIO, inEnded
<1>3. turningIO = {} /\ turningEnded = {} /\ CPUSet = {} /\ NewSet = Procs
  BY DEF Init, turningIO, turningEnded, CPUSet, NewSet, Procs
<1>4. ReadySet = {} /\ IOSet = {} /\ EndedSet = {}
  BY <1>2, <1>3, RangeEmpty DEF ReadySet, IOSet, EndedSet
<1>5. ValuesInv
  BY DEF Init, ValuesInv
<1>6. OnceInv
  BY <1>2, <1>3, RangeEmpty DEF Init, OnceInv
<1>7. ApartInv
  BY <1>3, <1>4 DEF Init, ApartInv
<1>8. BurstInv
  <2>1. \A p \in Procs : step[p] = 0 /\ currentBurst[p] = 0 /\ length(p) \in Nat
    BY <1>1, <1>5, LengthType DEF Init
  <2>2. \A p \in Procs : step[p] <= length(p)
    BY <2>1
  <2> QED
    BY <1>3, <1>4, <2>1, <2>2 DEF BurstInv
<1> QED
  BY <1>1, <1>5, <1>6, <1>7, <1>8 DEF PlaceInv
-----------------------------------------------------------------------------
(* Where the processes go, step by step. *)

LEMMA LoadSets ==
  ASSUME PlaceInv, Load
  PROVE  /\ i + 1 \in NewSet
         /\ ReadySet' = ReadySet \cup {i + 1} /\ NewSet' = NewSet \ {i + 1}
         /\ UNCHANGED <<CPUSet, IOSet, EndedSet>>
         /\ IsInjective(inReady)'
<1> DEFINE p == data[node]
<1>1. FcfsInv /\ OnceInv /\ ApartInv
  BY DEF PlaceInv
<1>2. /\ p \in Elements /\ inReady' = Append(inReady, p)
      /\ UNCHANGED <<inIO, inEnded, turningIO, turningEnded>>
  BY <1>1, LoadMoves
<1>3. /\ p = i + 1 /\ i < Len(processes) /\ i \in Nat /\ phase = "load"
      /\ phase' = "create" /\ i' = i + 1 /\ processes' = processes
      /\ cpu' = cpu
  BY <1>1 DEF Load, At, Goto, ApartInv, FcfsInv, FcfsTypeInv, running
<1>4. Len(processes) \in Nat
  BY <1>1, ProcFacts
<1>5. p \in NewSet
  BY <1>3, <1>4 DEF NewSet, Procs
<1>6. NewSet' = NewSet \ {p}
  <2>1. Procs' = Procs
    BY <1>3 DEF Procs
  <2>2. \A q \in Procs : q > i + 1 <=> q > i /\ q # i + 1
    BY <1>3, <1>4 DEF Procs
  <2> QED
    BY <1>3, <2>1, <2>2 DEF NewSet
<1>7. Range(inReady') = Range(inReady) \cup {p}
      /\ (p \notin Range(inReady) => IsInjective(inReady'))
  <2> HIDE DEF p, Elements
  <2> QED
    BY <1>1, <1>2, QueueTypes, AppendRange DEF OnceInv
<1>8. p \notin Range(inReady)
  BY <1>1, <1>5 DEF ApartInv, ReadySet
<1> QED
  BY <1>2, <1>3, <1>5, <1>6, <1>7, <1>8 DEF ReadySet, CPUSet, IOSet, EndedSet

LEMMA DispatchSets ==
  ASSUME PlaceInv, Dispatch
  PROVE  /\ Head(inReady) \in ReadySet
         /\ ReadySet' = ReadySet \ {Head(inReady)}
         /\ CPUSet' = CPUSet \cup {Head(inReady)}
         /\ UNCHANGED <<IOSet, EndedSet, NewSet>>
         /\ IsInjective(inReady)'
         /\ \A c, d \in CPUs : cpu'[c] = cpu'[d] /\ cpu'[c] # NULL => c = d
<1> DEFINE p == Head(inReady)
<1>1. FcfsInv /\ OnceInv /\ ApartInv
  BY DEF PlaceInv
<1>2. /\ i \in CPUs /\ cpu[i] = NULL /\ inReady # <<>>
      /\ cpu' = [cpu EXCEPT ![i] = Head(inReady)] /\ inReady' = Tail(inReady)
      /\ UNCHANGED <<inIO, inEnded, turningIO, turningEnded>>
  BY <1>1, DispatchMoves
<1>3. /\ p \in Elements /\ p \in ReadySet /\ Range(inReady) = Range(inReady') \cup {p}
      /\ IsInjective(inReady)' /\ p \notin Range(inReady')
  <2> HIDE DEF Elements
  <2> QED
    BY <1>1, <1>2, QueueTypes, TailRange DEF OnceInv, ReadySet
<1>4. p # NULL /\ p \notin CPUSet
  BY <1>1, <1>3, ProcFacts DEF ApartInv
<1>5. cpu \in [CPUs -> Elements \cup {NULL}]
  BY <1>1 DEF FcfsInv, FcfsTypeInv
<1>6. CPUSet' = CPUSet \cup {p}
  <2> HIDE DEF p
  <2>1. \A c \in CPUs : cpu'[c] = IF c = i THEN p ELSE cpu[c]
    BY <1>2, <1>5 DEF p
  <2> QED
    BY <1>2, <1>4, <2>1 DEF CPUSet
<1>7. NewSet' = NewSet
  BY DEF Dispatch, OnCPU, At, Goto, NewSet, Procs
<1>8. ASSUME NEW c \in CPUs, NEW d \in CPUs, cpu'[c] = cpu'[d], cpu'[c] # NULL
      PROVE  c = d
  <2> HIDE DEF p
  <2>1. /\ cpu'[c] = (IF c = i THEN p ELSE cpu[c])
        /\ cpu'[d] = (IF d = i THEN p ELSE cpu[d])
    BY <1>2, <1>5 DEF p
  <2>2. cpu[c] # NULL => cpu[c] \in CPUSet
    BY DEF CPUSet
  <2>3. cpu[d] # NULL => cpu[d] \in CPUSet
    BY DEF CPUSet
  <2> QED
    BY <1>1, <1>4, <1>8, <2>1, <2>2, <2>3 DEF OnceInv
<1> QED
  BY <1>2, <1>3, <1>6, <1>7, <1>8 DEF ReadySet, IOSet, EndedSet

\* Every CPU burst ends with an index that the program's test accepts.
LEMMA BlockTaken ==
  ASSUME PlaceInv, CPUBurstDone
  PROVE  /\ cpu[i] \in CPUSet /\ cpu[i] \in Procs
         /\ currentBurst[cpu[i]] + 1 <= numberOfBursts(cpu[i])
<1>1. i \in CPUs /\ cpu[i] # NULL
  BY OnCPUProcess DEF PlaceInv, CPUBurstDone
<1>2. cpu[i] \in CPUSet /\ cpu[i] \in Procs
  BY <1>1 DEF CPUSet, PlaceInv, ApartInv
<1>3. currentBurst[cpu[i]] \in Nat /\ numberOfBursts(cpu[i]) \in Nat
  BY <1>2, ProcFacts DEF PlaceInv, ValuesInv
<1> QED
  BY <1>2, <1>3 DEF PlaceInv, BurstInv

LEMMA BlockSets ==
  ASSUME PlaceInv, CPUBurstDone, NEW p, p = cpu[i]
  PROVE  /\ p \in CPUSet /\ NextBurst(p) /\ endTime' = endTime
         /\ CPUSet' = CPUSet \ {p} /\ IOSet' = IOSet \cup {p}
         /\ UNCHANGED <<ReadySet, EndedSet, NewSet>>
         /\ inIO' = Append(inIO, p) /\ UNCHANGED <<inEnded, turningIO, turningEnded>>
         /\ IsInjective(inIO)' /\ p \notin Range(inIO) /\ turningIO' \cap Range(inIO') = {}
         /\ \A c, d \in CPUs : cpu'[c] = cpu'[d] /\ cpu'[c] # NULL => c = d
<1>1. FcfsInv /\ OnceInv /\ ApartInv
  BY DEF PlaceInv
<1>2. p \in CPUSet /\ p \in Procs /\ currentBurst[p] + 1 <= numberOfBursts(p)
  BY BlockTaken
<1>3. /\ i \in CPUs /\ p \in Elements /\ p # NULL
      /\ cpu' = [cpu EXCEPT ![i] = NULL] /\ NextBurst(p)
      /\ inIO' = Append(inIO, p) /\ endTime' = endTime
      /\ UNCHANGED <<inReady, inEnded, turningIO, turningEnded>>
  BY <1>1, <1>2, BlockMoves
<1>4. cpu \in [CPUs -> Elements \cup {NULL}]
  BY <1>1 DEF FcfsInv, FcfsTypeInv
<1>5. \A c \in CPUs : cpu'[c] = IF c = i THEN NULL ELSE cpu[c]
  BY <1>3, <1>4
<1>6. CPUSet' = CPUSet \ {p}
  <2>1. \A c \in CPUs : c # i => cpu[c] # p
    BY <1>1, <1>3 DEF OnceInv
  <2> QED
    BY <1>5, <2>1 DEF CPUSet
<1>7. p \notin IOSet
  BY <1>1, <1>2 DEF ApartInv
<1>8. Range(inIO') = Range(inIO) \cup {p} /\ IsInjective(inIO')
  <2> HIDE DEF Elements
  <2> QED
    BY <1>1, <1>3, <1>7, QueueTypes, AppendRange DEF OnceInv, IOSet
<1>9. NewSet' = NewSet
  BY DEF CPUBurstDone, OnCPU, At, Goto, NewSet, Procs
<1>10. turningIO' \cap Range(inIO') = {}
  BY <1>1, <1>3, <1>7, <1>8 DEF OnceInv, IOSet
<1> QED
  BY <1>1, <1>2, <1>3, <1>5, <1>6, <1>7, <1>8, <1>9, <1>10
     DEF OnceInv, ReadySet, IOSet, EndedSet

\* The process whose turn in ioWaitQ it is goes on.
LEMMA WakeSets ==
  ASSUME PlaceInv, IOBurstDone, NEW p, p = Head(inIO),
         currentBurst[p] + 1 <= numberOfBursts(p)
  PROVE  /\ p \in IOSet /\ NextBurst(p) /\ endTime' = endTime
         /\ inIO # <<>> /\ inIO' = Tail(inIO) /\ inReady' = Append(inReady, p)
         /\ IOSet' = IOSet \ {p} /\ ReadySet' = ReadySet \cup {p}
         /\ UNCHANGED <<CPUSet, EndedSet, NewSet>>
         /\ UNCHANGED <<inEnded, turningIO, turningEnded>>
         /\ IsInjective(inIO)' /\ IsInjective(inReady)'
         /\ turningIO' \cap Range(inIO') = {}
<1>1. FcfsInv /\ OnceInv /\ ApartInv
  BY DEF PlaceInv
<1>2. /\ p \in Elements /\ inIO # <<>> /\ NextBurst(p) /\ endTime' = endTime
      /\ inReady' = Append(inReady, p) /\ inIO' = Tail(inIO)
      /\ UNCHANGED <<inEnded, turningIO, turningEnded>>
  BY <1>1, WakeMoves
<1>3. /\ p \in Range(inIO) /\ Range(inIO) = Range(inIO') \cup {p}
      /\ p \notin Range(inIO') /\ IsInjective(inIO')
  <2> HIDE DEF Elements
  <2> QED
    BY <1>1, <1>2, QueueTypes, TailRange DEF OnceInv
<1>4. p \notin Range(inReady) /\ p \notin turningIO
  BY <1>1, <1>3 DEF OnceInv, ApartInv, ReadySet, IOSet
<1>5. Range(inReady') = Range(inReady) \cup {p} /\ IsInjective(inReady')
  <2> HIDE DEF Elements
  <2> QED
    BY <1>1, <1>2, <1>4, QueueTypes, AppendRange DEF OnceInv
<1>6. NewSet' = NewSet /\ CPUSet' = CPUSet
  BY DEF IOBurstDone, InIO, At, Goto, NewSet, Procs, CPUSet
<1>7. IOSet' = IOSet \ {p} /\ turningIO' \cap Range(inIO') = {}
  BY <1>1, <1>2, <1>3, <1>4 DEF OnceInv, IOSet
<1> QED
  BY <1>2, <1>3, <1>5, <1>6, <1>7 DEF ReadySet, IOSet, EndedSet

\* Or has no burst left.
LEMMA EndSets ==
  ASSUME PlaceInv, IOBurstDone, NEW p, p = Head(inIO),
         ~(currentBurst[p] + 1 <= numberOfBursts(p))
  PROVE  /\ p \in IOSet /\ currentBurst[p] = numberOfBursts(p)
         /\ UNCHANGED <<currentBurst, step>>
         /\ endTime' = [endTime EXCEPT ![p] = time]
         /\ inIO # <<>> /\ inIO' = Tail(inIO) /\ inEnded' = Append(inEnded, p)
         /\ IOSet' = IOSet \ {p} /\ EndedSet' = EndedSet \cup {p}
         /\ UNCHANGED <<CPUSet, ReadySet, NewSet>>
         /\ UNCHANGED <<inReady, turningIO, turningEnded>>
         /\ IsInjective(inIO)' /\ IsInjective(inEnded)'
         /\ turningIO' \cap Range(inIO') = {} /\ turningEnded' \cap Range(inEnded') = {}
<1>1. FcfsInv /\ OnceInv /\ ApartInv
  BY DEF PlaceInv
<1>2. /\ p \in Elements /\ inIO # <<>> /\ UNCHANGED <<currentBurst, step>>
      /\ endTime' = [endTime EXCEPT ![p] = time]
      /\ inEnded' = Append(inEnded, p) /\ inIO' = Tail(inIO)
      /\ UNCHANGED <<inReady, turningIO, turningEnded>>
  BY <1>1, EndMoves
<1>3. /\ p \in Range(inIO) /\ Range(inIO) = Range(inIO') \cup {p}
      /\ p \notin Range(inIO') /\ IsInjective(inIO')
  <2> HIDE DEF Elements
  <2> QED
    BY <1>1, <1>2, QueueTypes, TailRange DEF OnceInv
<1>4. p \notin Range(inEnded) /\ p \notin turningIO /\ p \notin turningEnded
      /\ p \in IOSet /\ p \in Procs
  BY <1>1, <1>3 DEF OnceInv, ApartInv, EndedSet, IOSet
<1>5. Range(inEnded') = Range(inEnded) \cup {p} /\ IsInjective(inEnded')
  <2> HIDE DEF Elements
  <2> QED
    BY <1>1, <1>2, <1>4, QueueTypes, AppendRange DEF OnceInv
<1>6. NewSet' = NewSet /\ CPUSet' = CPUSet
  BY DEF IOBurstDone, InIO, At, Goto, NewSet, Procs, CPUSet
<1>7. IOSet' = IOSet \ {p} /\ turningIO' \cap Range(inIO') = {}
  BY <1>1, <1>2, <1>3, <1>4 DEF OnceInv, IOSet
<1>8. currentBurst[p] = numberOfBursts(p)
  <2>1. currentBurst[p] \in Nat /\ numberOfBursts(p) \in Nat
    BY <1>4, ProcFacts DEF PlaceInv, ValuesInv
  <2>2. currentBurst[p] <= numberOfBursts(p)
    BY <1>4 DEF PlaceInv, BurstInv
  <2> QED
    BY <2>1, <2>2
<1>9. turningEnded' \cap Range(inEnded') = {}
  BY <1>1, <1>2, <1>4, <1>5 DEF OnceInv
<1> QED
  BY <1>2, <1>3, <1>4, <1>5, <1>6, <1>7, <1>8, <1>9 DEF ReadySet, IOSet, EndedSet

LEMMA IOStepSets ==
  ASSUME PlaceInv, IOStep, NEW p, p = Head(inIO)
  PROVE  /\ p \in IOSet /\ step' = [step EXCEPT ![p] = @ + 1]
         /\ remainingTime(p) # 0
         /\ inIO # <<>> /\ inIO' = Tail(inIO) /\ turningIO = {} /\ turningIO' = {p}
         /\ UNCHANGED sets /\ UNCHANGED <<inReady, inEnded, turningEnded>>
         /\ IsInjective(inIO)' /\ turningIO' \cap Range(inIO') = {}
<1>1. FcfsInv /\ OnceInv /\ ApartInv
  BY DEF PlaceInv
<1>2. /\ p \in Elements /\ inIO # <<>> /\ turningIO = {}
      /\ step' = [step EXCEPT ![p] = @ + 1] /\ remainingTime(p) # 0
      /\ inIO' = Tail(inIO) /\ turningIO' = {p}
      /\ UNCHANGED <<inReady, inEnded, turningEnded>>
  BY <1>1, IOStepMoves
<1>3. /\ p \in Range(inIO) /\ Range(inIO) = Range(inIO') \cup {p}
      /\ p \notin Range(inIO') /\ IsInjective(inIO')
  <2> HIDE DEF Elements
  <2> QED
    BY <1>1, <1>2, QueueTypes, TailRange DEF OnceInv
<1>4. NewSet' = NewSet /\ CPUSet' = CPUSet
  BY DEF IOStep, InIO, At, Goto, NewSet, Procs, CPUSet
<1>5. IOSet' = IOSet /\ p \in IOSet /\ turningIO' \cap Range(inIO') = {}
  BY <1>2, <1>3 DEF IOSet
<1> QED
  BY <1>2, <1>3, <1>4, <1>5 DEF sets, ReadySet, EndedSet

LEMMA RequeueSets ==
  ASSUME PlaceInv, Requeue(ioWaitQ, "ioRequeue", "io"), NEW p, p = data[node]
  PROVE  /\ turningIO = {p} /\ turningIO' = {} /\ p \in IOSet
         /\ inIO' = Append(inIO, p)
         /\ UNCHANGED sets /\ UNCHANGED <<inReady, inEnded, turningEnded>>
         /\ IsInjective(inIO)'
<1>1. FcfsInv /\ OnceInv
  BY DEF PlaceInv
<1>2. /\ p \in Elements /\ turningIO = {p} /\ turningIO' = {}
      /\ inIO' = Append(inIO, p)
      /\ UNCHANGED <<inReady, inEnded, turningEnded>>
  BY <1>1, RequeueMoves
<1>3. Range(inIO') = Range(inIO) \cup {p} /\ IsInjective(inIO')
  <2>1. p \notin Range(inIO)
    BY <1>1, <1>2 DEF OnceInv
  <2> HIDE DEF Elements
  <2> QED
    BY <1>1, <1>2, <2>1, QueueTypes, AppendRange DEF OnceInv
<1>4. NewSet' = NewSet /\ CPUSet' = CPUSet
  BY DEF Requeue, At, Goto, NewSet, Procs, CPUSet, running
<1> QED
  BY <1>2, <1>3, <1>4 DEF sets, ReadySet, EndedSet, IOSet

LEMMA ReportSets ==
  ASSUME PlaceInv, Report, NEW p, p = Head(inEnded)
  PROVE  /\ p \in EndedSet /\ p = FrontOf(terminatedQ)
         /\ inEnded # <<>> /\ i \in Nat /\ i < Len(inEnded)
         /\ inEnded' = Tail(inEnded) /\ turningEnded = {} /\ turningEnded' = {p}
         /\ UNCHANGED sets /\ UNCHANGED <<inReady, inIO, turningIO>>
         /\ IsInjective(inEnded)' /\ turningEnded' \cap Range(inEnded') = {}
<1>1. FcfsInv /\ OnceInv
  BY DEF PlaceInv
<1>2. /\ p \in Elements /\ inEnded # <<>> /\ turningEnded = {}
      /\ p = FrontOf(terminatedQ) /\ i \in Nat /\ i < Len(inEnded)
      /\ inEnded' = Tail(inEnded) /\ turningEnded' = {p}
      /\ UNCHANGED <<inReady, inIO, turningIO>>
  BY <1>1, ReportMoves
<1>3. /\ p \in Range(inEnded) /\ Range(inEnded) = Range(inEnded') \cup {p}
      /\ p \notin Range(inEnded') /\ IsInjective(inEnded')
  <2> HIDE DEF Elements
  <2> QED
    BY <1>1, <1>2, QueueTypes, TailRange DEF OnceInv
<1>4. NewSet' = NewSet /\ CPUSet' = CPUSet
  BY DEF Report, At, Goto, NewSet, Procs, CPUSet, running
<1>5. EndedSet' = EndedSet /\ p \in EndedSet /\ turningEnded' \cap Range(inEnded') = {}
  BY <1>2, <1>3 DEF EndedSet
<1> QED
  BY <1>2, <1>3, <1>4, <1>5 DEF sets, ReadySet, IOSet

LEMMA ReportRequeueSets ==
  ASSUME PlaceInv, Requeue(terminatedQ, "reportRequeue", "report"),
         NEW p, p = data[node]
  PROVE  /\ turningEnded = {p} /\ turningEnded' = {} /\ p \in EndedSet
         /\ inEnded' = Append(inEnded, p)
         /\ UNCHANGED sets /\ UNCHANGED <<inReady, inIO, turningIO>>
         /\ IsInjective(inEnded)'
<1>1. FcfsInv /\ OnceInv
  BY DEF PlaceInv
<1>2. /\ p \in Elements /\ turningEnded = {p} /\ turningEnded' = {}
      /\ inEnded' = Append(inEnded, p)
      /\ UNCHANGED <<inReady, inIO, turningIO>>
  BY <1>1, ReportRequeueMoves
<1>3. Range(inEnded') = Range(inEnded) \cup {p} /\ IsInjective(inEnded')
  <2>1. p \notin Range(inEnded)
    BY <1>1, <1>2 DEF OnceInv
  <2> HIDE DEF Elements
  <2> QED
    BY <1>1, <1>2, <2>1, QueueTypes, AppendRange DEF OnceInv
<1>4. NewSet' = NewSet /\ CPUSet' = CPUSet
  BY DEF Requeue, At, Goto, NewSet, Procs, CPUSet, running
<1> QED
  BY <1>2, <1>3, <1>4 DEF sets, ReadySet, EndedSet, IOSet

LEMMA QuietSets ==
  ASSUME PlaceInv,
         \/ Create \/ LoadDone \/ Test \/ CPUStep \/ Idle \/ CPUsDone \/ IOLeave
         \/ Rotate(ioWaitQ, "ioRotate", "ioRequeue") \/ IODone \/ Wait \/ EndOfCycle
         \/ Rotate(terminatedQ, "reportRotate", "reportRequeue") \/ ReportDone
         \/ UNCHANGED vars
  PROVE  /\ UNCHANGED places /\ UNCHANGED sets
         /\ UNCHANGED <<processes, cpu, currentBurst, endTime>>
         /\ OnceInv'
<1>1. UNCHANGED places
  BY QuietMoves DEF PlaceInv
<1>2. UNCHANGED <<processes, cpu, currentBurst, endTime>>
  BY DEF Create, LoadDone, Test, CPUStep, Idle, CPUsDone, IOLeave, Rotate, IODone,
     Wait, EndOfCycle, ReportDone, vars, running, Proceed, Goto
<1>3. NewSet' = NewSet
  <2>1. CASE LoadDone
    <3>1. \A p \in Procs : ~(p > i)
      BY <2>1, ProcFacts DEF LoadDone, Procs, PlaceInv, FcfsInv, FcfsTypeInv
    <3> QED
      BY <2>1, <3>1 DEF LoadDone, Proceed, Goto, NewSet, Procs
  <2>2. CASE Create
    BY <2>2 DEF Create, At, Goto, NewSet, Procs
  <2>3. CASE ReportDone \/ UNCHANGED vars
    BY <2>3 DEF ReportDone, vars, position, NewSet, Procs
  <2>4. CASE \/ Test \/ CPUStep \/ Idle \/ CPUsDone \/ IOLeave
             \/ Rotate(ioWaitQ, "ioRotate", "ioRequeue") \/ IODone \/ Wait
             \/ EndOfCycle \/ Rotate(terminatedQ, "reportRotate", "reportRequeue")
    <3>1. phase \notin {"create", "load"} /\ phase' \notin {"create", "load"}
      BY <2>4 DEF Test, CPUStep, Idle, CPUsDone, IOLeave, Rotate, IODone, Wait,
         EndOfCycle, Proceed, Goto, OnCPU, At
    <3> QED
      BY <1>2, <3>1 DEF NewSet, Procs
  <2> QED
    BY <2>1, <2>2, <2>3, <2>4
<1>4. OnceInv'
  BY <1>1, <1>2 DEF PlaceInv, OnceInv, places
<1> QED
  BY <1>1, <1>2, <1>3, <1>4
     DEF places, sets, ReadySet, CPUSet, IOSet, EndedSet
-----------------------------------------------------------------------------
(* The places are an invariant. *)

LEMMA SameProcesses ==
  ASSUME [Next]_vars
  PROVE  processes' = processes /\ Procs' = Procs
         /\ \A p : numberOfBursts(p)' = numberOfBursts(p)
<1>1. processes' = processes
  BY DEF Next, vars, Create, Load, LoadDone, Test, CPUBurstDone, CPUStep, Dispatch, Idle,
     CPUsDone, IOBurstDone, IOLeave, IOStep, Rotate, Requeue, IODone, Wait, EndOfCycle,
     Report, ReportDone, Proceed, Goto
<1> QED
  BY <1>1 DEF Procs, numberOfBursts

LengthsNat == \A p \in Procs : length(p) \in Nat

LEMMA LengthsType == FcfsInv /\ ValuesInv => LengthsNat
BY LengthType DEF LengthsNat

LEMMA LengthsTypeNext == FcfsInv' /\ ValuesInv' => LengthsNat'
BY LengthsType, PTL

\* A process that goes on to its next burst.
LEMMA NextBurstFacts ==
  ASSUME PlaceInv, [Next]_vars, NEW p \in Procs, NextBurst(p)
  PROVE  /\ currentBurst' \in [Procs -> Nat] /\ step' \in [Procs -> Nat]
         /\ currentBurst'[p] = currentBurst[p] + 1 /\ step'[p] = 0
         /\ currentBurst'[p] % 2 # currentBurst[p] % 2
         /\ \A q \in Procs : q # p => currentBurst'[q] = currentBurst[q]
                                      /\ step'[q] = step[q]
<1>1. currentBurst \in [Procs -> Nat] /\ step \in [Procs -> Nat]
  BY DEF PlaceInv, ValuesInv
<1>2. /\ currentBurst' = [currentBurst EXCEPT ![p] = @ + 1]
      /\ step' = [step EXCEPT ![p] = 0]
  BY DEF NextBurst
<1>3. \A n \in Nat : (n + 1) % 2 # n % 2
  BY SMT
<1> QED
  BY <1>1, <1>2, <1>3

LEMMA NextBurstLengths ==
  ASSUME PlaceInv, [Next]_vars, ValuesInv', FcfsInv', NEW p \in Procs, NextBurst(p)
  PROVE  \A q \in Procs : step'[q] <= length(q)'
<1> SUFFICES ASSUME NEW q \in Procs PROVE step'[q] <= length(q)'
  OBVIOUS
<1>1. processes' = processes /\ Procs' = Procs
  BY SameProcesses
<1>2. CASE q = p
  <2>1. length(q)' \in Nat
    <3>1. q \in Procs'
      BY <1>1
    <3> QED
      BY <3>1, LengthsTypeNext DEF LengthsNat
  <2> QED
    BY <1>2, <2>1, NextBurstFacts
<1>3. CASE q # p
  <2>1. length(q)' = length(q) /\ step'[q] = step[q]
    BY <1>1, <1>3, NextBurstFacts DEF length, numberOfBursts
  <2> QED
    BY <2>1 DEF PlaceInv, BurstInv
<1> QED
  BY <1>2, <1>3

\* A step of a process in its burst.
LEMMA StepFacts ==
  ASSUME PlaceInv, NEW p \in Procs, step' = [step EXCEPT ![p] = @ + 1],
         remainingTime(p) # 0
  PROVE  /\ step' \in [Procs -> Nat] /\ step'[p] = step[p] + 1 /\ step'[p] <= length(p)
         /\ currentBurst[p] < numberOfBursts(p)
         /\ \A q \in Procs : q # p => step'[q] = step[q]
<1>1. step \in [Procs -> Nat]
  BY DEF PlaceInv, ValuesInv
<1>2. length(p) \in Nat /\ step[p] <= length(p)
  BY LengthType DEF PlaceInv, BurstInv
<1>3. step[p] \in Nat /\ step[p] # length(p)
  BY <1>1, <1>2 DEF remainingTime
<1>4. currentBurst[p] < numberOfBursts(p)
  BY <1>2, <1>3 DEF length
<1> QED
  BY <1>1, <1>2, <1>3, <1>4

\* The processor of a step.
LEMMA CPUStepFacts ==
  ASSUME PlaceInv, CPUStep, NEW p, p = cpu[i]
  PROVE  /\ i \in CPUs /\ p \in CPUSet /\ p \in Procs
         /\ step' = [step EXCEPT ![p] = @ + 1] /\ remainingTime(p) # 0
         /\ UNCHANGED <<currentBurst, endTime, waitingTime, figures>>
<1>1. i \in CPUs /\ cpu[i] # NULL
  BY OnCPUProcess DEF PlaceInv, CPUStep
<1>2. cpu[i] \in CPUSet /\ cpu[i] \in Procs
  BY <1>1 DEF CPUSet, PlaceInv, ApartInv
<1> QED
  BY <1>1, <1>2 DEF CPUStep

\* The waiting process that the pass over readyQ is at.
LEMMA WaitProcess ==
  ASSUME PlaceInv, NEW k \in 1 .. Len(chain[readyQ]), node = chain[readyQ][k]
  PROVE  data[node] = inReady[k] /\ data[node] \in ReadySet /\ data[node] \in Procs
         /\ Len(inReady) = Len(chain[readyQ])
<1>1. /\ held[readyQ] = InQueue(readyQ) /\ Len(held[readyQ]) = size[readyQ]
      /\ held[readyQ] \in Seq(Elements)
  BY HeldFacts, TheQueues DEF PlaceInv
<1>2. size[readyQ] = Len(chain[readyQ]) /\ chain[readyQ] \in Seq(Nodes)
  BY TheQueues DEF PlaceInv, FcfsInv, ListInv, Linked, TypeInv
<1>3. DOMAIN chain[readyQ] = 1 .. Len(chain[readyQ])
  BY <1>2
<1>4. data[node] = held[readyQ][k]
  BY <1>1, <1>3 DEF InQueue
<1>5. DOMAIN held[readyQ] = 1 .. Len(chain[readyQ])
  BY <1>1, <1>3 DEF InQueue
<1>6. data[node] \in ReadySet
  BY <1>4, <1>5 DEF ReadySet, inReady, Range
<1> QED
  BY <1>1, <1>2, <1>4, <1>6 DEF inReady, PlaceInv, ApartInv

\* The pass over readyQ is at its kth node, or at its end.
WaitInv ==
  phase = "wait" =>
    \E k \in 1 .. Len(inReady) + 1 :
      node = IF k = Len(inReady) + 1 THEN NULL ELSE chain[readyQ][k]

LEMMA ReadyChain ==
  ASSUME FcfsInv
  PROVE  /\ Len(inReady) = Len(chain[readyQ]) /\ Len(inReady) \in Nat
         /\ front[readyQ] = (IF Len(inReady) = 0 THEN NULL ELSE chain[readyQ][1])
         /\ \A k \in 1 .. Len(inReady) :
              /\ chain[readyQ][k] # NULL
              /\ next[chain[readyQ][k]] =
                   (IF k = Len(inReady) THEN NULL ELSE chain[readyQ][k + 1])
              /\ \A j \in 1 .. Len(inReady) : chain[readyQ][j] = chain[readyQ][k] => j = k
<1>1. Len(held[readyQ]) = size[readyQ]
  BY HeldFacts, TheQueues
<1>2. Linked(readyQ) /\ chain[readyQ] \in Seq(Nodes)
  BY TheQueues DEF FcfsInv, ListInv, TypeInv
<1>3. Len(inReady) = Len(chain[readyQ]) /\ Len(chain[readyQ]) \in Nat
      /\ (chain[readyQ] = <<>> <=> Len(chain[readyQ]) = 0)
      /\ \A k \in 1 .. Len(chain[readyQ]) : chain[readyQ][k] \in Nodes
  BY <1>1, <1>2 DEF Linked, inReady
<1> QED
  BY <1>2, <1>3, QueueAssumption DEF Linked

LEMMA NextWaitInv == FcfsInv /\ WaitInv /\ [Next]_vars => WaitInv'
<1> SUFFICES ASSUME FcfsInv, WaitInv, [Next]_vars PROVE WaitInv'
  OBVIOUS
<1>1. CASE IODone
  <2>1. UNCHANGED <<lists, inReady>> /\ node' = front[readyQ]
    BY <1>1, QuietMoves DEF IODone, places
  <2>2. chain'[readyQ] = chain[readyQ]
    BY <2>1 DEF lists
  <2>3. 1 \in 1 .. Len(inReady) + 1
    BY ReadyChain
  <2>4. node' = IF 1 = Len(inReady) + 1 THEN NULL ELSE chain[readyQ][1]
    BY <2>1, ReadyChain
  <2>5. \E k \in 1 .. Len(inReady) + 1 :
          node' = IF k = Len(inReady) + 1 THEN NULL ELSE chain[readyQ][k]
    BY <2>3, <2>4
  <2> QED
    BY <2>1, <2>2, <2>5 DEF WaitInv
<1>2. CASE Wait
  <2>1. UNCHANGED <<lists, inReady>> /\ node' = next[node] /\ node # NULL /\ phase = "wait"
    BY <1>2, QuietMoves DEF Wait, At, places
  <2>2. chain'[readyQ] = chain[readyQ]
    BY <2>1 DEF lists
  <2>3. PICK k \in 1 .. Len(inReady) + 1 :
          node = IF k = Len(inReady) + 1 THEN NULL ELSE chain[readyQ][k]
    BY <2>1 DEF WaitInv
  <2>4. Len(inReady) \in Nat /\ k # Len(inReady) + 1
    BY <2>1, <2>3, ReadyChain
  <2>5. k \in 1 .. Len(inReady) /\ k + 1 \in 1 .. Len(inReady) + 1
        /\ (k = Len(inReady) <=> k + 1 = Len(inReady) + 1)
    BY <2>3, <2>4
  <2>6. node' = IF k + 1 = Len(inReady) + 1 THEN NULL ELSE chain[readyQ][k + 1]
    BY <2>1, <2>3, <2>5, ReadyChain
  <2>7. \E j \in 1 .. Len(inReady) + 1 :
          node' = IF j = Len(inReady) + 1 THEN NULL ELSE chain[readyQ][j]
    BY <2>5, <2>6
  <2> QED
    BY <2>1, <2>2, <2>7 DEF WaitInv
<1>3. ASSUME \/ Create \/ Load \/ LoadDone \/ Test \/ CPUBurstDone \/ CPUStep
             \/ Dispatch \/ Idle \/ CPUsDone \/ IOBurstDone \/ IOLeave \/ IOStep
             \/ Rotate(ioWaitQ, "ioRotate", "ioRequeue")
             \/ Requeue(ioWaitQ, "ioRequeue", "io") \/ EndOfCycle \/ Report
             \/ Rotate(terminatedQ, "reportRotate", "reportRequeue")
             \/ Requeue(terminatedQ, "reportRequeue", "report")
      PROVE  phase' # "wait"
  BY <1>3 DEF Create, Load, LoadDone, Test, CPUBurstDone, CPUStep, Dispatch, Idle,
     CPUsDone, IOBurstDone, IOLeave, IOStep, Rotate, Requeue, EndOfCycle, Report,
     Proceed, Goto
<1>4. CASE ReportDone
  BY <1>4 DEF ReportDone, At, WaitInv
<1>5. CASE UNCHANGED vars
  BY <1>5, QuietMoves DEF vars, position, lists, places, WaitInv
<1> QED
  BY <1>1, <1>2, <1>3, <1>4, <1>5 DEF Next, WaitInv

LEMMA NextValues == PlaceInv /\ WaitInv /\ [Next]_vars => ValuesInv'
<1> SUFFICES ASSUME PlaceInv, WaitInv, [Next]_vars PROVE ValuesInv'
  OBVIOUS
<1>1. ValuesInv /\ FcfsInv /\ ApartInv
  BY DEF PlaceInv
<1>2. Procs' = Procs
  BY SameProcesses
<1>3. CASE CPUBurstDone
  <2>1. cpu[i] \in Procs
    BY <1>3, BlockTaken
  <2>2. NextBurst(cpu[i]) /\ endTime' = endTime
    BY <1>3, BlockSets
  <2> QED
    BY <1>1, <1>2, <1>3, <2>1, <2>2, NextBurstFacts
       DEF CPUBurstDone, figures, ValuesInv
<1>4. CASE IOBurstDone
  <2> DEFINE p == Head(inIO)
  <2>1. UNCHANGED <<waitingTime, time>>
    BY <1>4 DEF IOBurstDone, figures
  <2>2. CASE currentBurst[p] + 1 <= numberOfBursts(p)
    <3>1. p \in IOSet /\ NextBurst(p) /\ endTime' = endTime
      BY <1>4, <2>2, WakeSets
    <3>2. p \in Procs
      BY <1>1, <3>1 DEF ApartInv
    <3> QED
      BY <1>1, <1>2, <2>1, <3>1, <3>2, NextBurstFacts DEF ValuesInv
  <2>3. CASE ~(currentBurst[p] + 1 <= numberOfBursts(p))
    <3>1. p \in IOSet /\ UNCHANGED <<currentBurst, step>>
          /\ endTime' = [endTime EXCEPT ![p] = time]
      BY <1>4, <2>3, EndSets
    <3>2. p \in Procs
      BY <1>1, <3>1 DEF ApartInv
    <3> QED
      BY <1>1, <1>2, <2>1, <3>1, <3>2 DEF ValuesInv
  <2> QED
    BY <2>2, <2>3
<1>5. CASE CPUStep
  BY <1>1, <1>2, <1>5, CPUStepFacts, StepFacts DEF figures, ValuesInv
<1>6. CASE IOStep
  <2>1. Head(inIO) \in IOSet /\ step' = [step EXCEPT ![Head(inIO)] = @ + 1]
        /\ remainingTime(Head(inIO)) # 0
    BY <1>6, IOStepSets
  <2>2. Head(inIO) \in Procs
    BY <1>1, <2>1 DEF ApartInv
  <2> QED
    BY <1>1, <1>2, <1>6, <2>1, <2>2, StepFacts DEF IOStep, figures, ValuesInv
<1>7. CASE Wait
  <2>1. data[node] \in Procs
    <3>1. PICK k \in 1 .. Len(inReady) + 1 :
            node = IF k = Len(inReady) + 1 THEN NULL ELSE chain[readyQ][k]
      BY <1>7 DEF WaitInv, Wait, At
    <3>2. k \in 1 .. Len(chain[readyQ]) /\ node = chain[readyQ][k]
      BY <1>1, <1>7, <3>1, ReadyChain DEF Wait
    <3> QED
      BY <3>2, WaitProcess
  <2> QED
    BY <1>1, <1>2, <1>7, <2>1 DEF Wait, running, figures, ValuesInv
<1>8. CASE EndOfCycle
  BY <1>1, <1>2, <1>8 DEF EndOfCycle, running, ValuesInv
<1>9. CASE Report
  BY <1>1, <1>2, <1>9 DEF Report, running, ValuesInv
<1>10. CASE \/ Create \/ Load \/ LoadDone \/ Test \/ Dispatch \/ Idle \/ CPUsDone
            \/ IOLeave \/ Rotate(ioWaitQ, "ioRotate", "ioRequeue")
            \/ Requeue(ioWaitQ, "ioRequeue", "io") \/ IODone
            \/ Rotate(terminatedQ, "reportRotate", "reportRequeue")
            \/ Requeue(terminatedQ, "reportRequeue", "report") \/ ReportDone
            \/ UNCHANGED vars
  <2>1. UNCHANGED <<currentBurst, step, waitingTime, endTime, time>>
    BY <1>10 DEF Create, Load, LoadDone, Test, Dispatch, Idle, CPUsDone, IOLeave, Rotate,
       Requeue, IODone, ReportDone, vars, running, figures, Proceed
  <2> QED
    BY <1>1, <1>2, <2>1 DEF ValuesInv
<1> QED
  BY <1>3, <1>4, <1>5, <1>6, <1>7, <1>8, <1>9, <1>10 DEF Next

\* What a process may do with its bursts: nothing, a step of the current one, or go
\* on to the next one; the others do nothing.
LEMMA NextApart == PlaceInv /\ [Next]_vars => ApartInv'
<1> SUFFICES ASSUME PlaceInv, [Next]_vars PROVE ApartInv'
  OBVIOUS
<1>1. FcfsInv /\ ApartInv /\ Procs' = Procs
  BY SameProcesses DEF PlaceInv
<1>2. CASE Create
  <2>1. UNCHANGED sets
    BY <1>2, QuietSets
  <2>2. i + 1 \in Elements /\ Spare(i + 1, Fresh) /\ node' = Fresh
    BY <1>1, <1>2, CreateCall DEF Create
  <2>3. data'[node'] = i + 1
    BY <1>1, <2>2, SpareHeld
  <2>4. i' = i /\ i < Len(processes) /\ processes' = processes
    BY <1>2 DEF Create, Goto
  <2> QED
    BY <1>1, <2>1, <2>3, <2>4 DEF ApartInv, sets
<1>3. CASE Load
  <2>1. phase' # "load"
    BY <1>3 DEF Load, Goto
  <2> QED
    BY <1>1, <1>3, <2>1, LoadSets DEF ApartInv
<1>4. CASE Dispatch
  <2>1. phase' # "load"
    BY <1>4 DEF Dispatch, Goto
  <2> QED
    BY <1>1, <1>4, <2>1, DispatchSets DEF ApartInv
<1>5. CASE CPUBurstDone
  <2>1. phase' # "load"
    BY <1>5 DEF CPUBurstDone, Goto
  <2> QED
    BY <1>1, <1>5, <2>1, BlockSets DEF ApartInv
<1>6. CASE IOBurstDone
  <2> DEFINE p == Head(inIO)
  <2>1. phase' # "load"
    BY <1>6 DEF IOBurstDone, Goto
  <2>2. CASE currentBurst[p] + 1 <= numberOfBursts(p)
    <3>1. /\ p \in IOSet
          /\ IOSet' = IOSet \ {p} /\ ReadySet' = ReadySet \cup {p}
          /\ UNCHANGED <<CPUSet, EndedSet, NewSet>>
      BY <1>6, <2>2, WakeSets
    <3> QED
      BY <1>1, <2>1, <3>1 DEF ApartInv
  <2>3. CASE ~(currentBurst[p] + 1 <= numberOfBursts(p))
    <3>1. /\ p \in IOSet
          /\ IOSet' = IOSet \ {p} /\ EndedSet' = EndedSet \cup {p}
          /\ UNCHANGED <<CPUSet, ReadySet, NewSet>>
      BY <1>6, <2>3, EndSets
    <3> QED
      BY <1>1, <2>1, <3>1 DEF ApartInv
  <2> QED
    BY <2>2, <2>3
<1>7. CASE IOStep \/ Requeue(ioWaitQ, "ioRequeue", "io")
           \/ Report \/ Requeue(terminatedQ, "reportRequeue", "report")
  <2>1. phase' # "load"
    BY <1>7 DEF IOStep, Report, Requeue, Goto
  <2>2. UNCHANGED sets
    BY <1>7, IOStepSets, RequeueSets, ReportSets, ReportRequeueSets
  <2> QED
    BY <1>1, <2>1, <2>2 DEF ApartInv, sets
<1>8. CASE \/ LoadDone \/ Test \/ CPUStep \/ Idle \/ CPUsDone \/ IOLeave
           \/ Rotate(ioWaitQ, "ioRotate", "ioRequeue") \/ IODone \/ Wait \/ EndOfCycle
           \/ Rotate(terminatedQ, "reportRotate", "reportRequeue")
  <2>1. phase' # "load"
    BY <1>8 DEF LoadDone, Test, CPUStep, Idle, CPUsDone, IOLeave, Rotate, IODone, Wait,
       EndOfCycle, Proceed, Goto
  <2>2. UNCHANGED sets
    BY <1>8, QuietSets
  <2> QED
    BY <1>1, <2>1, <2>2 DEF ApartInv, sets
<1>9. CASE ReportDone \/ UNCHANGED vars
  <2>1. UNCHANGED <<phase, i, node, data, processes>>
    BY <1>9 DEF ReportDone, vars, position, lists
  <2>2. UNCHANGED sets
    BY <1>9, QuietSets
  <2> QED
    BY <1>1, <2>1, <2>2 DEF ApartInv, sets
<1> QED
  BY <1>2, <1>3, <1>4, <1>5, <1>6, <1>7, <1>8, <1>9 DEF Next

LEMMA NextOnce == PlaceInv /\ [Next]_vars => OnceInv'
<1> SUFFICES ASSUME PlaceInv, [Next]_vars PROVE OnceInv'
  OBVIOUS
<1>1. OnceInv /\ FcfsInv
  BY DEF PlaceInv
<1>2. CASE Load
  BY <1>1, <1>2, LoadSets, LoadMoves DEF OnceInv, Load, running
<1>3. CASE Dispatch
  BY <1>1, <1>3, DispatchSets, DispatchMoves DEF OnceInv
<1>4. CASE CPUBurstDone
  <2>1. inReady' = inReady
    BY <1>1, <1>4, BlockTaken, BlockMoves
  <2> QED
    BY <1>1, <1>4, <2>1, BlockSets DEF OnceInv
<1>5. CASE IOBurstDone
  <2> DEFINE p == Head(inIO)
  <2>1. cpu' = cpu
    BY <1>5 DEF IOBurstDone
  <2>2. CASE currentBurst[p] + 1 <= numberOfBursts(p)
    <3>1. /\ UNCHANGED <<inEnded, turningIO, turningEnded>>
          /\ IsInjective(inIO)' /\ IsInjective(inReady)'
          /\ turningIO' \cap Range(inIO') = {}
      BY <1>5, <2>2, WakeSets
    <3> QED
      BY <1>1, <2>1, <3>1 DEF OnceInv
  <2>3. CASE ~(currentBurst[p] + 1 <= numberOfBursts(p))
    <3>1. /\ UNCHANGED <<inReady, turningIO, turningEnded>>
          /\ IsInjective(inIO)' /\ IsInjective(inEnded)'
          /\ turningIO' \cap Range(inIO') = {}
          /\ turningEnded' \cap Range(inEnded') = {}
      BY <1>5, <2>3, EndSets
    <3> QED
      BY <1>1, <2>1, <3>1 DEF OnceInv
  <2> QED
    BY <2>2, <2>3
<1>6. CASE IOStep
  BY <1>1, <1>6, IOStepSets DEF OnceInv, IOStep
<1>7. CASE Requeue(ioWaitQ, "ioRequeue", "io")
  BY <1>1, <1>7, RequeueSets DEF OnceInv, Requeue, running
<1>8. CASE Report
  BY <1>1, <1>8, ReportSets DEF OnceInv, Report, running
<1>9. CASE Requeue(terminatedQ, "reportRequeue", "report")
  BY <1>1, <1>9, ReportRequeueSets DEF OnceInv, Requeue, running
<1> QED
  BY <1>2, <1>3, <1>4, <1>5, <1>6, <1>7, <1>8, <1>9, QuietSets DEF Next

LEMMA NextBursts == PlaceInv /\ WaitInv /\ [Next]_vars => BurstInv'
<1> SUFFICES ASSUME PlaceInv, WaitInv, [Next]_vars PROVE BurstInv'
  OBVIOUS
<1>1. FcfsInv /\ ApartInv /\ BurstInv /\ ValuesInv
  BY DEF PlaceInv
<1>2. Procs' = Procs /\ processes' = processes
      /\ \A p : numberOfBursts(p)' = numberOfBursts(p)
  BY SameProcesses
<1>3. FcfsInv' /\ ValuesInv'
  BY <1>1, StepFcfsInv, NextValues
<1>4. CASE CPUBurstDone
  <2> DEFINE p == cpu[i]
  <2>1. p \in CPUSet /\ p \in Procs /\ currentBurst[p] + 1 <= numberOfBursts(p)
    BY <1>4, BlockTaken
  <2>2. /\ CPUSet' = CPUSet \ {p} /\ IOSet' = IOSet \cup {p} /\ NextBurst(p)
        /\ UNCHANGED <<ReadySet, EndedSet, NewSet>>
    BY <1>4, BlockSets
  <2>3. /\ currentBurst'[p] = currentBurst[p] + 1 /\ step'[p] = 0
        /\ currentBurst'[p] % 2 # currentBurst[p] % 2
        /\ \A q \in Procs : q # p => currentBurst'[q] = currentBurst[q]
                                     /\ step'[q] = step[q]
    BY <2>1, <2>2, NextBurstFacts
  <2>4. \A q \in Procs : step'[q] <= length(q)'
    BY <1>3, <2>1, <2>2, NextBurstLengths
  <2>5. currentBurst'[p] % 2 = 1
    <3>1. currentBurst[p] % 2 = 0 /\ currentBurst'[p] \in Nat
      BY <1>1, <1>2, <1>3, <2>1 DEF BurstInv, ValuesInv
    <3>2. \A n \in Nat : n % 2 \in {0, 1}
      BY SMT
    <3> QED
      BY <2>3, <3>1, <3>2
  <2>6. ReadySet \cup CPUSet \cup IOSet \cup EndedSet \cup NewSet \subseteq Procs
        /\ p \notin ReadySet /\ p \notin IOSet /\ p \notin EndedSet /\ p \notin NewSet
    BY <1>1, <2>1 DEF ApartInv
  <2> QED
    BY <1>1, <1>2, <2>1, <2>2, <2>3, <2>4, <2>5, <2>6 DEF BurstInv
<1>5. CASE IOBurstDone
  <2> DEFINE p == Head(inIO)
  <2>1. CASE currentBurst[p] + 1 <= numberOfBursts(p)
    <3>1. /\ p \in IOSet /\ NextBurst(p)
          /\ IOSet' = IOSet \ {p} /\ ReadySet' = ReadySet \cup {p}
          /\ UNCHANGED <<CPUSet, EndedSet, NewSet>>
      BY <1>5, <2>1, WakeSets
    <3>2. ReadySet \cup CPUSet \cup IOSet \cup EndedSet \cup NewSet \subseteq Procs
          /\ p \in Procs
          /\ p \notin ReadySet /\ p \notin CPUSet /\ p \notin EndedSet /\ p \notin NewSet
      BY <1>1, <3>1 DEF ApartInv
    <3>3. /\ currentBurst'[p] = currentBurst[p] + 1 /\ step'[p] = 0
          /\ currentBurst'[p] % 2 # currentBurst[p] % 2
          /\ \A q \in Procs : q # p => currentBurst'[q] = currentBurst[q]
                                       /\ step'[q] = step[q]
      BY <3>1, <3>2, NextBurstFacts
    <3>4. \A q \in Procs : step'[q] <= length(q)'
      BY <1>3, <3>1, <3>2, NextBurstLengths
    <3>5. currentBurst'[p] % 2 = 0 /\ currentBurst'[p] # numberOfBursts(p)
          /\ currentBurst'[p] \in Nat /\ numberOfBursts(p) \in Nat
      <4>1. currentBurst[p] % 2 = 1 /\ currentBurst'[p] \in Nat
            /\ numberOfBursts(p) % 2 = 1 /\ numberOfBursts(p) \in Nat
        BY <1>1, <1>2, <1>3, <3>1, <3>2, ProcFacts DEF BurstInv, ValuesInv
      <4>2. \A n \in Nat : n % 2 \in {0, 1}
        BY SMT
      <4> QED
        BY <3>3, <4>1, <4>2
    <3>6. currentBurst'[p] < numberOfBursts(p)
      BY <2>1, <3>3, <3>5
    <3> QED
      BY <1>1, <1>2, <3>1, <3>2, <3>3, <3>4, <3>5, <3>6 DEF BurstInv
  <2>2. CASE ~(currentBurst[p] + 1 <= numberOfBursts(p))
    <3>1. /\ p \in IOSet /\ currentBurst[p] = numberOfBursts(p)
          /\ UNCHANGED <<currentBurst, step>>
          /\ IOSet' = IOSet \ {p} /\ EndedSet' = EndedSet \cup {p}
          /\ UNCHANGED <<CPUSet, ReadySet, NewSet>>
      BY <1>5, <2>2, EndSets
    <3>2. \A q \in Procs : length(q)' = length(q)
      BY <1>2, <3>1 DEF length
    <3> QED
      BY <1>1, <1>2, <3>1, <3>2 DEF BurstInv
  <2> QED
    BY <2>1, <2>2
<1>6. ASSUME NEW p \in Procs, step' = [step EXCEPT ![p] = @ + 1], remainingTime(p) # 0,
             p \notin ReadySet, p \notin NewSet, UNCHANGED sets,
             UNCHANGED currentBurst
      PROVE  BurstInv'
  <2>1. step'[p] <= length(p) /\ \A q \in Procs : q # p => step'[q] = step[q]
    BY <1>6, StepFacts
  <2>2. \A q \in Procs : length(q)' = length(q)
    BY <1>2, <1>6 DEF length
  <2>3. ReadySet \subseteq Procs /\ NewSet \subseteq Procs
    BY <1>1 DEF ApartInv
  <2> QED
    BY <1>1, <1>2, <1>6, <2>1, <2>2, <2>3 DEF BurstInv, sets
<1>7. CASE CPUStep
  <2>1. /\ cpu[i] \in CPUSet /\ cpu[i] \in Procs
        /\ step' = [step EXCEPT ![cpu[i]] = @ + 1] /\ remainingTime(cpu[i]) # 0
        /\ UNCHANGED currentBurst
    BY <1>7, CPUStepFacts
  <2>2. UNCHANGED sets
    BY <1>7, QuietSets
  <2>3. cpu[i] \notin ReadySet /\ cpu[i] \notin NewSet
    BY <1>1, <2>1 DEF ApartInv
  <2> QED
    BY <1>6, <2>1, <2>2, <2>3
<1>8. CASE IOStep
  <2> DEFINE p == Head(inIO)
  <2>1. /\ p \in IOSet /\ step' = [step EXCEPT ![p] = @ + 1] /\ remainingTime(p) # 0
        /\ UNCHANGED sets
    BY <1>8, IOStepSets
  <2>2. p \in Procs /\ p \notin ReadySet /\ p \notin NewSet
    BY <1>1, <2>1 DEF ApartInv
  <2>3. UNCHANGED currentBurst
    BY <1>8 DEF IOStep
  <2> HIDE DEF p
  <2> QED
    BY <1>6, <2>1, <2>2, <2>3
<1>9. ASSUME UNCHANGED <<currentBurst, step>>,
             \/ UNCHANGED sets
             \/ \E p \in NewSet : /\ ReadySet' = ReadySet \cup {p}
                                  /\ NewSet' = NewSet \ {p}
                                  /\ UNCHANGED <<CPUSet, IOSet, EndedSet>>
             \/ \E p \in ReadySet : /\ ReadySet' = ReadySet \ {p}
                                    /\ CPUSet' = CPUSet \cup {p}
                                    /\ UNCHANGED <<IOSet, EndedSet, NewSet>>
      PROVE  BurstInv'
  <2>1. \A q \in Procs : length(q)' = length(q)
    BY <1>2, <1>9 DEF length
  <2>2. \A p \in NewSet : currentBurst[p] % 2 = 0 /\ currentBurst[p] < numberOfBursts(p)
    <3> SUFFICES ASSUME NEW p \in NewSet
                 PROVE  currentBurst[p] % 2 = 0 /\ currentBurst[p] < numberOfBursts(p)
      OBVIOUS
    <3>1. p \in Procs /\ currentBurst[p] = 0
      BY <1>1 DEF ApartInv, BurstInv
    <3>2. numberOfBursts(p) \in Nat /\ numberOfBursts(p) % 2 = 1
      BY <1>1, <3>1, ProcFacts
    <3>3. 0 % 2 = 0
      BY SMT
    <3> QED
      BY <3>1, <3>2, <3>3
  <2> QED
    BY <1>1, <1>2, <1>9, <2>1, <2>2 DEF BurstInv, sets
<1>10. CASE Load
  <2>1. UNCHANGED <<currentBurst, step>>
    BY <1>10 DEF Load, running
  <2> QED
    BY <1>9, <1>10, <2>1, LoadSets
<1>11. CASE Dispatch
  <2>1. UNCHANGED <<currentBurst, step>>
    BY <1>11 DEF Dispatch
  <2> QED
    BY <1>9, <1>11, <2>1, DispatchSets
<1>12. CASE Report \/ Requeue(ioWaitQ, "ioRequeue", "io")
            \/ Requeue(terminatedQ, "reportRequeue", "report")
  <2>1. UNCHANGED <<currentBurst, step>>
    BY <1>12 DEF Report, Requeue, running
  <2>2. UNCHANGED sets
    BY <1>12, ReportSets, RequeueSets, ReportRequeueSets
  <2> QED
    BY <1>9, <2>1, <2>2
<1>13. CASE \/ Create \/ LoadDone \/ Test \/ Idle \/ CPUsDone \/ IOLeave
            \/ Rotate(ioWaitQ, "ioRotate", "ioRequeue") \/ IODone \/ Wait \/ EndOfCycle
            \/ Rotate(terminatedQ, "reportRotate", "reportRequeue") \/ ReportDone
            \/ UNCHANGED vars
  <2>1. UNCHANGED <<currentBurst, step>>
    BY <1>13 DEF Create, LoadDone, Test, Idle, CPUsDone, IOLeave, Rotate, IODone, Wait,
       EndOfCycle, ReportDone, vars, running, Proceed
  <2>2. UNCHANGED sets
    BY <1>13, QuietSets
  <2> QED
    BY <1>9, <2>1, <2>2
<1> QED
  BY <1>4, <1>5, <1>7, <1>8, <1>10, <1>11, <1>12, <1>13 DEF Next

LEMMA NextPlaceInv == PlaceInv /\ WaitInv /\ [Next]_vars => PlaceInv' /\ WaitInv'
BY StepFcfsInv, NextValues, NextOnce, NextApart, NextBursts, NextWaitInv DEF PlaceInv

LEMMA InitWaitInv == Init => WaitInv
BY DEF Init, WaitInv

LEMMA PlaceInvCorrect == Spec => [](PlaceInv /\ WaitInv)
BY InitPlaceInv, InitWaitInv, NextPlaceInv, PTL DEF Spec
-----------------------------------------------------------------------------
(* The lifecycle. *)

\* Until the first node is gone, the process that turns is still there as well.
TurnInv == phase = "ioRotate" => data[node] \in Range(held[ioWaitQ])

LEMMA NextTurnInv == FcfsInv /\ TurnInv /\ [Next]_vars => TurnInv'
<1> SUFFICES ASSUME FcfsInv, TurnInv, [Next]_vars PROVE TurnInv'
  OBVIOUS
<1>1. CASE IOStep
  <2>1. /\ FrontOf(ioWaitQ) \in Elements /\ inIO = held[ioWaitQ] /\ inIO # <<>>
        /\ FrontOf(ioWaitQ) = Head(inIO)
    BY <1>1, TurnIO DEF IOStep
  <2>2. held' = held /\ data'[node'] = FrontOf(ioWaitQ)
    BY <1>1, <2>1, SpareHeld DEF IOStep
  <2>3. Head(inIO) \in Range(inIO)
    <3> HIDE DEF Elements
    <3> QED
      BY <2>1, QueueTypes, TailRange
  <2> QED
    BY <2>1, <2>2, <2>3 DEF TurnInv
<1>2. ASSUME \/ Create \/ Load \/ LoadDone \/ Test \/ CPUBurstDone \/ CPUStep
             \/ Dispatch \/ Idle \/ CPUsDone \/ IOBurstDone \/ IOLeave
             \/ Rotate(ioWaitQ, "ioRotate", "ioRequeue")
             \/ Requeue(ioWaitQ, "ioRequeue", "io") \/ IODone \/ Wait \/ EndOfCycle
             \/ Report \/ Rotate(terminatedQ, "reportRotate", "reportRequeue")
             \/ Requeue(terminatedQ, "reportRequeue", "report")
      PROVE  phase' # "ioRotate"
  BY <1>2 DEF Create, Load, LoadDone, Test, CPUBurstDone, CPUStep, Dispatch, Idle,
     CPUsDone, IOBurstDone, IOLeave, Rotate, Requeue, IODone, Wait, EndOfCycle, Report,
     Proceed, Goto
<1>3. CASE ReportDone \/ UNCHANGED vars
  <2>1. UNCHANGED <<held, data, node, phase>>
    BY <1>3, SameHeld DEF ReportDone, vars, position
  <2> QED
    BY <2>1 DEF TurnInv
<1> QED
  BY <1>1, <1>2, <1>3 DEF Next, TurnInv

LEMMA HasHeld ==
  ASSUME FcfsInv, NEW q \in Queues, NEW p PROVE Has(q, p) <=> p \in Range(held[q])
<1>1. held[q] = InQueue(q) /\ chain[q] \in Seq(Nodes)
  BY HeldFacts DEF FcfsInv, ListInv, TypeInv
<1> QED
  BY <1>1 DEF Has, InQueue, Range

Stage(p) ==
  IF p \in ReadySet THEN "ready"
  ELSE IF p \in CPUSet THEN "running"
  ELSE IF p \in NewSet THEN "new"
  ELSE IF p \in IOSet /\ currentBurst[p] < numberOfBursts(p) THEN "waiting"
  ELSE "terminated"

StagesInv == \A p \in Procs : StateOf(p) = Stage(p)

LEMMA StagesFacts == PlaceInv /\ TurnInv => StagesInv
<1> SUFFICES ASSUME PlaceInv, TurnInv, NEW p \in Procs PROVE StateOf(p) = Stage(p)
  BY DEF StagesInv
<1>1. FcfsInv /\ ApartInv /\ BurstInv
  BY DEF PlaceInv
<1>2. /\ Has(readyQ, p) <=> p \in ReadySet
      /\ Has(ioWaitQ, p) <=> p \in Range(held[ioWaitQ])
  BY <1>1, HasHeld, TheQueues DEF ReadySet, inReady
<1>3. (\E c \in CPUs : cpu[c] = p) <=> p \in CPUSet
  BY <1>1, ProcFacts DEF CPUSet
<1>4. /\ currentBurst[p] \in Nat /\ numberOfBursts(p) \in Nat
      /\ numberOfBursts(p) % 2 = 1 /\ 0 % 2 = 0
  BY <1>1, ProcFacts, SMT DEF PlaceInv, ValuesInv
<1>5. CASE p \in NewSet
  <2>1. phase \in {"create", "load"} /\ currentBurst[p] = 0
    BY <1>1, <1>5 DEF NewSet, BurstInv
  <2>2. inIO = held[ioWaitQ] /\ p \notin IOSet /\ phase # "ioRequeue"
    BY <1>1, <1>5, <2>1 DEF inIO, ApartInv
  <2>3. ~Has(ioWaitQ, p) /\ p \notin Ended
    BY <1>2, <1>4, <2>1, <2>2 DEF IOSet, Ended
  <2>4. p \notin ReadySet /\ p \notin CPUSet
    BY <1>1, <1>5 DEF ApartInv
  <2> QED
    BY <1>2, <1>3, <1>5, <2>2, <2>3, <2>4 DEF StateOf, Stage
<1>6. CASE p \in IOSet
  <2>1. currentBurst[p] <= numberOfBursts(p)
    BY <1>1, <1>6 DEF BurstInv
  <2>2. p \in Ended <=> ~(currentBurst[p] < numberOfBursts(p))
    BY <1>4, <2>1 DEF Ended
  <2>3. Has(ioWaitQ, p) \/ (phase = "ioRequeue" /\ data[node] = p)
    <3>1. CASE p \in Range(inIO)
      <4>1. held[ioWaitQ] \in Seq(Elements)
        BY <1>1, HeldFacts, TheQueues
      <4>2. phase \in {"ioLeave", "ioRotate"} => held[ioWaitQ] # <<>>
        <5>1. size[ioWaitQ] \in Nat
          BY <1>1, TheQueues DEF FcfsInv, ListInv, TypeInv
        <5>2. phase \in {"ioLeave", "ioRotate"} => size[ioWaitQ] > 0
          BY <1>1, <5>1 DEF FcfsInv, FcfsTypeInv, PassInv
        <5> QED
          BY <1>1, <5>2, HeldFacts, TheQueues
      <4>3. p \in Range(held[ioWaitQ])
        <5> HIDE DEF Elements
        <5> QED
          BY <3>1, <4>1, <4>2, TailRange DEF inIO
      <4> QED
        BY <1>2, <4>3
    <3>2. CASE p \in turningIO
      BY <1>2, <3>2 DEF turningIO, TurnInv
    <3> QED
      BY <1>6, <3>1, <3>2 DEF IOSet
  <2>4. p \notin ReadySet /\ p \notin CPUSet /\ p \notin NewSet
    BY <1>1, <1>6 DEF ApartInv
  <2> QED
    BY <1>2, <1>3, <1>6, <2>2, <2>3, <2>4 DEF StateOf, Stage
<1>7. CASE p \in EndedSet
  <2>1. p \in Ended
    BY <1>1, <1>7 DEF BurstInv, Ended
  <2>2. p \notin ReadySet /\ p \notin CPUSet /\ p \notin NewSet /\ p \notin IOSet
    BY <1>1, <1>7 DEF ApartInv
  <2> QED
    BY <1>2, <1>3, <2>1, <2>2 DEF StateOf, Stage
<1>8. CASE p \in ReadySet \/ p \in CPUSet
  BY <1>2, <1>3, <1>8 DEF StateOf, Stage
<1> QED
  BY <1>1, <1>5, <1>6, <1>7, <1>8 DEF ApartInv

LEMMA LifecycleStep ==
  ASSUME UNCHANGED processes, NEW p \in Procs, NEW from, NEW to, StagesInv, StagesInv',
         Stage(p) = from, Stage(p)' = to,
         \A q \in Procs : q # p => Stage(q)' = Stage(q)
  PROVE  Lifecycle!Step(p, from, to) /\ p \in Lifecycle!Procs
<1>1. Procs' = Procs /\ \A q \in Procs : numberOfBursts(q)' = numberOfBursts(q)
  BY DEF Procs, numberOfBursts
<1>2. \A q \in Procs : StateOf(q) = Stage(q) /\ StateOf(q)' = Stage(q)'
  BY <1>1 DEF StagesInv
<1>3. [q \in Procs |-> StateOf(q)]' = [[q \in Procs |-> StateOf(q)] EXCEPT ![p] = to]
  BY <1>1, <1>2
<1>4. [q \in Procs |-> numberOfBursts(q)]' = [q \in Procs |-> numberOfBursts(q)]
  BY <1>1
<1>5. [q \in Procs |-> StateOf(q)][p] = from
  BY <1>2
<1> QED
  BY <1>3, <1>4, <1>5 DEF Lifecycle!Step, Lifecycle!Procs

\* There is room for the process that is dispatched.
LEMMA FreeProcessor ==
  ASSUME PlaceInv, i \in CPUs, cpu[i] = NULL
  PROVE  Cardinality(CPUSet) < NUMBER_OF_PROCESSORS
<1> DEFINE Busy_ == {c \in CPUs : cpu[c] \in CPUSet}
           f     == [c \in Busy_ |-> cpu[c]]
<1>1. f \in Surjection(Busy_, CPUSet)
  BY DEF Surjection, CPUSet
<1>2. Busy_ \subseteq CPUs \ {i}
  BY DEF CPUSet
<1>3. /\ IsFiniteSet(CPUs) /\ Cardinality(CPUs) = NUMBER_OF_PROCESSORS
      /\ NUMBER_OF_PROCESSORS \in Nat
  <2>1. NUMBER_OF_PROCESSORS \in Nat \ {0}
    BY SchAssumption
  <2> QED
    BY <2>1, FS_Interval DEF CPUs
<1>4. /\ IsFiniteSet(CPUs \ {i})
      /\ Cardinality(CPUs \ {i}) = NUMBER_OF_PROCESSORS - 1
  BY <1>3, FS_RemoveElement
<1>5. IsFiniteSet(Busy_) /\ Cardinality(Busy_) <= NUMBER_OF_PROCESSORS - 1
  BY <1>2, <1>4, FS_Subset
<1>6. Cardinality(CPUSet) <= Cardinality(Busy_) /\ IsFiniteSet(CPUSet)
  <2> HIDE DEF Busy_, f
  <2> QED
    BY <1>1, <1>5, FS_Surjection
<1>7. Cardinality(CPUSet) \in Nat /\ Cardinality(Busy_) \in Nat
  BY <1>5, <1>6, FS_CardinalityType
<1> QED
  BY <1>3, <1>5, <1>6, <1>7

LEMMA InitTurnInv == Init => TurnInv
BY DEF Init, TurnInv

LEMMA InitRefines == Init => Lifecycle!Init
<1> SUFFICES ASSUME Init PROVE Lifecycle!Init
  OBVIOUS
<1>1. PlaceInv /\ TurnInv /\ IsFiniteSet(Procs)
  BY InitPlaceInv, InitTurnInv, ProcFacts DEF PlaceInv
<1>2. \A p \in Procs : StateOf(p) = "new"
  <2>1. ApartInv
    BY <1>1 DEF PlaceInv
  <2>2. \A p \in Procs : p \in NewSet
    BY DEF Init, NewSet, Procs
  <2>3. \A p \in Procs : Stage(p) = "new"
    BY <2>1, <2>2 DEF Stage, ApartInv
  <2> QED
    BY <1>1, <2>3, StagesFacts DEF StagesInv
<1>3. \A p \in Procs : numberOfBursts(p) \in Nat /\ numberOfBursts(p) % 2 = 1
  BY <1>1, ProcFacts DEF PlaceInv
<1>4. DOMAIN [p \in Procs |-> StateOf(p)] = Procs
  OBVIOUS
<1>5. [p \in Procs |-> StateOf(p)] = [p \in Procs |-> "new"]
  BY <1>2
<1>6. [p \in Procs |-> numberOfBursts(p)] \in [Procs -> {b \in Nat : b % 2 = 1}]
  BY <1>3
<1>7. Lifecycle!Procs = Procs
  BY <1>4 DEF Lifecycle!Procs
<1>8. Lifecycle!IsFiniteSet(Lifecycle!Procs)
  BY <1>1, <1>7 DEF IsFiniteSet, Lifecycle!IsFiniteSet
<1>9. [p \in Procs |-> StateOf(p)] = [p \in Lifecycle!Procs |-> "new"]
  BY <1>5, <1>7
<1>10. currentBurst = [p \in Lifecycle!Procs |-> 0]
  BY <1>7 DEF Init
<1>11. [p \in Procs |-> numberOfBursts(p)]
          \in [Lifecycle!Procs -> {b \in Nat : b % 2 = 1}]
  BY <1>6, <1>7
<1> HIDE DEF Init
<1> QED
  BY <1>8, <1>9, <1>10, <1>11 DEF Lifecycle!Init

LEMMA NextRefines ==
  /\ PlaceInv /\ PlaceInv' /\ WaitInv
  /\ TurnInv /\ StagesInv /\ StagesInv' /\ [Next]_vars
  => Lifecycle!Next \/ UNCHANGED Lifecycle!vars
<1> SUFFICES ASSUME PlaceInv, PlaceInv', WaitInv,
                    StagesInv, StagesInv', [Next]_vars
             PROVE  Lifecycle!Next \/ UNCHANGED Lifecycle!vars
  OBVIOUS
<1>1. ApartInv /\ BurstInv /\ ValuesInv /\ FcfsInv /\ ApartInv' /\ BurstInv'
  BY DEF PlaceInv
<1>2. /\ processes' = processes /\ Procs' = Procs
      /\ \A p : numberOfBursts(p)' = numberOfBursts(p)
  BY SameProcesses
<1>3. ASSUME UNCHANGED currentBurst, \A p \in Procs : Stage(p)' = Stage(p)
      PROVE  UNCHANGED Lifecycle!vars
  <2>1. [p \in Procs |-> StateOf(p)]' = [p \in Procs |-> StateOf(p)]
    BY <1>2, <1>3 DEF StagesInv
  <2>2. [p \in Procs |-> numberOfBursts(p)]' = [p \in Procs |-> numberOfBursts(p)]
    BY <1>2
  <2> QED
    BY <1>3, <2>1, <2>2 DEF Lifecycle!vars
<1>4. CASE Load
  <2>1. PICK p : p = i + 1
    OBVIOUS
  <2>2. /\ p \in NewSet
        /\ ReadySet' = ReadySet \cup {p} /\ NewSet' = NewSet \ {p}
        /\ UNCHANGED <<CPUSet, IOSet, EndedSet>>
    BY <1>4, <2>1, LoadSets
  <2>3. UNCHANGED currentBurst
    BY <1>4 DEF Load, running
  <2>4. p \in Procs /\ Stage(p) = "new" /\ Stage(p)' = "ready"
    BY <1>1, <2>2 DEF Stage, ApartInv
  <2>5. \A q \in Procs : q # p => Stage(q)' = Stage(q)
    BY <1>2, <2>2, <2>3 DEF Stage
  <2>6. Lifecycle!Step(p, "new", "ready") /\ p \in Lifecycle!Procs
    BY <1>2, <2>4, <2>5, LifecycleStep
  <2> QED
    BY <2>3, <2>6 DEF Lifecycle!Next, Lifecycle!Admit
<1>5. CASE Dispatch
  <2>1. PICK p : p = Head(inReady)
    OBVIOUS
  <2>2. /\ p \in ReadySet
        /\ ReadySet' = ReadySet \ {p} /\ CPUSet' = CPUSet \cup {p}
        /\ UNCHANGED <<IOSet, EndedSet, NewSet>>
    BY <1>5, <2>1, DispatchSets
  <2>3. UNCHANGED currentBurst /\ i \in CPUs /\ cpu[i] = NULL
    BY <1>1, <1>5, DispatchMoves DEF Dispatch
  <2>4. p \in Procs /\ Stage(p) = "ready" /\ Stage(p)' = "running"
    BY <1>1, <2>2 DEF Stage, ApartInv
  <2>5. \A q \in Procs : q # p => Stage(q)' = Stage(q)
    BY <1>2, <2>2, <2>3 DEF Stage
  <2>6. Lifecycle!Step(p, "ready", "running") /\ p \in Lifecycle!Procs
    BY <1>2, <2>4, <2>5, LifecycleStep
  <2>7. currentBurst[p] % 2 = 0
    BY <1>1, <2>2 DEF BurstInv
  <2>8. Cardinality(CPUSet) < NUMBER_OF_PROCESSORS
    BY <2>3, FreeProcessor
  <2>9. Lifecycle!Running = CPUSet
    <3>1. \A q \in Procs : StateOf(q) = "running" <=> q \in CPUSet
      BY <1>1 DEF StagesInv, Stage, ApartInv
    <3>2. CPUSet \subseteq Procs
      BY <1>1 DEF ApartInv
    <3> QED
      BY <3>1, <3>2 DEF Lifecycle!Running, Lifecycle!Procs
  <2>10. Lifecycle!Cardinality(Lifecycle!Running) < NUMBER_OF_PROCESSORS
    BY <2>8, <2>9 DEF Cardinality, Lifecycle!Cardinality
  <2>11. Lifecycle!Dispatch(p)
    BY <2>3, <2>6, <2>7, <2>10 DEF Lifecycle!Dispatch
  <2> QED
    BY <2>6, <2>11 DEF Lifecycle!Next
<1>6. CASE CPUBurstDone
  <2>1. PICK p : p = cpu[i]
    OBVIOUS
  <2>2. /\ p \in CPUSet /\ NextBurst(p)
        /\ CPUSet' = CPUSet \ {p} /\ IOSet' = IOSet \cup {p}
        /\ UNCHANGED <<ReadySet, EndedSet, NewSet>>
    BY <1>6, <2>1, BlockSets
  <2>3. p \in Procs /\ Stage(p) = "running" /\ currentBurst[p] + 1 <= numberOfBursts(p)
    BY <1>1, <1>6, <2>1, <2>2, BlockTaken DEF Stage, ApartInv
  <2>4. /\ currentBurst'[p] = currentBurst[p] + 1
        /\ \A q \in Procs : q # p => currentBurst'[q] = currentBurst[q]
    BY <2>2, <2>3, NextBurstFacts
  <2>5. \A q \in Procs : q # p => Stage(q)' = Stage(q)
    BY <1>2, <2>2, <2>4 DEF Stage
  <2>6. p \in IOSet' /\ p \notin ReadySet' /\ p \notin CPUSet' /\ p \notin NewSet'
    BY <1>1, <2>2 DEF ApartInv
  <2>7. [q \in Procs |-> numberOfBursts(q)][p] = numberOfBursts(p)
        /\ currentBurst[p] \in Nat /\ numberOfBursts(p) \in Nat
    BY <1>1, <2>3, ProcFacts DEF ValuesInv
  <2>8. CASE currentBurst[p] + 1 < numberOfBursts(p)
    <3>1. Stage(p)' = "waiting"
      BY <1>2, <2>4, <2>6, <2>8 DEF Stage
    <3>2. Lifecycle!Step(p, "running", "waiting") /\ p \in Lifecycle!Procs
      BY <1>2, <2>3, <2>5, <3>1, LifecycleStep
    <3> QED
      BY <2>2, <2>7, <2>8, <3>2
         DEF Lifecycle!Next, Lifecycle!Block, Lifecycle!NextBurst, NextBurst
  <2>9. CASE currentBurst[p] + 1 = numberOfBursts(p)
    <3>1. Stage(p)' = "terminated"
      BY <1>2, <2>4, <2>6, <2>7, <2>9 DEF Stage
    <3>2. Lifecycle!Step(p, "running", "terminated") /\ p \in Lifecycle!Procs
      BY <1>2, <2>3, <2>5, <3>1, LifecycleStep
    <3> QED
      BY <2>2, <2>7, <2>9, <3>2
         DEF Lifecycle!Next, Lifecycle!Finish, Lifecycle!NextBurst, NextBurst
  <2> QED
    BY <2>3, <2>7, <2>8, <2>9
<1>7. CASE IOBurstDone
  <2>1. PICK p : p = Head(inIO)
    OBVIOUS
  <2>2. CASE currentBurst[p] + 1 <= numberOfBursts(p)
    <3>1. /\ p \in IOSet /\ NextBurst(p)
          /\ IOSet' = IOSet \ {p} /\ ReadySet' = ReadySet \cup {p}
          /\ UNCHANGED <<CPUSet, EndedSet, NewSet>>
      BY <1>7, <2>1, <2>2, WakeSets
    <3>2. p \in Procs /\ currentBurst[p] \in Nat /\ numberOfBursts(p) \in Nat
      BY <1>1, <3>1, ProcFacts DEF ApartInv, ValuesInv
    <3>3. Stage(p) = "waiting" /\ Stage(p)' = "ready"
      <4>1. currentBurst[p] < numberOfBursts(p)
        BY <2>2, <3>2
      <4> QED
        BY <1>1, <3>1, <4>1 DEF Stage, ApartInv
    <3>4. \A q \in Procs : q # p => currentBurst'[q] = currentBurst[q]
      BY <3>1, <3>2, NextBurstFacts
    <3>5. \A q \in Procs : q # p => Stage(q)' = Stage(q)
      BY <1>2, <3>1, <3>4 DEF Stage
    <3>6. Lifecycle!Step(p, "waiting", "ready") /\ p \in Lifecycle!Procs
      BY <1>2, <3>2, <3>3, <3>5, LifecycleStep
    <3> QED
      BY <3>1, <3>6 DEF Lifecycle!Next, Lifecycle!Wake, Lifecycle!NextBurst, NextBurst
  <2>3. CASE ~(currentBurst[p] + 1 <= numberOfBursts(p))
    <3>1. /\ p \in IOSet /\ currentBurst[p] = numberOfBursts(p)
          /\ UNCHANGED <<currentBurst, step>>
          /\ IOSet' = IOSet \ {p} /\ EndedSet' = EndedSet \cup {p}
          /\ UNCHANGED <<CPUSet, ReadySet, NewSet>>
      BY <1>7, <2>1, <2>3, EndSets
    <3>2. p \in Procs /\ numberOfBursts(p) \in Nat
      BY <1>1, <3>1, ProcFacts DEF ApartInv
    <3>3. \A q \in Procs : Stage(q)' = Stage(q)
      BY <1>2, <3>1, <3>2 DEF Stage
    <3> QED
      BY <1>3, <3>1, <3>3
  <2> QED
    BY <2>2, <2>3
<1>8. CASE \/ IOStep \/ Requeue(ioWaitQ, "ioRequeue", "io") \/ Report
           \/ Requeue(terminatedQ, "reportRequeue", "report")
  <2>1. UNCHANGED currentBurst
    BY <1>8 DEF IOStep, Requeue, Report, running
  <2>2. UNCHANGED sets
    BY <1>8, IOStepSets, RequeueSets, ReportSets, ReportRequeueSets
  <2>3. \A q \in Procs : Stage(q)' = Stage(q)
    BY <1>2, <2>1, <2>2 DEF Stage, sets
  <2> QED
    BY <1>3, <2>1, <2>3
<1>9. CASE \/ Create \/ LoadDone \/ Test \/ CPUStep \/ Idle \/ CPUsDone \/ IOLeave
           \/ Rotate(ioWaitQ, "ioRotate", "ioRequeue") \/ IODone \/ Wait \/ EndOfCycle
           \/ Rotate(terminatedQ, "reportRotate", "reportRequeue") \/ ReportDone
           \/ UNCHANGED vars
  <2>1. UNCHANGED sets /\ UNCHANGED currentBurst
    BY <1>9, QuietSets
  <2>2. \A q \in Procs : Stage(q)' = Stage(q)
    BY <1>2, <2>1 DEF Stage, sets
  <2> QED
    BY <1>3, <2>1, <2>2
<1> QED
  BY <1>4, <1>5, <1>6, <1>7, <1>8, <1>9 DEF Next

\* Every process of fcfs.c goes through the states of the comment on struct process,
\* in their order, although the test for its last burst is off by one.
THEOREM LifecycleRefines == Spec => LifecycleSpec
<1>1. PlaceInv /\ TurnInv /\ [Next]_vars => TurnInv'
  BY NextTurnInv DEF PlaceInv
<1>2. Spec => [](PlaceInv /\ WaitInv /\ TurnInv /\ StagesInv)
  BY <1>1, InitPlaceInv, InitWaitInv, InitTurnInv, NextPlaceInv, StagesFacts, PTL DEF Spec
<1> QED
  BY <1>2, InitRefines, NextRefines, PTL DEF Spec, LifecycleSpec, Lifecycle!Spec
-----------------------------------------------------------------------------
(* The time of every process.                                               *)

ServedFor(p) == SumFunctionOnSet(processes[p].bursts, 1 .. currentBurst[p]) + step[p]

Dispatched(p) ==
  Cardinality(OddUpTo(currentBurst[p])) + (IF p \in CPUSet THEN 1 ELSE 0)

\* The cycles of p: those it waited in, those of its bursts and one for every time it
\* was dispatched.
Cycles(p) == waitingTime[p] + ServedFor(p) + Dispatched(p)

ioPhases == {"io", "ioLeave", "ioRotate", "ioRequeue"}

\* What the pass over ioWaitQ has before it.
ioLeft == IF phase = "io" THEN sizeIO - i ELSE sizeIO - i - 1

\* The number of the node that the pass over readyQ is at.
reached ==
  CHOOSE k \in 1 .. Len(inReady) + 1 :
    node = IF k = Len(inReady) + 1 THEN NULL ELSE chain[readyQ][k]

\* The processes that this cycle has been counted for.
Counted ==
  IF phase = "cpu" THEN {cpu[c] : c \in 0 .. i - 1} \ {NULL}
  ELSE IF phase \in ioPhases THEN CPUSet \cup (IOSet \ Leading(inIO, ioLeft))
  ELSE IF phase = "wait" THEN CPUSet \cup IOSet \cup Leading(inReady, reached - 1)
  ELSE {}

Active == ReadySet \cup CPUSet \cup IOSet

\* What has been counted adds up, for those in the simulation to the time, for those
\* that have ended to the time of their end.
CyclesInv ==
  /\ \A p \in Active : Cycles(p) = time + (IF p \in Counted THEN 1 ELSE 0)
  /\ \A p \in EndedSet :
       /\ Cycles(p) = endTime[p]
       /\ endTime[p] < time + (IF phase \in ioPhases \cup {"wait"} THEN 1 ELSE 0)
  /\ \A p \in NewSet : waitingTime[p] = 0
  /\ phase \in {"create", "load"} => time = 0

LEMMA CyclesType ==
  ASSUME PlaceInv, NEW p \in Procs
  PROVE  /\ ServedFor(p) \in Nat /\ Dispatched(p) \in Nat /\ Cycles(p) \in Nat
         /\ currentBurst[p] \in Nat /\ currentBurst[p] <= numberOfBursts(p)
<1>1. FcfsInv /\ ValuesInv /\ ApartInv /\ BurstInv
  BY DEF PlaceInv
<1>2. /\ currentBurst[p] \in Nat /\ step[p] \in Nat /\ waitingTime[p] \in Nat
      /\ numberOfBursts(p) \in Nat /\ processes[p].bursts \in Seq(Nat)
  BY <1>1, ProcFacts DEF ValuesInv
<1>3. currentBurst[p] <= numberOfBursts(p)
  BY <1>1, <1>2 DEF ApartInv, BurstInv
<1>4. \A k \in 1 .. currentBurst[p] : processes[p].bursts[k] \in Nat
  BY <1>2, <1>3, SequencePrefix DEF numberOfBursts
<1>5. SumFunctionOnSet(processes[p].bursts, 1 .. currentBurst[p]) \in Nat
  BY <1>2, <1>4, SumPrefixNat
<1>6. Cardinality(OddUpTo(currentBurst[p])) \in Nat
  BY <1>2, CardOdd
<1>7. ServedFor(p) \in Nat
  BY <1>2, <1>5 DEF ServedFor
<1>8. Dispatched(p) \in Nat
  <2> DEFINE c == Cardinality(OddUpTo(currentBurst[p]))
  <2>1. c \in Nat /\ Dispatched(p) = c + (IF p \in CPUSet THEN 1 ELSE 0)
    BY <1>6 DEF Dispatched
  <2> HIDE DEF c
  <2> QED
    BY <2>1
<1> QED
  BY <1>2, <1>3, <1>7, <1>8 DEF Cycles

\* A process that this step does not touch.
LEMMA SameCycles ==
  ASSUME processes' = processes, NEW p, waitingTime'[p] = waitingTime[p],
         currentBurst'[p] = currentBurst[p], step'[p] = step[p],
         p \in CPUSet' <=> p \in CPUSet
  PROVE  Cycles(p)' = Cycles(p)
BY DEF Cycles, ServedFor, Dispatched

\* The end of a burst moves what was counted as steps to the bursts.
LEMMA BurstCycles ==
  ASSUME PlaceInv, [Next]_vars, NEW p \in Procs, NextBurst(p), remainingTime(p) = 0,
         currentBurst[p] + 1 <= numberOfBursts(p), waitingTime' = waitingTime,
         p \in CPUSet <=> currentBurst[p] % 2 = 0, p \notin CPUSet'
  PROVE  Cycles(p)' = Cycles(p)
<1>1. FcfsInv /\ ValuesInv /\ processes' = processes
  BY SameProcesses DEF PlaceInv
<1>2. /\ currentBurst[p] \in Nat /\ step[p] \in Nat /\ waitingTime[p] \in Nat
      /\ numberOfBursts(p) \in Nat /\ processes[p].bursts \in Seq(Nat)
  BY <1>1, ProcFacts DEF ValuesInv
<1>3. currentBurst'[p] = currentBurst[p] + 1 /\ step'[p] = 0
  BY NextBurstFacts
<1> DEFINE f == processes[p].bursts
           n == currentBurst[p]
<1>4. n < numberOfBursts(p)
  BY <1>2
<1>5. length(p) = f[n + 1] /\ length(p) \in Nat
  BY <1>1, <1>4, LengthType
<1>6. step[p] = f[n + 1]
  <2> HIDE DEF f, n
  <2>1. step[p] = length(p)
    <3>1. step[p] \in Int /\ length(p) \in Int
      BY <1>2, <1>5
    <3> QED
      BY <3>1 DEF remainingTime
  <2> QED
    BY <1>5, <2>1
<1>7. \A k \in 1 .. n + 1 : f[k] \in Nat
  <2>1. f \in Seq(Nat) /\ n + 1 \in Nat /\ n + 1 <= Len(f)
    BY <1>2, <1>4 DEF numberOfBursts
  <2> HIDE DEF f, n
  <2> QED
    BY <2>1, SequencePrefix
<1>8. SumFunctionOnSet(f, 1 .. n + 1) = SumFunctionOnSet(f, 1 .. n) + f[n + 1]
  <2>1. n \in Nat /\ \A k \in 1 .. n + 1 : f[k] \in Int
    BY <1>2, <1>7
  <2> HIDE DEF f, n
  <2> QED
    BY <2>1, SumPrefix
<1>9. SumFunctionOnSet(f, 1 .. n) \in Nat /\ SumFunctionOnSet(f, 1 .. n + 1) \in Nat
  <2>1. n \in Nat /\ n + 1 \in Nat
    BY <1>2
  <2> HIDE DEF f, n
  <2>2. \A k \in 1 .. n : f[k] \in Nat
    BY <1>7, <2>1
  <2> QED
    BY <1>7, <2>1, <2>2, SumPrefixNat
<1>10. ServedFor(p)' = ServedFor(p)
  <2>1. ServedFor(p)' = SumFunctionOnSet(f, 1 .. n + 1) + 0
    BY <1>1, <1>3 DEF ServedFor
  <2>2. ServedFor(p) = SumFunctionOnSet(f, 1 .. n) + f[n + 1]
    BY <1>6 DEF ServedFor
  <2> HIDE DEF f, n
  <2> QED
    BY <1>8, <1>9, <2>1, <2>2
<1>11. Dispatched(p)' = Dispatched(p)
  BY <1>2, <1>3, CardOdd DEF Dispatched
<1> QED
  BY <1>10, <1>11 DEF Cycles

\* A step that neither ends a cycle nor makes anyone leave or enter, and counts
\* exactly those it marks.
LEMMA CountedCycles ==
  ASSUME PlaceInv, CyclesInv, [Next]_vars, UNCHANGED <<time, endTime>>,
         Active' = Active, EndedSet' = EndedSet, NewSet' = NewSet,
         Counted \subseteq Counted',
         \A p \in Active :
           Cycles(p)' = Cycles(p) + (IF p \in Counted' \ Counted THEN 1 ELSE 0),
         \A p \in EndedSet : Cycles(p)' = Cycles(p),
         \A p \in NewSet : waitingTime'[p] = waitingTime[p],
         phase \in ioPhases \cup {"wait"} => phase' \in ioPhases \cup {"wait"},
         phase' \in {"create", "load"} => phase \in {"create", "load"}
  PROVE  CyclesInv'
<1>1. time \in Nat
  BY DEF PlaceInv, ValuesInv
<1>2. ASSUME NEW p \in Active'
      PROVE  Cycles(p)' = time' + (IF p \in Counted' THEN 1 ELSE 0)
  <2>1. p \in Active /\ Cycles(p) = time + (IF p \in Counted THEN 1 ELSE 0)
    BY <1>2 DEF CyclesInv
  <2> QED
    BY <1>1, <2>1
<1>3. ASSUME NEW p \in EndedSet'
      PROVE  /\ Cycles(p)' = endTime'[p]
             /\ endTime'[p] < time' + (IF phase' \in ioPhases \cup {"wait"} THEN 1 ELSE 0)
  <2>1. /\ p \in EndedSet /\ Cycles(p) = endTime[p]
        /\ endTime[p] < time + (IF phase \in ioPhases \cup {"wait"} THEN 1 ELSE 0)
    BY <1>3 DEF CyclesInv
  <2>2. p \in Procs /\ endTime[p] \in Nat
    BY <2>1 DEF PlaceInv, ApartInv, ValuesInv
  <2> QED
    BY <1>1, <2>1, <2>2
<1> QED
  BY <1>2, <1>3 DEF CyclesInv

\* Where the passes stand.
PassFacts ==
  /\ phase \in {"io", "ioRequeue"} => i <= sizeIO
  /\ phase = "ioRequeue" => i < sizeIO
  /\ phase = "cpu" => i <= NUMBER_OF_PROCESSORS

LEMMA NextPassFacts == PlaceInv /\ PassFacts /\ [Next]_vars => PassFacts'
<1> SUFFICES ASSUME PlaceInv, PassFacts, [Next]_vars PROVE PassFacts'
  OBVIOUS
<1>1. i \in Nat /\ sizeIO \in Nat /\ NUMBER_OF_PROCESSORS \in Nat /\ PassInv
  BY SchAssumption DEF PlaceInv, FcfsInv, FcfsTypeInv
<1>2. CASE CPUBurstDone \/ CPUStep \/ Dispatch \/ Idle
  BY <1>1, <1>2 DEF CPUBurstDone, CPUStep, Dispatch, Idle, OnCPU, Proceed, Goto, PassFacts
<1>3. CASE CPUsDone
  <2>1. size[ioWaitQ] \in Nat
    BY TheQueues DEF PlaceInv, FcfsInv, ListInv, TypeInv
  <2> QED
    BY <1>3, <2>1 DEF CPUsDone, PassFacts
<1>4. CASE IOLeave \/ Requeue(ioWaitQ, "ioRequeue", "io")
  BY <1>1, <1>4 DEF IOLeave, Requeue, At, Goto, PassInv, PassFacts
<1>5. CASE Rotate(ioWaitQ, "ioRotate", "ioRequeue")
  BY <1>1, <1>5 DEF Rotate, At, Goto, PassInv, PassFacts
<1>6. CASE Test
  BY <1>1, <1>6 DEF Test, Proceed, Goto, PassFacts
<1>7. ASSUME \/ Create \/ Load \/ LoadDone \/ IOBurstDone \/ IOStep \/ IODone \/ Wait
             \/ EndOfCycle \/ Report
             \/ Rotate(terminatedQ, "reportRotate", "reportRequeue")
             \/ Requeue(terminatedQ, "reportRequeue", "report")
      PROVE  phase' \notin {"io", "ioRequeue", "cpu"}
  BY <1>7 DEF Create, Load, LoadDone, IOBurstDone, IOStep, IODone, Wait, EndOfCycle,
     Report, Rotate, Requeue, Proceed, Goto
<1>8. CASE ReportDone \/ UNCHANGED vars
  BY <1>8 DEF ReportDone, vars, position, PassFacts
<1> QED
  BY <1>2, <1>3, <1>4, <1>5, <1>6, <1>7, <1>8 DEF Next, PassFacts

\* What the pass over ioWaitQ has before it is at the front of it.
LEMMA LeftFacts ==
  ASSUME PlaceInv, PassFacts, phase \in ioPhases
  PROVE  /\ i \in Nat /\ sizeIO \in Nat
         /\ ioLeft \in Nat /\ ioLeft <= Len(inIO) /\ Len(inIO) \in Nat
         /\ Leading(inIO, ioLeft) \subseteq IOSet
<1>1. i \in Nat /\ sizeIO \in Nat /\ PassInv /\ FcfsInv
  BY DEF PlaceInv, FcfsInv, FcfsTypeInv
<1>2. /\ held[ioWaitQ] \in Seq(Elements) /\ size[ioWaitQ] = Len(held[ioWaitQ])
      /\ size[ioWaitQ] > 0 => held[ioWaitQ] # <<>>
  BY <1>1, HeldFacts, TheQueues
<1>3. /\ Len(held[ioWaitQ]) \in Nat
      /\ held[ioWaitQ] # <<>> => Len(Tail(held[ioWaitQ])) = Len(held[ioWaitQ]) - 1
  <2> HIDE DEF held, Elements
  <2> QED
    BY <1>2
<1>4. ioLeft \in Nat /\ ioLeft <= Len(inIO) /\ Len(inIO) \in Nat
  <2>1. CASE phase = "io" \/ phase = "ioRequeue"
    BY <1>1, <1>2, <1>3, <2>1 DEF PassFacts, PassInv, ioLeft, inIO
  <2>2. CASE phase = "ioLeave" \/ phase = "ioRotate"
    <3>1. size[ioWaitQ] > 0 /\ i < sizeIO /\ size[ioWaitQ] >= sizeIO - i
      BY <1>1, <1>2, <1>3, <2>2 DEF PassInv
    <3> QED
      BY <1>1, <1>2, <1>3, <2>2, <3>1 DEF ioLeft, inIO
  <2> QED
    BY <2>1, <2>2 DEF ioPhases
<1>5. Leading(inIO, ioLeft) \subseteq Range(inIO)
  <2>1. inIO \in Seq(Elements) /\ ioLeft \in 0 .. Len(inIO)
    BY <1>1, <1>4, QueueTypes
  <2> HIDE DEF Elements
  <2> QED
    BY <2>1, LeadingAll
<1> QED
  BY <1>1, <1>4, <1>5 DEF IOSet

\* The turn of a process in ioWaitQ.
LEMMA TurnFacts ==
  ASSUME PlaceInv, PassFacts, InIO(FrontOf(ioWaitQ)), inIO' = Tail(inIO),
         phase' \in {"ioLeave", "ioRotate"}, i' = i, sizeIO' = sizeIO
  PROVE  /\ Head(inIO) \in Leading(inIO, ioLeft)
         /\ Leading(inIO', ioLeft') = Leading(inIO, ioLeft) \ {Head(inIO)}
<1>1. /\ phase = "io" /\ i < sizeIO /\ FcfsInv /\ IsInjective(inIO)
      /\ inIO \in Seq(Elements)
  BY TurnIO, QueueTypes DEF PlaceInv, OnceInv
<1>2. ioLeft \in 1 .. Len(inIO) /\ ioLeft' = ioLeft - 1
  BY <1>1, LeftFacts DEF ioLeft, ioPhases
<1> HIDE DEF Elements
<1> QED
  BY <1>1, <1>2, LeadingTail

\* The position of the pass over readyQ.
LEMMA ReachedFacts ==
  ASSUME FcfsInv, NEW k \in 1 .. Len(inReady) + 1,
         node = IF k = Len(inReady) + 1 THEN NULL ELSE chain[readyQ][k]
  PROVE  reached = k
<1> DEFINE P(j) == node = IF j = Len(inReady) + 1 THEN NULL ELSE chain[readyQ][j]
<1>1. Len(inReady) \in Nat
  BY ReadyChain
<1>2. ASSUME NEW j \in 1 .. Len(inReady) + 1, P(j) PROVE j = k
  <2>1. CASE j = Len(inReady) + 1 \/ k = Len(inReady) + 1
    <3>1. (j = Len(inReady) + 1 \/ j \in 1 .. Len(inReady))
          /\ (k = Len(inReady) + 1 \/ k \in 1 .. Len(inReady))
      BY <1>1
    <3> QED
      BY <1>1, <1>2, <2>1, <3>1, ReadyChain
  <2>2. CASE j # Len(inReady) + 1 /\ k # Len(inReady) + 1
    <3>1. j \in 1 .. Len(inReady) /\ k \in 1 .. Len(inReady)
      BY <1>1, <2>2
    <3>2. chain[readyQ][j] = chain[readyQ][k]
      BY <1>2, <2>2
    <3> QED
      BY <3>1, <3>2, ReadyChain
  <2> QED
    BY <2>1, <2>2
<1>3. P(k)
  OBVIOUS
<1>4. reached = CHOOSE j \in 1 .. Len(inReady) + 1 : P(j)
  BY DEF reached
<1> HIDE DEF P
<1> QED
  BY <1>2, <1>3, <1>4

\* What a step of a process on a processor or in ioWaitQ adds.
LEMMA StepCycles ==
  ASSUME PlaceInv, [Next]_vars, NEW p \in Procs, step' = [step EXCEPT ![p] = @ + 1],
         UNCHANGED <<currentBurst, waitingTime, CPUSet>>
  PROVE  /\ Cycles(p)' = Cycles(p) + 1
         /\ \A q \in Procs : q # p => Cycles(q)' = Cycles(q)
<1>1. processes' = processes /\ step \in [Procs -> Nat]
  BY SameProcesses DEF PlaceInv, ValuesInv
<1>2. step'[p] = step[p] + 1 /\ \A q \in Procs : q # p => step'[q] = step[q]
  BY <1>1
<1>3. \A q \in Procs : q # p => Cycles(q)' = Cycles(q)
  BY <1>1, <1>2, SameCycles
<1> DEFINE s == SumFunctionOnSet(processes[p].bursts, 1 .. currentBurst[p])
<1>4. ServedFor(p)' = s + (step[p] + 1) /\ ServedFor(p) = s + step[p]
      /\ Dispatched(p)' = Dispatched(p)
  BY <1>1, <1>2 DEF ServedFor, Dispatched
<1>5. s \in Int
  <2>1. processes[p].bursts \in Seq(Nat) /\ numberOfBursts(p) = Len(processes[p].bursts)
        /\ numberOfBursts(p) \in Nat
    BY ProcFacts DEF PlaceInv, numberOfBursts
  <2>2. currentBurst[p] \in Nat /\ currentBurst[p] <= numberOfBursts(p)
    BY CyclesType
  <2>3. \A k \in 1 .. currentBurst[p] : processes[p].bursts[k] \in Nat
    BY <2>1, <2>2
  <2>4. s \in Nat
    BY <2>2, <2>3, SumPrefixNat
  <2> QED
    BY <2>4
<1>6. /\ Cycles(p) = waitingTime[p] + ServedFor(p) + Dispatched(p)
      /\ Cycles(p)' = waitingTime[p] + ServedFor(p)' + Dispatched(p)'
      /\ waitingTime[p] \in Nat /\ Dispatched(p) \in Nat /\ step[p] \in Nat
  BY <1>1, CyclesType DEF Cycles, PlaceInv, ValuesInv
<1> HIDE DEF s
<1> QED
  BY <1>3, <1>4, <1>5, <1>6

LEMMA QuietCounted ==
  ASSUME PlaceInv, PassFacts, WaitInv,
         \/ Create \/ LoadDone \/ Test \/ Idle \/ CPUsDone \/ IOLeave
         \/ Rotate(ioWaitQ, "ioRotate", "ioRequeue")
         \/ Requeue(ioWaitQ, "ioRequeue", "io") \/ IODone \/ Report
         \/ Rotate(terminatedQ, "reportRotate", "reportRequeue")
         \/ Requeue(terminatedQ, "reportRequeue", "report") \/ ReportDone
         \/ UNCHANGED vars
  PROVE  Counted' = Counted
<1>1. FcfsInv /\ i \in Nat /\ sizeIO \in Nat /\ NUMBER_OF_PROCESSORS \in Nat
  BY SchAssumption DEF PlaceInv, FcfsInv, FcfsTypeInv
<1>2. CASE \/ Create \/ LoadDone \/ Report
           \/ Rotate(terminatedQ, "reportRotate", "reportRequeue")
           \/ Requeue(terminatedQ, "reportRequeue", "report")
  <2>1. /\ phase \notin ioPhases \cup {"wait", "cpu"}
        /\ phase' \notin ioPhases \cup {"wait", "cpu"}
    BY <1>2 DEF Create, LoadDone, Report, Rotate, Requeue, At, Proceed, Goto, ioPhases
  <2> QED
    BY <2>1 DEF Counted
<1>3. CASE Test
  <2>1. phase = "test" /\ i' = 0 /\ phase' \in {"cpu", "report"}
    BY <1>3 DEF Test, At, Proceed, Goto
  <2>2. 0 .. 0 - 1 = {}
    OBVIOUS
  <2> QED
    BY <2>1, <2>2 DEF Counted, ioPhases
<1>4. CASE Idle
  <2>1. phase = "cpu" /\ phase' = "cpu" /\ i' = i + 1 /\ cpu' = cpu /\ cpu[i] = NULL
    BY <1>4 DEF Idle, OnCPU, At, Proceed, Goto, running
  <2>2. 0 .. (i + 1) - 1 = (0 .. i - 1) \cup {i}
    BY <1>1
  <2> QED
    BY <2>1, <2>2 DEF Counted
<1>5. CASE CPUsDone
  <2>1. /\ phase = "cpu" /\ phase' = "io" /\ i' = 0 /\ sizeIO' = size[ioWaitQ]
        /\ i = NUMBER_OF_PROCESSORS
    BY <1>5 DEF CPUsDone, At
  <2>2. UNCHANGED places /\ UNCHANGED sets
    BY <1>5, QuietSets
  <2>3. Counted = CPUSet
    BY <2>1 DEF Counted, CPUSet, CPUs
  <2>4. Leading(inIO, Len(inIO)) = Range(inIO) /\ turningIO = {}
    <3> HIDE DEF Elements
    <3> QED
      BY <1>1, <2>1, QueueTypes, LeadingAll DEF turningIO
  <2>5. ioLeft' = Len(inIO)
    <3>1. inIO = held[ioWaitQ] /\ size[ioWaitQ] = Len(held[ioWaitQ])
          /\ size[ioWaitQ] \in Nat
      BY <1>1, <2>1, HeldFacts, TheQueues DEF inIO, FcfsInv, ListInv, TypeInv
    <3> QED
      BY <2>1, <3>1 DEF ioLeft
  <2>6. Leading(inIO', ioLeft') = IOSet
    BY <2>2, <2>4, <2>5 DEF places, IOSet
  <2> QED
    BY <2>1, <2>2, <2>3, <2>6 DEF Counted, sets, ioPhases
<1>6. CASE IOLeave \/ Rotate(ioWaitQ, "ioRotate", "ioRequeue")
  <2>1. phase \in ioPhases /\ phase' \in ioPhases /\ ioLeft' = ioLeft
    BY <1>1, <1>6 DEF IOLeave, Rotate, At, Goto, ioPhases, ioLeft
  <2>2. UNCHANGED places /\ UNCHANGED sets
    BY <1>6, QuietSets
  <2> QED
    BY <2>1, <2>2 DEF Counted, places, sets, ioPhases
<1>7. CASE Requeue(ioWaitQ, "ioRequeue", "io")
  <2>1. phase \in ioPhases /\ phase' \in ioPhases /\ ioLeft' = ioLeft
    BY <1>1, <1>7 DEF Requeue, At, Goto, ioPhases, ioLeft
  <2>2. inIO' = Append(inIO, data[node]) /\ data[node] \in Elements
    BY <1>1, <1>7, RequeueMoves
  <2>3. UNCHANGED sets
    BY <1>7, RequeueSets
  <2>4. Leading(inIO', ioLeft) = Leading(inIO, ioLeft)
    <3>1. inIO \in Seq(Elements) /\ ioLeft \in Int /\ ioLeft <= Len(inIO)
      BY <1>1, <2>1, QueueTypes, LeftFacts
    <3> HIDE DEF Elements
    <3> QED
      BY <2>2, <3>1, LeadingAppend
  <2> QED
    BY <2>1, <2>3, <2>4 DEF Counted, sets, ioPhases
<1>8. CASE IODone
  <2>1. phase = "io" /\ phase' = "wait" /\ i = sizeIO /\ node' = front[readyQ]
        /\ lists' = lists
    BY <1>8 DEF IODone, At, Goto
  <2>2. UNCHANGED places /\ UNCHANGED sets
    BY <1>8, QuietSets
  <2>3. Leading(inIO, ioLeft) = {}
    <3>1. ioLeft = 0
      BY <1>1, <2>1 DEF ioLeft
    <3> QED
      BY <3>1 DEF Leading
  <2>4. reached' = 1
    <3>1. Len(inReady) \in Nat /\ chain' = chain /\ inReady' = inReady
          /\ node' = IF 1 = Len(inReady) + 1 THEN NULL ELSE chain[readyQ][1]
      BY <1>1, <2>1, <2>2, ReadyChain DEF lists, places
    <3>2. reached' = CHOOSE k \in 1 .. Len(inReady) + 1 :
            node' = IF k = Len(inReady) + 1 THEN NULL ELSE chain[readyQ][k]
      BY <3>1 DEF reached
    <3>3. \A k \in 1 .. Len(inReady) + 1 :
            node' = (IF k = Len(inReady) + 1 THEN NULL ELSE chain[readyQ][k]) => k = 1
      <4> SUFFICES ASSUME NEW k \in 1 .. Len(inReady) + 1, k # 1,
                          node' = IF k = Len(inReady) + 1 THEN NULL ELSE chain[readyQ][k]
                   PROVE  FALSE
        OBVIOUS
      <4>1. 1 \in 1 .. Len(inReady) /\ (k = Len(inReady) + 1 \/ k \in 1 .. Len(inReady))
            /\ 1 # Len(inReady) + 1
        BY <3>1
      <4> QED
        BY <1>1, <3>1, <4>1, ReadyChain
    <3>4. 1 \in 1 .. Len(inReady) + 1
      BY <3>1
    <3> DEFINE Q(k) == node' = IF k = Len(inReady) + 1 THEN NULL ELSE chain[readyQ][k]
    <3>5. Q(1) /\ (\A k \in 1 .. Len(inReady) + 1 : Q(k) => k = 1)
          /\ reached' = CHOOSE k \in 1 .. Len(inReady) + 1 : Q(k)
      BY <3>1, <3>2, <3>3
    <3> HIDE DEF Q
    <3> QED
      BY <3>4, <3>5
  <2>5. Leading(inReady', reached' - 1) = {}
    BY <2>4 DEF Leading
  <2> QED
    BY <2>1, <2>2, <2>3, <2>5 DEF Counted, sets, ioPhases
<1>9. CASE ReportDone \/ UNCHANGED vars
  <2>1. UNCHANGED places /\ UNCHANGED sets
    BY <1>9, QuietSets
  <2>2. UNCHANGED <<phase, i, sizeIO, node, chain, cpu>>
    BY <1>9 DEF ReportDone, vars, position, lists, running
  <2> QED
    BY <2>1, <2>2 DEF Counted, sets, places, ioLeft, reached
<1> QED
  BY <1>2, <1>3, <1>4, <1>5, <1>6, <1>7, <1>8, <1>9

LEMMA QuietCycles ==
  ASSUME PlaceInv, PassFacts, WaitInv, CyclesInv,
         \/ Create \/ LoadDone \/ Test \/ Idle \/ CPUsDone \/ IOLeave
         \/ Rotate(ioWaitQ, "ioRotate", "ioRequeue")
         \/ Requeue(ioWaitQ, "ioRequeue", "io") \/ IODone \/ Report
         \/ Rotate(terminatedQ, "reportRotate", "reportRequeue")
         \/ Requeue(terminatedQ, "reportRequeue", "report") \/ ReportDone
         \/ UNCHANGED vars
  PROVE  CyclesInv'
<1>1. Counted' = Counted
  BY QuietCounted
<1>2. UNCHANGED sets
  BY QuietSets, RequeueSets, ReportSets, ReportRequeueSets
<1>3. UNCHANGED <<currentBurst, step, waitingTime, endTime, time>>
  BY DEF Create, LoadDone, Test, Idle, CPUsDone, IOLeave, Rotate, Requeue, IODone,
     Report, ReportDone, vars, running, figures, Proceed
<1>4. [Next]_vars
  BY DEF Next
<1>5. processes' = processes
  BY <1>4, SameProcesses
<1>6. \A p : Cycles(p)' = Cycles(p)
  BY <1>2, <1>3, <1>5, SameCycles DEF sets
<1>7. \A p \in Active : Cycles(p) \in Nat
  BY CyclesType DEF Active, PlaceInv, ApartInv
<1>8. \A p \in Active :
        Cycles(p)' = Cycles(p) + (IF p \in Counted' \ Counted THEN 1 ELSE 0)
  BY <1>1, <1>6, <1>7
<1>9. /\ phase \in ioPhases \cup {"wait"} => phase' \in ioPhases \cup {"wait"}
      /\ phase' \in {"create", "load"} => phase \in {"create", "load"}
  BY DEF Create, LoadDone, Test, Idle, CPUsDone, IOLeave, Rotate, Requeue, IODone,
     Report, ReportDone, vars, position, Proceed, OnCPU, At, Goto, ioPhases
<1>10. Active' = Active /\ EndedSet' = EndedSet /\ NewSet' = NewSet
  BY <1>2 DEF sets, Active
<1> QED
  BY <1>1, <1>3, <1>4, <1>6, <1>8, <1>9, <1>10, CountedCycles

LEMMA CPUStepCycles ==
  ASSUME PlaceInv, CyclesInv, CPUStep PROVE CyclesInv'
<1>0. PICK p : p = cpu[i]
  OBVIOUS
<1>1. /\ i \in CPUs /\ p \in CPUSet /\ p \in Procs
      /\ step' = [step EXCEPT ![p] = @ + 1]
      /\ UNCHANGED <<currentBurst, endTime, waitingTime, time>>
  BY <1>0, CPUStepFacts DEF figures
<1>2. UNCHANGED sets /\ cpu' = cpu
  BY QuietSets
<1>3. [Next]_vars /\ phase = "cpu" /\ phase' = "cpu" /\ i' = i + 1 /\ i \in Nat
  BY DEF Next, CPUStep, OnCPU, At, Goto, PlaceInv, FcfsInv, FcfsTypeInv
<1>4. Cycles(p)' = Cycles(p) + 1 /\ \A q \in Procs : q # p => Cycles(q)' = Cycles(q)
  BY <1>1, <1>2, <1>3, StepCycles DEF sets
<1>5. Counted' = Counted \cup {p} /\ p \notin Counted
  <2>1. 0 .. (i + 1) - 1 = (0 .. i - 1) \cup {i}
    BY <1>3
  <2>2. p # NULL
    BY <1>1 DEF CPUSet
  <2>3. \A c \in 0 .. i - 1 : c \in CPUs /\ c # i
    BY <1>1, <1>3, SchAssumption DEF CPUs
  <2>4. \A c \in 0 .. i - 1 : cpu[c] # p
    BY <1>0, <1>1, <2>2, <2>3 DEF PlaceInv, OnceInv
  <2> QED
    BY <1>0, <1>2, <1>3, <2>1, <2>2, <2>4 DEF Counted
<1>6. Active \subseteq Procs /\ EndedSet \subseteq Procs /\ p \notin EndedSet
  BY <1>1 DEF Active, PlaceInv, ApartInv
<1>7. \A q \in Active : Cycles(q) \in Nat
  BY <1>6, CyclesType
<1>8. \A q \in Active :
        Cycles(q)' = Cycles(q) + (IF q \in Counted' \ Counted THEN 1 ELSE 0)
  BY <1>4, <1>5, <1>6, <1>7
<1>9. \A q \in EndedSet : Cycles(q)' = Cycles(q)
  BY <1>4, <1>6
<1>10. Active' = Active /\ EndedSet' = EndedSet /\ NewSet' = NewSet
  BY <1>2 DEF sets, Active
<1> QED
  BY <1>1, <1>3, <1>5, <1>8, <1>9, <1>10, CountedCycles DEF ioPhases

LEMMA DispatchCycles ==
  ASSUME PlaceInv, CyclesInv, Dispatch PROVE CyclesInv'
<1>0. PICK p : p = Head(inReady)
  OBVIOUS
<1>1. /\ p \in ReadySet /\ ReadySet' = ReadySet \ {p} /\ CPUSet' = CPUSet \cup {p}
      /\ UNCHANGED <<IOSet, EndedSet, NewSet>>
  BY <1>0, DispatchSets
<1>2. /\ i \in CPUs /\ cpu[i] = NULL /\ cpu' = [cpu EXCEPT ![i] = p]
      /\ UNCHANGED <<currentBurst, step, endTime, waitingTime, time>>
  BY <1>0, DispatchMoves DEF Dispatch, figures, PlaceInv
<1>3. /\ [Next]_vars /\ phase = "cpu" /\ phase' = "cpu" /\ i' = i + 1 /\ i \in Nat
      /\ cpu \in [CPUs -> Elements \cup {NULL}]
  BY DEF Next, Dispatch, OnCPU, At, Goto, PlaceInv, FcfsInv, FcfsTypeInv
<1>4. ApartInv /\ p \in Procs /\ p # NULL /\ p \notin CPUSet /\ p \notin IOSet
      /\ p \notin EndedSet /\ p \notin NewSet /\ NULL \notin Procs
  BY <1>1, ProcFacts DEF PlaceInv, ApartInv
<1>5. processes' = processes
  BY <1>3, SameProcesses
<1>6. \A q : q # p => Cycles(q)' = Cycles(q)
  BY <1>1, <1>2, <1>5, SameCycles
<1>7. Cycles(p)' = Cycles(p) + 1
  <2> DEFINE c == Cardinality(OddUpTo(currentBurst[p]))
  <2>1. c \in Nat /\ waitingTime[p] \in Nat /\ ServedFor(p) \in Nat
    BY <1>4, CyclesType, CardOdd DEF PlaceInv, ValuesInv
  <2>2. Dispatched(p) = c + 0 /\ Dispatched(p)' = c + 1 /\ ServedFor(p)' = ServedFor(p)
    BY <1>1, <1>2, <1>4, <1>5 DEF Dispatched, ServedFor
  <2>3. /\ Cycles(p) = waitingTime[p] + ServedFor(p) + Dispatched(p)
        /\ Cycles(p)' = waitingTime[p] + ServedFor(p)' + Dispatched(p)'
    BY <1>2 DEF Cycles
  <2> HIDE DEF c
  <2> QED
    BY <2>1, <2>2, <2>3
<1>8. Counted' = Counted \cup {p} /\ p \notin Counted
  <2>1. 0 .. (i + 1) - 1 = (0 .. i - 1) \cup {i} /\ i \notin 0 .. i - 1
    BY <1>3
  <2>2. \A c \in 0 .. i - 1 : c \in CPUs
    BY <1>2, <1>3, SchAssumption DEF CPUs
  <2>3. cpu'[i] = p /\ \A c \in 0 .. i - 1 : cpu'[c] = cpu[c] /\ cpu[c] # p
    BY <1>2, <1>3, <1>4, <2>1, <2>2 DEF CPUSet
  <2> QED
    BY <1>3, <1>4, <2>1, <2>3 DEF Counted
<1>9. Active' = Active /\ Active \subseteq Procs
  BY <1>1, <1>4 DEF Active, ApartInv
<1>10. \A q \in Active : Cycles(q) \in Nat
  BY <1>9, CyclesType
<1>11. \A q \in Active :
         Cycles(q)' = Cycles(q) + (IF q \in Counted' \ Counted THEN 1 ELSE 0)
  BY <1>6, <1>7, <1>8, <1>10
<1> QED
  BY <1>1, <1>2, <1>3, <1>4, <1>6, <1>8, <1>9, <1>11, CountedCycles DEF ioPhases

LEMMA BlockCycles ==
  ASSUME PlaceInv, CyclesInv, CPUBurstDone PROVE CyclesInv'
<1>0. PICK p : p = cpu[i]
  OBVIOUS
<1>1. /\ p \in CPUSet /\ NextBurst(p) /\ endTime' = endTime
      /\ CPUSet' = CPUSet \ {p} /\ IOSet' = IOSet \cup {p}
      /\ UNCHANGED <<ReadySet, EndedSet, NewSet>>
  BY <1>0, BlockSets
<1>2. /\ p \in Procs /\ currentBurst[p] + 1 <= numberOfBursts(p)
  BY <1>0, BlockTaken
<1>3. /\ [Next]_vars /\ phase = "cpu" /\ phase' = "cpu" /\ i' = i + 1 /\ i \in Nat
      /\ cpu \in [CPUs -> Elements \cup {NULL}] /\ i \in CPUs /\ p # NULL
      /\ cpu' = [cpu EXCEPT ![i] = NULL] /\ remainingTime(p) = 0
      /\ UNCHANGED <<waitingTime, time>>
  BY <1>0, OnCPUProcess DEF Next, CPUBurstDone, OnCPU, At, Goto, PlaceInv, FcfsInv, FcfsTypeInv,
     figures
<1>4. processes' = processes
  BY <1>3, SameProcesses
<1>5. Cycles(p)' = Cycles(p)
  <2>1. currentBurst[p] % 2 = 0
    BY <1>1 DEF PlaceInv, BurstInv
  <2> QED
    BY <1>1, <1>2, <1>3, <2>1, BurstCycles
<1>6. \A q \in Procs : q # p => Cycles(q)' = Cycles(q)
  <2>1. \A q \in Procs : q # p => /\ currentBurst'[q] = currentBurst[q]
                                  /\ step'[q] = step[q]
    BY <1>1, <1>2, <1>3, NextBurstFacts
  <2>2. \A q : q # p => (q \in CPUSet' <=> q \in CPUSet)
    BY <1>1
  <2> QED
    BY <1>3, <1>4, <2>1, <2>2, SameCycles
<1>7. Counted' = Counted
  <2>1. 0 .. (i + 1) - 1 = (0 .. i - 1) \cup {i} /\ i \notin 0 .. i - 1
    BY <1>3
  <2>2. \A c \in 0 .. i - 1 : c \in CPUs
    BY <1>3, SchAssumption DEF CPUs
  <2>3. cpu'[i] = NULL /\ \A c \in 0 .. i - 1 : cpu'[c] = cpu[c]
    BY <1>3, <2>1, <2>2
  <2> QED
    BY <1>0, <1>1, <1>3, <2>1, <2>3 DEF Counted
<1>8. Active' = Active /\ Active \subseteq Procs /\ EndedSet \subseteq Procs
  BY <1>1 DEF Active, PlaceInv, ApartInv
<1>9. \A q \in Active : Cycles(q) \in Nat
  BY <1>8, CyclesType
<1>10. \A q \in Active :
         Cycles(q)' = Cycles(q) + (IF q \in Counted' \ Counted THEN 1 ELSE 0)
  BY <1>5, <1>6, <1>7, <1>8, <1>9
<1>11. \A q \in EndedSet : Cycles(q)' = Cycles(q)
  BY <1>5, <1>6, <1>8
<1> QED
  BY <1>1, <1>3, <1>7, <1>8, <1>10, <1>11, CountedCycles DEF ioPhases

LEMMA TurnCounted ==
  ASSUME PlaceInv, PassFacts, InIO(FrontOf(ioWaitQ)), inIO' = Tail(inIO),
         phase' \in {"ioLeave", "ioRotate"}, i' = i, sizeIO' = sizeIO,
         CPUSet' = CPUSet, NEW p, p = Head(inIO)
  PROVE  /\ p \in IOSet /\ p \notin Counted
         /\ IOSet' = IOSet => Counted' = Counted \cup {p}
         /\ IOSet' = IOSet \ {p} => Counted' = Counted
<1>1. /\ p \in Leading(inIO, ioLeft)
      /\ Leading(inIO', ioLeft') = Leading(inIO, ioLeft) \ {p}
  BY TurnFacts
<1>2. phase \in ioPhases /\ phase' \in ioPhases /\ phase # "cpu" /\ phase' # "cpu"
  BY DEF InIO, At, ioPhases
<1>3. Leading(inIO, ioLeft) \subseteq IOSet
  BY <1>2, LeftFacts
<1>4. CPUSet \cap IOSet = {}
  BY DEF PlaceInv, ApartInv
<1> QED
  BY <1>1, <1>2, <1>3, <1>4 DEF Counted

LEMMA IOBurstDoneCycles ==
  ASSUME PlaceInv, PassFacts, CyclesInv, IOBurstDone PROVE CyclesInv'
<1>0. PICK p : p = Head(inIO)
  OBVIOUS
<1>1. /\ [Next]_vars /\ InIO(FrontOf(ioWaitQ)) /\ p = FrontOf(ioWaitQ)
      /\ remainingTime(p) = 0 /\ cpu' = cpu
      /\ phase = "io" /\ phase' = "ioLeave" /\ i' = i /\ sizeIO' = sizeIO
      /\ UNCHANGED <<waitingTime, time>>
  BY <1>0, TurnIO DEF Next, IOBurstDone, InIO, At, Goto, figures, PlaceInv
<1>2. processes' = processes
  BY <1>1, SameProcesses
<1>3. CPUSet' = CPUSet
  BY <1>1 DEF CPUSet
<1>4. ApartInv /\ time \in Nat
  BY DEF PlaceInv, ValuesInv
<1>5. CASE currentBurst[p] + 1 <= numberOfBursts(p)
  <2>1. /\ p \in IOSet /\ NextBurst(p) /\ endTime' = endTime /\ inIO' = Tail(inIO)
        /\ IOSet' = IOSet \ {p} /\ ReadySet' = ReadySet \cup {p}
        /\ UNCHANGED <<CPUSet, EndedSet, NewSet>>
    BY <1>0, <1>5, WakeSets
  <2>2. Counted' = Counted
    BY <1>0, <1>1, <1>3, <2>1, TurnCounted
  <2>3. p \in Procs /\ p \notin CPUSet /\ p \notin EndedSet
        /\ Active \subseteq Procs /\ EndedSet \subseteq Procs /\ Active' = Active
    BY <1>4, <2>1 DEF ApartInv, Active
  <2>4. currentBurst[p] % 2 = 1
    BY <2>1 DEF PlaceInv, BurstInv
  <2>5. Cycles(p)' = Cycles(p)
    BY <1>1, <1>3, <1>5, <2>1, <2>3, <2>4, BurstCycles
  <2>6. \A q \in Procs : q # p => Cycles(q)' = Cycles(q)
    <3>1. \A q \in Procs : q # p => /\ currentBurst'[q] = currentBurst[q]
                                    /\ step'[q] = step[q]
      BY <1>1, <2>1, <2>3, NextBurstFacts
    <3> QED
      BY <1>1, <1>2, <1>3, <3>1, SameCycles
  <2>7. \A q \in Active : Cycles(q) \in Nat
    BY <2>3, CyclesType
  <2>8. \A q \in Active :
          Cycles(q)' = Cycles(q) + (IF q \in Counted' \ Counted THEN 1 ELSE 0)
    BY <2>2, <2>3, <2>5, <2>6, <2>7
  <2>9. \A q \in EndedSet : Cycles(q)' = Cycles(q)
    BY <2>3, <2>6
  <2> QED
    BY <1>1, <2>1, <2>2, <2>3, <2>8, <2>9, CountedCycles DEF ioPhases
<1>6. CASE ~(currentBurst[p] + 1 <= numberOfBursts(p))
  <2>1. /\ p \in IOSet /\ UNCHANGED <<currentBurst, step>> /\ inIO' = Tail(inIO)
        /\ endTime' = [endTime EXCEPT ![p] = time]
        /\ IOSet' = IOSet \ {p} /\ EndedSet' = EndedSet \cup {p}
        /\ UNCHANGED <<CPUSet, ReadySet, NewSet>>
    BY <1>0, <1>6, EndSets
  <2>2. Counted' = Counted /\ p \notin Counted
    BY <1>0, <1>1, <1>3, <2>1, TurnCounted
  <2>3. \A q : Cycles(q)' = Cycles(q)
    BY <1>1, <1>2, <1>3, <2>1, SameCycles
  <2>4. /\ p \in Active /\ Active' = Active \ {p} /\ p \notin EndedSet /\ p \in Procs
        /\ EndedSet \subseteq Procs
    BY <1>4, <2>1 DEF Active, ApartInv
  <2>5. endTime \in [Procs -> Nat] /\ endTime'[p] = time
        /\ \A q \in EndedSet : endTime'[q] = endTime[q] /\ endTime[q] \in Nat
    BY <2>1, <2>4 DEF PlaceInv, ValuesInv
  <2>6. Cycles(p) = time
    BY <1>4, <2>2, <2>4 DEF CyclesInv
  <2>7. \A q \in Active' : Cycles(q)' = time' + (IF q \in Counted' THEN 1 ELSE 0)
    BY <1>1, <2>2, <2>3, <2>4 DEF CyclesInv
  <2>8. \A q \in EndedSet' : Cycles(q)' = endTime'[q] /\ endTime'[q] < time' + 1
    BY <1>1, <1>4, <2>1, <2>3, <2>5, <2>6 DEF CyclesInv, ioPhases
  <2> QED
    BY <1>1, <2>1, <2>7, <2>8 DEF CyclesInv, ioPhases
<1> QED
  BY <1>5, <1>6

LEMMA IOStepCycles ==
  ASSUME PlaceInv, PassFacts, CyclesInv, IOStep PROVE CyclesInv'
<1>0. PICK p : p = Head(inIO)
  OBVIOUS
<1>1. /\ [Next]_vars /\ InIO(FrontOf(ioWaitQ)) /\ cpu' = cpu
      /\ phase = "io" /\ phase' = "ioRotate" /\ i' = i /\ sizeIO' = sizeIO
      /\ UNCHANGED <<currentBurst, waitingTime, time, endTime>>
  BY DEF Next, IOStep, InIO, At, Goto, figures
<1>2. /\ p \in IOSet /\ step' = [step EXCEPT ![p] = @ + 1] /\ inIO' = Tail(inIO)
      /\ UNCHANGED sets
  BY <1>0, IOStepSets
<1>3. CPUSet' = CPUSet /\ IOSet' = IOSet
  BY <1>2 DEF sets
<1>4. Counted' = Counted \cup {p} /\ p \notin Counted
  BY <1>0, <1>1, <1>2, <1>3, TurnCounted
<1>5. p \in Procs /\ Active \subseteq Procs /\ EndedSet \subseteq Procs /\ p \notin EndedSet
  BY <1>2 DEF PlaceInv, ApartInv, Active
<1>6. Cycles(p)' = Cycles(p) + 1 /\ \A q \in Procs : q # p => Cycles(q)' = Cycles(q)
  BY <1>1, <1>2, <1>3, <1>5, StepCycles
<1>7. \A q \in Active : Cycles(q) \in Nat
  BY <1>5, CyclesType
<1>8. \A q \in Active :
        Cycles(q)' = Cycles(q) + (IF q \in Counted' \ Counted THEN 1 ELSE 0)
  BY <1>4, <1>5, <1>6, <1>7
<1>9. \A q \in EndedSet : Cycles(q)' = Cycles(q)
  BY <1>5, <1>6
<1>10. Active' = Active /\ EndedSet' = EndedSet /\ NewSet' = NewSet
  BY <1>2 DEF sets, Active
<1> QED
  BY <1>1, <1>4, <1>8, <1>9, <1>10, CountedCycles DEF ioPhases

LEMMA WaitCycles ==
  ASSUME PlaceInv, WaitInv, CyclesInv, Wait PROVE CyclesInv'
<1>0. PICK p : p = data[node]
  OBVIOUS
<1>1. FcfsInv /\ IsInjective(inReady) /\ inReady \in Seq(Elements)
      /\ phase = "wait" /\ phase' = "wait" /\ node # NULL /\ node' = next[node]
  BY QueueTypes DEF PlaceInv, OnceInv, Wait, At, Goto
<1>2. PICK k \in 1 .. Len(inReady) + 1 :
        node = IF k = Len(inReady) + 1 THEN NULL ELSE chain[readyQ][k]
  BY <1>1 DEF WaitInv
<1>3. /\ Len(inReady) \in Nat /\ k \in 1 .. Len(inReady)
      /\ k + 1 \in 1 .. Len(inReady) + 1
      /\ node = chain[readyQ][k]
      /\ node' = IF k + 1 = Len(inReady) + 1 THEN NULL ELSE chain[readyQ][k + 1]
  <2>1. Len(inReady) \in Nat /\ k # Len(inReady) + 1
    BY <1>1, <1>2, ReadyChain
  <2>2. k \in 1 .. Len(inReady) /\ k + 1 \in 1 .. Len(inReady) + 1
        /\ (k = Len(inReady) <=> k + 1 = Len(inReady) + 1)
    BY <2>1
  <2> QED
    BY <1>1, <1>2, <2>1, <2>2, ReadyChain
<1>4. p = inReady[k] /\ p \in ReadySet /\ p \in Procs
  <2>1. Len(inReady) = Len(chain[readyQ])
    BY <1>1, ReadyChain
  <2> QED
    BY <1>0, <1>3, <2>1, WaitProcess
<1>5. UNCHANGED places /\ UNCHANGED sets /\ UNCHANGED <<currentBurst, step, time, endTime>>
      /\ waitingTime' = [waitingTime EXCEPT ![p] = @ + 1] /\ chain' = chain
  BY <1>0, QuietSets DEF Wait, running, figures, lists
<1>6. [Next]_vars
  BY DEF Next
<1>7. reached = k
  BY <1>1, <1>2, ReachedFacts
<1>8. reached' = k + 1
  <2> DEFINE Q(j) == node' = IF j = Len(inReady) + 1 THEN NULL ELSE chain[readyQ][j]
  <2>1. inReady' = inReady
    BY <1>5 DEF places
  <2>2. reached' = CHOOSE j \in 1 .. Len(inReady) + 1 : Q(j)
    BY <1>5, <2>1 DEF reached
  <2>3. Q(k + 1)
    BY <1>3
  <2>4. ASSUME NEW j \in 1 .. Len(inReady) + 1, Q(j) PROVE j = k + 1
    <3>1. (j = Len(inReady) + 1 \/ j \in 1 .. Len(inReady))
          /\ (k + 1 = Len(inReady) + 1 \/ k + 1 \in 1 .. Len(inReady))
          /\ (j \in 1 .. Len(inReady) => j # Len(inReady) + 1)
          /\ (k + 1 \in 1 .. Len(inReady) => k + 1 # Len(inReady) + 1)
      BY <1>3
    <3> QED
      BY <1>1, <1>3, <2>4, <3>1, ReadyChain
  <2> HIDE DEF Q
  <2> QED
    BY <1>3, <2>2, <2>3, <2>4
<1>9. Leading(inReady', reached' - 1) = Leading(inReady, reached - 1) \cup {p}
      /\ p \notin Leading(inReady, reached - 1)
      /\ Leading(inReady, reached - 1) \subseteq ReadySet
  <2>1. inReady' = inReady /\ reached' - 1 = k /\ reached - 1 = k - 1
        /\ DOMAIN inReady = 1 .. Len(inReady)
    <3> HIDE DEF Elements
    <3> QED
      BY <1>1, <1>3, <1>5, <1>7, <1>8 DEF places
  <2>2. 1 .. k = (1 .. k - 1) \cup {k} /\ k \notin 1 .. k - 1
        /\ 1 .. k - 1 \subseteq 1 .. Len(inReady)
    BY <1>3
  <2>3. \A j \in 1 .. k - 1 : inReady[j] # inReady[k]
    BY <1>1, <1>3, <2>1, <2>2 DEF IsInjective
  <2> QED
    BY <1>4, <2>1, <2>2, <2>3 DEF Leading, ReadySet, Range
<1>10. Counted' = Counted \cup {p} /\ p \notin Counted
  <2>1. p \notin CPUSet /\ p \notin IOSet /\ CPUSet' = CPUSet /\ IOSet' = IOSet
    BY <1>4, <1>5 DEF PlaceInv, ApartInv, sets
  <2> QED
    BY <1>1, <1>9, <2>1 DEF Counted, ioPhases
<1>11. Cycles(p)' = Cycles(p) + 1
  <2>1. processes' = processes /\ CPUSet' = CPUSet
    BY <1>5, <1>6, SameProcesses DEF sets
  <2>2. ServedFor(p)' = ServedFor(p) /\ Dispatched(p)' = Dispatched(p)
    BY <1>5, <2>1 DEF ServedFor, Dispatched
  <2>3. waitingTime'[p] = waitingTime[p] + 1 /\ waitingTime[p] \in Nat
        /\ ServedFor(p) \in Nat /\ Dispatched(p) \in Nat
    BY <1>4, <1>5, CyclesType DEF PlaceInv, ValuesInv
  <2>4. /\ Cycles(p) = waitingTime[p] + ServedFor(p) + Dispatched(p)
        /\ Cycles(p)' = waitingTime'[p] + ServedFor(p)' + Dispatched(p)'
    BY DEF Cycles
  <2> QED
    BY <2>2, <2>3, <2>4
<1>12. \A q \in Procs : q # p => Cycles(q)' = Cycles(q) /\ waitingTime'[q] = waitingTime[q]
  <2>1. processes' = processes /\ CPUSet' = CPUSet
    BY <1>5, <1>6, SameProcesses DEF sets
  <2>2. \A q \in Procs : q # p => waitingTime'[q] = waitingTime[q]
    BY <1>4, <1>5 DEF PlaceInv, ValuesInv
  <2> QED
    BY <1>5, <2>1, <2>2, SameCycles
<1>13. /\ Active \subseteq Procs /\ EndedSet \subseteq Procs /\ NewSet \subseteq Procs
       /\ p \notin EndedSet /\ p \notin NewSet
  BY <1>4 DEF PlaceInv, ApartInv, Active
<1>14. \A q \in Active : Cycles(q) \in Nat
  BY <1>13, CyclesType
<1>15. \A q \in Active :
         Cycles(q)' = Cycles(q) + (IF q \in Counted' \ Counted THEN 1 ELSE 0)
  BY <1>10, <1>11, <1>12, <1>13, <1>14
<1>16. /\ \A q \in EndedSet : Cycles(q)' = Cycles(q)
       /\ \A q \in NewSet : waitingTime'[q] = waitingTime[q]
  BY <1>12, <1>13
<1>17. Active' = Active /\ EndedSet' = EndedSet /\ NewSet' = NewSet
  BY <1>5 DEF sets, Active
<1> QED
  BY <1>1, <1>5, <1>6, <1>10, <1>15, <1>16, <1>17, CountedCycles

LEMMA EndOfCycleCycles ==
  ASSUME PlaceInv, WaitInv, CyclesInv, EndOfCycle PROVE CyclesInv'
<1>1. /\ FcfsInv /\ inReady \in Seq(Elements) /\ time \in Nat
      /\ phase = "wait" /\ phase' = "test" /\ node = NULL /\ time' = time + 1
      /\ [Next]_vars
  BY QueueTypes DEF PlaceInv, ValuesInv, EndOfCycle, At, Goto, Next
<1>2. UNCHANGED sets /\ UNCHANGED <<currentBurst, step, waitingTime, endTime>>
  BY QuietSets DEF EndOfCycle, running
<1>3. PICK k \in 1 .. Len(inReady) + 1 :
        node = IF k = Len(inReady) + 1 THEN NULL ELSE chain[readyQ][k]
  BY <1>1 DEF WaitInv
<1>4. k = Len(inReady) + 1 /\ Len(inReady) \in Nat
  <2>1. Len(inReady) \in Nat /\ (k = Len(inReady) + 1 \/ k \in 1 .. Len(inReady))
    BY <1>1, <1>3, ReadyChain
  <2> QED
    BY <1>1, <1>3, <2>1, ReadyChain
<1>5. Leading(inReady, reached - 1) = ReadySet
  <2>1. reached - 1 = Len(inReady)
    BY <1>1, <1>3, <1>4, ReachedFacts
  <2> HIDE DEF Elements
  <2> QED
    BY <1>1, <2>1, LeadingAll DEF ReadySet
<1>6. Counted = Active /\ Counted' = {}
  BY <1>1, <1>5 DEF Counted, Active, ioPhases
<1>7. \A q : Cycles(q)' = Cycles(q)
  BY <1>1, <1>2, SameProcesses, SameCycles DEF sets
<1>8. Active' = Active /\ EndedSet' = EndedSet /\ NewSet' = NewSet
  BY <1>2 DEF sets, Active
<1>9. \A q \in Active' : Cycles(q)' = time' + (IF q \in Counted' THEN 1 ELSE 0)
  BY <1>1, <1>6, <1>7, <1>8 DEF CyclesInv
<1>10. \A q \in EndedSet' : Cycles(q)' = endTime'[q] /\ endTime'[q] < time' + 0
  BY <1>1, <1>2, <1>7, <1>8 DEF CyclesInv
<1> QED
  BY <1>1, <1>2, <1>8, <1>9, <1>10 DEF CyclesInv, ioPhases

LEMMA LoadCycles ==
  ASSUME PlaceInv, CyclesInv, Load PROVE CyclesInv'
<1>0. PICK p : p = i + 1
  OBVIOUS
<1>1. /\ p \in NewSet
      /\ ReadySet' = ReadySet \cup {p} /\ NewSet' = NewSet \ {p}
      /\ UNCHANGED <<CPUSet, IOSet, EndedSet>>
  BY <1>0, LoadSets
<1>2. /\ phase = "load" /\ phase' = "create" /\ [Next]_vars
      /\ UNCHANGED <<currentBurst, step, waitingTime, endTime, time>>
  BY DEF Load, At, Goto, running, figures, Next
<1>3. Counted = {} /\ Counted' = {}
  BY <1>2 DEF Counted, ioPhases
<1>4. \A q : Cycles(q)' = Cycles(q)
  BY <1>1, <1>2, SameProcesses, SameCycles
<1>5. Cycles(p) = 0
  <2>1. currentBurst[p] = 0 /\ step[p] = 0 /\ waitingTime[p] = 0 /\ p \notin CPUSet
    BY <1>1 DEF PlaceInv, ApartInv, BurstInv, CyclesInv
  <2>2. OddUpTo(0) = {} /\ 1 .. 0 = {}
    BY DEF OddUpTo
  <2>3. Cardinality(OddUpTo(0)) = 0 /\ SumFunctionOnSet(processes[p].bursts, 1 .. 0) = 0
    BY <2>2, FS_EmptySet, SumEmpty
  <2> QED
    BY <2>1, <2>3 DEF Cycles, ServedFor, Dispatched
<1>6. time = 0
  BY <1>2 DEF CyclesInv
<1>7. Active' = Active \cup {p}
  BY <1>1 DEF Active
<1> QED
  BY <1>1, <1>2, <1>3, <1>4, <1>5, <1>6, <1>7 DEF CyclesInv, ioPhases

LEMMA InitCycles == Init => CyclesInv /\ PassFacts
<1> SUFFICES ASSUME Init PROVE CyclesInv /\ PassFacts
  OBVIOUS
<1>1. PlaceInv
  BY InitPlaceInv
<1>2. NewSet = Procs
  BY DEF Init, NewSet, Procs
<1>3. Active = {} /\ EndedSet = {}
  BY <1>1, <1>2 DEF PlaceInv, ApartInv, Active
<1> QED
  BY <1>2, <1>3 DEF Init, CyclesInv, PassFacts

LEMMA NextCycles ==
  PlaceInv /\ WaitInv /\ PassFacts /\ CyclesInv /\ [Next]_vars => CyclesInv'
<1> SUFFICES ASSUME PlaceInv, WaitInv, PassFacts, CyclesInv, [Next]_vars
             PROVE  CyclesInv'
  OBVIOUS
<1> QED
  BY QuietCycles, CPUStepCycles, DispatchCycles, BlockCycles, IOBurstDoneCycles,
     IOStepCycles, WaitCycles, EndOfCycleCycles, LoadCycles DEF Next
-----------------------------------------------------------------------------
(* The processors are not used more than there are. *)

\* The cycles that p has spent on a processor.
CPUServed(p) ==
  SumFunctionOnSet(processes[p].bursts, OddUpTo(currentBurst[p]))
    + (IF currentBurst[p] % 2 = 0 THEN step[p] ELSE 0)

AllServed == SumFunctionOnSet([p \in Procs |-> CPUServed(p)], Procs)

\* The cycles that the processors have had.
Capacity ==
  time * NUMBER_OF_PROCESSORS
    + (IF phase = "cpu" THEN i
       ELSE IF phase \in ioPhases \cup {"wait"} THEN NUMBER_OF_PROCESSORS ELSE 0)

UseInv == AllServed <= Capacity

LEMMA CPUServedType ==
  ASSUME PlaceInv, NEW p \in Procs
  PROVE  /\ CPUServed(p) \in Nat /\ currentBurst[p] \in Nat /\ step[p] \in Nat
         /\ \A k \in 1 .. numberOfBursts(p) : processes[p].bursts[k] \in Nat
         /\ currentBurst[p] <= numberOfBursts(p)
         /\ SumFunctionOnSet(processes[p].bursts, OddUpTo(currentBurst[p])) \in Nat
<1>1. /\ currentBurst[p] \in Nat /\ currentBurst[p] <= numberOfBursts(p)
      /\ step[p] \in Nat
  BY CyclesType DEF PlaceInv, ValuesInv
<1>2. processes[p].bursts \in Seq(Nat) /\ numberOfBursts(p) \in Nat
  BY ProcFacts DEF PlaceInv
<1>3. \A k \in 1 .. numberOfBursts(p) : processes[p].bursts[k] \in Nat
  BY <1>2 DEF numberOfBursts
<1>4. \A k \in 1 .. currentBurst[p] : processes[p].bursts[k] \in Nat
  BY <1>1, <1>2, <1>3
<1>5. SumFunctionOnSet(processes[p].bursts, OddUpTo(currentBurst[p])) \in Nat
  BY <1>1, <1>4, SumOdd
<1> QED
  BY <1>1, <1>3, <1>5 DEF CPUServed

LEMMA AllServedType == ASSUME PlaceInv PROVE AllServed \in Nat
<1> DEFINE f == [p \in Procs |-> CPUServed(p)]
<1>1. IsFiniteSet(Procs) /\ \A p \in Procs : f[p] \in Nat
  BY CPUServedType, ProcFacts DEF PlaceInv
<1> HIDE DEF f
<1>2. SumFunctionOnSet(f, Procs) \in Nat
  BY <1>1, SumNat
<1> QED
  BY <1>2 DEF AllServed, f

\* Nobody served more, all of them together no more.
LEMMA SameServed ==
  ASSUME PlaceInv, [Next]_vars, \A p \in Procs : CPUServed(p)' = CPUServed(p)
  PROVE  AllServed' = AllServed
<1> DEFINE f == [p \in Procs |-> CPUServed(p)]
           e == [p \in Procs |-> CPUServed(p)']
<1>1. IsFiniteSet(Procs) /\ \A p \in Procs : f[p] = e[p]
  BY ProcFacts DEF PlaceInv
<1>2. AllServed' = SumFunctionOnSet(e, Procs) /\ AllServed = SumFunctionOnSet(f, Procs)
  BY SameProcesses DEF AllServed
<1> HIDE DEF f, e
<1> QED
  BY <1>1, <1>2, SumSame

LEMMA ServedSame ==
  ASSUME [Next]_vars, NEW p, currentBurst'[p] = currentBurst[p],
         step'[p] = step[p] \/ currentBurst[p] % 2 # 0
  PROVE  CPUServed(p)' = CPUServed(p)
<1>1. processes' = processes
  BY SameProcesses
<1> QED
  BY <1>1 DEF CPUServed

\* A burst that ends has been served to its last cycle.
LEMMA BurstServed ==
  ASSUME PlaceInv, [Next]_vars, NEW p \in Procs, NextBurst(p), remainingTime(p) = 0,
         currentBurst[p] + 1 <= numberOfBursts(p)
  PROVE  AllServed' = AllServed
<1> DEFINE k == currentBurst[p]
           b == processes[p].bursts
<1>1. /\ currentBurst'[p] = k + 1 /\ step'[p] = 0
      /\ currentBurst'[p] % 2 # k % 2
      /\ \A q \in Procs : q # p => currentBurst'[q] = currentBurst[q]
                                   /\ step'[q] = step[q]
  BY NextBurstFacts
<1>2. processes' = processes
  BY SameProcesses
<1>3. /\ k \in Nat /\ step[p] \in Nat /\ numberOfBursts(p) \in Nat
      /\ \A j \in 1 .. k + 1 : b[j] \in Nat
      /\ SumFunctionOnSet(b, OddUpTo(k)) \in Nat
  <2>1. numberOfBursts(p) \in Nat
    BY ProcFacts DEF PlaceInv
  <2> QED
    BY <2>1, CPUServedType
<1>4. length(p) = b[k + 1] /\ step[p] = length(p)
  <2>1. length(p) = b[k + 1] /\ length(p) \in Nat
    BY <1>3, LengthType DEF PlaceInv
  <2> QED
    BY <1>3, <2>1 DEF remainingTime
<1>5. SumFunctionOnSet(b, OddUpTo(k + 1))
        = SumFunctionOnSet(b, OddUpTo(k)) + (IF k % 2 = 0 THEN b[k + 1] ELSE 0)
  BY <1>3, SumOddNext
<1>6. CPUServed(p)' = CPUServed(p)
  <2> DEFINE m == SumFunctionOnSet(b, OddUpTo(k))
             n == SumFunctionOnSet(b, OddUpTo(k + 1))
  <2>1. CPUServed(p) = m + (IF k % 2 = 0 THEN step[p] ELSE 0)
    BY DEF CPUServed
  <2>2. CPUServed(p)' = n + (IF (k + 1) % 2 = 0 THEN 0 ELSE 0)
    BY <1>1, <1>2 DEF CPUServed
  <2>3. m \in Nat /\ n = m + (IF k % 2 = 0 THEN step[p] ELSE 0)
    BY <1>3, <1>4, <1>5
  <2> HIDE DEF m, n, k
  <2>4. n \in Nat
    BY <1>3, <2>3
  <2> QED
    BY <2>1, <2>2, <2>3, <2>4
<1>7. \A q \in Procs : CPUServed(q)' = CPUServed(q)
  BY <1>1, <1>6, ServedSame
<1> QED
  BY <1>7, SameServed

LEMMA CapacityType ==
  ASSUME PlaceInv
  PROVE  /\ NUMBER_OF_PROCESSORS \in Nat /\ time \in Nat /\ i \in Nat
         /\ time * NUMBER_OF_PROCESSORS \in Nat /\ Capacity \in Nat
         /\ (time + 1) * NUMBER_OF_PROCESSORS
              = time * NUMBER_OF_PROCESSORS + NUMBER_OF_PROCESSORS
<1>1. NUMBER_OF_PROCESSORS \in Nat /\ time \in Nat /\ i \in Nat
  BY SchAssumption DEF PlaceInv, FcfsInv, FcfsTypeInv, ValuesInv
<1>2. /\ time * NUMBER_OF_PROCESSORS \in Nat
      /\ (time + 1) * NUMBER_OF_PROCESSORS
           = time * NUMBER_OF_PROCESSORS + NUMBER_OF_PROCESSORS
  BY <1>1
<1> QED
  BY <1>1, <1>2 DEF Capacity

LEMMA NextUse == PlaceInv /\ PassFacts /\ UseInv /\ [Next]_vars => UseInv'
<1> SUFFICES ASSUME PlaceInv, PassFacts, UseInv, [Next]_vars PROVE UseInv'
  OBVIOUS
<1> USE DEF UseInv
<1>0. /\ NUMBER_OF_PROCESSORS \in Nat /\ time \in Nat /\ i \in Nat
      /\ time * NUMBER_OF_PROCESSORS \in Nat /\ Capacity \in Nat /\ AllServed \in Nat
      /\ (time + 1) * NUMBER_OF_PROCESSORS
           = time * NUMBER_OF_PROCESSORS + NUMBER_OF_PROCESSORS
  BY CapacityType, AllServedType
<1>1. ASSUME UNCHANGED <<currentBurst, step>> PROVE AllServed' = AllServed
  <2>1. \A p \in Procs : CPUServed(p)' = CPUServed(p)
    BY <1>1, ServedSame
  <2> QED
    BY <2>1, SameServed
<1> DEFINE tN == time * NUMBER_OF_PROCESSORS
<1>2. ASSUME \/ Create \/ Load \/ LoadDone \/ Test \/ Idle \/ Dispatch \/ CPUsDone
             \/ IOLeave \/ Rotate(ioWaitQ, "ioRotate", "ioRequeue")
             \/ Requeue(ioWaitQ, "ioRequeue", "io") \/ IODone \/ Wait
             \/ Report \/ Rotate(terminatedQ, "reportRotate", "reportRequeue")
             \/ Requeue(terminatedQ, "reportRequeue", "report") \/ ReportDone
             \/ UNCHANGED vars
      PROVE  UseInv'
  <2>1. UNCHANGED <<currentBurst, step>> /\ time' = time
    BY <1>2 DEF Create, Load, LoadDone, Test, Idle, Dispatch, CPUsDone, IOLeave,
       Rotate, Requeue, IODone, Wait, Report, ReportDone, vars, Proceed, running,
       figures
  <2> DEFINE Pass == \/ phase = "cpu" /\ phase' = "cpu" /\ i' = i + 1
                     \/ phase = "cpu" /\ phase' = "io" /\ i = NUMBER_OF_PROCESSORS
                     \/ /\ phase \in ioPhases \cup {"wait"}
                        /\ phase' \in ioPhases \cup {"wait"}
                     \/ /\ phase' = "cpu" /\ i' = 0
                        /\ phase \notin ioPhases \cup {"wait", "cpu"}
                     \/ /\ phase \notin ioPhases \cup {"wait", "cpu"}
                        /\ phase' \notin ioPhases \cup {"wait", "cpu"}
                     \/ phase' = phase /\ i' = i
  <2>2. Pass
    <3>1. CASE Create \/ Load \/ LoadDone \/ Test
      BY <3>1 DEF Create, Load, LoadDone, Test, Proceed, Goto, At, ioPhases
    <3>2. CASE Idle \/ Dispatch \/ CPUsDone
      BY <3>2 DEF Idle, Dispatch, CPUsDone, Proceed, Goto, At, OnCPU, ioPhases
    <3>3. CASE IOLeave \/ Rotate(ioWaitQ, "ioRotate", "ioRequeue")
               \/ Requeue(ioWaitQ, "ioRequeue", "io")
      BY <3>3 DEF IOLeave, Rotate, Requeue, Goto, At, ioPhases
    <3>4. CASE IODone \/ Wait
      BY <3>4 DEF IODone, Wait, Goto, At, ioPhases
    <3>5. CASE Report \/ Rotate(terminatedQ, "reportRotate", "reportRequeue")
               \/ Requeue(terminatedQ, "reportRequeue", "report")
      BY <3>5 DEF Report, Rotate, Requeue, Goto, At, ioPhases
    <3>6. CASE ReportDone \/ UNCHANGED vars
      BY <3>6 DEF ReportDone, vars, position
    <3> QED
      BY <1>2, <3>1, <3>2, <3>3, <3>4, <3>5, <3>6
  <2>3. Capacity <= Capacity'
    <3> HIDE DEF tN
    <3>1. Capacity = tN + (IF phase = "cpu" THEN i
             ELSE IF phase \in ioPhases \cup {"wait"} THEN NUMBER_OF_PROCESSORS ELSE 0)
      BY DEF Capacity, tN
    <3>2. Capacity' = tN + (IF phase' = "cpu" THEN i'
             ELSE IF phase' \in ioPhases \cup {"wait"} THEN NUMBER_OF_PROCESSORS ELSE 0)
      BY <2>1 DEF Capacity, tN
    <3>3. tN \in Nat
      BY <1>0 DEF tN
    <3> QED
      BY <1>0, <2>2, <3>1, <3>2, <3>3 DEF ioPhases
  <2>4. Capacity' \in Int
    <3>1. i' \in Int /\ tN \in Nat /\ time' = time
      BY <1>0, <1>2, <2>1, StepTypeInv DEF PlaceInv, FcfsInv, FcfsTypeInv
    <3> QED
      BY <1>0, <3>1 DEF Capacity
  <2> QED
    BY <1>0, <1>1, <2>1, <2>3, <2>4
<1>3. ASSUME EndOfCycle PROVE UseInv'
  <2>1. /\ UNCHANGED <<currentBurst, step>> /\ time' = time + 1
        /\ phase = "wait" /\ phase' = "test"
    BY <1>3 DEF EndOfCycle, running, Goto, At
  <2>2. Capacity = tN + NUMBER_OF_PROCESSORS
    BY <2>1 DEF Capacity
  <2>3. Capacity' = (time + 1) * NUMBER_OF_PROCESSORS
    BY <1>0, <2>1 DEF Capacity, ioPhases
  <2> QED
    BY <1>0, <1>1, <2>1, <2>2, <2>3
<1>4. ASSUME CPUBurstDone PROVE UseInv'
  <2>1. PICK p : p = cpu[i]
    OBVIOUS
  <2>2. p \in Procs /\ NextBurst(p) /\ currentBurst[p] + 1 <= numberOfBursts(p)
    BY <1>4, <2>1, BlockTaken, BlockSets
  <2>3. /\ remainingTime(p) = 0 /\ phase = "cpu" /\ phase' = "cpu" /\ i' = i + 1
        /\ time' = time
    BY <1>4, <2>1 DEF CPUBurstDone, OnCPU, At, Goto, figures
  <2>4. AllServed' = AllServed
    BY <2>2, <2>3, BurstServed
  <2>5. Capacity = tN + i /\ Capacity' = tN + (i + 1)
    BY <2>3 DEF Capacity
  <2> QED
    BY <1>0, <2>4, <2>5
<1>5. ASSUME CPUStep PROVE UseInv'
  <2>1. PICK p : p = cpu[i]
    OBVIOUS
  <2>2. /\ p \in CPUSet /\ p \in Procs /\ currentBurst' = currentBurst
        /\ step' = [step EXCEPT ![p] = @ + 1] /\ remainingTime(p) # 0
    BY <1>5, <2>1, CPUStepFacts
  <2>3. phase = "cpu" /\ phase' = "cpu" /\ i' = i + 1 /\ time' = time
    BY <1>5 DEF CPUStep, OnCPU, At, Goto, figures
  <2>4. /\ step'[p] = step[p] + 1 /\ step[p] \in Nat
        /\ \A q \in Procs : q # p => step'[q] = step[q]
    BY <2>2, StepFacts, CPUServedType
  <2>5. currentBurst[p] % 2 = 0
    BY <2>2 DEF PlaceInv, BurstInv
  <2>6. CPUServed(p)' = CPUServed(p) + 1
    <3> DEFINE m == SumFunctionOnSet(processes[p].bursts, OddUpTo(currentBurst[p]))
    <3>1. processes' = processes /\ m \in Nat
      BY <2>2, SameProcesses, CPUServedType
    <3>2. CPUServed(p) = m + step[p]
      BY <2>5 DEF CPUServed
    <3>3. CPUServed(p)' = m + (step[p] + 1)
      BY <2>2, <2>4, <2>5, <3>1 DEF CPUServed
    <3> HIDE DEF m
    <3> QED
      BY <2>4, <3>1, <3>2, <3>3
  <2>7. AllServed' = AllServed + 1
    <3> DEFINE f == [q \in Procs |-> CPUServed(q)]
               e == [q \in Procs |-> CPUServed(q)']
    <3>1. \A q \in Procs : q # p => CPUServed(q)' = CPUServed(q)
      BY <2>2, <2>4, ServedSame
    <3>2. /\ IsFiniteSet(Procs) /\ \A q \in Procs : f[q] \in Int
          /\ f[p] \in Int /\ e[p] = f[p] + 1
          /\ \A q \in Procs : q # p => e[q] = f[q]
      BY <2>2, <2>6, <3>1, CPUServedType, ProcFacts DEF PlaceInv
    <3>3. AllServed' = SumFunctionOnSet(e, Procs) /\ AllServed = SumFunctionOnSet(f, Procs)
      BY SameProcesses DEF AllServed
    <3> HIDE DEF f, e
    <3>4. e[p] \in Int /\ e[p] - f[p] = 1
      BY <3>2
    <3>5. /\ p \in Procs /\ IsFiniteSet(Procs) /\ e[p] \in Int
          /\ \A q \in Procs : f[q] \in Int
          /\ \A q \in Procs : q # p => e[q] = f[q]
      BY <2>2, <3>2, <3>4
    <3>6. SumFunctionOnSet(e, Procs) = SumFunctionOnSet(f, Procs) + (e[p] - f[p])
      BY ONLY <3>5, SumChange
    <3> QED
      BY <3>3, <3>4, <3>6, AllServedType
  <2>8. Capacity = tN + i /\ Capacity' = tN + (i + 1)
    BY <2>3 DEF Capacity
  <2> QED
    BY <1>0, <2>7, <2>8
<1>6. ASSUME IOBurstDone PROVE UseInv'
  <2>1. PICK p : p = Head(inIO)
    OBVIOUS
  <2>2. /\ remainingTime(p) = 0 /\ phase = "io" /\ phase' = "ioLeave" /\ time' = time
    BY <1>6, <2>1, TurnIO DEF PlaceInv, IOBurstDone, Goto, figures
  <2>3. Capacity' = Capacity
    BY <2>2 DEF Capacity, ioPhases
  <2>4. CASE currentBurst[p] + 1 <= numberOfBursts(p)
    <3>1. p \in IOSet /\ NextBurst(p)
      BY <1>6, <2>1, <2>4, WakeSets
    <3>2. p \in Procs
      BY <3>1 DEF PlaceInv, ApartInv
    <3> QED
      BY <1>0, <2>2, <2>3, <2>4, <3>1, <3>2, BurstServed
  <2>5. CASE ~(currentBurst[p] + 1 <= numberOfBursts(p))
    <3>1. UNCHANGED <<currentBurst, step>>
      BY <1>6, <2>1, <2>5, EndSets
    <3> QED
      BY <1>0, <1>1, <2>3, <3>1
  <2> QED
    BY <2>4, <2>5
<1>7. ASSUME IOStep PROVE UseInv'
  <2>1. PICK p : p = Head(inIO)
    OBVIOUS
  <2>2. /\ p \in IOSet /\ step' = [step EXCEPT ![p] = @ + 1] /\ remainingTime(p) # 0
        /\ currentBurst' = currentBurst /\ phase = "io" /\ phase' = "ioRotate"
        /\ time' = time
    BY <1>7, <2>1, IOStepSets DEF IOStep, InIO, At, Goto, figures
  <2>3. p \in Procs /\ currentBurst[p] % 2 # 0
    BY <2>2 DEF PlaceInv, ApartInv, BurstInv
  <2>4. \A q \in Procs : q # p => step'[q] = step[q]
    BY <2>2, <2>3, StepFacts
  <2>5. \A q \in Procs : CPUServed(q)' = CPUServed(q)
    BY <2>2, <2>3, <2>4, ServedSame
  <2>6. Capacity' = Capacity
    BY <2>2 DEF Capacity, ioPhases
  <2> QED
    BY <1>0, <2>5, <2>6, SameServed
<1> QED
  BY <1>2, <1>3, <1>4, <1>5, <1>6, <1>7 DEF Next

LEMMA InitUse == Init => UseInv
<1> SUFFICES ASSUME Init PROVE UseInv
  OBVIOUS
<1>0. PlaceInv
  BY InitPlaceInv
<1>1. \A p \in Procs : CPUServed(p) = 0
  <2> SUFFICES ASSUME NEW p \in Procs PROVE CPUServed(p) = 0
    OBVIOUS
  <2>1. currentBurst[p] = 0 /\ step[p] = 0
    BY DEF Init
  <2>2. OddUpTo(0) = {}
    BY DEF OddUpTo
  <2> QED
    BY <2>1, <2>2, SumEmpty DEF CPUServed
<1> DEFINE f == [p \in Procs |-> CPUServed(p)]
<1>2. IsFiniteSet(Procs) /\ \A p \in Procs : f[p] = 0
  BY <1>0, <1>1, ProcFacts DEF PlaceInv
<1> HIDE DEF f
<1>3. SumFunctionOnSet(f, Procs) = 0
  BY <1>2, SumZero
<1>4. AllServed = 0
  BY <1>3 DEF AllServed, f
<1> QED
  BY <1>0, <1>4, CapacityType DEF UseInv
-----------------------------------------------------------------------------
(* The report: the pass over terminatedQ, from the front, each process going to   *)
(* the back.                                                                     *)

reportPhases == {"report", "reportRotate", "reportRequeue"}

\* How many at the front of terminatedQ the pass has before it.
Unread == IF phase \in reportPhases THEN Len(inEnded) - i ELSE Len(inEnded)

\* The last process to end: the last before the pass, or the one it turns last.
Latest ==
  IF Unread > 0 THEN inEnded[Unread]
  ELSE IF phase = "report" THEN inEnded[Len(inEnded)] ELSE data[node]

\* A cycle begins with a process to simulate, the report when there is none.
AliveInv ==
  /\ phase = "cpu" => Active # {}
  /\ phase \in reportPhases => Active = {} /\ i <= Len(inEnded)
  /\ phase \in {"create", "load"} => EndedSet = {}

\* With no process left to simulate, the last ended in the last cycle.
LatestInv ==
  \/ Active \cup NewSet # {} \/ Procs = {}
  \/ /\ Latest \in EndedSet
     /\ endTime[Latest] = time - (IF phase \in ioPhases \cup {"wait"} THEN 0 ELSE 1)

Reported == IF phase \in reportPhases THEN EndedSet \ Leading(inEnded, Unread) ELSE {}

CPUNeed(p) == SumFunctionOnSet(processes[p].bursts, CPUBursts(p))

\* The totals are those of the processes the pass has turned.
TotalsInv ==
  /\ totalWaitTime = SumFunctionOnSet(waitingTime, Reported)
  /\ totalBursts = SumFunctionOnSet([p \in Procs |-> Need(p)], Reported)
  /\ cpuTimes = SumFunctionOnSet([p \in Procs |-> CPUNeed(p)], Reported)

ExitInv ==
  /\ outcome \in {"running", "crashed", "finished"}
  /\ outcome # "running" =>
       /\ phase = "report" /\ i = size[terminatedQ]
       /\ outcome = "crashed" <=> size[terminatedQ] = 0

LEMMA NextExit == ExitInv /\ [Next]_vars => ExitInv'
<1> SUFFICES ASSUME ExitInv, [Next]_vars PROVE ExitInv'
  OBVIOUS
<1>1. CASE ReportDone
  BY <1>1 DEF ReportDone, At, ExitInv, lists
<1>2. CASE UNCHANGED vars
  BY <1>2 DEF vars, position, lists, ExitInv
<1>3. CASE Next /\ ~ReportDone
  <2>1. outcome = "running" /\ outcome' = outcome
    BY <1>3 DEF Next, Create, Load, LoadDone, Test, CPUBurstDone, CPUStep, Dispatch,
       Idle, CPUsDone, IOBurstDone, IOLeave, IOStep, Rotate, Requeue, IODone, Wait,
       EndOfCycle, Report, Proceed, Goto, OnCPU, InIO, At
  <2> QED
    BY <2>1 DEF ExitInv
<1> QED
  BY <1>1, <1>2, <1>3

\* The condition of the main loop.
LEMMA BusyActive == ASSUME PlaceInv, phase = "test" PROVE Busy <=> Active # {}
<1>1. /\ inReady = held[readyQ] /\ inIO = held[ioWaitQ] /\ turningIO = {}
      /\ inReady \in Seq(Elements) /\ inIO \in Seq(Elements)
  BY QueueTypes DEF inReady, inIO, turningIO, PlaceInv
<1>2. size[readyQ] = Len(inReady) /\ size[ioWaitQ] = Len(inIO)
  BY <1>1, HeldFacts, TheQueues DEF PlaceInv
<1>3. (ReadySet = {} <=> inReady = <<>>) /\ (IOSet = {} <=> inIO = <<>>)
  <2>1. /\ inReady \in Seq(Elements) => (Range(inReady) = {} <=> inReady = <<>>)
        /\ inIO \in Seq(Elements) => (Range(inIO) = {} <=> inIO = <<>>)
    <3> HIDE DEF inReady, inIO, Elements
    <3> QED
      BY RangeSubset
  <2> QED
    BY <1>1, <2>1, Zenon DEF ReadySet, IOSet
<1>4. \A q \in Seq(Elements) : Len(q) > 0 <=> q # <<>>
  <2> HIDE DEF Elements
  <2> QED
    OBVIOUS
<1>5. CPUSet # {} <=> \E c \in CPUs : cpu[c] # NULL
  BY DEF CPUSet
<1> QED
  BY <1>1, <1>2, <1>3, <1>4, <1>5 DEF Busy, Active

LEMMA NextAlive == PlaceInv /\ AliveInv /\ [Next]_vars => AliveInv'
<1> SUFFICES ASSUME PlaceInv, AliveInv, [Next]_vars PROVE AliveInv'
  OBVIOUS
<1>0. i \in Nat /\ inEnded \in Seq(Elements) /\ Len(inEnded) \in Nat
  <2>1. inEnded \in Seq(Elements)
    BY QueueTypes DEF PlaceInv
  <2> QED
    BY <2>1 DEF PlaceInv, FcfsInv, FcfsTypeInv
<1>1. CASE Create
  <2>1. phase = "create" /\ phase' = "load"
    BY <1>1 DEF Create, At, Goto
  <2> QED
    BY <1>1, <2>1, QuietSets DEF AliveInv, sets, reportPhases
<1>2. CASE Load
  <2>1. phase = "load" /\ phase' = "create"
    BY <1>2 DEF Load, At, Goto
  <2> QED
    BY <1>2, <2>1, LoadSets DEF AliveInv, reportPhases
<1>3. CASE LoadDone \/ CPUsDone \/ IOLeave \/ Rotate(ioWaitQ, "ioRotate", "ioRequeue")
           \/ IODone \/ Wait \/ EndOfCycle
  <2>1. phase' \notin {"cpu", "create", "load"} \cup reportPhases
    BY <1>3 DEF LoadDone, CPUsDone, IOLeave, Rotate, IODone, Wait, EndOfCycle, Proceed,
       Goto, reportPhases
  <2> QED
    BY <2>1 DEF AliveInv
<1>4. CASE Test
  <2>1. /\ phase = "test" /\ i' = 0
        /\ phase' = IF Busy THEN "cpu" ELSE "report"
    BY <1>4 DEF Test, At, Proceed, Goto
  <2>2. UNCHANGED sets /\ UNCHANGED places
    BY <1>4, QuietSets
  <2>3. Active' = Active /\ inEnded' = inEnded
    BY <2>2 DEF Active, sets, places
  <2>4. phase' = "cpu" => Active # {}
    BY <2>1, BusyActive
  <2>5. phase' # "cpu" => Active = {} /\ phase' = "report"
    BY <2>1, BusyActive
  <2> QED
    BY <1>0, <2>1, <2>3, <2>4, <2>5 DEF AliveInv, reportPhases
<1>5. CASE CPUStep \/ Idle
  <2>1. phase = "cpu" /\ phase' = "cpu"
    BY <1>5 DEF CPUStep, Idle, OnCPU, At, Proceed, Goto
  <2>2. UNCHANGED sets
    BY <1>5, QuietSets
  <2> QED
    BY <2>1, <2>2 DEF AliveInv, reportPhases, Active, sets
<1>6. CASE Dispatch
  <2>1. phase = "cpu" /\ phase' = "cpu"
    BY <1>6 DEF Dispatch, OnCPU, At, Goto
  <2>2. Active' # {}
    BY <1>6, DispatchSets DEF Active
  <2> QED
    BY <2>1, <2>2 DEF AliveInv, reportPhases
<1>7. CASE CPUBurstDone
  <2>1. phase = "cpu" /\ phase' = "cpu"
    BY <1>7 DEF CPUBurstDone, OnCPU, At, Goto
  <2>2. Active' # {}
    BY <1>7, BlockSets DEF Active
  <2> QED
    BY <2>1, <2>2 DEF AliveInv, reportPhases
<1>8. CASE IOBurstDone \/ IOStep \/ Requeue(ioWaitQ, "ioRequeue", "io")
  <2>1. phase' \notin {"cpu", "create", "load"} \cup reportPhases
    BY <1>8 DEF IOBurstDone, IOStep, Requeue, Goto, reportPhases
  <2> QED
    BY <2>1 DEF AliveInv
<1>9. CASE Report
  <2>1. phase = "report" /\ phase' = "reportRotate" /\ i' = i
    BY <1>9 DEF Report, At, Goto
  <2>2. /\ UNCHANGED sets /\ i < Len(inEnded) /\ inEnded' = Tail(inEnded)
        /\ inEnded # <<>>
    BY <1>9, ReportSets
  <2>3. Len(Tail(inEnded)) = Len(inEnded) - 1
    BY <1>0, <2>2, TailRange
  <2> QED
    BY <1>0, <2>1, <2>2, <2>3 DEF AliveInv, reportPhases, Active, sets
<1>10. CASE Rotate(terminatedQ, "reportRotate", "reportRequeue")
  <2>1. phase = "reportRotate" /\ phase' = "reportRequeue" /\ i' = i
    BY <1>10 DEF Rotate, At, Goto
  <2>2. UNCHANGED sets /\ UNCHANGED places
    BY <1>10, QuietSets
  <2> QED
    BY <2>1, <2>2 DEF AliveInv, reportPhases, Active, sets, places
<1>11. CASE Requeue(terminatedQ, "reportRequeue", "report")
  <2>1. phase = "reportRequeue" /\ phase' = "report" /\ i' = i + 1
    BY <1>11 DEF Requeue, At, Goto
  <2>2. PICK p : p = data[node]
    OBVIOUS
  <2>3. inEnded' = Append(inEnded, p) /\ UNCHANGED sets /\ p \in EndedSet
    BY <1>11, <2>2, ReportRequeueSets
  <2>4. p \in Elements
    BY <2>3, ProcFacts DEF PlaceInv, ApartInv
  <2>5. Len(Append(inEnded, p)) = Len(inEnded) + 1
    <3> HIDE DEF Elements, inEnded
    <3> QED
      BY <1>0, <2>4
  <2> QED
    BY <1>0, <2>1, <2>3, <2>5 DEF AliveInv, reportPhases, Active, sets
<1>12. CASE ReportDone \/ UNCHANGED vars
  <2>1. UNCHANGED sets /\ UNCHANGED places
    BY <1>12, QuietSets
  <2>2. phase' = phase /\ i' = i
    BY <1>12 DEF ReportDone, vars, position
  <2> QED
    BY <2>1, <2>2 DEF AliveInv, reportPhases, Active, sets, places
<1> QED
  BY <1>1, <1>2, <1>3, <1>4, <1>5, <1>6, <1>7, <1>8, <1>9, <1>10, <1>11, <1>12 DEF Next

\* What the pass over terminatedQ does to the order of the queue.
LEMMA ReportTurn ==
  ASSUME PlaceInv, AliveInv, Report, NEW p, p = Head(inEnded)
  PROVE  /\ Unread \in Nat /\ Unread > 0 /\ Unread' = Unread - 1
         /\ p \in Leading(inEnded, Unread)
         /\ Leading(inEnded, Unread)' = Leading(inEnded, Unread) \ {p}
         /\ Latest' = Latest
<1>1. /\ phase = "report" /\ phase' = "reportRotate" /\ i' = i /\ i \in Nat
      /\ data'[node'] = p
  <2>1. \A e, f : {e} = {f} => e = f
    OBVIOUS
  <2>2. phase = "report" /\ phase' = "reportRotate" /\ i' = i /\ i \in Nat
    BY DEF Report, At, Goto, PlaceInv, FcfsInv, FcfsTypeInv
  <2>3. turningEnded' = {p} /\ turningEnded' = {data'[node']}
    BY <2>2, ReportSets DEF turningEnded
  <2> QED
    BY <2>1, <2>2, <2>3
<1>2. /\ inEnded \in Seq(Elements) /\ IsInjective(inEnded) /\ i < Len(inEnded)
      /\ inEnded' = Tail(inEnded) /\ inEnded # <<>>
  BY ReportSets, QueueTypes DEF PlaceInv, OnceInv
<1>3. /\ Len(inEnded) \in Nat /\ Len(Tail(inEnded)) = Len(inEnded) - 1
      /\ Head(inEnded) = inEnded[1]
      /\ \A k \in 1 .. Len(inEnded) - 1 : Tail(inEnded)[k] = inEnded[k + 1]
  BY <1>2
<1>4. Unread = Len(inEnded) - i /\ Unread' = Unread - 1
  BY <1>1, <1>2, <1>3 DEF Unread, reportPhases
<1>5. Unread \in 1 .. Len(inEnded)
  BY <1>1, <1>2, <1>3, <1>4
<1> HIDE DEF Unread, inEnded
<1>6. /\ p \in Leading(inEnded, Unread)
      /\ Leading(Tail(inEnded), Unread - 1) = Leading(inEnded, Unread) \ {p}
  BY <1>2, <1>5, LeadingTail
<1>7. Leading(inEnded, Unread)' = Leading(Tail(inEnded), Unread - 1)
  BY <1>2, <1>4 DEF Leading
<1>8. Latest = inEnded[Unread]
  BY <1>5 DEF Latest
<1>9. CASE Unread = 1
  <2>1. ~(Unread' > 0)
    BY <1>4, <1>9
  <2>2. Latest' = data'[node']
    BY <1>1, <2>1 DEF Latest
  <2> QED
    BY <1>1, <1>3, <1>4, <1>5, <1>6, <1>7, <1>8, <1>9, <2>2
<1>10. CASE Unread # 1
  <2>1. Unread' > 0 /\ Unread - 1 \in 1 .. Len(inEnded) - 1 /\ (Unread - 1) + 1 = Unread
    BY <1>3, <1>4, <1>5, <1>10
  <2>2. Latest' = Tail(inEnded)[Unread - 1]
    BY <1>2, <1>4, <2>1 DEF Latest
  <2>3. Latest' = inEnded[Unread]
    BY <1>3, <2>1, <2>2
  <2> QED
    BY <1>4, <1>5, <1>6, <1>7, <1>8, <2>3
<1> QED
  BY <1>9, <1>10

LEMMA ReportReturn ==
  ASSUME PlaceInv, AliveInv, Requeue(terminatedQ, "reportRequeue", "report")
  PROVE  /\ Leading(inEnded, Unread)' = Leading(inEnded, Unread)
         /\ Latest' = Latest
<1>1. PICK p : p = data[node]
  OBVIOUS
<1>2. /\ phase = "reportRequeue" /\ phase' = "report" /\ i' = i + 1 /\ i \in Nat
      /\ i <= Len(inEnded)
  BY DEF Requeue, At, Goto, PlaceInv, FcfsInv, FcfsTypeInv, AliveInv, reportPhases
<1>3. /\ inEnded' = Append(inEnded, p) /\ p \in EndedSet
      /\ inEnded \in Seq(Elements)
  BY <1>1, ReportRequeueSets, QueueTypes DEF PlaceInv
<1>4. p \in Elements
  BY <1>3, ProcFacts DEF PlaceInv, ApartInv
<1>5. /\ Len(inEnded) \in Nat /\ Len(Append(inEnded, p)) = Len(inEnded) + 1
      /\ Append(inEnded, p)[Len(inEnded) + 1] = p
      /\ \A k \in 1 .. Len(inEnded) : Append(inEnded, p)[k] = inEnded[k]
  <2> HIDE DEF Elements, inEnded
  <2> QED
    BY <1>3, <1>4
<1>6. Unread = Len(inEnded) - i /\ Unread' = Unread
  BY <1>2, <1>3, <1>5 DEF Unread, reportPhases
<1>7. Unread \in Int /\ Unread <= Len(inEnded)
  BY <1>2, <1>5, <1>6
<1> HIDE DEF Unread, inEnded, Elements
<1>8. Leading(Append(inEnded, p), Unread) = Leading(inEnded, Unread)
  BY <1>3, <1>4, <1>7, LeadingAppend
<1>9. Leading(inEnded, Unread)' = Leading(Append(inEnded, p), Unread)
  BY <1>3, <1>6 DEF Leading
<1>10. Latest' = Latest
  <2>1. CASE Unread > 0
    <3>1. Unread \in 1 .. Len(inEnded)
      BY <1>7, <2>1
    <3>2. Latest = inEnded[Unread] /\ Latest' = Append(inEnded, p)[Unread]
      BY <1>3, <1>6, <2>1 DEF Latest
    <3> QED
      BY <1>5, <3>1, <3>2
  <2>2. CASE ~(Unread > 0)
    <3>1. Latest = p /\ Latest' = Append(inEnded, p)[Len(inEnded) + 1]
      BY <1>1, <1>2, <1>3, <1>5, <1>6, <2>2 DEF Latest
    <3> QED
      BY <1>5, <3>1
  <2> QED
    BY <2>1, <2>2
<1> QED
  BY <1>8, <1>9, <1>10

LEMMA NextLatest == PlaceInv /\ AliveInv /\ LatestInv /\ [Next]_vars => LatestInv'
<1> SUFFICES ASSUME PlaceInv, AliveInv, LatestInv, [Next]_vars PROVE LatestInv'
  OBVIOUS
<1>p. Procs' = Procs
  BY SameProcesses
<1> SUFFICES ASSUME (Active \cup NewSet)' = {}, Procs # {}
             PROVE  /\ Latest' \in EndedSet'
                    /\ endTime'[Latest'] =
                         time' - (IF phase' \in ioPhases \cup {"wait"} THEN 0 ELSE 1)
  BY <1>p DEF LatestInv
<1>0. /\ inEnded \in Seq(Elements) /\ Len(inEnded) \in Nat /\ time \in Nat
      /\ endTime \in [Procs -> Nat]
  <2>1. inEnded \in Seq(Elements)
    BY QueueTypes DEF PlaceInv
  <2> QED
    BY <2>1 DEF PlaceInv, ValuesInv
<1>1. phase \notin {"cpu", "create", "load"} \/ Active \cup NewSet # {}
  BY DEF AliveInv, PlaceInv, ApartInv, Active
<1>2. ASSUME UNCHANGED sets
      PROVE  /\ Latest \in EndedSet /\ EndedSet' = EndedSet
             /\ endTime[Latest] = time - (IF phase \in ioPhases \cup {"wait"} THEN 0 ELSE 1)
             /\ phase \notin {"cpu", "create", "load"}
  <2>1. Active \cup NewSet = {} /\ EndedSet' = EndedSet
    BY <1>2 DEF Active, sets
  <2> QED
    BY <1>1, <2>1 DEF LatestInv
<1>3. CASE Create \/ LoadDone \/ CPUStep \/ Idle \/ CPUsDone
  <2>1. UNCHANGED sets /\ phase \in {"cpu", "create"}
    BY <1>3, QuietSets DEF Create, LoadDone, CPUStep, Idle, CPUsDone, OnCPU, At
  <2> QED
    BY <1>2, <2>1
<1>4. CASE Load
  BY <1>4, LoadSets DEF Active
<1>5. CASE Dispatch
  BY <1>5, DispatchSets DEF Active
<1>6. CASE CPUBurstDone
  BY <1>6, BlockSets DEF Active
<1>7. CASE IOStep
  <2>1. UNCHANGED sets /\ IOSet # {}
    BY <1>7, IOStepSets
  <2> QED
    BY <2>1 DEF Active, sets
<1>8. CASE Requeue(ioWaitQ, "ioRequeue", "io")
  <2>1. UNCHANGED sets /\ IOSet # {}
    BY <1>8, RequeueSets
  <2> QED
    BY <2>1 DEF Active, sets
<1>9. CASE IOBurstDone
  <2>1. PICK p : p = Head(inIO)
    OBVIOUS
  <2>2. ~(currentBurst[p] + 1 <= numberOfBursts(p))
    <3> SUFFICES ASSUME currentBurst[p] + 1 <= numberOfBursts(p) PROVE FALSE
      OBVIOUS
    <3>1. p \in ReadySet'
      BY <1>9, <2>1, WakeSets
    <3> QED
      BY <3>1 DEF Active
  <2>3. /\ p \in IOSet /\ inEnded' = Append(inEnded, p) /\ EndedSet' = EndedSet \cup {p}
        /\ endTime' = [endTime EXCEPT ![p] = time]
    BY <1>9, <2>1, <2>2, EndSets
  <2>4. p \in Procs /\ p \in Elements
    BY <2>3, ProcFacts DEF PlaceInv, ApartInv
  <2>5. phase' = "ioLeave" /\ time' = time
    BY <1>9 DEF IOBurstDone, Goto, figures
  <2>6. Len(Append(inEnded, p)) = Len(inEnded) + 1 /\ Append(inEnded, p)[Len(inEnded) + 1] = p
    <3> HIDE DEF Elements, inEnded
    <3> QED
      BY <1>0, <2>4
  <2>7. Unread' = Len(inEnded) + 1 /\ Unread' > 0
    BY <1>0, <2>3, <2>5, <2>6 DEF Unread, reportPhases
  <2>8. Latest' = p
    <3> HIDE DEF inEnded, Unread
    <3> QED
      BY <2>3, <2>6, <2>7 DEF Latest
  <2> QED
    BY <1>0, <2>3, <2>4, <2>5, <2>8 DEF ioPhases
<1>10. CASE IOLeave \/ Rotate(ioWaitQ, "ioRotate", "ioRequeue") \/ IODone \/ Wait
            \/ EndOfCycle
  <2>1. UNCHANGED sets /\ UNCHANGED places /\ endTime' = endTime
    BY <1>10, QuietSets
  <2>2. /\ phase \in ioPhases \cup {"wait"}
        /\ \/ phase' \in ioPhases \cup {"wait"} /\ time' = time
           \/ phase' = "test" /\ time' = time + 1
    BY <1>10 DEF IOLeave, Rotate, IODone, Wait, EndOfCycle, At, Goto, ioPhases, figures
  <2>3. Unread = Len(inEnded) /\ Unread' = Len(inEnded) /\ inEnded' = inEnded
        /\ phase # "report" /\ phase' # "report"
    BY <2>1, <2>2 DEF Unread, places, ioPhases, reportPhases
  <2>4. inEnded # <<>>
    <3>1. Latest \in EndedSet /\ EndedSet = Range(inEnded)
      BY <1>2, <2>1, <2>2 DEF EndedSet, turningEnded, ioPhases
    <3> HIDE DEF inEnded
    <3> QED
      BY <3>1, RangeEmpty
  <2>5. Len(inEnded) > 0
    <3> HIDE DEF inEnded, Elements
    <3> QED
      BY <1>0, <2>4
  <2>6. Latest' = Latest
    <3> HIDE DEF inEnded, Unread
    <3> QED
      BY <2>3, <2>5 DEF Latest
  <2> QED
    BY <1>0, <1>2, <2>1, <2>2, <2>6 DEF ioPhases
<1>11. CASE Test
  <2>1. UNCHANGED sets /\ UNCHANGED places /\ endTime' = endTime
    BY <1>11, QuietSets
  <2>2. /\ phase = "test" /\ phase' \in {"cpu", "report"} /\ i' = 0 /\ time' = time
    BY <1>11 DEF Test, At, Proceed, Goto, figures
  <2>3. Unread = Len(inEnded) /\ Unread' = Len(inEnded) /\ inEnded' = inEnded
    BY <1>0, <2>1, <2>2 DEF Unread, places, reportPhases
  <2>4. inEnded # <<>>
    <3>1. Latest \in EndedSet /\ EndedSet = Range(inEnded)
      BY <1>2, <2>1, <2>2 DEF EndedSet, turningEnded
    <3> HIDE DEF inEnded
    <3> QED
      BY <3>1, RangeEmpty
  <2>5. Len(inEnded) > 0
    <3> HIDE DEF inEnded, Elements
    <3> QED
      BY <1>0, <2>4
  <2>6. Latest' = Latest
    <3> HIDE DEF inEnded, Unread
    <3> QED
      BY <2>3, <2>5 DEF Latest
  <2> QED
    BY <1>0, <1>2, <2>1, <2>2, <2>6 DEF ioPhases
<1>12. CASE Report
  <2>1. PICK p : p = Head(inEnded)
    OBVIOUS
  <2>2. UNCHANGED sets /\ Latest' = Latest
    BY <1>12, <2>1, ReportSets, ReportTurn
  <2>3. /\ phase = "report" /\ phase' = "reportRotate" /\ time' = time
        /\ endTime' = endTime
    BY <1>12 DEF Report, At, Goto
  <2> QED
    BY <1>2, <2>2, <2>3 DEF ioPhases
<1>13. CASE Requeue(terminatedQ, "reportRequeue", "report")
  <2>1. PICK p : p = data[node]
    OBVIOUS
  <2>2. UNCHANGED sets /\ Latest' = Latest
    BY <1>13, <2>1, ReportRequeueSets, ReportReturn
  <2>3. /\ phase = "reportRequeue" /\ phase' = "report" /\ time' = time
        /\ endTime' = endTime
    BY <1>13 DEF Requeue, At, Goto, figures
  <2> QED
    BY <1>2, <2>2, <2>3 DEF ioPhases
<1>14. CASE Rotate(terminatedQ, "reportRotate", "reportRequeue") \/ ReportDone
            \/ UNCHANGED vars
  <2>1. UNCHANGED sets /\ UNCHANGED places /\ endTime' = endTime
    BY <1>14, QuietSets
  <2>2. /\ i' = i /\ time' = time
        /\ phase' = phase \/ (phase = "reportRotate" /\ phase' = "reportRequeue")
    BY <1>14 DEF Rotate, ReportDone, vars, position, At, Goto, figures
  <2>3. Unread' = Unread /\ inEnded' = inEnded
    BY <2>1, <2>2 DEF Unread, places, reportPhases
  <2>4. data'[node'] = data[node]
    <3>1. CASE Rotate(terminatedQ, "reportRotate", "reportRequeue")
      BY <3>1 DEF Rotate, dequeueProcess
    <3>2. CASE ReportDone \/ UNCHANGED vars
      BY <3>2 DEF ReportDone, vars, position, lists
    <3> QED
      BY <1>14, <3>1, <3>2
  <2>5. Latest' = Latest
    <3> HIDE DEF inEnded, Unread
    <3> QED
      BY <2>2, <2>3, <2>4 DEF Latest
  <2> QED
    BY <1>2, <2>1, <2>2, <2>5 DEF ioPhases
<1> QED
  BY <1>3, <1>4, <1>5, <1>6, <1>7, <1>8, <1>9, <1>10, <1>11, <1>12, <1>13, <1>14 DEF Next

LEMMA NeedTypes ==
  ASSUME PlaceInv, NEW p \in Procs
  PROVE  /\ Need(p) = SumFunctionOnSet(processes[p].bursts, 1 .. numberOfBursts(p))
         /\ CPUNeed(p) = SumFunctionOnSet(processes[p].bursts, OddUpTo(numberOfBursts(p)))
         /\ CPUBursts(p) = OddUpTo(numberOfBursts(p))
         /\ Need(p) \in Nat /\ CPUNeed(p) \in Nat /\ waitingTime[p] \in Nat
<1>1. processes[p].bursts \in Seq(Nat) /\ numberOfBursts(p) \in Nat
  BY ProcFacts DEF PlaceInv
<1>2. \A k \in 1 .. numberOfBursts(p) : processes[p].bursts[k] \in Nat
  BY <1>1 DEF numberOfBursts
<1>3. DOMAIN processes[p].bursts = 1 .. numberOfBursts(p)
  BY <1>1 DEF numberOfBursts
<1>4. CPUBursts(p) = OddUpTo(numberOfBursts(p))
  BY DEF CPUBursts, OddUpTo
<1>5. /\ Need(p) = SumFunctionOnSet(processes[p].bursts, 1 .. numberOfBursts(p))
      /\ CPUNeed(p) = SumFunctionOnSet(processes[p].bursts, OddUpTo(numberOfBursts(p)))
  BY <1>3, <1>4, Zenon DEF Need, CPUNeed, SumFunction
<1>6. /\ SumFunctionOnSet(processes[p].bursts, 1 .. numberOfBursts(p)) \in Nat
      /\ SumFunctionOnSet(processes[p].bursts, OddUpTo(numberOfBursts(p))) \in Nat
  BY <1>1, <1>2, SumPrefixNat, SumOdd
<1> QED
  BY <1>4, <1>5, <1>6 DEF PlaceInv, ValuesInv

LEMMA NextTotals == PlaceInv /\ AliveInv /\ TotalsInv /\ [Next]_vars => TotalsInv'
<1> SUFFICES ASSUME PlaceInv, AliveInv, TotalsInv, [Next]_vars PROVE TotalsInv'
  OBVIOUS
<1> DEFINE needs == [p \in Procs |-> Need(p)]
           cpuNeeds == [p \in Procs |-> CPUNeed(p)]
<1>0. needs' = needs /\ cpuNeeds' = cpuNeeds /\ Procs' = Procs
  BY SameProcesses DEF Need, CPUNeed, CPUBursts
<1>1. ASSUME Reported' = Reported, UNCHANGED <<totalWaitTime, totalBursts, cpuTimes>>,
             waitingTime' = waitingTime \/ Reported = {}
      PROVE  TotalsInv'
  <2>1. SumFunctionOnSet(waitingTime', Reported) = SumFunctionOnSet(waitingTime, Reported)
    BY <1>1, SumEmpty
  <2> HIDE DEF needs, cpuNeeds
  <2>2. /\ totalWaitTime = SumFunctionOnSet(waitingTime, Reported)
        /\ totalBursts = SumFunctionOnSet(needs, Reported)
        /\ cpuTimes = SumFunctionOnSet(cpuNeeds, Reported)
    BY DEF TotalsInv, needs, cpuNeeds
  <2>3. /\ totalWaitTime' = SumFunctionOnSet(waitingTime', Reported')
        /\ totalBursts' = SumFunctionOnSet(needs', Reported')
        /\ cpuTimes' = SumFunctionOnSet(cpuNeeds', Reported')
    BY <1>0, <1>1, <2>1, <2>2
  <2> QED
    BY <2>3 DEF TotalsInv, needs, cpuNeeds
<1>2. CASE \/ Create \/ Load \/ LoadDone \/ CPUBurstDone \/ CPUStep \/ Dispatch \/ Idle
           \/ CPUsDone \/ IOBurstDone \/ IOLeave \/ IOStep
           \/ Rotate(ioWaitQ, "ioRotate", "ioRequeue")
           \/ Requeue(ioWaitQ, "ioRequeue", "io") \/ IODone \/ Wait \/ EndOfCycle
  <2>1. UNCHANGED <<totalWaitTime, totalBursts, cpuTimes>>
    BY <1>2 DEF Create, Load, LoadDone, CPUBurstDone, CPUStep, Dispatch, Idle, CPUsDone,
       IOBurstDone, IOLeave, IOStep, Rotate, Requeue, IODone, Wait, EndOfCycle, Proceed,
       figures
  <2>2. phase \notin reportPhases /\ phase' \notin reportPhases
    <3>1. CASE Create \/ Load \/ LoadDone \/ CPUBurstDone \/ CPUStep \/ Dispatch \/ Idle
      BY <3>1 DEF Create, Load, LoadDone, CPUBurstDone, CPUStep, Dispatch, Idle, Proceed,
         Goto, At, OnCPU, reportPhases
    <3>2. CASE CPUsDone \/ IOBurstDone \/ IOLeave \/ IOStep
      BY <3>2 DEF CPUsDone, IOBurstDone, IOLeave, IOStep, Goto, At, InIO, reportPhases
    <3>3. CASE \/ Rotate(ioWaitQ, "ioRotate", "ioRequeue")
               \/ Requeue(ioWaitQ, "ioRequeue", "io") \/ IODone \/ Wait \/ EndOfCycle
      BY <3>3 DEF Rotate, Requeue, IODone, Wait, EndOfCycle, Goto, At, reportPhases
    <3> QED
      BY <1>2, <3>1, <3>2, <3>3
  <2> QED
    BY <1>1, <2>1, <2>2 DEF Reported
<1>3. CASE Test
  <2>1. UNCHANGED sets /\ UNCHANGED places
    BY <1>3, QuietSets
  <2>2. /\ UNCHANGED <<totalWaitTime, totalBursts, cpuTimes, waitingTime>>
        /\ phase = "test" /\ phase' \in {"cpu", "report"} /\ i' = 0
    BY <1>3 DEF Test, Proceed, Goto, At, figures
  <2>3. inEnded \in Seq(Elements) /\ inEnded' = inEnded /\ EndedSet' = EndedSet
        /\ EndedSet = Range(inEnded)
    BY <2>1, <2>2, QueueTypes DEF PlaceInv, places, sets, EndedSet, turningEnded
  <2>4. Unread' = Len(inEnded) \/ phase' = "cpu"
    <3>1. Len(inEnded) \in Nat
      <4> HIDE DEF inEnded, Elements
      <4> QED
        BY <2>3
    <3> QED
      BY <2>2, <2>3, <3>1 DEF Unread, reportPhases
  <2>5. Leading(inEnded, Len(inEnded)) = Range(inEnded)
    <3> HIDE DEF inEnded
    <3> QED
      BY <2>3, LeadingAll
  <2>6. Reported = {} /\ Reported' = {}
    <3>1. CASE phase' = "cpu"
      BY <2>2, <3>1 DEF Reported, reportPhases
    <3>2. CASE Unread' = Len(inEnded)
      <4>1. Leading(inEnded, Unread)' = Range(inEnded)
        <5> HIDE DEF inEnded, Unread
        <5> QED
          BY <2>3, <2>5, <3>2 DEF Leading
      <4> QED
        BY <2>2, <2>3, <4>1 DEF Reported, reportPhases
    <3> QED
      BY <2>4, <3>1, <3>2
  <2> QED
    BY <1>1, <2>2, <2>6
<1>4. CASE Report
  <2>1. PICK p : p = Head(inEnded)
    OBVIOUS
  <2>2. /\ p \in EndedSet /\ p = FrontOf(terminatedQ) /\ EndedSet' = EndedSet
        /\ p \in Leading(inEnded, Unread)
        /\ Leading(inEnded, Unread)' = Leading(inEnded, Unread) \ {p}
    BY <1>4, <2>1, ReportSets, ReportTurn DEF sets
  <2>3. /\ phase = "report" /\ phase' = "reportRotate" /\ waitingTime' = waitingTime
        /\ totalWaitTime' = totalWaitTime + waitingTime[p]
        /\ totalBursts' = totalBursts + Need(p)
        /\ cpuTimes' = cpuTimes + CPUNeed(p)
    BY <1>4, <2>2 DEF Report, At, Goto, Need, CPUNeed
  <2>4. p \in Procs /\ Reported \subseteq Procs /\ IsFiniteSet(Reported)
    <3>1. IsFiniteSet(Procs) /\ EndedSet \subseteq Procs /\ Reported \subseteq EndedSet
      BY ProcFacts DEF PlaceInv, ApartInv, Reported
    <3> QED
      BY <2>2, <3>1, FS_Subset
  <2>5. p \notin Reported /\ Reported' = Reported \cup {p}
    BY <2>2, <2>3 DEF Reported, reportPhases
  <2>6. \A q \in Procs : needs[q] \in Int /\ cpuNeeds[q] \in Int /\ waitingTime[q] \in Int
    BY NeedTypes
  <2>7. needs[p] = Need(p) /\ cpuNeeds[p] = CPUNeed(p)
    BY <2>4
  <2> HIDE DEF needs, cpuNeeds
  <2>8. ASSUME NEW f, \A q \in Procs : f[q] \in Int
        PROVE  SumFunctionOnSet(f, Reported \cup {p}) = SumFunctionOnSet(f, Reported) + f[p]
    <3>1. (\A q \in Reported : f[q] \in Int) /\ f[p] \in Int
      BY <2>4, <2>8
    <3> QED
      BY <2>4, <2>5, <3>1, SumInsert
  <2>9. /\ SumFunctionOnSet(waitingTime, Reported') = totalWaitTime + waitingTime[p]
        /\ SumFunctionOnSet(needs, Reported') = totalBursts + needs[p]
        /\ SumFunctionOnSet(cpuNeeds, Reported') = cpuTimes + cpuNeeds[p]
    BY <2>5, <2>6, <2>8 DEF TotalsInv, needs, cpuNeeds
  <2>10. /\ totalWaitTime' = SumFunctionOnSet(waitingTime', Reported')
         /\ totalBursts' = SumFunctionOnSet(needs', Reported')
         /\ cpuTimes' = SumFunctionOnSet(cpuNeeds', Reported')
    BY <1>0, <2>3, <2>7, <2>9
  <2> QED
    BY <2>10 DEF TotalsInv, needs, cpuNeeds
<1>5. CASE Requeue(terminatedQ, "reportRequeue", "report")
  <2>1. PICK p : p = data[node]
    OBVIOUS
  <2>2. EndedSet' = EndedSet /\ Leading(inEnded, Unread)' = Leading(inEnded, Unread)
    BY <1>5, <2>1, ReportRequeueSets, ReportReturn DEF sets
  <2>3. /\ UNCHANGED <<totalWaitTime, totalBursts, cpuTimes, waitingTime>>
        /\ phase \in reportPhases /\ phase' \in reportPhases
    BY <1>5 DEF Requeue, At, Goto, figures, reportPhases
  <2>4. Reported' = Reported
    BY <2>2, <2>3 DEF Reported
  <2> QED
    BY <1>1, <2>3, <2>4
<1>6. CASE Rotate(terminatedQ, "reportRotate", "reportRequeue") \/ ReportDone
           \/ UNCHANGED vars
  <2>1. UNCHANGED sets /\ UNCHANGED places
    BY <1>6, QuietSets
  <2>2. /\ UNCHANGED <<totalWaitTime, totalBursts, cpuTimes, waitingTime>> /\ i' = i
        /\ phase \in reportPhases <=> phase' \in reportPhases
    BY <1>6 DEF Rotate, ReportDone, vars, position, At, Goto, figures, reportPhases
  <2>3. inEnded' = inEnded /\ EndedSet' = EndedSet /\ Unread' = Unread
    BY <2>1, <2>2 DEF places, sets, Unread
  <2>4. Reported' = Reported
    BY <2>2, <2>3 DEF Reported, Leading
  <2> QED
    BY <1>1, <2>2, <2>4
<1> QED
  BY <1>2, <1>3, <1>4, <1>5, <1>6 DEF Next
-----------------------------------------------------------------------------
(* What is printed. *)

ReportInv ==
  /\ PlaceInv /\ WaitInv /\ PassFacts
  /\ CyclesInv /\ UseInv
  /\ AliveInv /\ LatestInv /\ TotalsInv /\ ExitInv

\* The report of one process: it ended when everything it waited for and took adds up.
LEMMA EndAddsUp ==
  ASSUME ReportInv, phase = "report", NEW p \in EndedSet
  PROVE  /\ endTime[p] = waitingTime[p] + Need(p) + Cardinality(CPUBursts(p))
         /\ endTime[p] < time
         /\ CPUServed(p) = CPUNeed(p)
<1>0. PlaceInv
  BY DEF ReportInv
<1>1. /\ p \in Procs /\ p \notin CPUSet
      /\ currentBurst[p] = numberOfBursts(p) /\ step[p] <= length(p) /\ step[p] \in Nat
      /\ numberOfBursts(p) \in Nat /\ numberOfBursts(p) % 2 = 1
  <2>1. p \in Procs /\ p \notin CPUSet
    BY <1>0 DEF PlaceInv, ApartInv
  <2> QED
    BY <1>0, <2>1, ProcFacts DEF PlaceInv, ValuesInv, BurstInv
<1>2. step[p] = 0
  BY <1>1 DEF length
<1>3. Cycles(p) = endTime[p] /\ endTime[p] < time
  BY <1>0 DEF ReportInv, CyclesInv, ioPhases, PlaceInv, ValuesInv
<1>4. /\ Need(p) = SumFunctionOnSet(processes[p].bursts, 1 .. numberOfBursts(p))
      /\ CPUNeed(p) = SumFunctionOnSet(processes[p].bursts, OddUpTo(numberOfBursts(p)))
      /\ CPUBursts(p) = OddUpTo(numberOfBursts(p))
      /\ Need(p) \in Nat /\ CPUNeed(p) \in Nat /\ waitingTime[p] \in Nat
      /\ Cardinality(OddUpTo(numberOfBursts(p))) \in Nat
  BY <1>0, <1>1, NeedTypes, CardOdd
<1>5. ServedFor(p) = Need(p) /\ Dispatched(p) = Cardinality(CPUBursts(p))
  BY <1>1, <1>2, <1>4 DEF ServedFor, Dispatched
<1>6. CPUServed(p) = CPUNeed(p)
  BY <1>1, <1>4 DEF CPUServed
<1> QED
  BY <1>3, <1>5, <1>6 DEF Cycles

LEMMA InvReport == ReportInv => ReportSound
<1> SUFFICES ASSUME ReportInv, outcome # "running" PROVE ReportSound
  BY DEF ReportInv, ExitInv, ReportSound
<1>0. /\ PlaceInv /\ FcfsInv /\ phase = "report" /\ i = size[terminatedQ] /\ i \in Nat
      /\ outcome = "crashed" <=> size[terminatedQ] = 0
      /\ outcome \in {"crashed", "finished"}
  BY DEF ReportInv, ExitInv, PlaceInv, FcfsInv, FcfsTypeInv
<1>1. /\ inEnded = held[terminatedQ] /\ turningEnded = {} /\ NewSet = {}
      /\ Active = {} /\ EndedSet = Range(inEnded) /\ EndedSet = Procs
  <2>1. inEnded = held[terminatedQ] /\ turningEnded = {} /\ NewSet = {}
    BY <1>0 DEF inEnded, turningEnded, NewSet
  <2>2. Active = {}
    BY <1>0 DEF ReportInv, AliveInv, reportPhases
  <2> QED
    BY <1>0, <2>1, <2>2 DEF PlaceInv, ApartInv, Active, EndedSet
<1>2. /\ inEnded = InQueue(terminatedQ) /\ inEnded \in Seq(Elements)
      /\ i = Len(inEnded) /\ IsInjective(inEnded)
  BY <1>0, <1>1, HeldFacts, TheQueues DEF PlaceInv, OnceInv
<1>3. Procs = {} <=> inEnded = <<>>
  <2> HIDE DEF inEnded, Elements
  <2> QED
    BY <1>1, <1>2, RangeSubset
<1>4. /\ inEnded = <<>> <=> Len(inEnded) = 0
      /\ processes = <<>> <=> Procs = {}
  <2>1. processes \in Seq(Process) /\ Len(processes) \in Nat
    BY <1>0, ProcFacts
  <2>2. processes = <<>> <=> Procs = {}
    <3> HIDE DEF Process
    <3>1. processes = <<>> <=> Len(processes) = 0
      BY <2>1
    <3>2. \A n \in Nat : 1 .. n = {} <=> n = 0
      <4> SUFFICES ASSUME NEW n \in Nat, n # 0 PROVE 1 .. n # {}
        OBVIOUS
      <4>1. 1 \in 1 .. n
        OBVIOUS
      <4> QED
        BY <4>1
    <3> QED
      BY <2>1, <3>1, <3>2, Zenon DEF Procs
  <2> HIDE DEF inEnded, Elements
  <2> QED
    BY <1>2, <2>2
<1>5. CASE outcome = "crashed"
  BY <1>0, <1>2, <1>3, <1>4, <1>5 DEF ReportSound
<1>6. CASE outcome = "finished"
  <2>0. Procs # {} /\ size[terminatedQ] # 0 /\ Len(inEnded) \in Nat /\ IsFiniteSet(Procs)
    BY <1>0, <1>2, <1>3, <1>4, <1>6, ProcFacts
  <2>1. Unread = 0 /\ Reported = Procs
    <3>1. Unread = 0
      BY <1>0, <1>2 DEF Unread, reportPhases
    <3>2. Leading(inEnded, 0) = {}
      BY DEF Leading
    <3> QED
      BY <1>0, <1>1, <3>1, <3>2 DEF Reported, reportPhases
  <2>2. /\ totalWaitTime = SumFunction(waitingTime)
        /\ totalBursts = SumFunction([p \in Procs |-> Need(p)])
        /\ cpuTimes = SumFunctionOnSet([p \in Procs |-> CPUNeed(p)], Procs)
    <3>1. /\ totalWaitTime = SumFunctionOnSet(waitingTime, Procs)
          /\ totalBursts = SumFunctionOnSet([p \in Procs |-> Need(p)], Procs)
          /\ cpuTimes = SumFunctionOnSet([p \in Procs |-> CPUNeed(p)], Procs)
      BY <2>1 DEF ReportInv, TotalsInv
    <3>2. DOMAIN waitingTime = Procs /\ DOMAIN [p \in Procs |-> Need(p)] = Procs
      BY <1>0 DEF PlaceInv, ValuesInv
    <3> QED
      BY <3>1, <3>2, Zenon DEF SumFunction
  <2>3. \A p \in Procs :
          /\ endTime[p] = waitingTime[p] + Need(p) + Cardinality(CPUBursts(p))
          /\ endTime[p] < time /\ CPUServed(p) = CPUNeed(p)
    BY <1>0, <1>1, EndAddsUp
  <2>4. cpuTimes <= time * NUMBER_OF_PROCESSORS
    <3> DEFINE f == [p \in Procs |-> CPUServed(p)]
               e == [p \in Procs |-> CPUNeed(p)]
    <3>1. \A p \in Procs : f[p] = e[p]
      BY <2>3
    <3>2. AllServed = SumFunctionOnSet(f, Procs) /\ cpuTimes = SumFunctionOnSet(e, Procs)
      BY <2>2 DEF AllServed
    <3> HIDE DEF f, e
    <3>3. cpuTimes = AllServed
      BY <2>0, <3>1, <3>2, SumSame
    <3>4. Capacity = time * NUMBER_OF_PROCESSORS
      BY <1>0, CapacityType DEF Capacity, ioPhases
    <3> QED
      BY <3>3, <3>4 DEF ReportInv, UseInv
  <2>5. \E p \in Procs : endTime[p] = time - 1 /\ lastPID = processes[p].pid
    <3>1. Latest \in EndedSet /\ endTime[Latest] = time - 1
      BY <1>0, <1>1, <2>0 DEF ReportInv, LatestInv, ioPhases
    <3>2. Latest = inEnded[Len(inEnded)]
      BY <1>0, <2>1 DEF Latest
    <3>3. size[terminatedQ] > 0
      BY <1>0, <2>0
    <3>4. data[back[terminatedQ]] = Latest
      BY <1>0, <1>1, <3>2, <3>3, HeldFacts, TheQueues
    <3> QED
      BY <1>1, <3>1, <3>4 DEF lastPID
  <2> QED
    BY <1>0, <1>1, <1>2, <1>6, <2>2, <2>3, <2>4, <2>5 DEF ReportSound
<1> QED
  BY <1>0, <1>5, <1>6

LEMMA InitReport == Init => ReportInv
<1> SUFFICES ASSUME Init PROVE ReportInv
  OBVIOUS
<1>1. PlaceInv /\ WaitInv /\ PassFacts /\ CyclesInv /\ UseInv
  BY InitPlaceInv, InitWaitInv, InitCycles, InitUse
<1>2. NewSet = Procs
  BY DEF Init, NewSet, Procs
<1>3. EndedSet = {}
  BY <1>1, <1>2 DEF PlaceInv, ApartInv
<1>4. AliveInv
  BY <1>3 DEF Init, AliveInv, reportPhases
<1>5. LatestInv
  BY <1>2 DEF LatestInv
<1>6. TotalsInv
  <2>1. Reported = {}
    BY DEF Init, Reported, reportPhases
  <2> QED
    BY <2>1, SumEmpty DEF Init, TotalsInv
<1>7. ExitInv
  BY DEF Init, ExitInv
<1> QED
  BY <1>1, <1>4, <1>5, <1>6, <1>7 DEF ReportInv

LEMMA NextReport == ReportInv /\ [Next]_vars => ReportInv'
<1> SUFFICES ASSUME ReportInv, [Next]_vars PROVE ReportInv'
  OBVIOUS
<1>1. /\ PlaceInv /\ WaitInv /\ PassFacts /\ CyclesInv /\ UseInv
      /\ AliveInv /\ LatestInv /\ TotalsInv /\ ExitInv
  BY DEF ReportInv
<1>2. /\ PlaceInv' /\ WaitInv' /\ PassFacts' /\ CyclesInv' /\ UseInv'
      /\ AliveInv' /\ LatestInv' /\ TotalsInv' /\ ExitInv'
  BY <1>1, NextPlaceInv, NextPassFacts, NextCycles, NextUse, NextAlive, NextLatest,
     NextTotals, NextExit
<1> QED
  BY <1>2 DEF ReportInv

\* What the program prints is right: the sums are those of the data file, every
\* process has ended when its waiting, its bursts and its dispatches add up, the
\* processors are not used more than there are, and the pid printed is that of a
\* process that ended last.  Only the empty input makes the averages divide by zero.
THEOREM ReportCorrect == Spec => []ReportSound
<1> QED
  BY InitReport, NextReport, InvReport, PTL DEF Spec
=============================================================================
