----------------------------- MODULE DataLemmas -----------------------------
(***************************************************************************)
(* Lemmas about data that several proofs rest on: remainders, least and    *)
(* greatest elements of sets of numbers, minimal ones of finite sets, sums *)
(* of functions over finite sets, folds over sequences, the elements of    *)
(* queues, counts of places and of images, and the extremes that the scans *)
(* of A1 find.                                                             *)
(*                                                                         *)
(* The library's induction theorems take an operator and cannot be used;   *)
(* that a well-founded relation has minimal elements can be (WFMin), and   *)
(* an induction is written here as a smallest counterexample that cannot   *)
(* be one.                                                                 *)
(***************************************************************************)
EXTENDS Integers, Sequences, Functions, FiniteSetTheorems, WellFoundedInduction,
  TLAPS

(* Indices modulo the size of a buffer, steps modulo a quantum. *)

LEMMA ModRange ==
  ASSUME NEW B \in Nat \ {0}, NEW k \in Int
  PROVE  /\ k % B \in 0 .. B - 1
         /\ k \div B \in Int
         /\ k = B * (k \div B) + (k % B)
  BY SMT

LEMMA ModInjective ==
  ASSUME NEW B \in Nat \ {0}, NEW i \in Int, NEW j \in Int, i < j, j - i < B
  PROVE  i % B # j % B
<1> SUFFICES ASSUME i % B = j % B PROVE FALSE
  OBVIOUS
<1>1. i = B * (i \div B) + (i % B) /\ j = B * (j \div B) + (i % B)
  BY ModRange
<1>2. (j \div B) \in Int /\ (i \div B) \in Int
  BY ModRange
<1> DEFINE d == (j \div B) - (i \div B)
<1>3. j - i = B * d
  BY <1>1, <1>2, SMT
<1>4. d >= 1
  BY <1>3, <1>2, SMT
<1>5. B * d >= B
  BY <1>4, <1>2, SMT
<1> QED
  BY <1>3, <1>5, SMT

LEMMA ModUnique ==
  ASSUME NEW B \in Nat \ {0}, NEW q \in Int, NEW r \in 0 .. B - 1
  PROVE  (B * q + r) % B = r
<1> DEFINE k == B * q + r
           p == k \div B
           s == k % B
<1>1. k = B * p + s /\ p \in Int /\ s \in 0 .. B - 1
  <2>1. k \in Int
    BY SMT
  <2> HIDE DEF k
  <2> QED
    BY <2>1, ModRange
<1> HIDE DEF p, s
<1>2. B * (q - p) = s - r
  BY <1>1, SMT
<1>3. q = p
  <2>1. CASE q - p >= 1
    <3>1. B * (q - p) >= B
      BY <1>1, <2>1, SMT
    <3> QED
      BY <1>1, <1>2, <3>1, SMT
  <2>2. CASE q - p <= -1
    <3>1. B * (p - q) >= B
      BY <1>1, <2>2, SMT
    <3>2. B * (p - q) = r - s
      BY <1>1, <1>2, SMT
    <3> QED
      BY <1>1, <3>1, <3>2, SMT
  <2> QED
    BY <1>1, <2>1, <2>2, SMT
<1> QED
  BY <1>1, <1>2, <1>3, SMT DEF s

LEMMA ModSuccessor ==
  ASSUME NEW B \in Nat \ {0}, NEW k \in Int
  PROVE  ((k % B) + 1) % B = (k + 1) % B
<1> DEFINE q == k \div B
           r == k % B
<1>1. k = B * q + r /\ q \in Int /\ r \in 0 .. B - 1
  BY ModRange
<1> HIDE DEF q, r
<1>2. CASE r + 1 < B
  <2>1. (B * q + (r + 1)) % B = r + 1
    BY <1>1, <1>2, ModUnique
  <2>2. (B * 0 + (r + 1)) % B = r + 1
    BY <1>1, <1>2, ModUnique
  <2>3. B * q + (r + 1) = k + 1 /\ B * 0 + (r + 1) = r + 1
    BY <1>1, SMT
  <2> QED
    BY <2>1, <2>2, <2>3 DEF r
<1>3. CASE r + 1 = B
  <2>1. (B * (q + 1) + 0) % B = 0
    BY <1>1, ModUnique
  <2>2. (B * 1 + 0) % B = 0
    BY <1>1, ModUnique
  <2>3. B * (q + 1) + 0 = k + 1 /\ B * 1 + 0 = r + 1
    BY <1>1, <1>3, SMT
  <2> QED
    BY <2>1, <2>2, <2>3 DEF r
<1> QED
  BY <1>1, <1>2, <1>3

\* Another whole quantum leaves the remainder as it is.
LEMMA ModShift ==
  ASSUME NEW B \in Nat \ {0}, NEW k \in Int
  PROVE  (k + B) % B = k % B
<1>1. PICK q \in Int, r \in 0 .. B - 1 : k = B * q + r
  BY ModRange
<1>2. (B * q + r) % B = r
  BY ModUnique
<1>3. (B * (q + 1) + r) % B = r
  BY ModUnique
<1>4. B * (q + 1) + r = k + B
  BY <1>1, SMT
<1> QED
  BY <1>1, <1>2, <1>3, <1>4
-----------------------------------------------------------------------------
(* Least elements. *)

\* A nonempty set of natural numbers has a least element.
LEMMA LeastNatural ==
  ASSUME NEW S \in SUBSET Nat, S # {}
  PROVE  \E n \in S : \A m \in S : n <= m
<1> DEFINE R == OpToRel(<, Nat)
<1>1. IsWellFoundedOn(R, Nat)
  BY NatLessThanWellFounded DEF OpToRel
<1> HIDE DEF R
<1>2. PICK x \in S : \A y \in S : ~(<<y, x>> \in R)
  BY <1>1, WFMin
<1>3. \A y \in S : x <= y
  <2> SUFFICES ASSUME NEW y \in S, ~(x <= y) PROVE FALSE
    OBVIOUS
  <2>1. x \in Nat /\ y \in Nat /\ y < x
    OBVIOUS
  <2>2. <<y, x>> \in R
    BY <2>1 DEF R, OpToRel
  <2> QED
    BY <2>2, <1>2
<1> QED
  BY <1>3

\* A nonempty set of subsets of a finite set has one with no other below it.
LEMMA MinimalSubset ==
  ASSUME NEW S, IsFiniteSet(S), NEW B \in SUBSET (SUBSET S), B # {}
  PROVE  \E T \in B : \A U \in SUBSET T : U \in B => U = T
<1> DEFINE R == StrictSubsetOrdering(S)
<1>1. IsWellFoundedOn(R, SUBSET S)
  BY FS_StrictSubsetOrderingWellFounded, FS_FiniteSubsetsOfFinite
<1> HIDE DEF R
<1>2. PICK T \in B : \A U \in B : ~(<<U, T>> \in R)
  BY <1>1, WFMin
<1>3. ASSUME NEW U \in SUBSET T, U \in B, U # T PROVE FALSE
  <2>1. <<U, T>> \in R
    BY <1>3 DEF R, StrictSubsetOrdering
  <2> QED
    BY <1>2, <1>3, <2>1
<1> QED
  BY <1>3

\* The first n elements of a sequence are elements of its type.
LEMMA SequencePrefix ==
  ASSUME NEW T, NEW s \in Seq(T), NEW n \in Nat, n <= Len(s)
  PROVE  \A k \in 1 .. n : s[k] \in T
  OBVIOUS

-----------------------------------------------------------------------------
(* Sums.  SumFunctionOnSet adds the values up in the order of its CHOOSE;    *)
(* that the order does not matter is SumRemove.                              *)

Pick(s) == CHOOSE x \in s : TRUE

\* g is the recursive function by which the community modules define a sum.
IsSum(f, g, S) ==
  g = [s \in S |-> IF s = {} THEN 0 ELSE f[Pick(s)] + g[s \ {Pick(s)}]]

Small(S, n) == {s \in SUBSET S : Cardinality(s) <= n}

\* Picking takes one element from a finite set.
LEMMA PickFacts ==
  ASSUME NEW S, IsFiniteSet(S), NEW s \in SUBSET S, s # {}
  PROVE  /\ Pick(s) \in s /\ Pick(s) \in S
         /\ s \ {Pick(s)} \in SUBSET S /\ s \ {Pick(s)} # s
         /\ IsFiniteSet(s) /\ Cardinality(s) \in Nat /\ Cardinality(s) > 0
         /\ Cardinality(s \ {Pick(s)}) = Cardinality(s) - 1
<1>1. Pick(s) \in s
  BY DEF Pick
<1>2. IsFiniteSet(s)
  BY FS_Subset
<1>3. Cardinality(s) \in Nat /\ Cardinality(s \ {Pick(s)}) = Cardinality(s) - 1
  BY <1>1, <1>2, FS_RemoveElement, FS_CardinalityType
<1>4. Cardinality(s) # 0
  BY <1>2, FS_EmptySet
<1> QED
  BY <1>1, <1>2, <1>3, <1>4

\* The recursion has a solution.
LEMMA SumExists ==
  ASSUME NEW S, IsFiniteSet(S), NEW f
  PROVE  \E g : IsSum(f, g, SUBSET S)
<1> DEFINE Good(n) == \E g : IsSum(f, g, Small(S, n))
           Bad == {n \in Nat : ~Good(n)}
<1>1. Good(0)
  <2>1. Small(S, 0) = {{}}
    <3>1. {} \in Small(S, 0)
      BY FS_EmptySet DEF Small
    <3>2. ASSUME NEW s \in Small(S, 0) PROVE s = {}
      <4>1. Cardinality(s) <= 0 /\ IsFiniteSet(s)
        BY FS_Subset DEF Small
      <4> QED
        BY <4>1, FS_EmptySet, FS_CardinalityType
    <3> QED
      BY <3>1, <3>2
  <2>2. IsSum(f, [s \in {{}} |-> 0], {{}})
    BY DEF IsSum
  <2> QED
    BY <2>1, <2>2
<1>2. ASSUME NEW n \in Nat, Good(n) PROVE Good(n + 1)
  <2>1. PICK g : IsSum(f, g, Small(S, n))
    BY <1>2
  <2> DEFINE h == [s \in Small(S, n + 1) |->
                     IF s = {} THEN 0 ELSE f[Pick(s)] + g[s \ {Pick(s)}]]
  <2>2. ASSUME NEW s \in Small(S, n) PROVE h[s] = g[s]
    <3>1. s \in Small(S, n + 1)
      <4>1. IsFiniteSet(s) /\ s \in SUBSET S /\ Cardinality(s) <= n
        BY FS_Subset DEF Small
      <4>2. Cardinality(s) \in Nat
        BY <4>1, FS_CardinalityType
      <4> QED
        BY <4>1, <4>2 DEF Small
    <3>2. g[s] = IF s = {} THEN 0 ELSE f[Pick(s)] + g[s \ {Pick(s)}]
      BY <2>1 DEF IsSum
    <3> QED
      BY <3>1, <3>2
  <2>3. ASSUME NEW s \in Small(S, n + 1), s # {}
        PROVE  s \ {Pick(s)} \in Small(S, n)
    <3>1. s \in SUBSET S /\ Cardinality(s) <= n + 1
      BY DEF Small
    <3> QED
      BY <2>3, <3>1, PickFacts DEF Small
  <2> HIDE DEF h
  <2>4. h = [s \in Small(S, n + 1) |->
               IF s = {} THEN 0 ELSE f[Pick(s)] + h[s \ {Pick(s)}]]
    BY <2>2, <2>3 DEF h
  <2> QED
    BY <2>4 DEF IsSum
<1>3. Bad = {}
  <2> SUFFICES ASSUME Bad # {} PROVE FALSE
    OBVIOUS
  <2>1. PICK n \in Bad : \A m \in Bad : n <= m
    BY LeastNatural
  <2>2. n # 0
    BY <1>1
  <2>3. n - 1 \in Nat /\ n - 1 \notin Bad
    BY <2>1, <2>2
  <2>4. Good(n - 1)
    BY <2>3
  <2>5. Good((n - 1) + 1)
    BY <1>2, <2>3, <2>4
  <2>6. (n - 1) + 1 = n
    BY <2>1
  <2> QED
    BY <2>1, <2>5, <2>6
<1>4. Cardinality(S) \in Nat
  BY FS_CardinalityType
<1>5. Good(Cardinality(S))
  BY <1>3, <1>4
<1>6. Small(S, Cardinality(S)) = SUBSET S
  BY FS_Subset DEF Small
<1> QED
  BY <1>5, <1>6

\* ... and a sum is its value.
LEMMA SumIsSum ==
  ASSUME NEW S, IsFiniteSet(S), NEW f
  PROVE  \E g : IsSum(f, g, SUBSET S) /\ SumFunctionOnSet(f, S) = g[S]
<1> DEFINE it == CHOOSE g : IsSum(f, g, SUBSET S)
<1>1. IsSum(f, it, SUBSET S)
  BY SumExists
<1>2. SumFunctionOnSet(f, S) = it[S]
  BY Zenon DEF SumFunctionOnSet, FoldFunctionOnSet, MapThenFoldSet, IsSum, Pick
<1> QED
  BY <1>1, <1>2

\* Two solutions agree where their functions do.
LEMMA SumAgree ==
  ASSUME NEW S, IsFiniteSet(S), NEW R, NEW T \in SUBSET S, T \subseteq R,
         NEW f, NEW e, \A x \in T : f[x] = e[x],
         NEW g, NEW h, IsSum(f, g, SUBSET S), IsSum(e, h, SUBSET R)
  PROVE  g[T] = h[T]
<1> DEFINE B == {U \in SUBSET T : g[U] # h[U]}
<1> SUFFICES ASSUME B # {} PROVE FALSE
  OBVIOUS
<1>0. IsFiniteSet(T) /\ B \in SUBSET (SUBSET T)
  BY FS_Subset
<1> HIDE DEF B
<1>1. PICK U \in B : \A V \in SUBSET U : V \in B => V = U
  BY <1>0, MinimalSubset
<1>a. U \in SUBSET S /\ U \in SUBSET R /\ U \in SUBSET T /\ g[U] # h[U]
  BY <1>1 DEF B
<1>b. g[U] = IF U = {} THEN 0 ELSE f[Pick(U)] + g[U \ {Pick(U)}]
  BY <1>a DEF IsSum
<1>c. h[U] = IF U = {} THEN 0 ELSE e[Pick(U)] + h[U \ {Pick(U)}]
  BY <1>a DEF IsSum
<1>3. U # {}
  BY <1>a, <1>b, <1>c
<1>4. Pick(U) \in U /\ f[Pick(U)] = e[Pick(U)]
  BY <1>a, <1>3 DEF Pick
<1>5. g[U \ {Pick(U)}] = h[U \ {Pick(U)}]
  <2>1. U \ {Pick(U)} \in SUBSET U /\ U \ {Pick(U)} # U
    BY <1>4
  <2>2. U \ {Pick(U)} \notin B
    BY <1>1, <2>1
  <2> QED
    BY <1>a, <2>1, <2>2 DEF B
<1> QED
  BY <1>a, <1>b, <1>c, <1>3, <1>4, <1>5

\* Nothing adds up to 0.
LEMMA SumEmpty == \A f : SumFunctionOnSet(f, {}) = 0
<1> SUFFICES ASSUME NEW f PROVE SumFunctionOnSet(f, {}) = 0
  OBVIOUS
<1>1. PICK g : IsSum(f, g, SUBSET {}) /\ SumFunctionOnSet(f, {}) = g[{}]
  BY SumIsSum, FS_EmptySet
<1> QED
  BY <1>1 DEF IsSum

\* A sum begins with the element CHOOSE picks.
LEMMA SumPick ==
  ASSUME NEW S, IsFiniteSet(S), S # {}, NEW f
  PROVE  /\ Pick(S) \in S
         /\ SumFunctionOnSet(f, S) =
              f[Pick(S)] + SumFunctionOnSet(f, S \ {Pick(S)})
<1> DEFINE x == Pick(S)
           T == S \ {x}
<1>1. PICK g : IsSum(f, g, SUBSET S) /\ SumFunctionOnSet(f, S) = g[S]
  BY SumIsSum
<1>0. x \in S
  BY DEF Pick
<1>2. IsFiniteSet(T) /\ T \in SUBSET S /\ T \subseteq T /\ T \in SUBSET T
  BY FS_Subset
<1>3. PICK h : IsSum(f, h, SUBSET T) /\ SumFunctionOnSet(f, T) = h[T]
  <2> HIDE DEF T
  <2> QED
    BY <1>2, SumIsSum
<1>5. g[S] = f[x] + g[T]
  BY <1>1 DEF IsSum
<1>4. g[T] = h[T]
  <2>1. IsSum(f, g, SUBSET S) /\ IsSum(f, h, SUBSET T)
    BY <1>1, <1>3
  <2>2. \A y \in T : f[y] = f[y]
    OBVIOUS
  <2> HIDE DEF T, x
  <2> QED
    BY <1>2, <2>1, <2>2, SumAgree
<1>6. SumFunctionOnSet(f, S) = f[x] + SumFunctionOnSet(f, T)
  BY <1>1, <1>3, <1>4, <1>5
<1> QED
  BY <1>0, <1>6

\* A sum of integers is an integer.
LEMMA SumType ==
  ASSUME NEW S, IsFiniteSet(S), NEW f, \A x \in S : f[x] \in Int
  PROVE  SumFunctionOnSet(f, S) \in Int
<1> DEFINE B == {T \in SUBSET S : SumFunctionOnSet(f, T) \notin Int}
<1> SUFFICES ASSUME B # {} PROVE FALSE
  OBVIOUS
<1>0. B \in SUBSET (SUBSET S)
  OBVIOUS
<1> HIDE DEF B
<1>1. PICK T \in B : \A U \in SUBSET T : U \in B => U = T
  BY <1>0, MinimalSubset
<1>2. T \in SUBSET S /\ SumFunctionOnSet(f, T) \notin Int
  BY <1>1 DEF B
<1>3. T # {} /\ IsFiniteSet(T)
  <2>1. 0 \in Int /\ SumFunctionOnSet(f, {}) = 0
    BY SumEmpty
  <2>2. T # {}
    BY <1>2, <2>1
  <2> QED
    BY <1>2, <2>2, FS_Subset
<1> DEFINE x == Pick(T)
<1>4. x \in T /\ SumFunctionOnSet(f, T) = f[x] + SumFunctionOnSet(f, T \ {x})
  BY <1>3, SumPick
<1> HIDE DEF x
<1>5. SumFunctionOnSet(f, T \ {x}) \in Int
  <2>1. T \ {x} \in SUBSET T /\ T \ {x} # T
    BY <1>4
  <2>2. T \ {x} \notin B
    BY <1>1, <2>1
  <2> QED
    BY <1>2, <2>1, <2>2 DEF B
<1> QED
  BY <1>2, <1>4, <1>5

\* A sum may be taken apart at any element.
LEMMA SumRemove ==
  ASSUME NEW S, IsFiniteSet(S), NEW f, \A y \in S : f[y] \in Int, NEW x \in S
  PROVE  SumFunctionOnSet(f, S) = f[x] + SumFunctionOnSet(f, S \ {x})
<1> DEFINE Sum(T) == SumFunctionOnSet(f, T)
           B == {T \in SUBSET S : \E z \in T : Sum(T) # f[z] + Sum(T \ {z})}
<1> SUFFICES ASSUME B # {} PROVE FALSE
  OBVIOUS
<1>0. B \in SUBSET (SUBSET S)
  OBVIOUS
<1> HIDE DEF B
<1>1. PICK T \in B : \A U \in SUBSET T : U \in B => U = T
  BY <1>0, MinimalSubset
<1>2. PICK z \in T : Sum(T) # f[z] + Sum(T \ {z})
  BY <1>1 DEF B
<1>3. T \in SUBSET S /\ IsFiniteSet(T) /\ T # {}
  BY <1>0, <1>1, <1>2, FS_Subset
<1> DEFINE c == Pick(T)
<1>4. c \in T /\ Sum(T) = f[c] + Sum(T \ {c})
  BY <1>3, SumPick
<1> HIDE DEF c, Sum
<1>5. c # z
  BY <1>2, <1>4
<1>6. ASSUME NEW a \in T, NEW b \in T, a # b
      PROVE  Sum(T \ {a}) = f[b] + Sum((T \ {a}) \ {b})
  <2>1. T \ {a} \in SUBSET T /\ T \ {a} # T /\ b \in T \ {a} /\ T \ {a} \in SUBSET S
    BY <1>3, <1>6
  <2>2. T \ {a} \notin B
    BY <1>1, <2>1
  <2> QED
    BY <2>1, <2>2 DEF B
<1>7. Sum(T \ {c}) = f[z] + Sum((T \ {c}) \ {z})
  BY <1>4, <1>5, <1>6
<1>8. Sum(T \ {z}) = f[c] + Sum((T \ {z}) \ {c})
  BY <1>4, <1>5, <1>6
<1>9. (T \ {c}) \ {z} = (T \ {z}) \ {c}
  OBVIOUS
<1>10. Sum((T \ {z}) \ {c}) \in Int
  <2>1. IsFiniteSet((T \ {z}) \ {c}) /\ \A y \in (T \ {z}) \ {c} : f[y] \in Int
    BY <1>3, FS_Subset
  <2> QED
    BY <2>1, SumType DEF Sum
<1>11. f[z] \in Int /\ f[c] \in Int
  BY <1>2, <1>3, <1>4
<1> DEFINE m == Sum((T \ {z}) \ {c})
<1>12. Sum(T) = f[c] + (f[z] + m) /\ Sum(T \ {z}) = f[c] + m
  BY <1>4, <1>7, <1>8, <1>9
<1> HIDE DEF m
<1>13. m \in Int
  BY <1>10 DEF m
<1> QED
  BY <1>2, <1>11, <1>12, <1>13

\* Functions that agree on a set have the same sum over it.
LEMMA SumSame ==
  ASSUME NEW S, IsFiniteSet(S), NEW f, NEW e, \A x \in S : f[x] = e[x]
  PROVE  SumFunctionOnSet(f, S) = SumFunctionOnSet(e, S)
<1>1. PICK g : IsSum(f, g, SUBSET S) /\ SumFunctionOnSet(f, S) = g[S]
  BY SumIsSum
<1>2. PICK h : IsSum(e, h, SUBSET S) /\ SumFunctionOnSet(e, S) = h[S]
  BY SumIsSum
<1>3. S \in SUBSET S /\ S \subseteq S
  OBVIOUS
<1>4. g[S] = h[S]
  BY <1>1, <1>2, <1>3, SumAgree
<1> QED
  BY <1>1, <1>2, <1>4

\* One value changed changes the sum by as much.
LEMMA SumChange ==
  ASSUME NEW S, IsFiniteSet(S), NEW f, NEW e, NEW x \in S,
         \A y \in S : f[y] \in Int, e[x] \in Int,
         \A y \in S : y # x => e[y] = f[y]
  PROVE  SumFunctionOnSet(e, S) = SumFunctionOnSet(f, S) + (e[x] - f[x])
<1>1. \A y \in S : e[y] \in Int
  OBVIOUS
<1> DEFINE a == SumFunctionOnSet(f, S \ {x})
           b == SumFunctionOnSet(e, S \ {x})
<1>2. SumFunctionOnSet(f, S) = f[x] + a
  BY SumRemove
<1>3. SumFunctionOnSet(e, S) = e[x] + b
  BY <1>1, SumRemove
<1>4. IsFiniteSet(S \ {x}) /\ \A y \in S \ {x} : f[y] = e[y] /\ f[y] \in Int
  BY FS_Subset
<1>5. a = b
  BY <1>4, SumSame
<1>6. a \in Int
  BY <1>4, SumType
<1> HIDE DEF a, b
<1> QED
  BY <1>2, <1>3, <1>5, <1>6

\* The sum of a sum is the sum of the sums.
LEMMA SumAdd ==
  ASSUME NEW S, IsFiniteSet(S), NEW f, NEW e, NEW d,
         \A x \in S : f[x] \in Int /\ e[x] \in Int /\ d[x] = f[x] + e[x]
  PROVE  SumFunctionOnSet(d, S) = SumFunctionOnSet(f, S) + SumFunctionOnSet(e, S)
<1> DEFINE F(T) == SumFunctionOnSet(f, T)
           E(T) == SumFunctionOnSet(e, T)
           D(T) == SumFunctionOnSet(d, T)
           B == {T \in SUBSET S : D(T) # F(T) + E(T)}
<1> SUFFICES ASSUME B # {} PROVE FALSE
  OBVIOUS
<1>0. B \in SUBSET (SUBSET S)
  OBVIOUS
<1> HIDE DEF B
<1>1. PICK T \in B : \A U \in SUBSET T : U \in B => U = T
  BY <1>0, MinimalSubset
<1>2. T \in SUBSET S /\ D(T) # F(T) + E(T)
  BY <1>1 DEF B
<1>3. IsFiniteSet(T) /\ T # {}
  <2>1. D({}) = 0 /\ F({}) = 0 /\ E({}) = 0
    BY SumEmpty
  <2>2. T # {}
    BY <1>2, <2>1
  <2> QED
    BY <1>2, <2>2, FS_Subset
<1> DEFINE c == Pick(T)
<1>4. /\ c \in T /\ F(T) = f[c] + F(T \ {c}) /\ E(T) = e[c] + E(T \ {c})
      /\ D(T) = d[c] + D(T \ {c})
  BY <1>3, SumPick
<1> HIDE DEF c
<1>5. T \ {c} \in SUBSET S /\ T \ {c} # T /\ T \ {c} \in SUBSET T /\ IsFiniteSet(T \ {c})
  BY <1>2, <1>3, <1>4, FS_Subset
<1>6. D(T \ {c}) = F(T \ {c}) + E(T \ {c})
  <2>1. T \ {c} \notin B
    BY <1>1, <1>5
  <2> QED
    BY <1>5, <2>1 DEF B
<1>7. F(T \ {c}) \in Int /\ E(T \ {c}) \in Int
  BY <1>5, SumType
<1>8. f[c] \in Int /\ e[c] \in Int /\ d[c] = f[c] + e[c]
  BY <1>2, <1>4
<1> HIDE DEF D, E, F
<1> QED
  BY <1>2, <1>4, <1>6, <1>7, <1>8

\* One more for each element of a subset is its number of elements.
LEMMA SumIndicator ==
  ASSUME NEW S, IsFiniteSet(S), NEW C \in SUBSET S, NEW f,
         \A x \in S : f[x] = IF x \in C THEN 1 ELSE 0
  PROVE  SumFunctionOnSet(f, S) = Cardinality(C)
<1> DEFINE F(T) == SumFunctionOnSet(f, T)
           B == {T \in SUBSET S : F(T) # Cardinality(T \cap C)}
<1> SUFFICES ASSUME B # {} PROVE FALSE
  <2>1. S \in SUBSET S /\ S \cap C = C
    OBVIOUS
  <2> QED
    BY <2>1
<1>0. B \in SUBSET (SUBSET S)
  OBVIOUS
<1> HIDE DEF B
<1>1. PICK T \in B : \A U \in SUBSET T : U \in B => U = T
  BY <1>0, MinimalSubset
<1>2. T \in SUBSET S /\ F(T) # Cardinality(T \cap C)
  BY <1>1 DEF B
<1>3. IsFiniteSet(T) /\ T # {}
  <2>1. T # {}
    <3> SUFFICES ASSUME T = {} PROVE FALSE
      OBVIOUS
    <3>1. T \cap C = {}
      OBVIOUS
    <3> QED
      BY <1>2, <3>1, SumEmpty, FS_EmptySet
  <2> QED
    BY <1>2, <2>1, FS_Subset
<1> DEFINE c == Pick(T)
<1>4. c \in T /\ F(T) = f[c] + F(T \ {c})
  BY <1>3, SumPick
<1> HIDE DEF c
<1>5. T \ {c} \in SUBSET S /\ T \ {c} # T /\ T \ {c} \in SUBSET T
  BY <1>2, <1>4
<1>6. F(T \ {c}) = Cardinality((T \ {c}) \cap C)
  <2>1. T \ {c} \notin B
    BY <1>1, <1>5
  <2> QED
    BY <1>5, <2>1 DEF B
<1>7. IsFiniteSet(T \cap C) /\ Cardinality(T \cap C) \in Nat
  BY <1>3, FS_Subset, FS_CardinalityType
<1> HIDE DEF F
<1>8. CASE c \in C
  <2>1. (T \ {c}) \cap C = (T \cap C) \ {c} /\ c \in T \cap C
    BY <1>4, <1>8
  <2>2. Cardinality((T \cap C) \ {c}) = Cardinality(T \cap C) - 1
    BY <1>7, <2>1, FS_RemoveElement
  <2>3. f[c] = 1
    BY <1>2, <1>4, <1>8
  <2> QED
    BY <1>2, <1>4, <1>6, <1>7, <2>1, <2>2, <2>3
<1>9. CASE c \notin C
  <2>1. (T \ {c}) \cap C = T \cap C
    BY <1>4, <1>9
  <2>2. f[c] = 0
    BY <1>2, <1>4, <1>9
  <2> QED
    BY <1>2, <1>4, <1>6, <1>7, <2>1, <2>2
<1> QED
  BY <1>8, <1>9

\* Zeros add up to 0.
LEMMA SumZero ==
  ASSUME NEW S, IsFiniteSet(S), NEW f, \A x \in S : f[x] = 0
  PROVE  SumFunctionOnSet(f, S) = 0
<1>1. SumFunctionOnSet(f, S) = Cardinality({})
  <2>1. {} \in SUBSET S /\ \A x \in S : f[x] = IF x \in {} THEN 1 ELSE 0
    OBVIOUS
  <2> QED
    BY <2>1, SumIndicator
<1> QED
  BY <1>1, FS_EmptySet

\* A sum with one element more.
LEMMA SumInsert ==
  ASSUME NEW S, IsFiniteSet(S), NEW f, NEW x, x \notin S,
         \A y \in S : f[y] \in Int, f[x] \in Int
  PROVE  SumFunctionOnSet(f, S \cup {x}) = SumFunctionOnSet(f, S) + f[x]
<1> DEFINE T == S \cup {x}
<1>1. IsFiniteSet(T) /\ x \in T /\ T \ {x} = S /\ \A y \in T : f[y] \in Int
  BY FS_AddElement
<1> HIDE DEF T
<1>2. SumFunctionOnSet(f, T) = f[x] + SumFunctionOnSet(f, T \ {x})
  BY <1>1, SumRemove
<1>3. SumFunctionOnSet(f, S) \in Int
  BY SumType
<1>4. SumFunctionOnSet(f, T) = f[x] + SumFunctionOnSet(f, S)
  BY <1>1, <1>2
<1>5. SumFunctionOnSet(f, T) = SumFunctionOnSet(f, S) + f[x]
  <2> DEFINE m == SumFunctionOnSet(f, S)
  <2>1. m \in Int /\ SumFunctionOnSet(f, T) = f[x] + m
    BY <1>3, <1>4
  <2> HIDE DEF m
  <2>2. SumFunctionOnSet(f, T) = m + f[x]
    BY <2>1
  <2> QED
    BY <2>2 DEF m
<1> QED
  BY <1>5 DEF T

\* A sum of natural numbers is one.
LEMMA SumNat ==
  ASSUME NEW S, IsFiniteSet(S), NEW f, \A x \in S : f[x] \in Nat
  PROVE  SumFunctionOnSet(f, S) \in Nat
<1> DEFINE B == {T \in SUBSET S : SumFunctionOnSet(f, T) \notin Nat}
<1> SUFFICES ASSUME B # {} PROVE FALSE
  OBVIOUS
<1>0. B \in SUBSET (SUBSET S)
  OBVIOUS
<1> HIDE DEF B
<1>1. PICK T \in B : \A U \in SUBSET T : U \in B => U = T
  BY <1>0, MinimalSubset
<1>2. T \in SUBSET S /\ SumFunctionOnSet(f, T) \notin Nat
  BY <1>1 DEF B
<1>3. T # {} /\ IsFiniteSet(T)
  <2>1. 0 \in Nat /\ SumFunctionOnSet(f, {}) = 0
    BY SumEmpty
  <2>2. T # {}
    BY <1>2, <2>1
  <2> QED
    BY <1>2, <2>2, FS_Subset
<1> DEFINE x == Pick(T)
<1>4. x \in T /\ SumFunctionOnSet(f, T) = f[x] + SumFunctionOnSet(f, T \ {x})
  BY <1>3, SumPick
<1> HIDE DEF x
<1>5. SumFunctionOnSet(f, T \ {x}) \in Nat
  <2>1. T \ {x} \in SUBSET T /\ T \ {x} # T
    BY <1>4
  <2>2. T \ {x} \notin B
    BY <1>1, <2>1
  <2> QED
    BY <1>2, <2>1, <2>2 DEF B
<1> QED
  BY <1>2, <1>4, <1>5

\* The sum grows by one for each element whose value does.
LEMMA SumBump ==
  ASSUME NEW S, IsFiniteSet(S), NEW C \in SUBSET S, NEW f, NEW e,
         \A x \in S : f[x] \in Int,
         \A x \in S : e[x] = IF x \in C THEN f[x] + 1 ELSE f[x]
  PROVE  SumFunctionOnSet(e, S) = SumFunctionOnSet(f, S) + Cardinality(C)
<1> DEFINE d == [x \in S |-> IF x \in C THEN 1 ELSE 0]
<1>1. \A x \in S : d[x] = IF x \in C THEN 1 ELSE 0
  OBVIOUS
<1> HIDE DEF d
<1>2. SumFunctionOnSet(d, S) = Cardinality(C)
  BY <1>1, SumIndicator
<1>3. \A x \in S : f[x] \in Int /\ d[x] \in Int /\ e[x] = f[x] + d[x]
  BY <1>1
<1>4. SumFunctionOnSet(e, S) = SumFunctionOnSet(f, S) + SumFunctionOnSet(d, S)
  BY <1>3, SumAdd
<1> QED
  BY <1>2, <1>4

\* Adding up one value more of a sequence.
LEMMA SumPrefix ==
  ASSUME NEW f, NEW n \in Nat, \A k \in 1 .. n + 1 : f[k] \in Int
  PROVE  /\ IsFiniteSet(1 .. n)
         /\ SumFunctionOnSet(f, 1 .. n + 1) = SumFunctionOnSet(f, 1 .. n) + f[n + 1]
<1>1. IsFiniteSet(1 .. n)
  BY FS_Interval
<1>2. /\ 1 .. n + 1 = (1 .. n) \cup {n + 1} /\ n + 1 \notin 1 .. n
      /\ \A k \in 1 .. n : f[k] \in Int
      /\ f[n + 1] \in Int
  OBVIOUS
<1> DEFINE m == 1 .. n
           x == n + 1
<1>3. SumFunctionOnSet(f, m \cup {x}) = SumFunctionOnSet(f, m) + f[x]
  <2>1. IsFiniteSet(m) /\ x \notin m /\ (\A k \in m : f[k] \in Int) /\ f[x] \in Int
    BY <1>1, <1>2
  <2> HIDE DEF m, x
  <2> QED
    BY <2>1, SumInsert
<1>4. SumFunctionOnSet(f, 1 .. n + 1) = SumFunctionOnSet(f, 1 .. n) + f[n + 1]
  BY <1>2, <1>3, Zenon DEF m, x
<1> QED
  BY <1>1, <1>4

LEMMA SumPrefixNat ==
  ASSUME NEW f, NEW n \in Nat, \A k \in 1 .. n : f[k] \in Nat
  PROVE  SumFunctionOnSet(f, 1 .. n) \in Nat
<1>1. IsFiniteSet(1 .. n)
  BY FS_Interval
<1> DEFINE S == 1 .. n
<1>2. \A x \in S : f[x] \in Nat
  OBVIOUS
<1> HIDE DEF S
<1>3. IsFiniteSet(S)
  BY <1>1 DEF S
<1>4. SumFunctionOnSet(f, S) \in Nat
  BY <1>2, <1>3, SumNat
<1> QED
  BY <1>4 DEF S

\* The values at odd places only, as the CPU bursts are.
OddUpTo(n) == {k \in 1 .. n : k % 2 = 1}

LEMMA SumOdd ==
  ASSUME NEW f, NEW n \in Nat, \A k \in 1 .. n : f[k] \in Nat
  PROVE  IsFiniteSet(OddUpTo(n)) /\ SumFunctionOnSet(f, OddUpTo(n)) \in Nat
<1>1. IsFiniteSet(1 .. n)
  BY FS_Interval
<1>2. OddUpTo(n) \subseteq 1 .. n
  BY DEF OddUpTo
<1>3. IsFiniteSet(OddUpTo(n)) /\ \A k \in OddUpTo(n) : f[k] \in Nat
  BY <1>1, <1>2, FS_Subset
<1> QED
  BY <1>3, SumNat

LEMMA CardOdd ==
  ASSUME NEW n \in Nat
  PROVE  /\ Cardinality(OddUpTo(n)) \in Nat
         /\ Cardinality(OddUpTo(n + 1))
              = Cardinality(OddUpTo(n)) + (IF n % 2 = 0 THEN 1 ELSE 0)
<1>1. IsFiniteSet(OddUpTo(n))
  <2>1. IsFiniteSet(1 .. n)
    BY FS_Interval
  <2>2. OddUpTo(n) \subseteq 1 .. n
    BY DEF OddUpTo
  <2> QED
    BY <2>1, <2>2, FS_Subset
<1>2. CASE n % 2 = 0
  <2>1. (n + 1) % 2 = 1
    BY <1>2, SMT
  <2>2. OddUpTo(n + 1) = OddUpTo(n) \cup {n + 1} /\ n + 1 \notin OddUpTo(n)
    BY <2>1 DEF OddUpTo
  <2> QED
    BY <1>1, <1>2, <2>2, FS_AddElement, FS_CardinalityType
<1>3. CASE n % 2 # 0
  <2>1. (n + 1) % 2 # 1
    BY <1>3, SMT
  <2>2. OddUpTo(n + 1) = OddUpTo(n)
    BY <2>1 DEF OddUpTo
  <2> QED
    BY <1>1, <1>3, <2>2, FS_CardinalityType
<1> QED
  BY <1>2, <1>3

LEMMA SumOddNext ==
  ASSUME NEW f, NEW n \in Nat, \A k \in 1 .. n + 1 : f[k] \in Nat
  PROVE  SumFunctionOnSet(f, OddUpTo(n + 1))
           = SumFunctionOnSet(f, OddUpTo(n)) + (IF n % 2 = 0 THEN f[n + 1] ELSE 0)
<1>1. /\ IsFiniteSet(OddUpTo(n)) /\ SumFunctionOnSet(f, OddUpTo(n)) \in Nat
      /\ OddUpTo(n) \subseteq 1 .. n + 1
  <2>1. 1 .. n \subseteq 1 .. n + 1
    OBVIOUS
  <2> QED
    BY <2>1, SumOdd DEF OddUpTo
<1>2. CASE n % 2 = 0
  <2>1. (n + 1) % 2 = 1
    BY <1>2, SMT
  <2>2. OddUpTo(n + 1) = OddUpTo(n) \cup {n + 1} /\ n + 1 \notin OddUpTo(n)
    BY <2>1 DEF OddUpTo
  <2> DEFINE S == OddUpTo(n)
             x == n + 1
  <2>3. /\ IsFiniteSet(S) /\ x \notin S /\ f[x] \in Int
        /\ \A k \in S : f[k] \in Int
    BY <1>1, <2>2
  <2> HIDE DEF S, x
  <2>4. SumFunctionOnSet(f, S \cup {x}) = SumFunctionOnSet(f, S) + f[x]
    BY <2>3, SumInsert
  <2> QED
    BY <1>2, <2>2, <2>4 DEF S, x
<1>3. CASE n % 2 # 0
  <2>1. (n + 1) % 2 # 1
    BY <1>3, SMT
  <2>2. OddUpTo(n + 1) = OddUpTo(n)
    BY <2>1 DEF OddUpTo
  <2> QED
    BY <1>1, <1>3, <2>2
<1> QED
  BY <1>2, <1>3
-----------------------------------------------------------------------------
(* Greatest elements. *)

\* A nonempty set of numbers up to n has a greatest element.
LEMMA GreatestNatural ==
  ASSUME NEW n \in Nat, NEW S \in SUBSET (1 .. n), S # {}
  PROVE  \E x \in S : \A y \in S : y <= x
<1> DEFINE T == {n - x : x \in S}
<1>1. T \in SUBSET Nat /\ T # {}
  OBVIOUS
<1>2. PICK m \in T : \A k \in T : m <= k
  <2> HIDE DEF T
  <2> QED
    BY <1>1, LeastNatural
<1>3. PICK x \in S : m = n - x
  BY <1>2
<1>4. ASSUME NEW y \in S PROVE y <= x
  <2>1. n - x <= n - y
    BY <1>2, <1>3
  <2>2. x \in Nat /\ y \in Nat
    OBVIOUS
  <2> QED
    BY <2>1, <2>2
<1> QED
  BY <1>4

\* Induction up to n: what is in a set at 0 and, if it is at k, at k + 1.
LEMMA InductionUpTo ==
  ASSUME NEW n \in Nat, NEW Good, 0 \in Good,
         \A k \in Nat : k < n /\ k \in Good => k + 1 \in Good
  PROVE  \A k \in 0 .. n : k \in Good
<1> DEFINE Bad == {k \in 0 .. n : k \notin Good}
<1>1. Bad = {}
  <2> SUFFICES ASSUME Bad # {} PROVE FALSE
    OBVIOUS
  <2>1. PICK k \in Bad : \A m \in Bad : k <= m
    <3>1. Bad \in SUBSET Nat
      OBVIOUS
    <3> QED
      BY <3>1, LeastNatural
  <2>2. k # 0 /\ k \in Nat /\ k <= n /\ k \notin Good
    BY <2>1
  <2>3. k - 1 \in Nat /\ k - 1 < n /\ k - 1 \in Good
    BY <2>1, <2>2
  <2>4. (k - 1) + 1 = k
    BY <2>2
  <2> QED
    BY <2>2, <2>3, <2>4
<1> QED
  BY <1>1

Least(x, S)    == x \in S /\ \A y \in S : x <= y
Greatest(x, S) == x \in S /\ \A y \in S : x >= y
MinOf(S) == CHOOSE m \in S : \A y \in S : m <= y
MaxOf(S) == CHOOSE m \in S : \A y \in S : m >= y

\* A minimum is the least element if there is one.
LEMMA MinIsLeast ==
  ASSUME NEW S \in SUBSET Int, NEW x, Least(x, S)
  PROVE  MinOf(S) = x
<1>1. ASSUME NEW m \in S, \A y \in S : m <= y PROVE m = x
  BY <1>1 DEF Least
<1>2. x \in S /\ \A y \in S : x <= y
  BY DEF Least
<1> QED
  BY <1>1, <1>2 DEF MinOf

\* And a maximum the greatest.
LEMMA MaxIsGreatest ==
  ASSUME NEW S \in SUBSET Int, NEW x, Greatest(x, S)
  PROVE  MaxOf(S) = x
<1>1. ASSUME NEW m \in S, \A y \in S : m >= y PROVE m = x
  BY <1>1 DEF Greatest
<1>2. x \in S /\ \A y \in S : x >= y
  BY DEF Greatest
<1> QED
  BY <1>1, <1>2 DEF MaxOf

\* The first of some places.
LEMMA FirstPlace ==
  ASSUME NEW n \in Nat, NEW I \in SUBSET (1 .. n), I # {}
  PROVE  MinOf(I) \in I /\ \A m \in I : MinOf(I) <= m
<1>1. PICK x \in I : \A m \in I : x <= m
  <2>1. I \in SUBSET Nat
    OBVIOUS
  <2> QED
    BY <2>1, LeastNatural
<1>2. MinOf(I) = x
  <2>1. I \in SUBSET Int
    OBVIOUS
  <2> QED
    BY <1>1, <2>1, MinIsLeast DEF Least
<1> QED
  BY <1>1, <1>2

\* The last of them.
LEMMA MaxOfPlaces ==
  ASSUME NEW n \in Nat, NEW S \in SUBSET (1 .. n), S # {}
  PROVE  MaxOf(S) \in S
<1>1. PICK x \in S : \A y \in S : y <= x
  BY GreatestNatural
<1>2. S \in SUBSET Int /\ Greatest(x, S)
  BY <1>1 DEF Greatest
<1> QED
  BY <1>2, MaxIsGreatest

\* The places up to k + 1 are those up to k and k + 1.
LEMMA LastPlace ==
  ASSUME NEW n \in Nat, NEW k \in Nat, k < n
  PROVE  /\ 1 .. k + 1 \in SUBSET (1 .. n) /\ 1 .. k + 1 # {}
         /\ MaxOf(1 .. k + 1) = k + 1 /\ (1 .. k + 1) \ {k + 1} = 1 .. k
<1>1. k + 1 \in 1 .. k + 1 /\ \A x \in 1 .. k + 1 : x \in 1 .. n
  OBVIOUS
<1>2. 1 .. k + 1 \in SUBSET Int /\ Greatest(k + 1, 1 .. k + 1)
  BY DEF Greatest
<1>3. (1 .. k + 1) \ {k + 1} = 1 .. k
  OBVIOUS
<1> QED
  BY <1>1, <1>2, <1>3, MaxIsGreatest
-----------------------------------------------------------------------------
(* Folds.  The community modules fold a sequence by a recursion on the sets  *)
(* of its places.                                                            *)

\* g is that recursive function, for values in D.
IsFold(D, g, base, step, n) ==
  /\ g \in [SUBSET (1 .. n) -> D]
  /\ g = [S \in SUBSET (1 .. n) |->
            IF S = {} THEN base ELSE step[g[S \ {MaxOf(S)}]][MaxOf(S)]]

\* The recursion has a solution.
LEMMA FoldExists ==
  ASSUME NEW D, NEW base \in D, NEW n \in Nat, NEW step \in [D -> [1 .. n -> D]]
  PROVE  \E g : IsFold(D, g, base, step, n)
<1> DEFINE Good == {k \in 0 .. n : \E g : IsFold(D, g, base, step, k)}
<1>1. 0 \in Good
  <2>1. SUBSET (1 .. 0) = {{}}
    OBVIOUS
  <2>2. IsFold(D, [S \in {{}} |-> base], base, step, 0)
    BY <2>1 DEF IsFold
  <2> QED
    BY <2>2
<1>2. ASSUME NEW k \in Nat, k < n, k \in Good PROVE k + 1 \in Good
  <2>1. PICK g : IsFold(D, g, base, step, k)
    BY <1>2
  <2>2. g \in [SUBSET (1 .. k) -> D]
    BY <2>1 DEF IsFold
  <2> DEFINE h == [S \in SUBSET (1 .. k + 1) |->
                     IF k + 1 \in S THEN step[g[S \ {k + 1}]][k + 1] ELSE g[S]]
  <2>3. ASSUME NEW S \in SUBSET (1 .. k + 1)
        PROVE  /\ h[S] = IF S = {} THEN base ELSE step[h[S \ {MaxOf(S)}]][MaxOf(S)]
               /\ h[S] \in D
    <3>1. CASE k + 1 \in S
      <4>1. MaxOf(S) = k + 1
        <5>1. S \in SUBSET Int /\ Greatest(k + 1, S)
          BY <3>1 DEF Greatest
        <5> QED
          BY <5>1, MaxIsGreatest
      <4>2. /\ S \ {k + 1} \in SUBSET (1 .. k + 1) /\ k + 1 \notin S \ {k + 1}
            /\ S \ {k + 1} \in SUBSET (1 .. k)
        OBVIOUS
      <4>3. h[S] = step[g[S \ {k + 1}]][k + 1] /\ h[S \ {k + 1}] = g[S \ {k + 1}]
        BY <3>1, <4>2
      <4>4. g[S \ {k + 1}] \in D /\ k + 1 \in 1 .. n
        BY <1>2, <2>2, <4>2
      <4>5. step[g[S \ {k + 1}]][k + 1] \in D
        BY <4>4
      <4> QED
        BY <3>1, <4>1, <4>3, <4>5
    <3>2. CASE k + 1 \notin S
      <4>1. S \in SUBSET (1 .. k)
        <5>1. \A x \in 1 .. k + 1 : x # k + 1 => x \in 1 .. k
          OBVIOUS
        <5> HIDE DEF h, Good
        <5> QED
          BY <3>2, <5>1
      <4>2. g[S] = IF S = {} THEN base ELSE step[g[S \ {MaxOf(S)}]][MaxOf(S)]
        BY <2>1, <4>1 DEF IsFold
      <4>3. /\ S \ {MaxOf(S)} \in SUBSET (1 .. k + 1) /\ k + 1 \notin S \ {MaxOf(S)}
            /\ h[S] = g[S]
        BY <3>2
      <4>4. h[S \ {MaxOf(S)}] = g[S \ {MaxOf(S)}]
        BY <4>3
      <4>5. h[S] \in D
        BY <2>2, <4>1, <4>3
      <4> QED
        BY <4>2, <4>3, <4>4, <4>5
    <3> QED
      BY <3>1, <3>2
  <2>4. h = [S \in SUBSET (1 .. k + 1) |-> h[S]]
    OBVIOUS
  <2> HIDE DEF h
  <2>5. IsFold(D, h, base, step, k + 1)
    BY <2>3, <2>4 DEF IsFold
  <2> QED
    BY <1>2, <2>5
<1> HIDE DEF Good
<1>3. n \in Good
  <2>1. n \in 0 .. n
    OBVIOUS
  <2>2. \A k \in Nat : k < n /\ k \in Good => k + 1 \in Good
    BY <1>2
  <2>3. \A k \in 0 .. n : k \in Good
    BY <1>1, <2>2, InductionUpTo, Zenon
  <2> QED
    BY <2>1, <2>3
<1> QED
  BY <1>3 DEF Good
-----------------------------------------------------------------------------
(* Queues: what enqueueing and dequeueing do to the set of the elements. *)

\* An element more at the back.
LEMMA AppendRange ==
  ASSUME NEW S, NEW q \in Seq(S), NEW p \in S
  PROVE  /\ Append(q, p) \in Seq(S)
         /\ Range(Append(q, p)) = Range(q) \cup {p}
         /\ IsInjective(q) /\ p \notin Range(q) => IsInjective(Append(q, p))
<1>1. /\ Append(q, p) \in Seq(S)
      /\ DOMAIN Append(q, p) = 1 .. Len(q) + 1 /\ DOMAIN q = 1 .. Len(q)
      /\ Len(q) \in Nat
      /\ \A k \in 1 .. Len(q) : Append(q, p)[k] = q[k]
      /\ Append(q, p)[Len(q) + 1] = p
  OBVIOUS
<1>2. 1 .. Len(q) + 1 = (1 .. Len(q)) \cup {Len(q) + 1}
  BY <1>1
<1>3. Range(Append(q, p)) = Range(q) \cup {p}
  BY <1>1, <1>2 DEF Range
<1>4. ASSUME IsInjective(q), p \notin Range(q) PROVE IsInjective(Append(q, p))
  BY <1>1, <1>2, <1>4 DEF Range, IsInjective
<1> QED
  BY <1>1, <1>3, <1>4

\* An element less at the front.
LEMMA TailRange ==
  ASSUME NEW S, NEW q \in Seq(S), q # <<>>
  PROVE  /\ Head(q) \in S /\ Head(q) \in Range(q) /\ Tail(q) \in Seq(S)
         /\ Len(Tail(q)) = Len(q) - 1 /\ Len(q) > 0
         /\ Range(q) = Range(Tail(q)) \cup {Head(q)}
         /\ IsInjective(q) => IsInjective(Tail(q)) /\ Head(q) \notin Range(Tail(q))
<1>1. /\ Head(q) = q[1] /\ Head(q) \in S /\ Tail(q) \in Seq(S)
      /\ Len(q) \in Nat /\ Len(q) > 0 /\ Len(Tail(q)) = Len(q) - 1
      /\ DOMAIN q = 1 .. Len(q) /\ DOMAIN Tail(q) = 1 .. Len(q) - 1
      /\ \A k \in 1 .. Len(q) - 1 : Tail(q)[k] = q[k + 1]
  OBVIOUS
<1>2. \A k \in 1 .. Len(q) : k = 1 \/ (k - 1 \in 1 .. Len(q) - 1 /\ Tail(q)[k - 1] = q[k])
  BY <1>1
<1>3. Range(q) = Range(Tail(q)) \cup {Head(q)}
  <2>1. ASSUME NEW k \in 1 .. Len(q) PROVE q[k] \in Range(Tail(q)) \cup {Head(q)}
    <3>1. CASE k = 1
      BY <1>1, <3>1
    <3>2. CASE k - 1 \in 1 .. Len(q) - 1 /\ Tail(q)[k - 1] = q[k]
      BY <1>1, <3>2 DEF Range
    <3> QED
      BY <1>2, <3>1, <3>2
  <2>2. Range(Tail(q)) \cup {Head(q)} \subseteq Range(q)
    BY <1>1 DEF Range
  <2> QED
    BY <1>1, <2>1, <2>2 DEF Range
<1>4. ASSUME IsInjective(q)
      PROVE  IsInjective(Tail(q)) /\ Head(q) \notin Range(Tail(q))
  <2>1. \A a, b \in 1 .. Len(q) : q[a] = q[b] => a = b
    BY <1>1, <1>4 DEF IsInjective
  <2>2. IsInjective(Tail(q))
    BY <1>1, <2>1 DEF IsInjective
  <2>3. Head(q) \notin Range(Tail(q))
    BY <1>1, <2>1 DEF Range
  <2> QED
    BY <2>2, <2>3
<1> QED
  BY <1>1, <1>3, <1>4

\* A queue of nothing.
LEMMA RangeEmpty == Range(<<>>) = {} /\ IsInjective(<<>>)
  BY DEF Range, IsInjective

\* Only an empty queue has no elements.
LEMMA RangeSubset ==
  ASSUME NEW S, NEW q \in Seq(S)
  PROVE  Range(q) \subseteq S /\ (Range(q) = {} <=> q = <<>>)
<1>1. /\ DOMAIN q = 1 .. Len(q) /\ Len(q) \in Nat
      /\ \A k \in 1 .. Len(q) : q[k] \in S
      /\ Len(q) = 0 <=> q = <<>>
  OBVIOUS
<1>2. Range(q) = {} => Len(q) = 0
  <2>1. Len(q) > 0 => q[1] \in Range(q)
    BY <1>1 DEF Range
  <2> QED
    BY <1>1, <2>1
<1> QED
  BY <1>1, <1>2, RangeEmpty DEF Range

\* The first n elements.
Leading(q, n) == {q[k] : k \in 1 .. n}

\* A pass over a queue takes them from the front, and puts them at the back or not.
LEMMA LeadingTail ==
  ASSUME NEW S, NEW q \in Seq(S), IsInjective(q), NEW n \in 1 .. Len(q)
  PROVE  /\ q # <<>> /\ Head(q) \in Leading(q, n)
         /\ Leading(Tail(q), n - 1) = Leading(q, n) \ {Head(q)}
<1>1. /\ Len(q) \in Nat /\ n \in Nat /\ n >= 1 /\ n <= Len(q)
      /\ \A a, b \in 1 .. Len(q) : q[a] = q[b] => a = b
  BY DEF IsInjective
<1>2. /\ q # <<>> /\ Head(q) = q[1]
      /\ \A k \in 1 .. Len(q) - 1 : Tail(q)[k] = q[k + 1]
  BY <1>1
<1>3. Head(q) \in Leading(q, n)
  BY <1>1, <1>2 DEF Leading
<1>4. ASSUME NEW x \in Leading(Tail(q), n - 1) PROVE x \in Leading(q, n) \ {Head(q)}
  <2>1. PICK k \in 1 .. n - 1 : x = Tail(q)[k]
    BY DEF Leading
  <2>2. k + 1 \in 1 .. n /\ k + 1 \in 1 .. Len(q) /\ 1 \in 1 .. Len(q) /\ x = q[k + 1]
    BY <1>1, <1>2, <2>1
  <2>3. x # Head(q)
    BY <1>1, <1>2, <2>1, <2>2
  <2> QED
    BY <2>2, <2>3 DEF Leading
<1>5. ASSUME NEW x \in Leading(q, n), x # Head(q) PROVE x \in Leading(Tail(q), n - 1)
  <2>1. PICK k \in 1 .. n : x = q[k]
    BY DEF Leading
  <2>2. k # 1
    BY <1>2, <1>5, <2>1
  <2>3. k - 1 \in 1 .. n - 1 /\ k - 1 \in 1 .. Len(q) - 1 /\ (k - 1) + 1 = k
    BY <1>1, <2>1, <2>2
  <2>4. x = Tail(q)[k - 1]
    BY <1>2, <2>1, <2>3
  <2> QED
    BY <2>3, <2>4 DEF Leading
<1> QED
  BY <1>2, <1>3, <1>4, <1>5

LEMMA LeadingAppend ==
  ASSUME NEW S, NEW q \in Seq(S), NEW p \in S, NEW n \in Int, n <= Len(q)
  PROVE  Leading(Append(q, p), n) = Leading(q, n)
<1>1. \A k \in 1 .. n : Append(q, p)[k] = q[k]
  OBVIOUS
<1> QED
  BY <1>1 DEF Leading

LEMMA LeadingAll ==
  ASSUME NEW S, NEW q \in Seq(S)
  PROVE  /\ Leading(q, Len(q)) = Range(q) /\ Leading(q, 0) = {}
         /\ \A n \in 0 .. Len(q) : Leading(q, n) \subseteq Range(q)
<1>1. DOMAIN q = 1 .. Len(q) /\ Len(q) \in Nat
  OBVIOUS
<1>2. \A n \in 0 .. Len(q) : 1 .. n \subseteq 1 .. Len(q)
  BY <1>1
<1> QED
  BY <1>1, <1>2 DEF Leading, Range
-----------------------------------------------------------------------------
(* How many there are. *)

\* The first n numbers.
LEMMA IntervalCount ==
  ASSUME NEW n \in Nat
  PROVE  IsFiniteSet(1 .. n) /\ Cardinality(1 .. n) = n
<1>1. /\ IsFiniteSet(1 .. n)
      /\ Cardinality(1 .. n) = IF 1 > n THEN 0 ELSE n - 1 + 1
  BY FS_Interval
<1> QED
  BY <1>1

\* A queue in which nothing is twice has as many elements as it is long.
LEMMA InjectiveCount ==
  ASSUME NEW S, NEW q \in Seq(S), IsInjective(q)
  PROVE  IsFiniteSet(Range(q)) /\ Cardinality(Range(q)) = Len(q)
<1>1. q \in Bijection(1 .. Len(q), Range(q))
  <2>1. q \in Surjection(1 .. Len(q), Range(q))
    BY DEF Surjection, Range
  <2>2. q \in Injection(1 .. Len(q), Range(q))
    BY <2>1 DEF IsInjective, Injection, Surjection
  <2> QED
    BY <2>1, <2>2 DEF Bijection
<1>2. IsFiniteSet(1 .. Len(q)) /\ Cardinality(1 .. Len(q)) = Len(q)
  BY IntervalCount
<1> QED
  BY <1>1, <1>2, FS_Bijection DEF ExistsBijection

\* A set that gains at most one element.
LEMMA OneMore ==
  ASSUME NEW S, IsFiniteSet(S), NEW x, NEW T \in SUBSET (S \cup {x})
  PROVE  Cardinality(T) \in Nat /\ Cardinality(T) <= Cardinality(S) + 1
<1>1. /\ IsFiniteSet(S \cup {x}) /\ Cardinality(S) \in Nat
      /\ Cardinality(S \cup {x}) =
           (IF x \in S THEN Cardinality(S) ELSE Cardinality(S) + 1)
  BY FS_AddElement, FS_CardinalityType
<1>2. Cardinality(T) \in Nat /\ Cardinality(T) <= Cardinality(S \cup {x})
  BY <1>1, FS_Subset, FS_CardinalityType
<1> QED
  BY <1>1, <1>2
-----------------------------------------------------------------------------
(* Extremes, as a loop finds them that tests a number that is no new maximum *)
(* for a new minimum.                                                        *)

IsRecord(s, k) == s[k] > 0 /\ \A j \in 1 .. k - 1 : s[j] < s[k]

\* Of the first n numbers, those that are not a record and those that are positive.
Rest(s, n)  == {s[k] : k \in {k \in 1 .. n : ~IsRecord(s, k)}}
Above(s, n) == {v \in {s[k] : k \in 1 .. n} : v > 0}

\* The loop starts with a minimum and a maximum that every number of V passes, if
\* it is positive.
Limits(start, V) ==
  /\ V \subseteq Int
  /\ start = [min |-> start.min, max |-> start.max]
  /\ start.min \in Int /\ start.max \in Int /\ 0 < start.max /\ start.max < start.min
  /\ \A v \in V : v < start.min /\ (v > 0 => v > start.max)

IsExtremes(start, e, lows, highs) ==
  /\ e = [min |-> e.min, max |-> e.max]
  /\ Least(e.min, {start.min} \cup lows) /\ Greatest(e.max, {start.max} \cup highs)

\* What the extremes become with a number that is a new maximum, one that is a new
\* minimum, and one that is neither.
LEMMA TurnCases ==
  ASSUME NEW V, NEW start, Limits(start, V),
         NEW lows \in SUBSET Int, NEW highs \in SUBSET Int, NEW v \in V,
         NEW e, IsExtremes(start, e, lows, highs),
         NEW f, f = IF v > e.max THEN [e EXCEPT !.max = v]
                    ELSE IF v < e.min THEN [e EXCEPT !.min = v] ELSE e
  PROVE  IsExtremes(start, f, lows \cup (IF v > e.max THEN {} ELSE {v}),
                    highs \cup (IF v > 0 THEN {v} ELSE {}))
<1>1. PICK lo, hi : /\ lo = start.min /\ hi = start.max /\ lo \in Int /\ hi \in Int /\ hi > 0
                    /\ v \in Int /\ v < lo /\ (v > 0 => v > hi)
  BY DEF Limits
<1>2. PICK a, b : /\ a = e.min /\ b = e.max /\ e = [min |-> a, max |-> b]
                  /\ Least(a, {lo} \cup lows) /\ Greatest(b, {hi} \cup highs)
  BY <1>1 DEF IsExtremes
<1>3. a \in Int /\ b \in Int /\ b >= hi
  BY <1>1, <1>2 DEF Least, Greatest
<1>4. CASE v > b
  <2>1. f = [min |-> a, max |-> v] /\ v > 0
    BY <1>1, <1>2, <1>3, <1>4
  <2>2. Greatest(v, {hi} \cup (highs \cup {v}))
    BY <1>1, <1>2, <1>3, <1>4 DEF Greatest
  <2> QED
    BY <1>1, <1>2, <1>4, <2>1, <2>2 DEF IsExtremes
<1>5. CASE ~(v > b)
  <2>1. Greatest(b, {hi} \cup (highs \cup (IF v > 0 THEN {v} ELSE {})))
    BY <1>1, <1>2, <1>3, <1>5 DEF Greatest
  <2>2. CASE v < a
    <3>1. f = [min |-> v, max |-> b]
      BY <1>2, <1>5, <2>2
    <3>2. Least(v, {lo} \cup (lows \cup {v}))
      BY <1>1, <1>2, <1>3, <2>2 DEF Least
    <3> QED
      BY <1>1, <1>2, <1>5, <2>1, <3>1, <3>2 DEF IsExtremes
  <2>3. CASE ~(v < a)
    <3>1. f = [min |-> a, max |-> b]
      BY <1>2, <1>5, <2>3
    <3>2. Least(a, {lo} \cup (lows \cup {v}))
      BY <1>1, <1>2, <1>3, <2>3 DEF Least
    <3> QED
      BY <1>1, <1>2, <1>5, <2>1, <3>1, <3>2 DEF IsExtremes
  <2> QED
    BY <2>2, <2>3
<1> QED
  BY <1>4, <1>5, <1>2

\* A new maximum is a record.
LEMMA TurnAt ==
  ASSUME NEW V, NEW start, Limits(start, V),
         NEW s \in Seq(V), NEW n \in Nat, n < Len(s),
         NEW e, IsExtremes(start, e, Rest(s, n), Above(s, n)),
         NEW f, f = IF s[n + 1] > e.max THEN [e EXCEPT !.max = s[n + 1]]
                    ELSE IF s[n + 1] < e.min THEN [e EXCEPT !.min = s[n + 1]] ELSE e
  PROVE  IsExtremes(start, f, Rest(s, n + 1), Above(s, n + 1))
<1>1. PICK v \in V : v = s[n + 1]
  OBVIOUS
<1>2. PICK hi : /\ hi = start.max /\ hi \in Int /\ hi > 0 /\ v \in Int /\ (v > 0 => v > hi)
                /\ \A k \in 1 .. n + 1 : s[k] \in Int
  <2>1. \A k \in 1 .. n + 1 : s[k] \in V
    OBVIOUS
  <2> QED
    BY <2>1 DEF Limits
<1>3. Rest(s, n) \subseteq Int /\ Above(s, n) \subseteq Int
  BY <1>2 DEF Rest, Above
<1>4. /\ e.max \in Int /\ e.max >= hi /\ \A y \in Above(s, n) : e.max >= y
      /\ e.max \in {hi} \cup Above(s, n)
  BY <1>2, <1>3 DEF IsExtremes, Greatest
<1>5. IsRecord(s, n + 1) <=> v > e.max
  <2>1. ASSUME v > e.max PROVE IsRecord(s, n + 1)
    <3>1. \A j \in 1 .. n : s[j] > 0 => s[j] \in Above(s, n)
      BY DEF Above
    <3>2. PICK m : m = e.max
      OBVIOUS
    <3>3. m \in Int /\ m >= hi /\ v > m /\ v > 0
      BY <1>2, <1>4, <2>1, <3>2
    <3>4. ASSUME NEW j \in 1 .. n PROVE s[j] < v
      <4>1. s[j] \in Int /\ (s[j] > 0 => m >= s[j])
        BY <1>2, <1>4, <3>1, <3>2
      <4> QED
        BY <1>2, <3>3, <4>1
    <3>5. (n + 1) - 1 = n
      OBVIOUS
    <3> QED
      BY <1>1, <3>3, <3>4, <3>5 DEF IsRecord
  <2>2. ASSUME IsRecord(s, n + 1) PROVE v > e.max
    <3>1. \A y \in Above(s, n) : y < v
      BY <1>1, <2>2 DEF IsRecord, Above
    <3> QED
      BY <1>1, <1>2, <1>4, <2>2, <3>1 DEF IsRecord
  <2> QED
    BY <2>1, <2>2
<1>6. 1 .. n + 1 = (1 .. n) \cup {n + 1}
  OBVIOUS
<1>7. Above(s, n + 1) = Above(s, n) \cup (IF v > 0 THEN {v} ELSE {})
  BY <1>1, <1>6 DEF Above
<1>8. Rest(s, n + 1) = Rest(s, n) \cup (IF v > e.max THEN {} ELSE {v})
  BY <1>1, <1>5, <1>6 DEF Rest
<1>9. f = IF v > e.max THEN [e EXCEPT !.max = v]
          ELSE IF v < e.min THEN [e EXCEPT !.min = v] ELSE e
  BY <1>1
<1>10. IsExtremes(start, f, Rest(s, n) \cup (IF v > e.max THEN {} ELSE {v}),
                  Above(s, n) \cup (IF v > 0 THEN {v} ELSE {}))
  BY <1>3, <1>9, TurnCases
<1> QED
  BY <1>7, <1>8, <1>10

\* Of no numbers.
LEMMA StartIsExtremes ==
  ASSUME NEW V, NEW start, Limits(start, V)
  PROVE  \A s : IsExtremes(start, start, Rest(s, 0), Above(s, 0))
<1>1. 1 .. 0 = {}
  OBVIOUS
<1>2. \A s : Rest(s, 0) = {} /\ Above(s, 0) = {}
  BY <1>1 DEF Rest, Above
<1> QED
  BY <1>2 DEF Limits, IsExtremes, Least, Greatest

\* After n numbers the loop has the extremes of the first n; g is the fold.
LEMMA LoopIsExtremes ==
  ASSUME NEW V, NEW start, Limits(start, V), NEW s \in Seq(V), NEW g, g[1 .. 0] = start,
         \A k \in Nat : k < Len(s) =>
           g[1 .. k + 1] = LET e == g[1 .. k]  v == s[k + 1] IN
                           IF v > e.max THEN [e EXCEPT !.max = v]
                           ELSE IF v < e.min THEN [e EXCEPT !.min = v] ELSE e
  PROVE  IsExtremes(start, g[1 .. Len(s)], Rest(s, Len(s)), Above(s, Len(s)))
<1> DEFINE n == Len(s)
           Good == {k \in 0 .. n : IsExtremes(start, g[1 .. k], Rest(s, k), Above(s, k))}
<1>0. n \in Nat
  OBVIOUS
<1>1. 0 \in Good
  BY <1>0, StartIsExtremes
<1>2. ASSUME NEW k \in Nat, k < n, k \in Good PROVE k + 1 \in Good
  <2>1. IsExtremes(start, g[1 .. k], Rest(s, k), Above(s, k))
    BY <1>2
  <2>2. IsExtremes(start, g[1 .. k + 1], Rest(s, k + 1), Above(s, k + 1))
    BY <1>2, <2>1, TurnAt
  <2> QED
    BY <1>0, <1>2, <2>2
<1> HIDE DEF Good, n
<1>3. \A k \in 0 .. n : k \in Good
  BY <1>0, <1>1, <1>2, InductionUpTo, Zenon
<1> QED
  BY <1>0, <1>3 DEF Good, n

\* Extremes are numbers or the limits.
LEMMA ExtremesType ==
  ASSUME NEW V, NEW start, Limits(start, V),
         NEW R \in SUBSET V, NEW P \in SUBSET V, NEW e, IsExtremes(start, e, R, P)
  PROVE  /\ e.min \in Int /\ e.min <= start.min /\ (e.min # start.min => e.min \in V)
         /\ e.max \in Int /\ e.max >= start.max /\ (e.max # start.max => e.max \in V)
         /\ e.min = start.min <=> R = {}
<1>1. /\ Least(e.min, {start.min} \cup R) /\ Greatest(e.max, {start.max} \cup P)
      /\ \A v \in V : v \in Int /\ v < start.min
      /\ start.min \in Int /\ start.max \in Int
  BY DEF IsExtremes, Limits
<1>2. ASSUME R # {} PROVE e.min # start.min
  <2>1. PICK v \in R : TRUE
    BY <1>2
  <2> QED
    BY <1>1, <2>1 DEF Least
<1> QED
  BY <1>1, <1>2 DEF Least, Greatest

\* The extremes e, with at least one number for a minimum, arrive as they were, but that a
\* maximum that was never found may arrive as 0; others arrive as what changes nothing.
Arrives(start, e, low, high) ==
  IF e.min = start.min
    THEN low \in Int /\ low >= start.min /\ high = 0
    ELSE low = e.min /\ (high = e.max \/ (high = 0 /\ e.max = start.max))

\* What arrives is folded into the extremes of more numbers.
LEMMA FoldInExtremes ==
  ASSUME NEW V, NEW start, Limits(start, V),
         NEW lows \in SUBSET V, NEW highs \in SUBSET V,
         NEW all, IsExtremes(start, all, lows, highs),
         NEW R \in SUBSET V, NEW P \in SUBSET V, NEW e, IsExtremes(start, e, R, P),
         NEW low, NEW high, Arrives(start, e, low, high),
         NEW all2, all2 = [min |-> IF low < all.min THEN low ELSE all.min,
                           max |-> IF high > all.max THEN high ELSE all.max]
  PROVE  IsExtremes(start, all2, lows \cup R, highs \cup (IF R = {} THEN {} ELSE P))
<1>1. PICK lo, hi :
        /\ lo = start.min /\ hi = start.max
        /\ lo \in Int /\ hi \in Int /\ hi > 0 /\ hi < lo
        /\ \A v \in V : v \in Int /\ v < lo
  BY DEF Limits
<1>2. PICK x, y : /\ all = [min |-> x, max |-> y] /\ x = all.min /\ y = all.max
                  /\ Least(x, {lo} \cup lows) /\ Greatest(y, {hi} \cup highs)
  BY <1>1 DEF IsExtremes
<1>3. x \in Int /\ y \in Int /\ x <= lo /\ y >= hi
  BY <1>1, <1>2 DEF Least, Greatest
<1>4. /\ all2 = [min |-> IF low < x THEN low ELSE x, max |-> IF high > y THEN high ELSE y]
      /\ all2.min = (IF low < x THEN low ELSE x) /\ all2.max = (IF high > y THEN high ELSE y)
  BY <1>2
<1>5. CASE R = {}
  <2>1. e.min = start.min
    BY <1>5, ExtremesType
  <2>2. low \in Int /\ low >= lo /\ high = 0
    BY <1>1, <2>1 DEF Arrives
  <2>3. all2 = all
    BY <1>1, <1>2, <1>3, <1>4, <2>2
  <2> QED
    BY <1>5, <2>3
<1>6. CASE R # {}
  <2>1. e.min # start.min /\ e.min \in V
    BY <1>6, ExtremesType
  <2>2. low = e.min /\ low \in V /\ (high = e.max \/ (high = 0 /\ e.max = hi))
    BY <1>1, <2>1 DEF Arrives
  <2>3. Least(e.min, {lo} \cup R) /\ Greatest(e.max, {hi} \cup P)
    BY <1>1 DEF IsExtremes
  <2>4. Least(IF low < x THEN low ELSE x, {lo} \cup (lows \cup R))
    <3>1. /\ low \in {lo} \cup R /\ \A z \in {lo} \cup R : low <= z
          /\ x \in {lo} \cup lows /\ \A z \in {lo} \cup lows : x <= z
      BY <1>2, <2>2, <2>3 DEF Least
    <3>2. low \in Int
      BY <1>1, <2>2
    <3> QED
      BY <1>1, <1>3, <3>1, <3>2 DEF Least
  <2>5. Greatest(IF high > y THEN high ELSE y, {hi} \cup (highs \cup P))
    <3>1. /\ e.max \in {hi} \cup P /\ \A z \in {hi} \cup P : e.max >= z
          /\ y \in {hi} \cup highs /\ \A z \in {hi} \cup highs : y >= z
      BY <1>2, <2>3 DEF Greatest
    <3>2. e.max \in Int
      BY <1>1, <3>1
    <3> QED
      BY <1>1, <1>3, <2>2, <3>1, <3>2 DEF Greatest
  <2>6. IsExtremes(start, all2, lows \cup R, highs \cup P)
    BY <1>1, <1>4, <2>4, <2>5 DEF IsExtremes
  <2> QED
    BY <1>6, <2>6
<1> QED
  BY <1>5, <1>6

(* Several files.  numbers is a function from the files to their numbers; a file *)
(* without a number for a minimum counts for nothing.                            *)

Lows(numbers, f) == Rest(numbers[f], Len(numbers[f]))

Highs(numbers, f) ==
  IF Lows(numbers, f) = {} THEN {} ELSE Above(numbers[f], Len(numbers[f]))

\* e are the extremes of the files of F.
ExtremesOf(start, e, numbers, F) ==
  IsExtremes(start, e, UNION {Lows(numbers, f) : f \in F},
             UNION {Highs(numbers, f) : f \in F})

\* No file has no extremes.
LEMMA NoExtremes ==
  ASSUME NEW V, NEW start, Limits(start, V)
  PROVE  \A numbers : ExtremesOf(start, start, numbers, {})
  BY DEF ExtremesOf, IsExtremes, Limits, Least, Greatest

\* A file that holds nothing adds nothing.
LEMMA EmptyFile ==
  ASSUME NEW numbers, NEW F, NEW f, numbers[f] = <<>>, NEW start,
         NEW all, ExtremesOf(start, all, numbers, F)
  PROVE  ExtremesOf(start, all, numbers, F \cup {f})
<1>1. Lows(numbers, f) = {} /\ Highs(numbers, f) = {}
  <2>1. Len(<<>>) = 0 /\ 1 .. 0 = {}
    OBVIOUS
  <2> QED
    BY <2>1 DEF Lows, Highs, Rest
<1>2. /\ UNION {Lows(numbers, g) : g \in F \cup {f}} = UNION {Lows(numbers, g) : g \in F}
      /\ UNION {Highs(numbers, g) : g \in F \cup {f}} = UNION {Highs(numbers, g) : g \in F}
  BY <1>1
<1> QED
  BY <1>2 DEF ExtremesOf

\* One more file is folded into the result.
LEMMA OneMoreFile ==
  ASSUME NEW V, NEW start, Limits(start, V),
         NEW numbers, NEW F, NEW f, \A g \in F \cup {f} : numbers[g] \in Seq(V),
         NEW all, ExtremesOf(start, all, numbers, F),
         NEW e, IsExtremes(start, e, Lows(numbers, f), Above(numbers[f], Len(numbers[f]))),
         NEW low, NEW high, Arrives(start, e, low, high),
         NEW all2, all2 = [min |-> IF low < all.min THEN low ELSE all.min,
                           max |-> IF high > all.max THEN high ELSE all.max]
  PROVE  ExtremesOf(start, all2, numbers, F \cup {f})
<1> DEFINE L(G) == UNION {Lows(numbers, g) : g \in G}
           H(G) == UNION {Highs(numbers, g) : g \in G}
           A(g) == Above(numbers[g], Len(numbers[g]))
<1>1. ASSUME NEW g \in F \cup {f}
      PROVE  Lows(numbers, g) \subseteq V /\ A(g) \subseteq V
  BY <1>1 DEF Lows, Above, Rest
<1>2. L(F) \subseteq V /\ H(F) \subseteq V
  BY <1>1 DEF Highs
<1>3. /\ L(F \cup {f}) = L(F) \cup Lows(numbers, f)
      /\ H(F \cup {f}) = H(F) \cup Highs(numbers, f)
  OBVIOUS
<1>4. Highs(numbers, f) = IF Lows(numbers, f) = {} THEN {} ELSE A(f)
  BY DEF Highs
<1> HIDE DEF L, H, A
<1>5. IsExtremes(start, all, L(F), H(F))
  BY DEF ExtremesOf, L, H
<1>6. IsExtremes(start, all2, L(F) \cup Lows(numbers, f), H(F) \cup Highs(numbers, f))
  <2>1. IsExtremes(start, e, Lows(numbers, f), A(f))
    BY DEF A
  <2>2. Lows(numbers, f) \subseteq V /\ A(f) \subseteq V
    BY <1>1
  <2> QED
    BY <1>2, <1>4, <1>5, <2>1, <2>2, FoldInExtremes
<1> QED
  BY <1>3, <1>6 DEF ExtremesOf, L, H

\* The numbers of the files that count, and the limit.
WithLows(numbers, F) == {f \in F : Lows(numbers, f) # {}}
AllLows(start, numbers, F) ==
  {start.min} \cup UNION {Lows(numbers, f) : f \in WithLows(numbers, F)}
AllHighs(start, numbers, F) ==
  {start.max} \cup UNION {Above(numbers[f], Len(numbers[f])) : f \in WithLows(numbers, F)}

\* The extremes are the minimum and the maximum of the numbers of the files that count.
LEMMA ExtremesAre ==
  ASSUME NEW V, NEW start, Limits(start, V),
         NEW numbers, NEW F, \A f \in F : numbers[f] \in Seq(V),
         NEW e, ExtremesOf(start, e, numbers, F)
  PROVE  e = [min |-> MinOf(AllLows(start, numbers, F)),
              max |-> MaxOf(AllHighs(start, numbers, F))]
<1> DEFINE L == AllLows(start, numbers, F)
           H == AllHighs(start, numbers, F)
<1>1. L = {start.min} \cup UNION {Lows(numbers, f) : f \in F}
  BY DEF AllLows, WithLows
<1>2. H = {start.max} \cup UNION {Highs(numbers, f) : f \in F}
  BY DEF AllHighs, WithLows, Highs
<1>3. L \in SUBSET Int /\ H \in SUBSET Int
  <2>1. ASSUME NEW f \in F
        PROVE  Lows(numbers, f) \subseteq V /\ Highs(numbers, f) \subseteq V
    BY <2>1 DEF Lows, Rest, Above, Highs
  <2>2. V \subseteq Int /\ start.min \in Int /\ start.max \in Int
    BY DEF Limits
  <2> HIDE DEF L, H
  <2> QED
    BY <1>1, <1>2, <2>1, <2>2
<1> HIDE DEF L, H
<1>4. e = [min |-> e.min, max |-> e.max] /\ Least(e.min, L) /\ Greatest(e.max, H)
  BY <1>1, <1>2 DEF ExtremesOf, IsExtremes
<1>5. MinOf(L) = e.min /\ MaxOf(H) = e.max
  BY <1>3, <1>4, MinIsLeast, MaxIsGreatest
<1>6. e = [min |-> MinOf(L), max |-> MaxOf(H)]
  BY <1>4, <1>5
<1> QED
  BY <1>6 DEF L, H

\* Half of the sum and of the difference of a sum and a difference.
LEMMA Halves ==
  ASSUME NEW a \in Int, NEW b \in Int
  PROVE  /\ ((a + b) + (a - b)) \div 2 = a /\ ((a + b) - (a - b)) \div 2 = b
         /\ (a + a) \div 2 = a /\ (a - a) \div 2 = 0
  OBVIOUS
=============================================================================
