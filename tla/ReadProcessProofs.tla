-------------------------- MODULE ReadProcessProofs --------------------------
(***************************************************************************)
(* Proofs about the parser of P__2/sch-helpers.c, for data files of any    *)
(* content and an int of any width.                                        *)
(***************************************************************************)
EXTENDS ReadProcessProperties, DataLemmas

(* Digits. *)

LEMMA DigitFacts ==
  ASSUME NEW c
  PROVE  /\ DigitValue(c) \in Int /\ (IsDigit(c) => DigitValue(c) \in 0 .. 9)
         /\ IsDigit(c) => ~isspace(c) /\ c \notin {"(", ")", "x"}
<1> DEFINE I == {k \in 1 .. Len(digits) : digits[k] = c}
           first == SelectInSeq(digits, LAMBDA d : d = c)
<1>1. Len(digits) = 10 /\ DOMAIN digits = 1 .. 10 /\ Len(digits) \in Nat
  BY DEF digits
<1>2. first = IF I # {} THEN MinOf(I) ELSE 0
  BY DEF SelectInSeq, Min, MinOf
<1>3. I \in SUBSET (1 .. 10)
  BY <1>1
<1>4. IsDigit(c) => I # {}
  BY <1>1 DEF IsDigit, Range
<1> HIDE DEF I, first
<1>5. first \in 0 .. 10 /\ (I # {} => first \in 1 .. 10)
  <2>1. I # {} => MinOf(I) \in I
    BY <1>3, FirstPlace
  <2>2. \A i \in I : i \in 1 .. 10
    BY <1>3
  <2>3. CASE I = {}
    BY <1>2, <2>3
  <2>4. CASE I # {}
    <3>1. first = MinOf(I)
      BY <1>2, <2>4
    <3> QED
      BY <2>1, <2>2, <2>4, <3>1
  <2> QED
    BY <2>3, <2>4
<1>6. IsDigit(c) => c \in {"0", "1", "2", "3", "4", "5", "6", "7", "8", "9"}
  <2>1. ASSUME NEW k \in 1 .. 10
        PROVE  digits[k] \in {"0", "1", "2", "3", "4", "5", "6", "7", "8", "9"}
    <3>1. \/ k = 1 \/ k = 2 \/ k = 3 \/ k = 4 \/ k = 5
          \/ k = 6 \/ k = 7 \/ k = 8 \/ k = 9 \/ k = 10
      OBVIOUS
    <3> QED
      BY <3>1 DEF digits
  <2> QED
    BY <1>1, <2>1 DEF IsDigit, Range
<1>7. IsDigit(c) => ~isspace(c) /\ c \notin {"(", ")", "x"}
  BY <1>6 DEF isspace
<1>8. DigitValue(c) = first - 1
  BY DEF DigitValue, first
<1> QED
  BY <1>4, <1>5, <1>7, <1>8

\* A digit more keeps numbers equal as far as the width of an int can tell.
LEMMA DigitMore ==
  ASSUME NEW M \in Nat \ {0}, NEW a \in Int, NEW b \in Int, a % M = b % M, NEW d \in Int
  PROVE  (a * 10 + d) % M = (b * 10 + d) % M
<1>1. PICK q \in Int, u \in Int, r \in 0 .. M - 1 : a = M * q + r /\ b = M * u + r
  <2>1. a % M \in 0 .. M - 1 /\ a \div M \in Int /\ a = M * (a \div M) + (a % M)
    BY ModRange
  <2>2. b \div M \in Int /\ b = M * (b \div M) + (a % M)
    BY ModRange
  <2> QED
    BY <2>1, <2>2, Zenon
<1>2. PICK v \in Int, z \in 0 .. M - 1 : r * 10 + d = M * v + z
  <2>1. r * 10 + d \in Int
    BY <1>1
  <2> QED
    BY <2>1, ModRange
<1>3. a * 10 + d = M * (q * 10 + v) + z /\ b * 10 + d = M * (u * 10 + v) + z
  BY <1>1, <1>2
<1>4. (M * (q * 10 + v) + z) % M = z /\ (M * (u * 10 + v) + z) % M = z
  BY <1>1, <1>2, ModUnique
<1> QED
  BY <1>3, <1>4

LEMMA IntFacts ==
  /\ INT_MAX \in Nat \ {0} /\ Ints \in Nat \ {0} /\ Ints = 2 * (INT_MAX + 1)
  /\ \A n \in 0 .. INT_MAX : n % Ints = n /\ Wrap(n) = n
  /\ \A n \in Int : Wrap(n) \in Int /\ Wrap(n) <= INT_MAX
                    /\ (Wrap(n) >= 0 => Wrap(n) % Ints = n % Ints)
<1>1. INT_MAX \in Nat \ {0} /\ Ints \in Nat \ {0} /\ Ints = 2 * (INT_MAX + 1)
  BY ReadAssumption DEF Ints
<1>2. ASSUME NEW n \in 0 .. INT_MAX PROVE n % Ints = n
  <2>1. (Ints * 0 + n) % Ints = n
    <3>1. n \in 0 .. Ints - 1
      BY <1>1
    <3> QED
      BY <1>1, <3>1, ModUnique
  <2> QED
    BY <1>1, <2>1
<1>3. ASSUME NEW n \in 0 .. INT_MAX PROVE Wrap(n) = n
  BY <1>1, <1>2 DEF Wrap
<1>4. ASSUME NEW n \in Int
      PROVE  /\ Wrap(n) \in Int /\ Wrap(n) <= INT_MAX
             /\ Wrap(n) >= 0 => Wrap(n) % Ints = n % Ints
  <2>1. PICK m \in 0 .. Ints - 1 : m = n % Ints
    BY <1>1, ModRange
  <2>2. Wrap(n) = IF m <= INT_MAX THEN m ELSE m - Ints
    BY <2>1 DEF Wrap
  <2>3. m <= INT_MAX => m % Ints = m
    BY <1>1, <1>2, <2>1
  <2> QED
    BY <1>1, <2>1, <2>2, <2>3
<1> QED
  BY <1>1, <1>2, <1>3, <1>4

\* What a digit more does.
LEMMA AddDigitFacts ==
  ASSUME NEW e \in -1 .. INT_MAX, NEW c, NEW n, n = e * 10 + DigitValue(c)
  PROVE  /\ AddDigit(e, c) \in -1 .. INT_MAX
         /\ AddDigit(e, c) >= 0 =>
              e >= 0 /\ IsDigit(c) /\ AddDigit(e, c) % Ints = n % Ints
         /\ e >= 0 /\ IsDigit(c) /\ n <= INT_MAX => AddDigit(e, c) = n
<1>1. n \in Int /\ (e >= 0 /\ IsDigit(c) => n >= e)
  BY IntFacts, DigitFacts
<1>2. CASE e = -1 \/ ~IsDigit(c)
  BY <1>2, IntFacts DEF AddDigit
<1>3. CASE e >= 0 /\ IsDigit(c)
  <2>1. AddDigit(e, c) = IF Wrap(n) < e THEN -1 ELSE Wrap(n)
    BY <1>3 DEF AddDigit
  <2>2. /\ Wrap(n) \in Int /\ Wrap(n) <= INT_MAX
        /\ Wrap(n) >= 0 => Wrap(n) % Ints = n % Ints
        /\ n <= INT_MAX => Wrap(n) = n
    BY <1>1, <1>3, IntFacts
  <2> HIDE DEF Wrap
  <2> QED
    BY <1>1, <1>3, <2>1, <2>2, IntFacts
<1> QED
  BY <1>2, <1>3

(* The two folds over a sequence of digits: what the code computes, and the number *)
(* that they denote.                                                               *)

LEMMA AddDigitFold ==
  ASSUME NEW s \in Seq(STRING)
  PROVE  \E g : /\ FoldLeft(AddDigit, 0, s) = g[1 .. Len(s)] /\ g[1 .. 0] = 0
                /\ \A k \in Nat : k < Len(s) => g[1 .. k + 1] = AddDigit(g[1 .. k], s[k + 1])
<1> DEFINE D == -1 .. INT_MAX
           n == Len(s)
           step == [e \in D |-> [k \in 1 .. n |-> AddDigit(e, s[k])]]
           IsIt(g) == g = [S \in SUBSET (1 .. n) |->
                             IF S = {} THEN 0 ELSE AddDigit(g[S \ {Max(S)}], s[Max(S)])]
           it == CHOOSE g : IsIt(g)
<1>1. n \in Nat /\ DOMAIN s = 1 .. n
  OBVIOUS
<1>2. 0 \in D
  BY IntFacts
<1>3. step \in [D -> [1 .. n -> D]]
  <2>1. ASSUME NEW e \in D, NEW k \in 1 .. n PROVE AddDigit(e, s[k]) \in D
    BY AddDigitFacts
  <2> HIDE DEF D, n
  <2>2. \A e \in D : [k \in 1 .. n |-> AddDigit(e, s[k])] \in [1 .. n -> D]
    BY <2>1
  <2> QED
    BY <2>2, Zenon
<1> HIDE DEF D, n
<1>4. PICK g : IsFold(D, g, 0, step, n)
  BY <1>1, <1>2, <1>3, FoldExists
<1>5. IsIt(g)
  <2>1. /\ g \in [SUBSET (1 .. n) -> D]
        /\ g = [S \in SUBSET (1 .. n) |->
                  IF S = {} THEN 0 ELSE step[g[S \ {MaxOf(S)}]][MaxOf(S)]]
    BY <1>4 DEF IsFold
  <2>2. ASSUME NEW S \in SUBSET (1 .. n), S # {}
        PROVE  step[g[S \ {MaxOf(S)}]][MaxOf(S)] = AddDigit(g[S \ {Max(S)}], s[Max(S)])
    <3>1. MaxOf(S) \in 1 .. n
      BY <1>1, <2>2, MaxOfPlaces
    <3>2. g[S \ {MaxOf(S)}] \in D
      BY <2>1
    <3>3. Max(S) = MaxOf(S)
      BY DEF Max, MaxOf
    <3> QED
      BY <3>1, <3>2, <3>3
  <2> HIDE DEF step
  <2> QED
    BY <2>1, <2>2
<1>6. IsIt(it)
  BY <1>5
<1>7. FoldLeft(AddDigit, 0, s) = it[1 .. n]
  BY <1>1, Zenon DEF FoldLeft, MapThenFoldSet
<1> HIDE DEF it
<1>8. it[1 .. 0] = 0
  <2>1. 1 .. 0 = {} /\ {} \in SUBSET (1 .. n)
    OBVIOUS
  <2> QED
    BY <1>6, <2>1
<1>9. ASSUME NEW k \in Nat, k < n PROVE it[1 .. k + 1] = AddDigit(it[1 .. k], s[k + 1])
  <2>1. /\ 1 .. k + 1 \in SUBSET (1 .. n) /\ 1 .. k + 1 # {}
        /\ MaxOf(1 .. k + 1) = k + 1 /\ (1 .. k + 1) \ {k + 1} = 1 .. k
    BY <1>1, <1>9, LastPlace
  <2>2. Max(1 .. k + 1) = k + 1
    BY <2>1 DEF Max, MaxOf
  <2> QED
    BY <1>6, <2>1, <2>2
<1> QED
  BY <1>7, <1>8, <1>9 DEF n

LEMMA DenotedFold ==
  ASSUME NEW s \in Seq(STRING)
  PROVE  \E g : /\ Denoted(s) = g[1 .. Len(s)] /\ g[1 .. 0] = 0
                /\ \A k \in Nat : k < Len(s) => g[1 .. k + 1] = g[1 .. k] * 10 + DigitValue(s[k + 1])
<1> DEFINE D == Int
           n == Len(s)
           step == [e \in D |-> [k \in 1 .. n |-> e * 10 + DigitValue(s[k])]]
           IsIt(g) == g = [S \in SUBSET (1 .. n) |->
                             IF S = {} THEN 0 ELSE g[S \ {Max(S)}] * 10 + DigitValue(s[Max(S)])]
           it == CHOOSE g : IsIt(g)
<1>1. n \in Nat /\ DOMAIN s = 1 .. n
  OBVIOUS
<1>2. 0 \in D
  OBVIOUS
<1>3. step \in [D -> [1 .. n -> D]]
  <2>1. ASSUME NEW e \in D, NEW k \in 1 .. n PROVE e * 10 + DigitValue(s[k]) \in D
    BY DigitFacts
  <2> HIDE DEF D, n
  <2>2. \A e \in D : [k \in 1 .. n |-> e * 10 + DigitValue(s[k])] \in [1 .. n -> D]
    BY <2>1
  <2> QED
    BY <2>2, Zenon
<1> HIDE DEF D, n
<1>4. PICK g : IsFold(D, g, 0, step, n)
  BY <1>1, <1>2, <1>3, FoldExists
<1>5. IsIt(g)
  <2>1. /\ g \in [SUBSET (1 .. n) -> D]
        /\ g = [S \in SUBSET (1 .. n) |->
                  IF S = {} THEN 0 ELSE step[g[S \ {MaxOf(S)}]][MaxOf(S)]]
    BY <1>4 DEF IsFold
  <2>2. ASSUME NEW S \in SUBSET (1 .. n), S # {}
        PROVE  step[g[S \ {MaxOf(S)}]][MaxOf(S)] = g[S \ {Max(S)}] * 10 + DigitValue(s[Max(S)])
    <3>1. MaxOf(S) \in 1 .. n
      BY <1>1, <2>2, MaxOfPlaces
    <3>2. g[S \ {MaxOf(S)}] \in D
      BY <2>1
    <3>3. Max(S) = MaxOf(S)
      BY DEF Max, MaxOf
    <3> QED
      BY <3>1, <3>2, <3>3
  <2> HIDE DEF step
  <2> QED
    BY <2>1, <2>2
<1>6. IsIt(it)
  BY <1>5
<1>7. Denoted(s) = it[1 .. n]
  BY <1>1, Zenon DEF Denoted, FoldLeft, MapThenFoldSet
<1> HIDE DEF it
<1>8. it[1 .. 0] = 0
  <2>1. 1 .. 0 = {} /\ {} \in SUBSET (1 .. n)
    OBVIOUS
  <2> QED
    BY <1>6, <2>1
<1>9. ASSUME NEW k \in Nat, k < n PROVE it[1 .. k + 1] = it[1 .. k] * 10 + DigitValue(s[k + 1])
  <2>1. /\ 1 .. k + 1 \in SUBSET (1 .. n) /\ 1 .. k + 1 # {}
        /\ MaxOf(1 .. k + 1) = k + 1 /\ (1 .. k + 1) \ {k + 1} = 1 .. k
    BY <1>1, <1>9, LastPlace
  <2>2. Max(1 .. k + 1) = k + 1
    BY <2>1 DEF Max, MaxOf
  <2> QED
    BY <1>6, <2>1, <2>2
<1> QED
  BY <1>7, <1>8, <1>9 DEF n

\* The code reads the number that is denoted, unless it is no int: then it reads
\* another that is the same as far as the width of an int can tell, or none.
LEMMA ReadsDenoted ==
  ASSUME NEW s \in Seq(STRING), NEW v, v = FoldLeft(AddDigit, 0, s)
  PROVE  /\ v \in -1 .. INT_MAX
         /\ v >= 0 => IsNumber(s) /\ v % Ints = Denoted(s) % Ints
         /\ IsNumber(s) /\ Denoted(s) <= INT_MAX => v >= 0
<1> DEFINE n == Len(s)
<1>1. n \in Nat /\ DOMAIN s = 1 .. n
  OBVIOUS
<1>2. PICK g : /\ v = g[1 .. n] /\ g[1 .. 0] = 0
               /\ \A k \in Nat : k < n => g[1 .. k + 1] = AddDigit(g[1 .. k], s[k + 1])
  BY AddDigitFold
<1>3. PICK h : /\ Denoted(s) = h[1 .. n] /\ h[1 .. 0] = 0
               /\ \A k \in Nat : k < n =>
                    h[1 .. k + 1] = h[1 .. k] * 10 + DigitValue(s[k + 1])
  BY DenotedFold
<1> DEFINE Digits(k) == \A m \in 1 .. k : IsDigit(s[m])
           Same(k) == /\ g[1 .. k] \in -1 .. INT_MAX /\ h[1 .. k] \in Int
                      /\ g[1 .. k] >= 0 => Digits(k) /\ g[1 .. k] % Ints = h[1 .. k] % Ints
                      /\ Digits(k) => h[1 .. k] >= 0
                      /\ Digits(k) /\ h[1 .. k] <= INT_MAX => g[1 .. k] = h[1 .. k]
           Good == {k \in 0 .. n : Same(k)}
<1>4. 0 \in Good
  <2>1. 0 \in -1 .. INT_MAX /\ 0 \in Int /\ 0 >= 0 /\ 1 .. 0 = {} /\ 0 \in 0 .. n
    BY <1>1, IntFacts
  <2>2. Digits(0)
    BY <2>1
  <2> HIDE DEF Digits
  <2>3. Same(0)
    BY <1>2, <1>3, <2>1, <2>2
  <2> QED
    BY <2>1, <2>3
<1>5. ASSUME NEW k \in Nat, k < n, k \in Good PROVE k + 1 \in Good
  <2>1. PICK a, b, c, d :
          /\ a = g[1 .. k] /\ b = h[1 .. k] /\ c = s[k + 1] /\ d = DigitValue(c)
          /\ g[1 .. k + 1] = AddDigit(a, c) /\ h[1 .. k + 1] = b * 10 + d
    BY <1>2, <1>3, <1>5
  <2>2. /\ a \in -1 .. INT_MAX /\ b \in Int
        /\ a >= 0 => Digits(k) /\ a % Ints = b % Ints
        /\ Digits(k) => b >= 0
        /\ Digits(k) /\ b <= INT_MAX => a = b
    BY <1>5, <2>1
  <2>3. Digits(k + 1) <=> Digits(k) /\ IsDigit(c)
    <3>1. 1 .. k + 1 = (1 .. k) \cup {k + 1}
      OBVIOUS
    <3> QED
      BY <2>1, <3>1
  <2> HIDE DEF Digits
  <2>4. d \in Int /\ (IsDigit(c) => d >= 0) /\ a \in Int
    <3>1. DigitValue(c) \in Int /\ (IsDigit(c) => DigitValue(c) \in 0 .. 9)
      BY DigitFacts
    <3>2. d = DigitValue(c)
      BY <2>1
    <3>3. -1 .. INT_MAX \subseteq Int
      OBVIOUS
    <3> QED
      BY <2>2, <3>1, <3>2, <3>3
  <2>5. /\ AddDigit(a, c) \in -1 .. INT_MAX
        /\ AddDigit(a, c) >= 0 =>
             a >= 0 /\ IsDigit(c) /\ AddDigit(a, c) % Ints = (a * 10 + d) % Ints
        /\ a >= 0 /\ IsDigit(c) /\ a * 10 + d <= INT_MAX => AddDigit(a, c) = a * 10 + d
    BY <2>1, <2>2, AddDigitFacts
  <2>6. a >= 0 => (a * 10 + d) % Ints = (b * 10 + d) % Ints
    <3>1. Ints \in Nat \ {0}
      BY IntFacts
    <3> QED
      BY <2>2, <2>4, <3>1, DigitMore
  <2>7. Digits(k + 1) => b * 10 + d >= 0
    BY <2>2, <2>3, <2>4
  <2>8. ASSUME Digits(k + 1), b * 10 + d <= INT_MAX PROVE AddDigit(a, c) = b * 10 + d
    <3>1. b >= 0 /\ d >= 0 /\ b <= INT_MAX
      BY <2>2, <2>3, <2>4, <2>8, IntFacts
    <3>2. a = b
      BY <2>2, <2>3, <2>8, <3>1
    <3> QED
      BY <2>3, <2>5, <2>8, <3>1, <3>2
  <2>9. Same(k + 1)
    <3> DEFINE x == AddDigit(a, c)
               y == b * 10 + d
    <3>1. x \in -1 .. INT_MAX /\ y \in Int
      BY <2>2, <2>4, <2>5
    <3>2. x >= 0 => Digits(k + 1) /\ x % Ints = y % Ints
      BY <2>2, <2>3, <2>5, <2>6
    <3>3. Digits(k + 1) => y >= 0
      BY <2>7
    <3>4. Digits(k + 1) /\ y <= INT_MAX => x = y
      BY <2>8
    <3>5. g[1 .. k + 1] = x /\ h[1 .. k + 1] = y
      BY <2>1
    <3> HIDE DEF x, y
    <3> QED
      BY <3>1, <3>2, <3>3, <3>4, <3>5
  <2> HIDE DEF Same
  <2> QED
    BY <1>1, <1>5, <2>9
<1> HIDE DEF Good
<1>6. \A k \in 0 .. n : k \in Good
  <2> HIDE DEF n
  <2> QED
    BY <1>1, <1>4, <1>5, InductionUpTo, Zenon
<1>7. Same(n)
  BY <1>1, <1>6 DEF Good
<1> QED
  BY <1>1, <1>2, <1>3, <1>7 DEF IsNumber
-----------------------------------------------------------------------------
(* Sets of places in order. *)

Below(S, p) == {l \in S : l < p}

\* The element that follows those below p.
LEMMA NextInOrder ==
  ASSUME NEW n \in Nat, NEW S \in SUBSET (1 .. n), NEW p \in Nat, NEW q \in S,
         q >= p, \A l \in S : l < p \/ l >= q
  PROVE  LET w == Cardinality(Below(S, p)) + 1 IN
         /\ w \in DOMAIN InOrder(S) /\ InOrder(S)[w] = q
         /\ Cardinality(Below(S, q + 1)) = w
<1> DEFINE w == Cardinality(Below(S, p)) + 1
           UpTo(k) == {l \in S : l <= k}
<1>1. IsFiniteSet(S) /\ q \in Nat /\ \A l \in S : l \in Nat
  <2>1. IsFiniteSet(1 .. n)
    BY IntervalCount
  <2>2. IsFiniteSet(S)
    BY <2>1, FS_Subset
  <2>3. \A l \in S : l \in Nat
    OBVIOUS
  <2> QED
    BY <2>2, <2>3
<1>2. \A k : IsFiniteSet(UpTo(k)) /\ Cardinality(UpTo(k)) \in Nat
  <2>1. \A k : UpTo(k) \in SUBSET S
    OBVIOUS
  <2> HIDE DEF UpTo
  <2> QED
    BY <1>1, <2>1, FS_Subset, FS_CardinalityType
<1>3. IsFiniteSet(Below(S, p)) /\ Cardinality(Below(S, p)) \in Nat
  <2>1. Below(S, p) \in SUBSET S
    BY DEF Below
  <2> QED
    BY <1>1, <2>1, FS_Subset, FS_CardinalityType
<1>4. UpTo(q) = Below(S, p) \cup {q} /\ q \notin Below(S, p)
  <2>1. ~(q < p) /\ \A l \in S : l <= q <=> (l < p \/ l = q)
    BY <1>1
  <2> QED
    BY <2>1, Zenon DEF Below
<1>5. Cardinality(UpTo(q)) = w
  BY <1>3, <1>4, FS_AddElement
<1>6. w \in 1 .. Cardinality(S)
  <2>1. UpTo(q) \in SUBSET S
    OBVIOUS
  <2>2. Cardinality(UpTo(q)) <= Cardinality(S) /\ Cardinality(S) \in Nat
    <3> HIDE DEF UpTo
    <3> QED
      BY <1>1, <2>1, FS_Subset, FS_CardinalityType
  <2> QED
    BY <1>3, <1>5, <2>2
<1>7. ASSUME NEW k \in S, k # q PROVE Cardinality(UpTo(k)) # w
  <2>1. CASE k < q
    <3>0. \A l \in S : l <= k => l < p
      BY <1>1, <2>1
    <3>1. UpTo(k) \in SUBSET Below(S, p)
      BY <3>0 DEF Below
    <3>2. Cardinality(UpTo(k)) <= Cardinality(Below(S, p))
      BY <1>3, <3>1, FS_Subset
    <3> QED
      BY <1>2, <1>3, <3>2
  <2>2. CASE k > q
    <3>0. k <= k /\ ~(k <= q) /\ \A l \in S : l <= q => l <= k
      BY <1>1, <2>2
    <3>1. UpTo(q) \cup {k} \in SUBSET UpTo(k) /\ k \notin UpTo(q)
      BY <3>0
    <3> HIDE DEF UpTo
    <3>2. Cardinality(UpTo(q) \cup {k}) = Cardinality(UpTo(q)) + 1
      BY <1>2, <3>1, FS_AddElement
    <3>3. Cardinality(UpTo(q) \cup {k}) <= Cardinality(UpTo(k))
      BY <1>2, <3>1, FS_Subset
    <3> HIDE DEF w
    <3> QED
      BY <1>2, <1>5, <3>2, <3>3
  <2> QED
    BY <1>1, <1>7, <2>1, <2>2
<1>8. Below(S, q + 1) = UpTo(q)
  <2>1. \A l \in S : l <= q <=> l < q + 1
    BY <1>1
  <2> QED
    BY <2>1 DEF Below
<1>9. InOrder(S)[w] = q /\ w \in DOMAIN InOrder(S)
  <2>1. InOrder(S) = [m \in 1 .. Cardinality(S) |-> CHOOSE k \in S : Cardinality(UpTo(k)) = m]
    BY DEF InOrder
  <2> HIDE DEF w, UpTo
  <2>2. InOrder(S)[w] = CHOOSE k \in S : Cardinality(UpTo(k)) = w
    BY <1>6, <2>1
  <2>3. (CHOOSE k \in S : Cardinality(UpTo(k)) = w) = q
    BY <1>5, <1>7
  <2> QED
    BY <1>6, <2>1, <2>2, <2>3
<1> QED
  BY <1>5, <1>8, <1>9

\* Where no element is left.
LEMMA AllBelow ==
  ASSUME NEW S, NEW p, \A l \in S : l < p
  PROVE  Below(S, p) = S
  BY DEF Below

\* Where no element is passed.
LEMMA SameBelow ==
  ASSUME NEW S, NEW p, NEW q, \A l \in S : l < p <=> l < q
  PROVE  Below(S, p) = Below(S, q)
  BY DEF Below
-----------------------------------------------------------------------------
(* What is left of a sequence, from a place on. *)

Suffix(s, p) == SubSeq(s, p, Len(s))

LEMMA SameSequence ==
  ASSUME NEW T, NEW a \in Seq(T), NEW b \in Seq(T), Len(a) = Len(b),
         \A i \in 1 .. Len(a) : a[i] = b[i]
  PROVE  a = b
  OBVIOUS

LEMMA SuffixFacts ==
  ASSUME NEW T, NEW s \in Seq(T), NEW p \in 1 .. Len(s) + 1
  PROVE  /\ Suffix(s, p) \in Seq(T) /\ Len(Suffix(s, p)) = Len(s) + 1 - p
         /\ \A i \in 1 .. Len(s) + 1 - p : Suffix(s, p)[i] = s[p + i - 1]
         /\ Suffix(s, p) = <<>> <=> p = Len(s) + 1
         /\ p <= Len(s) => Suffix(s, p)[1] = s[p] /\ Tail(Suffix(s, p)) = Suffix(s, p + 1)
<1>1. /\ Suffix(s, p) \in Seq(T) /\ Len(Suffix(s, p)) = Len(s) + 1 - p /\ Len(s) \in Nat
      /\ \A i \in 1 .. Len(s) + 1 - p : Suffix(s, p)[i] = s[p + i - 1]
  BY DEF Suffix
<1>2. Suffix(s, p) = <<>> <=> p = Len(s) + 1
  BY <1>1
<1>3. ASSUME p <= Len(s)
      PROVE  Suffix(s, p)[1] = s[p] /\ Tail(Suffix(s, p)) = Suffix(s, p + 1)
  <2>1. Suffix(s, p)[1] = s[p]
    BY <1>1, <1>3
  <2>2. /\ Tail(Suffix(s, p)) \in Seq(T) /\ Len(Tail(Suffix(s, p))) = Len(s) - p
        /\ \A i \in 1 .. Len(s) - p : Tail(Suffix(s, p))[i] = s[p + i]
    BY <1>1, <1>3
  <2>3. /\ Suffix(s, p + 1) \in Seq(T) /\ Len(Suffix(s, p + 1)) = Len(s) - p
        /\ \A i \in 1 .. Len(s) - p : Suffix(s, p + 1)[i] = s[p + i]
    BY <1>3 DEF Suffix
  <2> DEFINE a == Tail(Suffix(s, p))
             b == Suffix(s, p + 1)
  <2>4. a \in Seq(T) /\ b \in Seq(T) /\ Len(a) = Len(b) /\ Len(a) = Len(s) - p
    BY <2>2, <2>3
  <2>5. \A i \in 1 .. Len(s) - p : a[i] = b[i]
    BY <2>2, <2>3
  <2> HIDE DEF a, b
  <2>6. a = b
    BY <2>4, <2>5, SameSequence
  <2> QED
    BY <2>1, <2>6 DEF a, b
<1> QED
  BY <1>1, <1>2, <1>3

LEMMA SuffixSplit ==
  ASSUME NEW T, NEW s \in Seq(T), NEW p \in 1 .. Len(s) + 1,
         NEW r \in p .. Len(s) + 1
  PROVE  LET t == Suffix(s, p) IN
         /\ SubSeq(t, 1, r - p) = SubSeq(s, p, r - 1)
         /\ SubSeq(t, r - p + 1, Len(t)) = Suffix(s, r)
<1> DEFINE t == Suffix(s, p)
           k == r - p + 1
<1>0. k - 1 = r - p
  OBVIOUS
<1>1. /\ t \in Seq(T) /\ Len(t) = Len(s) + 1 - p /\ Len(s) \in Nat /\ Len(t) \in Nat
      /\ \A i \in 1 .. Len(s) + 1 - p : t[i] = s[p + i - 1]
  BY SuffixFacts
<1> HIDE DEF t
<1>2. SubSeq(t, 1, k - 1) = SubSeq(s, p, r - 1)
  <2>1. /\ SubSeq(t, 1, k - 1) \in Seq(T) /\ Len(SubSeq(t, 1, k - 1)) = r - p
        /\ \A i \in 1 .. r - p : SubSeq(t, 1, k - 1)[i] = s[p + i - 1]
    BY <1>1
  <2>2. /\ SubSeq(s, p, r - 1) \in Seq(T) /\ Len(SubSeq(s, p, r - 1)) = r - p
        /\ \A i \in 1 .. r - p : SubSeq(s, p, r - 1)[i] = s[p + i - 1]
    BY <1>1
  <2> QED
    BY <2>1, <2>2
<1>3. SubSeq(t, k, Len(t)) = Suffix(s, r)
  <2>1. /\ SubSeq(t, k, Len(t)) \in Seq(T) /\ Len(SubSeq(t, k, Len(t))) = Len(s) + 1 - r
        /\ \A i \in 1 .. Len(s) + 1 - r : SubSeq(t, k, Len(t))[i] = s[r + i - 1]
    BY <1>1
  <2>2. /\ Suffix(s, r) \in Seq(T) /\ Len(Suffix(s, r)) = Len(s) + 1 - r
        /\ \A i \in 1 .. Len(s) + 1 - r : Suffix(s, r)[i] = s[r + i - 1]
    BY <1>1, SuffixFacts
  <2>3. Len(s) + 1 - r \in Nat
    BY <1>1
  <2> DEFINE a == SubSeq(t, k, Len(t))
             b == Suffix(s, r)
             m == Len(s) + 1 - r
  <2>4. a \in Seq(T) /\ b \in Seq(T) /\ Len(a) = m /\ Len(b) = m
    BY <2>1, <2>2
  <2>5. \A i \in 1 .. m : a[i] = s[r + i - 1] /\ b[i] = s[r + i - 1]
    BY <2>1, <2>2
  <2> HIDE DEF a, b, m
  <2>6. a = b
    BY <2>4, <2>5, SameSequence
  <2> QED
    BY <2>6 DEF a, b
<1> HIDE DEF k
<1>4. SubSeq(t, 1, r - p) = SubSeq(s, p, r - 1)
  BY <1>0, <1>2
<1> QED
  BY <1>3, <1>4, Zenon DEF t, k

\* The first place of C from p on, as a place of the suffix; 0 if there is none.
From(s, p, C) == {i \in 1 .. Len(Suffix(s, p)) : p + i - 1 \in C}
FirstFrom(s, p, C) == IF From(s, p, C) # {} THEN MinOf(From(s, p, C)) ELSE 0

\* A suffix is split there.
LEMMA SplitAt ==
  ASSUME NEW T, NEW s \in Seq(T), NEW p \in 1 .. Len(s) + 1, NEW C \in SUBSET (1 .. Len(s))
  PROVE  \E r \in p .. Len(s) + 1 :
           /\ Before(Suffix(s, p), FirstFrom(s, p, C)) = SubSeq(s, p, r - 1)
           /\ After(Suffix(s, p), FirstFrom(s, p, C)) = Suffix(s, r)
           /\ \A j \in p .. r - 1 : j \notin C
           /\ r <= Len(s) => r \in C
<1> DEFINE I == From(s, p, C)
           t == Suffix(s, p)
<1>1. /\ t \in Seq(T) /\ Len(t) = Len(s) + 1 - p /\ Len(s) \in Nat /\ Len(t) \in Nat
  BY SuffixFacts
<1>2. I \in SUBSET (1 .. Len(t)) /\ \A i \in 1 .. Len(t) : i \in I <=> p + i - 1 \in C
  BY DEF From
<1> HIDE DEF I, t
<1>3. CASE I = {}
  <2>1. FirstFrom(s, p, C) = 0
    BY <1>3 DEF FirstFrom, I
  <2>2. Len(s) + 1 \in p .. Len(s) + 1 /\ ~(Len(s) + 1 <= Len(s)) /\ (Len(s) + 1) - 1 = Len(s)
    BY <1>1
  <2>3. Before(t, 0) = SubSeq(s, p, Len(s))
    BY DEF Before, t, Suffix
  <2>4. After(t, 0) = Suffix(s, Len(s) + 1)
    <3>1. Len(s) + 1 \in 1 .. Len(s) + 1
      BY <1>1
    <3> QED
      BY <3>1, SuffixFacts DEF After
  <2>5. ASSUME NEW j \in p .. Len(s) PROVE j \notin C
    <3>1. j - p + 1 \in 1 .. Len(t) /\ p + (j - p + 1) - 1 = j
      BY <1>1
    <3> QED
      BY <1>2, <1>3, <3>1
  <2> QED
    BY <2>1, <2>2, <2>3, <2>4, <2>5 DEF t
<1>4. CASE I # {}
  <2>1. PICK k \in I : k = MinOf(I) /\ \A m \in I : k <= m
    BY <1>1, <1>2, <1>4, FirstPlace
  <2>2. FirstFrom(s, p, C) = k /\ k \in 1 .. Len(t) /\ k # 0
    BY <1>2, <1>4, <2>1 DEF FirstFrom, I
  <2> DEFINE r == p + k - 1
  <2>3. r \in p .. Len(s) + 1 /\ k = r - p + 1 /\ r \in C
    BY <1>1, <1>2, <2>1, <2>2
  <2>4. Before(t, k) = SubSeq(t, 1, k - 1) /\ After(t, k) = SubSeq(t, k, Len(t))
    BY <2>2 DEF Before, After
  <2>5. ASSUME NEW j \in p .. r - 1 PROVE j \notin C
    <3>1. j - p + 1 \in 1 .. Len(t) /\ p + (j - p + 1) - 1 = j /\ ~(k <= j - p + 1)
      BY <1>1, <2>2
    <3> QED
      BY <1>2, <2>1, <3>1
  <2> HIDE DEF r
  <2>6. SubSeq(t, 1, k - 1) = SubSeq(s, p, r - 1) /\ SubSeq(t, k, Len(t)) = Suffix(s, r)
    <3>1. /\ SubSeq(t, 1, r - p) = SubSeq(s, p, r - 1)
          /\ SubSeq(t, r - p + 1, Len(t)) = Suffix(s, r)
      BY <2>3, SuffixSplit DEF t
    <3>2. k - 1 = r - p
      BY <2>2, <2>3
    <3> QED
      BY <2>3, <3>1, <3>2
  <2> QED
    BY <2>2, <2>3, <2>4, <2>5, <2>6 DEF t
<1> QED
  BY <1>3, <1>4
-----------------------------------------------------------------------------
(* What the functions of the code read from the place p of a line on. *)

Nonspaces(s) == {j \in DOMAIN s : ~isspace(s[j])}
Spaces(s)    == {j \in DOMAIN s : isspace(s[j])}
Stops(s)     == {j \in DOMAIN s : isspace(s[j]) \/ s[j] = ")"}

LEMMA Selected ==
  ASSUME NEW s \in Seq(STRING), NEW p \in 1 .. Len(s) + 1
  PROVE  /\ SelectInSeq(Suffix(s, p), isspace) = FirstFrom(s, p, Spaces(s))
         /\ SelectInSeq(Suffix(s, p), LAMBDA c : ~isspace(c)) = FirstFrom(s, p, Nonspaces(s))
         /\ SelectInSeq(Suffix(s, p), LAMBDA c : isspace(c) \/ c = ")") =
              FirstFrom(s, p, Stops(s))
         /\ Spaces(s) \in SUBSET (1 .. Len(s)) /\ Nonspaces(s) \in SUBSET (1 .. Len(s))
         /\ Stops(s) \in SUBSET (1 .. Len(s))
<1> DEFINE t == Suffix(s, p)
<1>1. /\ Len(t) = Len(s) + 1 - p /\ Len(s) \in Nat /\ DOMAIN s = 1 .. Len(s)
      /\ \A i \in 1 .. Len(t) : t[i] = s[p + i - 1] /\ p + i - 1 \in DOMAIN s
  <2>1. /\ Len(t) = Len(s) + 1 - p /\ Len(s) \in Nat /\ DOMAIN s = 1 .. Len(s)
        /\ \A i \in 1 .. Len(s) + 1 - p : t[i] = s[p + i - 1]
    BY SuffixFacts
  <2> QED
    BY <2>1
<1> HIDE DEF t
<1>2. From(s, p, Spaces(s)) = {i \in 1 .. Len(t) : isspace(t[i])}
  BY <1>1 DEF From, Spaces, t
<1>3. From(s, p, Nonspaces(s)) = {i \in 1 .. Len(t) : ~isspace(t[i])}
  BY <1>1 DEF From, Nonspaces, t
<1>4. From(s, p, Stops(s)) = {i \in 1 .. Len(t) : isspace(t[i]) \/ t[i] = ")"}
  BY <1>1 DEF From, Stops, t
<1>5. \A S : Min(S) = MinOf(S)
  BY DEF Min, MinOf
<1>6. /\ SelectInSeq(t, isspace) = FirstFrom(s, p, Spaces(s))
      /\ SelectInSeq(t, LAMBDA c : ~isspace(c)) = FirstFrom(s, p, Nonspaces(s))
      /\ SelectInSeq(t, LAMBDA c : isspace(c) \/ c = ")") = FirstFrom(s, p, Stops(s))
  BY <1>2, <1>3, <1>4, <1>5 DEF FirstFrom, SelectInSeq
<1> QED
  BY <1>1, <1>6 DEF Spaces, Nonspaces, Stops, t

\* Spaces are skipped up to the place q, after the end if there is nothing else.
SkipsTo(s, p, q) ==
  /\ q \in p .. Len(s) + 1 /\ \A j \in p .. q - 1 : isspace(s[j])
  /\ q <= Len(s) => ~isspace(s[q])

LEMMA SkipSpaceAt ==
  ASSUME NEW s \in Seq(STRING), NEW p \in 1 .. Len(s) + 1
  PROVE  \E q : SkipsTo(s, p, q) /\ SkipSpace(Suffix(s, p)) = Suffix(s, q)
<1>1. PICK q \in p .. Len(s) + 1 :
        /\ After(Suffix(s, p), FirstFrom(s, p, Nonspaces(s))) = Suffix(s, q)
        /\ \A j \in p .. q - 1 : j \notin Nonspaces(s)
        /\ q <= Len(s) => q \in Nonspaces(s)
  BY Selected, SplitAt
<1>2. Len(s) \in Nat /\ DOMAIN s = 1 .. Len(s) /\ \A j \in p .. q - 1 : j \in DOMAIN s
  BY <1>1
<1>3. SkipsTo(s, p, q)
  BY <1>1, <1>2 DEF SkipsTo, Nonspaces
<1>4. SkipSpace(Suffix(s, p)) = Suffix(s, q)
  BY <1>1, Selected DEF SkipSpace
<1> QED
  BY <1>3, <1>4

\* What readInt reads is a word that spaces end.
LEMMA ReadIntAt ==
  ASSUME NEW s \in Seq(STRING), NEW p \in 1 .. Len(s) + 1
  PROVE  \E q : /\ SkipsTo(s, p, q)
                /\ q = Len(s) + 1 => readInt(Suffix(s, p)).value = -1
                /\ q <= Len(s) => \E r \in q + 1 .. Len(s) + 1 :
                     /\ \A j \in q .. r - 1 : ~isspace(s[j])
                     /\ r <= Len(s) => isspace(s[r])
                     /\ readInt(Suffix(s, p)) =
                          [value |-> FoldLeft(AddDigit, 0, SubSeq(s, q, r - 1)),
                           rest |-> Suffix(s, r)]
<1>1. PICK q : SkipsTo(s, p, q) /\ SkipSpace(Suffix(s, p)) = Suffix(s, q)
  BY SkipSpaceAt
<1> DEFINE t == Suffix(s, q)
           k == SelectInSeq(t, isspace)
<1>2. q \in 1 .. Len(s) + 1 /\ Len(s) \in Nat /\ DOMAIN s = 1 .. Len(s)
  BY <1>1 DEF SkipsTo
<1>3. t = <<>> <=> q = Len(s) + 1
  BY <1>2, SuffixFacts
<1>4. readInt(Suffix(s, p)) =
        IF t = <<>> THEN [value |-> -1, rest |-> t]
        ELSE [value |-> FoldLeft(AddDigit, 0, Before(t, k)), rest |-> After(t, k)]
  BY <1>1 DEF readInt
<1>5. ASSUME q <= Len(s)
      PROVE  \E r \in q + 1 .. Len(s) + 1 :
               /\ \A j \in q .. r - 1 : ~isspace(s[j])
               /\ r <= Len(s) => isspace(s[r])
               /\ Before(t, k) = SubSeq(s, q, r - 1) /\ After(t, k) = Suffix(s, r)
  <2>1. PICK r \in q .. Len(s) + 1 :
          /\ Before(t, FirstFrom(s, q, Spaces(s))) = SubSeq(s, q, r - 1)
          /\ After(t, FirstFrom(s, q, Spaces(s))) = Suffix(s, r)
          /\ \A j \in q .. r - 1 : j \notin Spaces(s)
          /\ r <= Len(s) => r \in Spaces(s)
    <3>1. Spaces(s) \in SUBSET (1 .. Len(s))
      BY <1>2, Selected
    <3>2. q \in 1 .. Len(s) + 1
      BY <1>2
    <3> QED
      BY <3>1, <3>2, SplitAt, Zenon
  <2>2. k = FirstFrom(s, q, Spaces(s))
    BY <1>2, Selected
  <2>3. ~isspace(s[q])
    BY <1>1, <1>5 DEF SkipsTo
  <2>4. r # q
    BY <1>5, <2>1, <2>3 DEF Spaces
  <2>5. r \in q + 1 .. Len(s) + 1
    BY <1>2, <2>1, <2>4
  <2>6. \A j \in q .. r - 1 : j \in DOMAIN s
    BY <1>2, <2>1
  <2> HIDE DEF t, k
  <2> QED
    BY <2>1, <2>2, <2>5, <2>6 DEF Spaces
<1> HIDE DEF t, k
<1>6. q = Len(s) + 1 => readInt(Suffix(s, p)).value = -1
  BY <1>3, <1>4
<1>7. ASSUME q <= Len(s)
      PROVE  readInt(Suffix(s, p)) =
               [value |-> FoldLeft(AddDigit, 0, Before(t, k)), rest |-> After(t, k)]
  <2>1. t # <<>>
    BY <1>2, <1>3, <1>7
  <2> QED
    BY <1>4, <2>1
<1>8. ASSUME q <= Len(s)
      PROVE  \E r \in q + 1 .. Len(s) + 1 :
               /\ \A j \in q .. r - 1 : ~isspace(s[j])
               /\ r <= Len(s) => isspace(s[r])
               /\ readInt(Suffix(s, p)) =
                    [value |-> FoldLeft(AddDigit, 0, SubSeq(s, q, r - 1)),
                     rest |-> Suffix(s, r)]
  <2>1. PICK r \in q + 1 .. Len(s) + 1 :
               /\ \A j \in q .. r - 1 : ~isspace(s[j])
               /\ r <= Len(s) => isspace(s[r])
               /\ Before(t, k) = SubSeq(s, q, r - 1) /\ After(t, k) = Suffix(s, r)
    BY <1>5, <1>8
  <2>2. readInt(Suffix(s, p)) =
          [value |-> FoldLeft(AddDigit, 0, SubSeq(s, q, r - 1)), rest |-> Suffix(s, r)]
    BY <1>7, <1>8, <2>1
  <2> QED
    BY <2>1, <2>2
<1> QED
  BY <1>1, <1>6, <1>8

\* What readBracedInt reads ends at the first space or closing brace, which has to
\* be a brace.
LEMMA ReadBracedAt ==
  ASSUME NEW s \in Seq(STRING), NEW p \in 1 .. Len(s) + 1
  PROVE  \E q : /\ SkipsTo(s, p, q)
                /\ q = Len(s) + 1 => readBracedInt(Suffix(s, p)).value = -1
                /\ q <= Len(s) => \E c \in q + 1 .. Len(s) + 1 :
                     /\ \A j \in q + 1 .. c - 1 : ~isspace(s[j]) /\ s[j] # ")"
                     /\ c <= Len(s) => isspace(s[c]) \/ s[c] = ")"
                     /\ s[q] # "(" \/ c = Len(s) + 1 \/ s[c] # ")" =>
                          readBracedInt(Suffix(s, p)).value = -1
                     /\ s[q] = "(" /\ c <= Len(s) /\ s[c] = ")" =>
                          readBracedInt(Suffix(s, p)) =
                            [value |-> FoldLeft(AddDigit, 0, SubSeq(s, q + 1, c - 1)),
                             rest |-> Suffix(s, c + 1)]
<1>1. PICK q : SkipsTo(s, p, q) /\ SkipSpace(Suffix(s, p)) = Suffix(s, q)
  BY SkipSpaceAt
<1> DEFINE t == Suffix(s, q)
           u == Tail(t)
           k == SelectInSeq(u, LAMBDA c : isspace(c) \/ c = ")")
           rest == After(u, k)
<1>2. q \in 1 .. Len(s) + 1 /\ Len(s) \in Nat /\ DOMAIN s = 1 .. Len(s)
  BY <1>1 DEF SkipsTo
<1>3. t = <<>> <=> q = Len(s) + 1
  BY <1>2, SuffixFacts
<1>4. readBracedInt(Suffix(s, p)) =
        IF t = <<>> \/ t[1] # "(" \/ rest = <<>> \/ rest[1] # ")"
        THEN [value |-> -1, rest |-> t]
        ELSE [value |-> FoldLeft(AddDigit, 0, Before(u, k)), rest |-> Tail(rest)]
  BY <1>1 DEF readBracedInt
<1>5. ASSUME q <= Len(s)
      PROVE  /\ t # <<>> /\ t[1] = s[q]
             /\ \E c \in q + 1 .. Len(s) + 1 :
                  /\ \A j \in q + 1 .. c - 1 : ~isspace(s[j]) /\ s[j] # ")"
                  /\ c <= Len(s) => isspace(s[c]) \/ s[c] = ")"
                  /\ Before(u, k) = SubSeq(s, q + 1, c - 1)
                  /\ rest = <<>> <=> c = Len(s) + 1
                  /\ c <= Len(s) => rest[1] = s[c] /\ Tail(rest) = Suffix(s, c + 1)
  <2>0. q + 1 \in 1 .. Len(s) + 1
    BY <1>2, <1>5
  <2>1. t # <<>> /\ t[1] = s[q] /\ u = Suffix(s, q + 1)
    <3>1. q # Len(s) + 1
      BY <1>2, <1>5
    <3>2. t[1] = s[q] /\ u = Suffix(s, q + 1)
      BY <1>2, <1>5, SuffixFacts
    <3> QED
      BY <1>3, <3>1, <3>2
  <2>2. PICK c \in q + 1 .. Len(s) + 1 :
          /\ Before(u, FirstFrom(s, q + 1, Stops(s))) = SubSeq(s, q + 1, c - 1)
          /\ After(u, FirstFrom(s, q + 1, Stops(s))) = Suffix(s, c)
          /\ \A j \in q + 1 .. c - 1 : j \notin Stops(s)
          /\ c <= Len(s) => c \in Stops(s)
    <3>1. Stops(s) \in SUBSET (1 .. Len(s))
      BY <1>2, Selected
    <3> HIDE DEF t
    <3> QED
      BY <2>0, <2>1, <3>1, SplitAt
  <2>3. k = FirstFrom(s, q + 1, Stops(s))
    <3>1. SelectInSeq(Suffix(s, q + 1), LAMBDA c1 : isspace(c1) \/ c1 = ")") =
            FirstFrom(s, q + 1, Stops(s))
      BY <2>0, Selected
    <3> HIDE DEF u
    <3> QED
      BY <2>1, <3>1
  <2>4. \A j \in q + 1 .. c - 1 : j \in DOMAIN s
    BY <1>2, <2>2
  <2>5. c \in 1 .. Len(s) + 1
    BY <1>2, <2>2
  <2>6. /\ Suffix(s, c) = <<>> <=> c = Len(s) + 1
        /\ c <= Len(s) => Suffix(s, c)[1] = s[c] /\ Tail(Suffix(s, c)) = Suffix(s, c + 1)
    BY <2>5, SuffixFacts
  <2> HIDE DEF t, u, k
  <2> QED
    BY <2>1, <2>2, <2>3, <2>4, <2>6 DEF Stops
<1> HIDE DEF t, u, k, rest
<1>6. q = Len(s) + 1 => readBracedInt(Suffix(s, p)).value = -1
  BY <1>3, <1>4
<1>7. ASSUME q <= Len(s)
      PROVE  \E c \in q + 1 .. Len(s) + 1 :
               /\ \A j \in q + 1 .. c - 1 : ~isspace(s[j]) /\ s[j] # ")"
               /\ c <= Len(s) => isspace(s[c]) \/ s[c] = ")"
               /\ s[q] # "(" \/ c = Len(s) + 1 \/ s[c] # ")" =>
                    readBracedInt(Suffix(s, p)).value = -1
               /\ s[q] = "(" /\ c <= Len(s) /\ s[c] = ")" =>
                    readBracedInt(Suffix(s, p)) =
                      [value |-> FoldLeft(AddDigit, 0, SubSeq(s, q + 1, c - 1)),
                       rest |-> Suffix(s, c + 1)]
  <2>1. t # <<>> /\ t[1] = s[q]
    BY <1>5, <1>7
  <2>2. PICK c \in q + 1 .. Len(s) + 1 :
          /\ \A j \in q + 1 .. c - 1 : ~isspace(s[j]) /\ s[j] # ")"
          /\ c <= Len(s) => isspace(s[c]) \/ s[c] = ")"
          /\ Before(u, k) = SubSeq(s, q + 1, c - 1)
          /\ rest = <<>> <=> c = Len(s) + 1
          /\ c <= Len(s) => rest[1] = s[c] /\ Tail(rest) = Suffix(s, c + 1)
    BY <1>5, <1>7
  <2>3. c = Len(s) + 1 \/ (c <= Len(s) /\ c # Len(s) + 1)
    BY <1>2, <2>2
  <2>4. s[q] # "(" \/ c = Len(s) + 1 \/ s[c] # ")" =>
          readBracedInt(Suffix(s, p)).value = -1
    BY <1>4, <2>1, <2>2, <2>3
  <2>5. s[q] = "(" /\ c <= Len(s) /\ s[c] = ")" =>
          readBracedInt(Suffix(s, p)) =
            [value |-> FoldLeft(AddDigit, 0, SubSeq(s, q + 1, c - 1)),
             rest |-> Suffix(s, c + 1)]
    <3>1. c <= Len(s) => rest # <<>>
      BY <1>2, <2>2
    <3> QED
      BY <1>4, <2>1, <2>2, <3>1, Zenon
  <2> QED
    BY <2>2, <2>4, <2>5
<1> QED
  BY <1>1, <1>6, <1>7
-----------------------------------------------------------------------------
(* Words of a line. *)

LEMMA PlacesOfWords ==
  ASSUME NEW s \in Seq(STRING)
  PROVE  /\ Starts(s) \in SUBSET (1 .. Len(s)) /\ Ends(s) \in SUBSET (1 .. Len(s))
         /\ Cardinality(Starts(s)) \in Nat
         /\ DOMAIN Words(s) = 1 .. Cardinality(Starts(s))
         /\ Len(Words(s)) = Cardinality(Starts(s))
<1>1. Starts(s) \in SUBSET (1 .. Len(s)) /\ Ends(s) \in SUBSET (1 .. Len(s)) /\ Len(s) \in Nat
  BY DEF Starts, Ends
<1>2. Cardinality(Starts(s)) \in Nat
  <2>1. IsFiniteSet(1 .. Len(s))
    BY <1>1, IntervalCount
  <2> QED
    BY <1>1, <2>1, FS_Subset, FS_CardinalityType
<1> DEFINE m == Cardinality(Starts(s))
           w == [i \in 1 .. m |-> SubSeq(s, InOrder(Starts(s))[i], InOrder(Ends(s))[i])]
<1>3. Words(s) = w
  BY DEF Words, InOrder
<1>4. DOMAIN w = 1 .. m /\ Len(w) = m
  <2> HIDE DEF m
  <2>1. m \in Nat
    BY <1>2 DEF m
  <2> QED
    BY <2>1
<1> QED
  BY <1>1, <1>2, <1>3, <1>4

\* From the place p on, n words have been read.
Reading(s, p, n) ==
  /\ p \in 1 .. Len(s) + 1 /\ n \in Nat
  /\ Cardinality(Below(Starts(s), p)) = n /\ Cardinality(Below(Ends(s), p)) = n
  /\ p <= Len(s) /\ ~isspace(s[p]) => p \in Starts(s)

LEMMA NoneRead ==
  ASSUME NEW s \in Seq(STRING)
  PROVE  Reading(s, 1, 0)
<1>1. Below(Starts(s), 1) = {} /\ Below(Ends(s), 1) = {}
  BY PlacesOfWords DEF Below
<1>2. Cardinality({}) = 0
  BY FS_EmptySet
<1>3. 1 \in 1 .. Len(s) + 1 /\ (1 <= Len(s) /\ ~isspace(s[1]) => 1 \in Starts(s))
  BY DEF Starts
<1> QED
  BY <1>1, <1>2, <1>3 DEF Reading

\* Spaces are in no word.
LEMMA SpacesRead ==
  ASSUME NEW s \in Seq(STRING), NEW p, NEW n, Reading(s, p, n), NEW q, SkipsTo(s, p, q)
  PROVE  Reading(s, q, n) /\ (q <= Len(s) => q \in Starts(s))
<1>1. /\ p \in 1 .. Len(s) + 1 /\ Len(s) \in Nat /\ q \in p .. Len(s) + 1
      /\ \A j \in p .. q - 1 : isspace(s[j])
      /\ q <= Len(s) => ~isspace(s[q])
      /\ DOMAIN s = 1 .. Len(s)
  BY DEF Reading, SkipsTo
<1>2. ASSUME NEW S \in SUBSET (1 .. Len(s)), \A l \in S : ~isspace(s[l])
      PROVE  Below(S, p) = Below(S, q)
  <2>1. \A l \in S : l < p <=> l < q
    BY <1>1, <1>2
  <2> QED
    BY <2>1, SameBelow
<1>3. Below(Starts(s), p) = Below(Starts(s), q) /\ Below(Ends(s), p) = Below(Ends(s), q)
  <2>1. (\A l \in Starts(s) : ~isspace(s[l])) /\ \A l \in Ends(s) : ~isspace(s[l])
    BY DEF Starts, Ends
  <2> QED
    BY <1>2, <2>1, PlacesOfWords
<1>4. ASSUME q <= Len(s) PROVE q \in Starts(s)
  <2>1. CASE q = p
    BY <1>1, <1>4, <2>1 DEF Reading
  <2>2. CASE q > p
    <3>1. q - 1 \in p .. q - 1 /\ q \in 1 .. Len(s)
      BY <1>1, <1>4, <2>2
    <3> QED
      BY <1>1, <1>4, <3>1 DEF Starts
  <2> QED
    BY <1>1, <2>1, <2>2
<1>5. q \in 1 .. Len(s) + 1
  BY <1>1
<1> QED
  BY <1>3, <1>4, <1>5 DEF Reading

\* Where nothing is left there is no word more.
LEMMA NoWord ==
  ASSUME NEW s \in Seq(STRING), NEW n, Reading(s, Len(s) + 1, n)
  PROVE  n \in Nat /\ DOMAIN Words(s) = 1 .. n /\ Len(Words(s)) = n
<1>1. \A l \in Starts(s) : l < Len(s) + 1
  BY PlacesOfWords
<1>2. Below(Starts(s), Len(s) + 1) = Starts(s)
  BY <1>1, AllBelow
<1> QED
  BY <1>2, PlacesOfWords DEF Reading

\* The places q to e of a line are a word.
IsWord(s, q, e) ==
  /\ e \in q .. Len(s) /\ \A j \in q .. e : ~isspace(s[j])
  /\ \A j \in q .. e - 1 : s[j] # ")"
  /\ e = Len(s) \/ isspace(s[e + 1]) \/ s[e] = ")"

LEMMA NextWord ==
  ASSUME NEW s \in Seq(STRING), NEW q, NEW n, Reading(s, q, n), q \in Starts(s),
         NEW e, IsWord(s, q, e)
  PROVE  /\ n + 1 \in DOMAIN Words(s) /\ Words(s)[n + 1] = SubSeq(s, q, e)
         /\ Reading(s, e + 1, n + 1)
<1>1. /\ q \in 1 .. Len(s) /\ Len(s) \in Nat /\ DOMAIN s = 1 .. Len(s)
      /\ Starts(s) \in SUBSET (1 .. Len(s)) /\ Ends(s) \in SUBSET (1 .. Len(s))
  BY PlacesOfWords
<1>2. q \in Nat /\ e \in Nat /\ q <= e /\ e <= Len(s) /\ q >= 1
  <2>1. e \in q .. Len(s)
    BY DEF IsWord
  <2>2. q \in 1 .. Len(s) /\ Len(s) \in Nat
    BY <1>1
  <2> QED
    BY <2>1, <2>2
<1>3. /\ \A j \in q .. e : ~isspace(s[j])
      /\ \A j \in q .. e - 1 : s[j] # ")"
      /\ e = Len(s) \/ isspace(s[e + 1]) \/ s[e] = ")"
  BY DEF IsWord
<1>4. /\ \A l \in Starts(s) : l \in Nat /\ l >= 1 /\ l <= Len(s)
      /\ \A l \in Ends(s) : l \in Nat /\ l >= 1 /\ l <= Len(s)
  BY <1>1
<1>5. /\ n \in Nat
      /\ Cardinality(Below(Starts(s), q)) = n /\ Cardinality(Below(Ends(s), q)) = n
  BY DEF Reading
<1>6. LET w == Cardinality(Below(Starts(s), q)) + 1 IN
        /\ w \in DOMAIN InOrder(Starts(s)) /\ InOrder(Starts(s))[w] = q
        /\ Cardinality(Below(Starts(s), q + 1)) = w
  <2>1. \A l \in Starts(s) : l < q \/ l >= q
    BY <1>2, <1>4
  <2>2. q \in Nat /\ q >= q /\ Len(s) \in Nat
    BY <1>1, <1>2
  <2> QED
    BY <1>1, <2>1, <2>2, NextInOrder
<1>7. LET w == Cardinality(Below(Ends(s), q)) + 1 IN
        /\ w \in DOMAIN InOrder(Ends(s)) /\ InOrder(Ends(s))[w] = e
        /\ Cardinality(Below(Ends(s), e + 1)) = w
  <2>1. e \in Ends(s)
    <3>1. e \in DOMAIN s /\ e \in q .. e
      BY <1>1, <1>2
    <3>2. e < Len(s) => isspace(s[e + 1]) \/ s[e] = ")"
      <4>1. e < Len(s) => e # Len(s)
        BY <1>2
      <4> QED
        BY <1>3, <4>1
    <3> QED
      BY <1>3, <3>1, <3>2 DEF Ends
  <2>2. ASSUME NEW l \in Ends(s), ~(l < q), ~(l >= e) PROVE FALSE
    <3>1. l \in q .. e - 1 /\ l + 1 \in q .. e /\ l < Len(s)
      BY <1>1, <1>2, <1>4, <2>2
    <3>2. ~isspace(s[l + 1]) /\ s[l] # ")"
      BY <1>3, <3>1
    <3> QED
      BY <3>1, <3>2 DEF Ends
  <2>3. \A l \in Ends(s) : l < q \/ l >= e
    BY <2>2, Zenon
  <2> QED
    BY <1>1, <1>2, <2>1, <2>3, NextInOrder
<1>8. Below(Starts(s), q + 1) = Below(Starts(s), e + 1)
  <2>1. ASSUME NEW l \in Starts(s), l > q, l <= e PROVE FALSE
    <3>1. l - 1 \in q .. e - 1 /\ l - 1 \in q .. e /\ l > 1
      BY <1>2, <1>4, <2>1
    <3>2. ~isspace(s[l - 1]) /\ s[l - 1] # ")"
      BY <1>3, <3>1
    <3> QED
      BY <3>1, <3>2 DEF Starts
  <2>2. \A l \in Starts(s) : l < q + 1 <=> l < e + 1
    BY <1>2, <1>4, <2>1
  <2> QED
    BY <2>2, SameBelow
<1>9. e + 1 \in 1 .. Len(s) + 1 /\ n + 1 \in Nat
  BY <1>1, <1>2, <1>5
<1>10. ASSUME e + 1 <= Len(s), ~isspace(s[e + 1]) PROVE e + 1 \in Starts(s)
  <2>1. e # Len(s) /\ e + 1 \in DOMAIN s /\ (e + 1) - 1 = e
    <3>1. e + 1 <= Len(s) /\ Len(s) \in Nat
      BY <1>1, <1>10
    <3>2. e # Len(s) /\ e + 1 \in 1 .. Len(s) /\ (e + 1) - 1 = e
      BY <1>2, <3>1
    <3> QED
      BY <1>1, <3>2
  <2>2. s[e] = ")"
    BY <1>3, <1>10, <2>1
  <2> QED
    BY <1>10, <2>1, <2>2 DEF Starts
<1>11. Words(s)[n + 1] = SubSeq(s, q, e) /\ n + 1 \in DOMAIN Words(s)
  BY <1>5, <1>6, <1>7 DEF Words
<1> QED
  BY <1>5, <1>6, <1>7, <1>8, <1>9, <1>10, <1>11 DEF Reading

LEMMA WordEnd ==
  ASSUME NEW s \in Seq(STRING), NEW q \in Starts(s)
  PROVE  \E e : IsWord(s, q, e)
<1> DEFINE E == {e \in q .. Len(s) : e = Len(s) \/ isspace(s[e + 1]) \/ s[e] = ")"}
<1>1. q \in 1 .. Len(s) /\ Len(s) \in Nat /\ ~isspace(s[q])
  BY PlacesOfWords DEF Starts
<1>2. Len(s) \in E /\ E \in SUBSET Nat
  BY <1>1
<1>3. PICK e \in E : \A m \in E : e <= m
  BY <1>2, LeastNatural
<1>4. e \in q .. Len(s) /\ (e = Len(s) \/ isspace(s[e + 1]) \/ s[e] = ")")
  OBVIOUS
<1>5. ASSUME NEW j \in q .. e - 1 PROVE s[j] # ")" /\ ~isspace(s[j + 1])
  <2>1. j \in q .. Len(s) /\ ~(e <= j)
    BY <1>1, <1>4
  <2> QED
    BY <1>3, <2>1
<1>6. ASSUME NEW j \in q .. e PROVE ~isspace(s[j])
  <2>1. CASE j = q
    BY <1>1, <2>1
  <2>2. CASE j > q
    <3>1. j - 1 \in q .. e - 1 /\ (j - 1) + 1 = j
      BY <1>1, <1>4, <2>2
    <3> QED
      BY <1>5, <3>1
  <2> QED
    BY <1>1, <2>1, <2>2
<1> QED
  BY <1>4, <1>5, <1>6 DEF IsWord

(* Words that are good. *)

LEMMA GoodPlain ==
  ASSUME NEW word \in Seq(STRING), NEW k, ~InBraces(k)
  PROVE  /\ GoodWord(word, k) <=> IsNumber(word)
         /\ GoodWord(word, k) => DigitsOf(word, k) = word
<1>1. DigitsOf(word, k) = IF IsNumber(word) THEN word ELSE <<"x">>
  BY DEF DigitsOf
<1>2. IsNumber(word) => word # <<"x">>
  <2>1. ~IsDigit("x")
    BY DigitFacts
  <2> QED
    BY <2>1 DEF IsNumber
<1> QED
  BY <1>1, <1>2 DEF GoodWord

LEMMA GoodBraced ==
  ASSUME NEW word \in Seq(STRING), NEW k, InBraces(k)
  PROVE  LET inner == SubSeq(word, 2, Len(word) - 1) IN
         /\ GoodWord(word, k) <=>
              Len(word) >= 2 /\ word[1] = "(" /\ word[Len(word)] = ")" /\ IsNumber(inner)
         /\ GoodWord(word, k) => DigitsOf(word, k) = inner
<1> DEFINE inner == SubSeq(word, 2, Len(word) - 1)
           braces == Len(word) >= 2 /\ word[1] = "(" /\ word[Len(word)] = ")"
<1>1. DigitsOf(word, k) = IF braces /\ IsNumber(inner) THEN inner ELSE <<"x">>
  BY DEF DigitsOf
<1>2. IsNumber(inner) => inner # <<"x">>
  <2>1. ~IsDigit("x")
    BY DigitFacts
  <2> HIDE DEF inner
  <2> QED
    BY <2>1 DEF IsNumber
<1> HIDE DEF inner, braces
<1>3. /\ GoodWord(word, k) <=> braces /\ IsNumber(inner)
      /\ GoodWord(word, k) => DigitsOf(word, k) = inner
  BY <1>1, <1>2 DEF GoodWord
<1> QED
  BY <1>3 DEF inner, braces

LEMMA Slice ==
  ASSUME NEW s \in Seq(STRING), NEW q \in Nat \ {0}, NEW e \in Nat, q <= e + 1, e <= Len(s)
  PROVE  /\ SubSeq(s, q, e) \in Seq(STRING) /\ Len(SubSeq(s, q, e)) = e + 1 - q
         /\ \A i \in 1 .. e + 1 - q : SubSeq(s, q, e)[i] = s[q + i - 1]
         /\ IsNumber(SubSeq(s, q, e)) <=> \A j \in q .. e : IsDigit(s[j])
         /\ q < e => SubSeq(SubSeq(s, q, e), 2, Len(SubSeq(s, q, e)) - 1) =
                       SubSeq(s, q + 1, e - 1)
<1> DEFINE w == SubSeq(s, q, e)
<1>1. /\ w \in Seq(STRING) /\ Len(w) = e + 1 - q /\ DOMAIN w = 1 .. e + 1 - q
      /\ \A i \in 1 .. e + 1 - q : w[i] = s[q + i - 1]
  OBVIOUS
<1> HIDE DEF w
<1>2. IsNumber(w) <=> \A j \in q .. e : IsDigit(s[j])
  <2>1. ASSUME IsNumber(w), NEW j \in q .. e PROVE IsDigit(s[j])
    <3>1. j - q + 1 \in 1 .. e + 1 - q /\ q + (j - q + 1) - 1 = j
      OBVIOUS
    <3> QED
      BY <1>1, <2>1, <3>1 DEF IsNumber
  <2>2. ASSUME \A j \in q .. e : IsDigit(s[j]), NEW i \in 1 .. e + 1 - q
        PROVE  IsDigit(w[i])
    <3>1. q + i - 1 \in q .. e
      OBVIOUS
    <3> QED
      BY <1>1, <2>2, <3>1
  <2> QED
    BY <1>1, <2>1, <2>2 DEF IsNumber
<1>3. ASSUME q < e
      PROVE  SubSeq(w, 2, Len(w) - 1) = SubSeq(s, q + 1, e - 1)
  <2> DEFINE a == SubSeq(w, 2, e + 1 - q - 1)
             b == SubSeq(s, q + 1, e - 1)
  <2>1. /\ a \in Seq(STRING) /\ Len(a) = e - q - 1
        /\ \A i \in 1 .. e - q - 1 : a[i] = s[q + i]
    BY <1>1, <1>3
  <2>2. /\ b \in Seq(STRING) /\ Len(b) = e - q - 1
        /\ \A i \in 1 .. e - q - 1 : b[i] = s[q + i]
    BY <1>3
  <2> HIDE DEF a, b
  <2>3. a = b
    BY <2>1, <2>2, SameSequence
  <2>4. Len(w) - 1 = e + 1 - q - 1
    BY <1>1
  <2> QED
    BY <2>3, <2>4 DEF a, b
<1> QED
  BY <1>1, <1>2, <1>3 DEF w

(* What a call makes of the next word. *)

\* The word that is read is good and has the value v; p is the place after it.
ReadTo(s, n, v, p) ==
  LET word == Words(s)[n + 1] IN
  /\ Reading(s, p, n + 1) /\ n + 1 \in DOMAIN Words(s) /\ GoodWord(word, n + 1)
  /\ v % Ints = Denoted(DigitsOf(word, n + 1)) % Ints

\* There is no word, or it is not good or denotes a number that is no int.
NoneAt(s, n) ==
  IF n + 1 \in DOMAIN Words(s) THEN ~Fits(Words(s)[n + 1], n + 1)
  ELSE DOMAIN Words(s) = 1 .. n /\ Len(Words(s)) = n

LEMMA ReadIntWord ==
  ASSUME NEW s \in Seq(STRING), NEW p, NEW n, Reading(s, p, n), ~InBraces(n + 1)
  PROVE  LET r == readInt(Suffix(s, p)) IN
         /\ r.value \in -1 .. INT_MAX
         /\ r.value >= 0 => \E p2 : r.rest = Suffix(s, p2) /\ ReadTo(s, n, r.value, p2)
         /\ r.value = -1 => NoneAt(s, n)
<1> DEFINE v == readInt(Suffix(s, p)).value
           rest == readInt(Suffix(s, p)).rest
<1>1. p \in 1 .. Len(s) + 1 /\ n \in Nat /\ Len(s) \in Nat
  BY DEF Reading
<1>2. PICK q : /\ SkipsTo(s, p, q)
               /\ q = Len(s) + 1 => v = -1
               /\ q <= Len(s) => \E r \in q + 1 .. Len(s) + 1 :
                     /\ \A j \in q .. r - 1 : ~isspace(s[j])
                     /\ r <= Len(s) => isspace(s[r])
                     /\ readInt(Suffix(s, p)) =
                          [value |-> FoldLeft(AddDigit, 0, SubSeq(s, q, r - 1)),
                           rest |-> Suffix(s, r)]
  BY <1>1, ReadIntAt
<1>3. Reading(s, q, n) /\ (q <= Len(s) => q \in Starts(s))
  BY <1>2, SpacesRead
<1>4. q \in Nat /\ q >= 1 /\ q <= Len(s) + 1
  BY <1>3, <1>1 DEF Reading
<1>5. CASE q = Len(s) + 1
  <2>1. DOMAIN Words(s) = 1 .. n /\ Len(Words(s)) = n
    BY <1>3, <1>5, NoWord
  <2>2. n + 1 \notin 1 .. n
    BY <1>1
  <2>3. NoneAt(s, n)
    BY <2>1, <2>2 DEF NoneAt
  <2>4. v = -1 /\ -1 \in -1 .. INT_MAX /\ ~(-1 >= 0)
    BY <1>2, <1>5, IntFacts
  <2> QED
    BY <2>3, <2>4
<1>6. CASE q <= Len(s)
  <2>1. PICK r \in q + 1 .. Len(s) + 1 :
           /\ \A j \in q .. r - 1 : ~isspace(s[j])
           /\ r <= Len(s) => isspace(s[r])
           /\ readInt(Suffix(s, p)) =
                [value |-> FoldLeft(AddDigit, 0, SubSeq(s, q, r - 1)),
                 rest |-> Suffix(s, r)]
    BY <1>2, <1>6
  <2> DEFINE x == SubSeq(s, q, r - 1)
  <2>2. v = FoldLeft(AddDigit, 0, x) /\ rest = Suffix(s, r)
    BY <2>1
  <2>3. r \in Nat /\ r >= q + 1 /\ r <= Len(s) + 1 /\ r - 1 \in Nat
    BY <1>1, <1>4, <2>1
  <2>4. /\ x \in Seq(STRING)
        /\ IsNumber(x) <=> \A j \in q .. r - 1 : IsDigit(s[j])
    <3>1. q \in Nat \ {0} /\ q <= (r - 1) + 1 /\ r - 1 <= Len(s)
      BY <1>1, <1>4, <2>3
    <3> QED
      BY <2>3, <3>1, Slice
  <2> HIDE DEF v, rest, x
  <2>5. /\ v \in -1 .. INT_MAX
        /\ v >= 0 => IsNumber(x) /\ v % Ints = Denoted(x) % Ints
        /\ IsNumber(x) /\ Denoted(x) <= INT_MAX => v >= 0
    BY <2>2, <2>4, ReadsDenoted
  <2>6. ASSUME v >= 0 PROVE ReadTo(s, n, v, r)
    <3>1. IsNumber(x)
      BY <2>5, <2>6
    <3>2. \A j \in q .. r - 1 : s[j] # ")"
      BY <2>4, <3>1, DigitFacts
    <3>3. IsWord(s, q, r - 1)
      <4>1. r - 1 \in q .. Len(s) /\ \A j \in q .. r - 1 - 1 : j \in q .. r - 1
        BY <1>1, <1>4, <2>3
      <4>2. r - 1 = Len(s) \/ isspace(s[r - 1 + 1])
        <5>1. r - 1 + 1 = r /\ (r <= Len(s) \/ r - 1 = Len(s))
          BY <1>1, <2>3
        <5> QED
          BY <2>1, <5>1
      <4> QED
        BY <2>1, <3>2, <4>1, <4>2 DEF IsWord
    <3>4. n + 1 \in DOMAIN Words(s) /\ Words(s)[n + 1] = x /\ Reading(s, r, n + 1)
      <4>1. /\ n + 1 \in DOMAIN Words(s) /\ Words(s)[n + 1] = x
            /\ Reading(s, r - 1 + 1, n + 1)
        BY <1>3, <1>6, <3>3, NextWord DEF x
      <4>2. r - 1 + 1 = r
        BY <2>3
      <4> QED
        BY <4>1, <4>2
    <3>5. GoodWord(x, n + 1) /\ DigitsOf(x, n + 1) = x
      BY <2>4, <3>1, GoodPlain
    <3> QED
      BY <2>5, <2>6, <3>4, <3>5 DEF ReadTo
  <2>7. ASSUME v = -1 PROVE NoneAt(s, n)
    <3>1. PICK e : IsWord(s, q, e)
      BY <1>3, <1>6, WordEnd
    <3>2. n + 1 \in DOMAIN Words(s) /\ Words(s)[n + 1] = SubSeq(s, q, e)
      BY <1>3, <1>6, <3>1, NextWord
    <3>3. ASSUME Fits(SubSeq(s, q, e), n + 1) PROVE FALSE
      <4>1. e \in q .. Len(s)
        BY <3>1 DEF IsWord
      <4>2. e \in Nat /\ q <= e /\ e <= Len(s)
        BY <1>1, <1>4, <4>1
      <4>3. /\ SubSeq(s, q, e) \in Seq(STRING)
            /\ IsNumber(SubSeq(s, q, e)) <=> \A j \in q .. e : IsDigit(s[j])
        <5>1. q \in Nat \ {0} /\ q <= e + 1
          BY <1>4, <4>2
        <5> QED
          BY <4>2, <5>1, Slice
      <4>4. /\ IsNumber(SubSeq(s, q, e)) /\ Denoted(SubSeq(s, q, e)) <= INT_MAX
        BY <3>3, <4>3, GoodPlain DEF Fits
      <4>5. s[e] # ")"
        <5>1. e \in q .. e
          BY <1>4, <4>2
        <5> QED
          BY <4>3, <4>4, <5>1, DigitFacts
      <4>6. e = Len(s) \/ isspace(s[e + 1])
        BY <3>1, <4>5 DEF IsWord
      <4>7. \A j \in q .. e : ~isspace(s[j])
        BY <3>1 DEF IsWord
      <4>8. e = r - 1
        <5>1. CASE r - 1 < e
          <6>1. r \in q .. e /\ r <= Len(s)
            BY <1>4, <2>3, <4>2, <5>1
          <6> QED
            BY <2>1, <4>7, <6>1
        <5>2. CASE r - 1 > e
          <6>1. e + 1 \in q .. r - 1
            BY <1>4, <2>3, <4>2, <5>2
          <6>2. e # Len(s)
            BY <1>1, <2>3, <4>2, <5>2
          <6> QED
            BY <2>1, <4>6, <6>1, <6>2
        <5> QED
          BY <2>3, <4>2, <5>1, <5>2
      <4>9. v >= 0
        BY <2>5, <4>4, <4>8 DEF x
      <4> QED
        BY <2>7, <4>9
    <3> QED
      BY <3>2, <3>3 DEF NoneAt
  <2> QED
    BY <2>2, <2>5, <2>6, <2>7 DEF v, rest
<1>7. q = Len(s) + 1 \/ q <= Len(s)
  BY <1>1, <1>4
<1> QED
  BY <1>5, <1>6, <1>7

LEMMA ReadBracedWord ==
  ASSUME NEW s \in Seq(STRING), NEW p, NEW n, Reading(s, p, n), InBraces(n + 1)
  PROVE  LET r == readBracedInt(Suffix(s, p)) IN
         /\ r.value \in -1 .. INT_MAX
         /\ r.value >= 0 => \E p2 : r.rest = Suffix(s, p2) /\ ReadTo(s, n, r.value, p2)
         /\ r.value = -1 => NoneAt(s, n)
<1> DEFINE v == readBracedInt(Suffix(s, p)).value
           rest == readBracedInt(Suffix(s, p)).rest
<1>1. p \in 1 .. Len(s) + 1 /\ n \in Nat /\ Len(s) \in Nat
  BY DEF Reading
<1>2. PICK q : /\ SkipsTo(s, p, q)
               /\ q = Len(s) + 1 => v = -1
               /\ q <= Len(s) => \E c \in q + 1 .. Len(s) + 1 :
                     /\ \A j \in q + 1 .. c - 1 : ~isspace(s[j]) /\ s[j] # ")"
                     /\ c <= Len(s) => isspace(s[c]) \/ s[c] = ")"
                     /\ s[q] # "(" \/ c = Len(s) + 1 \/ s[c] # ")" => v = -1
                     /\ s[q] = "(" /\ c <= Len(s) /\ s[c] = ")" =>
                          readBracedInt(Suffix(s, p)) =
                            [value |-> FoldLeft(AddDigit, 0, SubSeq(s, q + 1, c - 1)),
                             rest |-> Suffix(s, c + 1)]
  BY <1>1, ReadBracedAt
<1>3. Reading(s, q, n) /\ (q <= Len(s) => q \in Starts(s))
  BY <1>2, SpacesRead
<1>4. q \in Nat /\ q >= 1 /\ q <= Len(s) + 1
  BY <1>3, <1>1 DEF Reading
<1>5. CASE q = Len(s) + 1
  <2>1. DOMAIN Words(s) = 1 .. n /\ Len(Words(s)) = n
    BY <1>3, <1>5, NoWord
  <2>2. n + 1 \notin 1 .. n
    BY <1>1
  <2>3. NoneAt(s, n)
    BY <2>1, <2>2 DEF NoneAt
  <2>4. v = -1 /\ -1 \in -1 .. INT_MAX /\ ~(-1 >= 0)
    BY <1>2, <1>5, IntFacts
  <2> QED
    BY <2>3, <2>4
<1>6. CASE q <= Len(s)
  <2>1. PICK c \in q + 1 .. Len(s) + 1 :
           /\ \A j \in q + 1 .. c - 1 : ~isspace(s[j]) /\ s[j] # ")"
           /\ c <= Len(s) => isspace(s[c]) \/ s[c] = ")"
           /\ s[q] # "(" \/ c = Len(s) + 1 \/ s[c] # ")" => v = -1
           /\ s[q] = "(" /\ c <= Len(s) /\ s[c] = ")" =>
                readBracedInt(Suffix(s, p)) =
                  [value |-> FoldLeft(AddDigit, 0, SubSeq(s, q + 1, c - 1)),
                   rest |-> Suffix(s, c + 1)]
    BY <1>2, <1>6
  <2> DEFINE x == SubSeq(s, q + 1, c - 1)
             braces == s[q] = "(" /\ c <= Len(s) /\ s[c] = ")"
  <2>2. braces => v = FoldLeft(AddDigit, 0, x) /\ rest = Suffix(s, c + 1)
    BY <2>1
  <2>3. c \in Nat /\ c >= q + 1 /\ c <= Len(s) + 1 /\ c - 1 \in Nat
    BY <1>1, <1>4, <2>1
  <2>4. ~braces => v = -1
    <3>1. c <= Len(s) \/ c = Len(s) + 1
      BY <1>1, <2>3
    <3> QED
      BY <2>1, <3>1
  <2>5. x \in Seq(STRING)
    <3>1. q + 1 \in Nat \ {0} /\ q + 1 <= (c - 1) + 1 /\ c - 1 <= Len(s)
      BY <1>1, <1>4, <2>3
    <3> QED
      BY <2>3, <3>1, Slice
  <2> HIDE DEF v, rest, x
  <2>6. braces => /\ v \in -1 .. INT_MAX
                  /\ v >= 0 => IsNumber(x) /\ v % Ints = Denoted(x) % Ints
                  /\ IsNumber(x) /\ Denoted(x) <= INT_MAX => v >= 0
    BY <2>2, <2>5, ReadsDenoted
  <2>7. -1 \in -1 .. INT_MAX /\ ~(-1 >= 0)
    BY IntFacts
  <2>8. ASSUME NEW e, IsWord(s, q, e)
        PROVE  /\ e \in Nat /\ q <= e /\ e <= Len(s)
               /\ n + 1 \in DOMAIN Words(s) /\ Words(s)[n + 1] = SubSeq(s, q, e)
               /\ Reading(s, e + 1, n + 1)
               /\ SubSeq(s, q, e) \in Seq(STRING) /\ Len(SubSeq(s, q, e)) = e + 1 - q
               /\ SubSeq(s, q, e)[1] = s[q] /\ SubSeq(s, q, e)[e + 1 - q] = s[e]
               /\ q < e => SubSeq(SubSeq(s, q, e), 2, Len(SubSeq(s, q, e)) - 1) =
                            SubSeq(s, q + 1, e - 1)
    <3>1. e \in q .. Len(s)
      BY <2>8 DEF IsWord
    <3>2. e \in Nat /\ q <= e /\ e <= Len(s)
      BY <1>1, <1>4, <3>1
    <3>3. /\ n + 1 \in DOMAIN Words(s) /\ Words(s)[n + 1] = SubSeq(s, q, e)
          /\ Reading(s, e + 1, n + 1)
      BY <1>3, <1>6, <2>8, NextWord
    <3>4. q \in Nat \ {0} /\ q <= e + 1
      BY <1>4, <3>2
    <3>5. /\ SubSeq(s, q, e) \in Seq(STRING) /\ Len(SubSeq(s, q, e)) = e + 1 - q
          /\ \A i \in 1 .. e + 1 - q : SubSeq(s, q, e)[i] = s[q + i - 1]
          /\ q < e => SubSeq(SubSeq(s, q, e), 2, Len(SubSeq(s, q, e)) - 1) =
                            SubSeq(s, q + 1, e - 1)
      BY <3>2, <3>4, Slice
    <3>6. /\ 1 \in 1 .. e + 1 - q /\ q + 1 - 1 = q
          /\ e + 1 - q \in 1 .. e + 1 - q /\ q + (e + 1 - q) - 1 = e
      BY <3>2, <3>4
    <3>7. SubSeq(s, q, e)[1] = s[q] /\ SubSeq(s, q, e)[e + 1 - q] = s[e]
      BY <3>5, <3>6, Zenon
    <3> QED
      BY <3>2, <3>3, <3>5, <3>7
  <2>9. ASSUME v >= 0, braces PROVE ReadTo(s, n, v, c + 1)
    <3>1. IsNumber(x)
      BY <2>6, <2>9
    <3>2. IsWord(s, q, c)
      <4>1. /\ c \in q .. Len(s) /\ ~isspace(s[q])
            /\ \A j \in q .. c - 1 : j = q \/ j \in q + 1 .. c - 1
            /\ \A j \in q .. c : j = q \/ j = c \/ j \in q + 1 .. c - 1
        <5>1. ~isspace(s[q])
          BY <1>3, <1>6 DEF Starts
        <5>2. c <= Len(s)
          BY <2>9
        <5> QED
          BY <1>1, <1>4, <2>3, <5>1, <5>2
      <4>2. ~isspace(s[c]) /\ s[q] # ")"
        BY <2>9 DEF isspace
      <4>3. \A j \in q .. c - 1 : s[j] # ")"
        BY <2>1, <4>1, <4>2, Zenon
      <4>4. \A j \in q .. c : ~isspace(s[j])
        BY <2>1, <4>1, <4>2, Zenon
      <4>5. s[c] = ")"
        BY <2>9
      <4> QED
        BY <4>1, <4>3, <4>4, <4>5 DEF IsWord
    <3> DEFINE word == SubSeq(s, q, c)
    <3>3. /\ n + 1 \in DOMAIN Words(s) /\ Words(s)[n + 1] = word
          /\ Reading(s, c + 1, n + 1) /\ word \in Seq(STRING) /\ Len(word) = c + 1 - q
          /\ word[1] = "(" /\ word[Len(word)] = ")"
          /\ q < c => SubSeq(word, 2, Len(word) - 1) = SubSeq(s, q + 1, c - 1)
      BY <2>8, <2>9, <3>2
    <3> HIDE DEF word
    <3>4. SubSeq(word, 2, Len(word) - 1) = x /\ Len(word) >= 2
      <4>1. q < c /\ c + 1 - q >= 2
        BY <1>4, <2>3
      <4>2. Len(word) >= 2
        BY <3>3, <4>1
      <4> QED
        BY <3>3, <4>1, <4>2 DEF x
    <3>5. GoodWord(word, n + 1) /\ DigitsOf(word, n + 1) = x
      BY <3>1, <3>3, <3>4, GoodBraced
    <3>6. v % Ints = Denoted(x) % Ints
      BY <2>6, <2>9
    <3> QED
      BY <3>3, <3>5, <3>6 DEF ReadTo
  <2>10. ASSUME v = -1 PROVE NoneAt(s, n)
    <3>1. PICK e : IsWord(s, q, e)
      BY <1>3, <1>6, WordEnd
    <3> DEFINE word == SubSeq(s, q, e)
    <3>2. /\ e \in Nat /\ q <= e /\ e <= Len(s)
          /\ n + 1 \in DOMAIN Words(s) /\ Words(s)[n + 1] = word
          /\ word \in Seq(STRING) /\ Len(word) = e + 1 - q
          /\ word[1] = s[q] /\ word[Len(word)] = s[e]
          /\ q < e => SubSeq(word, 2, Len(word) - 1) = SubSeq(s, q + 1, e - 1)
      BY <2>8, <3>1
    <3>4. e \in Nat /\ q <= e /\ e <= Len(s)
      BY <3>2
    <3> HIDE DEF word
    <3>3. ASSUME Fits(word, n + 1) PROVE FALSE
      <4> DEFINE inner == SubSeq(word, 2, Len(word) - 1)
      <4>1. /\ Len(word) >= 2 /\ s[q] = "(" /\ s[e] = ")"
            /\ IsNumber(inner) /\ Denoted(inner) <= INT_MAX
        <5>1. GoodWord(word, n + 1) /\ Denoted(DigitsOf(word, n + 1)) <= INT_MAX
          BY <3>3 DEF Fits
        <5> QED
          BY <3>2, <5>1, GoodBraced
      <4>2. q < e
        BY <1>4, <3>2, <4>1
      <4>3. inner = SubSeq(s, q + 1, e - 1)
        BY <3>2, <4>2
      <4>4. (\A j \in q .. e : ~isspace(s[j])) /\ \A j \in q .. e - 1 : s[j] # ")"
        BY <3>1 DEF IsWord
      <4>5. e = c
        <5>1. CASE c < e
          <6>1. c \in q .. e /\ c \in q .. e - 1 /\ c <= Len(s)
            BY <1>1, <1>4, <2>3, <3>4, <5>1
          <6> QED
            BY <2>1, <4>4, <6>1
        <5>2. CASE c > e
          <6>1. e \in q + 1 .. c - 1
            BY <1>4, <2>3, <3>4, <4>2, <5>2
          <6> QED
            BY <2>1, <4>1, <6>1
        <5> QED
          BY <2>3, <3>2, <5>1, <5>2
      <4>6. braces
        BY <3>2, <4>1, <4>5
      <4>7. inner = x
        BY <4>3, <4>5 DEF x
      <4>8. v >= 0
        BY <2>6, <4>1, <4>6, <4>7
      <4> QED
        BY <2>7, <2>10, <4>8
    <3> QED
      BY <3>2, <3>3 DEF NoneAt
  <2>11. v \in -1 .. INT_MAX /\ (v >= 0 => braces)
    BY <2>4, <2>6, <2>7
  <2> HIDE DEF braces
  <2> QED
    BY <2>2, <2>9, <2>10, <2>11 DEF v, rest
<1>7. q = Len(s) + 1 \/ q <= Len(s)
  BY <1>1, <1>4
<1> QED
  BY <1>5, <1>6, <1>7

LEMMA RestEmpty ==
  ASSUME NEW s \in Seq(STRING), NEW p, NEW n, Reading(s, p, n)
  PROVE  /\ empty(Suffix(s, p)) => DOMAIN Words(s) = 1 .. n /\ Len(Words(s)) = n
         /\ ~empty(Suffix(s, p)) => n + 1 \in DOMAIN Words(s)
<1>1. p \in 1 .. Len(s) + 1 /\ Len(s) \in Nat
  BY DEF Reading
<1>2. PICK q : SkipsTo(s, p, q) /\ SkipSpace(Suffix(s, p)) = Suffix(s, q)
  BY <1>1, SkipSpaceAt
<1>3. Reading(s, q, n) /\ (q <= Len(s) => q \in Starts(s))
  BY <1>2, SpacesRead
<1>4. q \in 1 .. Len(s) + 1
  BY <1>3 DEF Reading
<1>5. empty(Suffix(s, p)) <=> q = Len(s) + 1
  BY <1>2, <1>4, SuffixFacts DEF empty
<1>6. CASE q = Len(s) + 1
  BY <1>3, <1>5, <1>6, NoWord
<1>7. CASE q <= Len(s)
  <2>1. PICK e : IsWord(s, q, e)
    BY <1>3, <1>7, WordEnd
  <2>2. q # Len(s) + 1
    BY <1>1, <1>4, <1>7
  <2> QED
    BY <1>3, <1>5, <1>7, <2>1, <2>2, NextWord
<1> QED
  BY <1>1, <1>4, <1>6, <1>7

\* Where the first error of a line is, when its first n words are good.
LEMMA FirstBadAfter ==
  ASSUME NEW words, NEW m \in Nat, DOMAIN words = 1 .. m, Len(words) = m,
         NEW n \in Nat, n <= m, \A w \in 1 .. n : GoodWord(words[w], w)
  PROVE  /\ FirstBad(words, GoodWord) \notin 1 .. n
         /\ n = m /\ n >= 3 /\ n % 2 = 1 => FirstBad(words, GoodWord) = 0
<1> DEFINE bad == {k \in DOMAIN words : ~GoodWord(words[k], k)}
           first == CHOOSE k \in bad : \A l \in bad : k <= l
<1>1. FirstBad(words, GoodWord) =
        IF bad # {} THEN first
        ELSE IF m < 3 \/ m % 2 = 0 THEN m + 1 ELSE 0
  BY DEF FirstBad
<1>2. bad \in SUBSET (1 .. m) /\ \A k \in bad : k \notin 1 .. n
  OBVIOUS
<1>3. bad # {} => first \in bad
  <2> HIDE DEF bad
  <2>1. ASSUME bad # {} PROVE \E k \in bad : \A l \in bad : k <= l
    BY <1>2, <2>1, LeastNatural
  <2> QED
    BY <2>1
<1>4. n = m => bad = {}
  BY <1>2
<1> HIDE DEF bad, first
<1>5. CASE bad # {}
  BY <1>1, <1>2, <1>3, <1>4, <1>5
<1>6. CASE bad = {}
  BY <1>1, <1>6
<1> QED
  BY <1>5, <1>6

\* Where the first error of a line is, when there is one after its first n words.
LEMMA FirstBadBefore ==
  ASSUME NEW s, NEW n \in Nat, NoneAt(s, n),
         n < 3 \/ n % 2 = 0 \/ n + 1 \in DOMAIN Words(s),
         s \in Seq(STRING)
  PROVE  FirstBad(Words(s), Fits) \in 1 .. n + 1
<1> DEFINE words == Words(s)
           bad == {k \in DOMAIN words : ~Fits(words[k], k)}
           first == CHOOSE k \in bad : \A l \in bad : k <= l
<1>1. FirstBad(words, Fits) =
        IF bad # {} THEN first
        ELSE IF Len(words) < 3 \/ Len(words) % 2 = 0 THEN Len(words) + 1 ELSE 0
  BY DEF FirstBad
<1>2. PICK m \in Nat : DOMAIN words = 1 .. m /\ Len(words) = m
  BY PlacesOfWords
<1> HIDE DEF words
<1>3. bad # {} => first \in bad /\ \A l \in bad : first <= l
  <2>0. bad \in SUBSET Nat
    BY <1>2
  <2> HIDE DEF bad
  <2>1. ASSUME bad # {} PROVE \E k \in bad : \A l \in bad : k <= l
    BY <2>0, <2>1, LeastNatural
  <2> QED
    BY <2>1
<1>4. CASE n + 1 \in DOMAIN words
  <2>1. n + 1 \in bad
    BY <1>4 DEF NoneAt, words
  <2>2. first \in bad /\ first <= n + 1
    <3> HIDE DEF bad, first
    <3> QED
      BY <1>3, <2>1
  <2>3. first \in 1 .. m
    BY <1>2, <2>2
  <2> HIDE DEF bad, first
  <2>4. first \in 1 .. n + 1
    BY <2>2, <2>3
  <2> QED
    BY <1>1, <2>1, <2>4 DEF words
<1>5. CASE n + 1 \notin DOMAIN words
  <2>1. DOMAIN words = 1 .. n /\ Len(words) = n /\ (n < 3 \/ n % 2 = 0)
    BY <1>5 DEF NoneAt, words
  <2>2. CASE bad # {}
    <3>1. first \in 1 .. n
      BY <1>3, <2>1, <2>2
    <3> HIDE DEF bad, first
    <3> QED
      BY <1>1, <2>2, <3>1 DEF words
  <2>3. CASE bad = {}
    <3> HIDE DEF bad, first
    <3>1. FirstBad(words, Fits) = n + 1
      BY <1>1, <2>1, <2>3
    <3> QED
      BY <3>1 DEF words
  <2> QED
    BY <2>2, <2>3
<1> QED
  BY <1>4, <1>5
-----------------------------------------------------------------------------
(* The invariant. *)

Current == Significant[Len(processes) + 1]

Types ==
  /\ file.lines \in Seq(Seq(STRING))
  /\ dest \in Seq(0 .. INT_MAX) /\ processes \in Seq(Seq(0 .. INT_MAX))
  /\ phase \in {"line", "pid", "arrival", "first", "more", "cpu"}
  /\ outcome \in {"reading", "read", "malformed", "too many bursts"}

\* The lines that count are taken in their order: as many as there are processes,
\* and one more while one is being read.
LinesTaken ==
  \E c \in 0 .. Len(file.lines) :
    /\ lines = Suffix(file.lines, c + 1)
    /\ Cardinality(Below(Counting, c + 1)) =
         Len(processes) + (IF phase = "line" THEN 0 ELSE 1)

\* The numbers of d are the first words.
AreRead(words, d) ==
  \A w \in 1 .. Len(d) :
    /\ w \in DOMAIN words /\ GoodWord(words[w], w)
    /\ d[w] % Ints = Denoted(DigitsOf(words[w], w)) % Ints

BeingRead ==
  phase # "line" =>
    /\ Len(processes) + 1 \in DOMAIN Significant /\ Current \in Seq(STRING)
    /\ \E p \in 1 .. Len(Current) + 1 :
         ptr = Suffix(Current, p) /\ Reading(Current, p, Len(dest))
    /\ AreRead(Words(Current), dest)

\* How far each function of the code gets, and that the array is never left.
Phases ==
  LET n == Len(dest) IN
  /\ phase = "pid" => n = 0
  /\ phase = "arrival" => n = 1
  /\ phase = "first" => n = 2
  /\ phase = "more" => n % 2 = 1 /\ n >= 3 /\ n < LastWord
  /\ phase = "cpu" => n % 2 = 0 /\ n >= 4
  /\ n <= LastWord

\* The process p is what the words say.
Faithful(words, p) ==
  /\ Len(p) = Len(words) /\ Len(p) % 2 = 1 /\ Len(p) >= 3 /\ Len(p) < LastWord
  /\ FirstBad(words, GoodWord) = 0
  /\ \A w \in DOMAIN p :
       /\ p[w] \in 0 .. INT_MAX
       /\ p[w] % Ints = Denoted(DigitsOf(words[w], w)) % Ints

Stored ==
  \A k \in DOMAIN processes :
    k \in DOMAIN Significant /\ Faithful(Words(Significant[k]), processes[k])

Counted ==
  /\ outcome = "reading" => Len(processes) <= MAX_PROCESSES
  /\ outcome = "read" =>
       Len(processes) = (IF Len(Significant) > MAX_PROCESSES THEN MAX_PROCESSES + 1
                         ELSE Len(Significant))

IInv ==
  /\ Types /\ LinesTaken /\ BeingRead /\ Phases /\ Stored /\ Counted
  /\ RefusedRightly

(* What the invariant says of the lines, and what steps leave alone. *)

LEMMA ElementsAre ==
  ASSUME NEW T, NEW s \in Seq(T)
  PROVE  DOMAIN s = 1 .. Len(s) /\ \A k \in DOMAIN s : s[k] \in T
  OBVIOUS

LEMMA RestFacts ==
  ASSUME NEW ls \in Seq(Seq(STRING)), NEW p \in 1 .. Len(ls) + 1
  PROVE  /\ Len(Suffix(ls, p)) = Len(ls) + 1 - p
         /\ Suffix(ls, p) = <<>> <=> p = Len(ls) + 1
         /\ p <= Len(ls) =>
              Suffix(ls, p)[1] = ls[p] /\ Tail(Suffix(ls, p)) = Suffix(ls, p + 1)
  BY SuffixFacts

LEMMA OneLeft ==
  ASSUME NEW n \in Nat, NEW c \in Nat
  PROVE  c + 1 = n <=> n + 1 - (c + 1) = 1
  OBVIOUS

LEMMA WholeSuffix ==
  ASSUME NEW T, NEW s \in Seq(T)
  PROVE  Suffix(s, 1) = s
<1>1. /\ Suffix(s, 1) \in Seq(T) /\ Len(Suffix(s, 1)) = Len(s) /\ Len(s) \in Nat
      /\ \A i \in 1 .. Len(s) : Suffix(s, 1)[i] = s[i]
  <2>1. 1 \in 1 .. Len(s) + 1 /\ Len(s) \in Nat
    OBVIOUS
  <2>2. /\ Suffix(s, 1) \in Seq(T) /\ Len(Suffix(s, 1)) = Len(s) + 1 - 1
        /\ \A i \in 1 .. Len(s) + 1 - 1 : Suffix(s, 1)[i] = s[1 + i - 1]
    BY <2>1, SuffixFacts
  <2>3. Len(s) + 1 - 1 = Len(s) /\ \A i \in 1 .. Len(s) : 1 + i - 1 = i
    BY <2>1
  <2> QED
    BY <2>1, <2>2, <2>3
<1> QED
  BY <1>1, SameSequence

LEMMA LinesCount ==
  ASSUME Types
  PROVE  /\ Counting \in SUBSET (1 .. Len(file.lines)) /\ Len(file.lines) \in Nat
         /\ Cardinality(Counting) \in Nat
         /\ DOMAIN InOrder(Counting) = 1 .. Cardinality(Counting)
         /\ DOMAIN Significant = 1 .. Cardinality(Counting)
         /\ Len(Significant) = Cardinality(Counting)
         /\ \A k \in DOMAIN Significant : Significant[k] = file.lines[InOrder(Counting)[k]]
<1>1. Counting \in SUBSET (1 .. Len(file.lines)) /\ Len(file.lines) \in Nat
  <2>1. file.lines \in Seq(Seq(STRING))
    BY DEF Types
  <2>2. Len(file.lines) \in Nat /\ DOMAIN file.lines = 1 .. Len(file.lines)
    BY <2>1
  <2>3. Counting \in SUBSET DOMAIN file.lines
    BY Zenon DEF Counting
  <2> QED
    BY <2>2, <2>3
<1>2. Cardinality(Counting) \in Nat
  <2>1. IsFiniteSet(1 .. Len(file.lines))
    BY <1>1, IntervalCount
  <2> QED
    BY <1>1, <2>1, FS_Subset, FS_CardinalityType
<1> DEFINE m == Cardinality(Counting)
           f == [n \in 1 .. m |-> file.lines[InOrder(Counting)[n]]]
<1>3. DOMAIN InOrder(Counting) = 1 .. m
  BY DEF InOrder
<1>4. Significant = f
  BY <1>3 DEF Significant
<1>5. DOMAIN f = 1 .. m /\ Len(f) = m /\ \A k \in 1 .. m : f[k] = file.lines[InOrder(Counting)[k]]
  <2> HIDE DEF m
  <2>1. m \in Nat
    BY <1>2 DEF m
  <2> QED
    BY <2>1
<1> HIDE DEF f
<1> QED
  BY <1>1, <1>2, <1>3, <1>4, <1>5

LEMMA LengthsAre ==
  ASSUME Types
  PROVE  Len(dest) \in Nat /\ Len(processes) \in Nat
<1>1. dest \in Seq(0 .. INT_MAX) /\ processes \in Seq(Seq(0 .. INT_MAX))
  BY DEF Types
<1> QED
  BY <1>1

LEMMA FileFixed ==
  ASSUME file' = file
  PROVE  Counting' = Counting /\ Significant' = Significant
<1>1. Counting' = Counting
  BY DEF Counting
<1> QED
  BY <1>1 DEF Significant

LEMMA StoredKept ==
  ASSUME Stored, file' = file, processes' = processes
  PROVE  Stored'
  BY FileFixed DEF Stored

\* The words of the current line that have been read are good.
LEMMA GoodSoFar ==
  ASSUME IInv, phase # "line"
  PROVE  \E m \in Nat :
           /\ DOMAIN Words(Current) = 1 .. m /\ Len(Words(Current)) = m
           /\ Len(dest) \in Nat /\ Len(dest) <= m
           /\ \A w \in 1 .. Len(dest) : GoodWord(Words(Current)[w], w)
<1>1. Current \in Seq(STRING) /\ AreRead(Words(Current), dest) /\ Len(dest) \in Nat
  <2>1. Types /\ BeingRead
    BY DEF IInv
  <2>2. Current \in Seq(STRING) /\ AreRead(Words(Current), dest)
    BY <2>1 DEF BeingRead
  <2>3. Len(dest) \in Nat
    BY <2>1, LengthsAre
  <2> QED
    BY <2>2, <2>3
<1>2. PICK m \in Nat : DOMAIN Words(Current) = 1 .. m /\ Len(Words(Current)) = m
  BY <1>1, PlacesOfWords
<1>3. \A w \in 1 .. Len(dest) : w \in 1 .. m /\ GoodWord(Words(Current)[w], w)
  BY <1>1, <1>2 DEF AreRead
<1>4. Len(dest) <= m
  BY <1>1, <1>2, <1>3
<1> QED
  BY <1>1, <1>2, <1>3, <1>4

(* Steps that read a number or refuse the line. *)

Stores(next) ==
  \E v, p :
    /\ v \in 0 .. INT_MAX /\ ReadTo(Current, Len(dest), v, p)
    /\ dest' = Append(dest, v) /\ ptr' = Suffix(Current, p)
    /\ phase' = next /\ UNCHANGED <<file, lines, processes, outcome>>

LEMMA NumberStored ==
  ASSUME IInv, NEW next \in {"arrival", "first", "more", "cpu"},
         phase # "line", outcome = "reading", Stores(next), Phases'
  PROVE  IInv'
<1>1. PICK v, p :
        /\ v \in 0 .. INT_MAX /\ ReadTo(Current, Len(dest), v, p)
        /\ dest' = Append(dest, v) /\ ptr' = Suffix(Current, p)
        /\ phase' = next /\ UNCHANGED <<file, lines, processes, outcome>>
  BY DEF Stores
<1>2. Counting' = Counting /\ Significant' = Significant /\ Current' = Current
  BY <1>1, FileFixed DEF Current
<1>3. Types
  BY DEF IInv
<1>4. /\ dest' \in Seq(0 .. INT_MAX) /\ Len(dest) \in Nat /\ Len(dest') = Len(dest) + 1
      /\ \A w \in 1 .. Len(dest) : dest'[w] = dest[w]
      /\ dest'[Len(dest) + 1] = v
  BY <1>1, <1>3 DEF Types
<1>5. Types'
  BY <1>1, <1>3, <1>4 DEF Types
<1>6. LinesTaken'
  BY <1>1, <1>2 DEF IInv, LinesTaken
<1>7. BeingRead'
  <2>1. /\ Len(processes) + 1 \in DOMAIN Significant /\ Current \in Seq(STRING)
        /\ AreRead(Words(Current), dest)
    BY DEF IInv, BeingRead
  <2>2. /\ Reading(Current, p, Len(dest) + 1) /\ Len(dest) + 1 \in DOMAIN Words(Current)
        /\ GoodWord(Words(Current)[Len(dest) + 1], Len(dest) + 1)
        /\ v % Ints = Denoted(DigitsOf(Words(Current)[Len(dest) + 1], Len(dest) + 1)) % Ints
    BY <1>1 DEF ReadTo
  <2>3. p \in 1 .. Len(Current) + 1
    BY <2>2 DEF Reading
  <2>4. AreRead(Words(Current), dest')
    <3>1. \A w \in 1 .. Len(dest') : w \in 1 .. Len(dest) \/ w = Len(dest) + 1
      BY <1>4
    <3> QED
      BY <1>4, <2>1, <2>2, <3>1 DEF AreRead
  <2>5. Words(Current)' = Words(Current) /\ AreRead(Words(Current), dest)' <=> AreRead(Words(Current), dest')
    BY <1>2
  <2> QED
    BY <1>1, <1>2, <1>4, <2>1, <2>2, <2>3, <2>4 DEF BeingRead
<1>8. Stored'
  BY <1>1, StoredKept DEF IInv
<1>9. Counted' /\ RefusedRightly'
  BY <1>1, <1>2 DEF IInv, Counted, RefusedRightly
<1> QED
  BY <1>5, <1>6, <1>7, <1>8, <1>9 DEF IInv

LEMMA OnlyOutcome ==
  ASSUME IInv, UNCHANGED <<file, lines, ptr, phase, dest, processes>>,
         outcome' \in {"read", "malformed", "too many bursts"}, Counted', RefusedRightly'
  PROVE  IInv'
<1>1. Counting' = Counting /\ Significant' = Significant /\ Current' = Current
  BY FileFixed DEF Current
<1>2. Types' /\ LinesTaken' /\ BeingRead' /\ Phases'
  BY <1>1 DEF IInv, Types, LinesTaken, BeingRead, Phases
<1>3. Stored'
  BY StoredKept DEF IInv
<1> QED
  BY <1>2, <1>3 DEF IInv

LEMMA Malformed ==
  ASSUME IInv, phase # "line", Refuse("malformed"), NoneAt(Current, Len(dest)),
         Len(dest) < 3 \/ Len(dest) % 2 = 0 \/ Len(dest) + 1 \in DOMAIN Words(Current)
  PROVE  IInv'
<1>1. /\ UNCHANGED <<file, lines, ptr, phase, dest, processes>>
      /\ outcome' = "malformed"
  BY DEF Refuse
<1>2. PICK m \in Nat :
        /\ DOMAIN Words(Current) = 1 .. m /\ Len(Words(Current)) = m
        /\ Len(dest) \in Nat /\ Len(dest) <= m
        /\ \A w \in 1 .. Len(dest) : GoodWord(Words(Current)[w], w)
  BY GoodSoFar
<1>3. FirstBad(Words(Current), GoodWord) \notin 1 .. Len(dest)
  BY <1>2, FirstBadAfter
<1>4. FirstBad(Words(Current), Fits) \in 1 .. Len(dest) + 1
  <2>1. Current \in Seq(STRING)
    BY DEF IInv, BeingRead
  <2> QED
    BY <1>2, <2>1, FirstBadBefore
<1>5. Significant' = Significant
  BY <1>1, FileFixed
<1>6. RefusedRightly'
  BY <1>1, <1>3, <1>4, <1>5 DEF RefusedRightly, Current
<1>7. Counted'
  BY <1>1 DEF Counted
<1> QED
  BY <1>1, <1>6, <1>7, OnlyOutcome

LEMMA OneMoreGood ==
  ASSUME NEW words, NEW m \in Nat, DOMAIN words = 1 .. m, Len(words) = m,
         NEW n \in Nat, n <= m, \A w \in 1 .. n : GoodWord(words[w], w),
         n + 1 \in DOMAIN words, GoodWord(words[n + 1], n + 1)
  PROVE  Len(words) > n /\ FirstBad(words, GoodWord) \notin 1 .. n + 1
<1>1. n + 1 \in Nat /\ n + 1 <= m
  OBVIOUS
<1>2. \A w \in 1 .. n + 1 : GoodWord(words[w], w)
  <2>1. \A w \in 1 .. n + 1 : w \in 1 .. n \/ w = n + 1
    OBVIOUS
  <2> QED
    BY <2>1
<1>3. FirstBad(words, GoodWord) \notin 1 .. n + 1
  BY <1>1, <1>2, FirstBadAfter
<1> QED
  BY <1>1, <1>3

LEMMA TooManyBursts ==
  ASSUME IInv, phase # "line", Refuse("too many bursts"), Len(dest) = LastWord,
         Len(dest) + 1 \in DOMAIN Words(Current),
         GoodWord(Words(Current)[Len(dest) + 1], Len(dest) + 1)
  PROVE  IInv'
<1>1. /\ UNCHANGED <<file, lines, ptr, phase, dest, processes>>
      /\ outcome' = "too many bursts"
  BY DEF Refuse
<1>2. /\ Len(Words(Current)) > Len(dest)
      /\ FirstBad(Words(Current), GoodWord) \notin 1 .. Len(dest) + 1
  <2>1. PICK m \in Nat :
          /\ DOMAIN Words(Current) = 1 .. m /\ Len(Words(Current)) = m
          /\ Len(dest) \in Nat /\ Len(dest) <= m
          /\ \A w \in 1 .. Len(dest) : GoodWord(Words(Current)[w], w)
    BY GoodSoFar
  <2> QED
    BY <2>1, OneMoreGood
<1>3. Significant' = Significant
  BY <1>1, FileFixed
<1>4. RefusedRightly'
  BY <1>1, <1>2, <1>3 DEF RefusedRightly, Current
<1>5. Counted'
  BY <1>1 DEF Counted
<1> QED
  BY <1>1, <1>4, <1>5, OnlyOutcome

(* The steps of the parser. *)

LEMMA LastWordIs ==
  LastWord \in Nat /\ LastWord >= 4 /\ LastWord % 2 = 0 /\ LastWord = MAX_BURSTS + 2
<1>1. MAX_BURSTS \in Nat \ {0} /\ MAX_BURSTS % 2 = 0
  BY ReadAssumption
<1>2. MAX_BURSTS >= 2
  BY <1>1
<1> QED
  BY <1>1, <1>2 DEF LastWord

LEMMA CurrentIs ==
  ASSUME IInv, phase # "line"
  PROVE  Current \in Seq(STRING) /\ \E p : ptr = Suffix(Current, p) /\ Reading(Current, p, Len(dest))
  BY DEF IInv, BeingRead

LEMMA DestLonger ==
  ASSUME IInv, NEW next, Stores(next)
  PROVE  Len(dest) \in Nat /\ Len(dest') = Len(dest) + 1 /\ phase' = next
<1>1. PICK v : v \in 0 .. INT_MAX /\ dest' = Append(dest, v) /\ phase' = next
  BY DEF Stores
<1>2. dest \in Seq(0 .. INT_MAX)
  BY DEF IInv, Types
<1> QED
  BY <1>1, <1>2

LEMMA ReadNumberKeeps ==
  ASSUME IInv, NEW this, NEW next, ReadNumber(this, next),
         \/ this = "pid" /\ next = "arrival"
         \/ this = "arrival" /\ next = "first"
         \/ this = "first" /\ next = "more"
  PROVE  IInv'
<1> DEFINE r == readInt(ptr)
<1>1. /\ outcome = "reading" /\ phase = this /\ phase # "line"
      /\ IF r.value < 0 THEN Refuse("malformed") ELSE Store(r, next)
  BY DEF ReadNumber, At
<1>2. /\ Len(dest) \in {0, 1, 2} /\ Len(dest) < 3 /\ Len(dest) \in Nat
      /\ next = "arrival" => Len(dest) = 0
      /\ next = "first" => Len(dest) = 1
      /\ next = "more" => Len(dest) = 2
  <2>1. /\ phase = "pid" => Len(dest) = 0
        /\ phase = "arrival" => Len(dest) = 1
        /\ phase = "first" => Len(dest) = 2
    BY DEF IInv, Phases
  <2>2. \/ Len(dest) = 0 /\ next = "arrival"
        \/ Len(dest) = 1 /\ next = "first"
        \/ Len(dest) = 2 /\ next = "more"
    BY <1>1, <2>1, Zenon
  <2> DEFINE n == Len(dest)
  <2> HIDE DEF n
  <2>3. n \in {0, 1, 2} /\ n < 3 /\ n \in Nat
    <3>1. n = 0 \/ n = 1 \/ n = 2
      BY <2>2, Zenon DEF n
    <3> QED
      BY <3>1
  <2>4. /\ next = "arrival" => n = 0
        /\ next = "first" => n = 1
        /\ next = "more" => n = 2
    BY <2>2 DEF n
  <2> QED
    BY <2>3, <2>4 DEF n
<1>3. ~InBraces(Len(dest) + 1)
  BY <1>2 DEF InBraces
<1>4. PICK p : ptr = Suffix(Current, p) /\ Reading(Current, p, Len(dest))
  BY <1>1, CurrentIs
<1>5. /\ r.value \in -1 .. INT_MAX
      /\ r.value >= 0 => \E p2 : r.rest = Suffix(Current, p2) /\ ReadTo(Current, Len(dest), r.value, p2)
      /\ r.value = -1 => NoneAt(Current, Len(dest))
  BY <1>1, <1>3, <1>4, CurrentIs, ReadIntWord
<1> HIDE DEF r
<1>6. CASE r.value < 0
  <2>1. r.value = -1
    BY <1>5, <1>6
  <2> QED
    BY <1>1, <1>2, <1>5, <1>6, <2>1, Malformed
<1>7. CASE ~(r.value < 0)
  <2>1. r.value \in 0 .. INT_MAX
    BY <1>5, <1>7
  <2>2. Store(r, next)
    BY <1>1, <1>7
  <2>3. Stores(next)
    <3>1. PICK p2 : r.rest = Suffix(Current, p2) /\ ReadTo(Current, Len(dest), r.value, p2)
      BY <1>5, <2>1
    <3>2. /\ dest' = Append(dest, r.value) /\ ptr' = r.rest
          /\ phase' = next /\ UNCHANGED <<file, lines, processes, outcome>>
      BY <2>2 DEF Store, Goto
    <3> QED
      BY <2>1, <3>1, <3>2 DEF Stores
  <2>4. Phases'
    <3>1. Len(dest') = Len(dest) + 1 /\ phase' = next
      BY <2>3, DestLonger
    <3>2. /\ next = "arrival" => Len(dest) + 1 = 1
          /\ next = "first" => Len(dest) + 1 = 2
          /\ next = "more" => Len(dest) + 1 = 3
          /\ Len(dest) + 1 <= 3 /\ next \in {"arrival", "first", "more"}
      <4>1. /\ next = "arrival" \/ next = "first" \/ next = "more"
            /\ next \in {"arrival", "first", "more"}
        OBVIOUS
      <4>2. /\ next = "arrival" => Len(dest) = 0
            /\ next = "first" => Len(dest) = 1
            /\ next = "more" => Len(dest) = 2
        BY <1>2
      <4> DEFINE n == Len(dest)
      <4>3. n = 0 \/ n = 1 \/ n = 2
        BY <4>1, <4>2, Zenon
      <4>4. /\ next = "arrival" => n = 0
            /\ next = "first" => n = 1
            /\ next = "more" => n = 2
        BY <4>2
      <4> HIDE DEF n
      <4>5. n + 1 <= 3 /\ 0 + 1 = 1 /\ 1 + 1 = 2 /\ 2 + 1 = 3
        BY <4>3
      <4>6. /\ next = "arrival" => n + 1 = 1
            /\ next = "first" => n + 1 = 2
            /\ next = "more" => n + 1 = 3
        BY <4>4, <4>5, Zenon
      <4> QED
        BY <4>1, <4>5, <4>6, Zenon DEF n
    <3>3. LastWord \in Nat /\ LastWord >= 4
      BY LastWordIs
    <3> QED
      BY <3>1, <3>2, <3>3 DEF Phases
  <2>5. next \in {"arrival", "first", "more", "cpu"}
    OBVIOUS
  <2> QED
    BY <1>1, <2>3, <2>4, <2>5, NumberStored
<1> QED
  BY <1>6, <1>7

LEMMA ReadIOBurstKeeps ==
  ASSUME IInv, ReadIOBurst
  PROVE  IInv'
<1> DEFINE r == readBracedInt(ptr)
<1>1. /\ outcome = "reading" /\ phase = "more" /\ phase # "line" /\ ~empty(ptr)
      /\ IF r.value = -1 THEN Refuse("malformed") ELSE Store(r, "cpu")
  BY DEF ReadIOBurst, At
<1>2. Len(dest) \in Nat /\ Len(dest) % 2 = 1 /\ Len(dest) >= 3 /\ Len(dest) < LastWord
  <2>1. Len(dest) \in Nat
    BY LengthsAre DEF IInv
  <2> QED
    BY <1>1, <2>1 DEF IInv, Phases
<1>3. InBraces(Len(dest) + 1)
  BY <1>2 DEF InBraces
<1>4. PICK p : ptr = Suffix(Current, p) /\ Reading(Current, p, Len(dest))
  BY <1>1, CurrentIs
<1>5. /\ r.value \in -1 .. INT_MAX
      /\ r.value >= 0 => \E p2 : r.rest = Suffix(Current, p2) /\ ReadTo(Current, Len(dest), r.value, p2)
      /\ r.value = -1 => NoneAt(Current, Len(dest))
  BY <1>1, <1>3, <1>4, CurrentIs, ReadBracedWord
<1>6. Len(dest) + 1 \in DOMAIN Words(Current)
  BY <1>1, <1>4, CurrentIs, RestEmpty
<1> HIDE DEF r
<1>7. CASE r.value = -1
  BY <1>1, <1>5, <1>6, <1>7, Malformed
<1>8. CASE r.value # -1
  <2>1. r.value \in 0 .. INT_MAX
    BY <1>5, <1>8
  <2>2. Store(r, "cpu")
    BY <1>1, <1>8
  <2>3. Stores("cpu")
    <3>1. PICK p2 : r.rest = Suffix(Current, p2) /\ ReadTo(Current, Len(dest), r.value, p2)
      BY <1>5, <2>1
    <3>2. /\ dest' = Append(dest, r.value) /\ ptr' = r.rest
          /\ phase' = "cpu" /\ UNCHANGED <<file, lines, processes, outcome>>
      BY <2>2 DEF Store, Goto
    <3> QED
      BY <2>1, <3>1, <3>2 DEF Stores
  <2>4. Phases'
    <3>1. Len(dest') = Len(dest) + 1 /\ phase' = "cpu"
      BY <2>3, DestLonger
    <3>2. LastWord \in Nat
      BY LastWordIs
    <3>3. (Len(dest) + 1) % 2 = 0 /\ Len(dest) + 1 >= 4 /\ Len(dest) + 1 <= LastWord
      BY <1>2, <3>2
    <3> QED
      BY <3>1, <3>3 DEF Phases
  <2> QED
    BY <1>1, <2>3, <2>4, NumberStored
<1> QED
  BY <1>7, <1>8

LEMMA ReadCPUBurstKeeps ==
  ASSUME IInv, ReadCPUBurst
  PROVE  IInv'
<1> DEFINE r == readInt(ptr)
<1>1. /\ outcome = "reading" /\ phase = "cpu" /\ phase # "line"
      /\ IF r.value = -1 THEN Refuse("malformed")
         ELSE IF Len(dest) - 2 = MAX_BURSTS THEN Refuse("too many bursts")
         ELSE Store(r, "more")
  BY DEF ReadCPUBurst, At, numberOfBursts
<1>2. /\ Len(dest) \in Nat /\ Len(dest) % 2 = 0 /\ Len(dest) >= 4 /\ Len(dest) <= LastWord
  <2>1. Len(dest) \in Nat
    BY LengthsAre DEF IInv
  <2> QED
    BY <1>1, <2>1 DEF IInv, Phases
<1>3. ~InBraces(Len(dest) + 1)
  BY <1>2 DEF InBraces
<1>4. PICK p : ptr = Suffix(Current, p) /\ Reading(Current, p, Len(dest))
  BY <1>1, CurrentIs
<1>5. /\ r.value \in -1 .. INT_MAX
      /\ r.value >= 0 => \E p2 : r.rest = Suffix(Current, p2) /\ ReadTo(Current, Len(dest), r.value, p2)
      /\ r.value = -1 => NoneAt(Current, Len(dest))
  BY <1>1, <1>3, <1>4, CurrentIs, ReadIntWord
<1> HIDE DEF r
<1>6. Len(dest) - 2 = MAX_BURSTS <=> Len(dest) = LastWord
  BY <1>2, ReadAssumption DEF LastWord
<1>7. CASE r.value = -1
  BY <1>1, <1>2, <1>5, <1>7, Malformed
<1>8. CASE r.value # -1
  <2>1. r.value \in 0 .. INT_MAX
    BY <1>5, <1>8
  <2>2. PICK p2 : r.rest = Suffix(Current, p2) /\ ReadTo(Current, Len(dest), r.value, p2)
    BY <1>5, <2>1
  <2>3. CASE Len(dest) = LastWord
    <3>1. /\ Len(dest) + 1 \in DOMAIN Words(Current)
          /\ GoodWord(Words(Current)[Len(dest) + 1], Len(dest) + 1)
      BY <2>2 DEF ReadTo
    <3>2. Refuse("too many bursts")
      BY <1>1, <1>6, <1>8, <2>3
    <3> QED
      BY <1>1, <2>3, <3>1, <3>2, TooManyBursts
  <2>4. CASE Len(dest) # LastWord
    <3>1. Store(r, "more")
      BY <1>1, <1>6, <1>8, <2>4
    <3>2. Stores("more")
      <4>1. /\ dest' = Append(dest, r.value) /\ ptr' = r.rest
            /\ phase' = "more" /\ UNCHANGED <<file, lines, processes, outcome>>
        BY <3>1 DEF Store, Goto
      <4> QED
        BY <2>1, <2>2, <4>1 DEF Stores
    <3>3. Phases'
      <4>1. Len(dest') = Len(dest) + 1 /\ phase' = "more"
        BY <3>2, DestLonger
      <4>2. LastWord \in Nat /\ LastWord % 2 = 0
        BY LastWordIs
      <4>3. (Len(dest) + 1) % 2 = 1 /\ Len(dest) + 1 >= 3 /\ Len(dest) + 1 < LastWord
        BY <1>2, <2>4, <4>2
      <4>4. Len(dest) + 1 <= LastWord
        BY <1>2, <4>2, <4>3
      <4> QED
        BY <4>1, <4>3, <4>4 DEF Phases
    <3> QED
      BY <1>1, <3>2, <3>3, NumberStored
  <2> QED
    BY <2>3, <2>4
<1> QED
  BY <1>7, <1>8

LEMMA ProcessDoneKeeps ==
  ASSUME IInv, ProcessDone
  PROVE  IInv'
<1>1. /\ outcome = "reading" /\ phase = "more" /\ phase # "line" /\ empty(ptr)
      /\ processes' = Append(processes, dest) /\ phase' = "line"
      /\ outcome' = IF Len(processes') > MAX_PROCESSES THEN "read" ELSE "reading"
      /\ UNCHANGED <<file, lines, ptr, dest>>
  BY DEF ProcessDone, At
<1>2. Types /\ LinesTaken /\ BeingRead /\ Phases /\ Stored /\ Counted
  BY DEF IInv
<1>3. /\ Len(dest) \in Nat /\ Len(dest) % 2 = 1 /\ Len(dest) >= 3 /\ Len(dest) < LastWord
      /\ Len(processes) \in Nat
  <2>1. Len(dest) \in Nat /\ Len(processes) \in Nat
    BY <1>2, LengthsAre
  <2> QED
    BY <1>1, <1>2, <2>1 DEF Phases
<1>4. /\ processes' \in Seq(Seq(0 .. INT_MAX)) /\ dest \in Seq(0 .. INT_MAX)
      /\ Len(processes') = Len(processes) + 1
      /\ DOMAIN processes' = 1 .. Len(processes) + 1 /\ DOMAIN processes = 1 .. Len(processes)
      /\ \A k \in 1 .. Len(processes) : processes'[k] = processes[k]
      /\ processes'[Len(processes) + 1] = dest
  <2>1. processes \in Seq(Seq(0 .. INT_MAX)) /\ dest \in Seq(0 .. INT_MAX)
    BY <1>2 DEF Types
  <2> QED
    BY <1>1, <2>1
<1>5. Counting' = Counting /\ Significant' = Significant
  BY <1>1, FileFixed
<1>6. Types'
  BY <1>1, <1>2, <1>4 DEF Types
<1>7. LinesTaken'
  <2>1. PICK c \in 0 .. Len(file.lines) :
          /\ lines = Suffix(file.lines, c + 1)
          /\ Cardinality(Below(Counting, c + 1)) = Len(processes) + 1
    BY <1>1, <1>2 DEF LinesTaken
  <2>2. Cardinality(Below(Counting, c + 1)) = Len(processes') + 0
    BY <1>3, <1>4, <2>1
  <2> QED
    BY <1>1, <1>5, <2>1, <2>2 DEF LinesTaken
<1>8. BeingRead'
  BY <1>1 DEF BeingRead
<1>9. Phases'
  <2>1. Len(dest) <= LastWord
    BY <1>2 DEF Phases
  <2> QED
    BY <1>1, <2>1 DEF Phases
<1>10. Stored'
  <2>1. /\ Len(processes) + 1 \in DOMAIN Significant /\ Current \in Seq(STRING)
        /\ AreRead(Words(Current), dest)
    BY <1>1, <1>2 DEF BeingRead
  <2>2. DOMAIN Words(Current) = 1 .. Len(dest) /\ Len(Words(Current)) = Len(dest)
    BY <1>1, CurrentIs, RestEmpty
  <2>3. FirstBad(Words(Current), GoodWord) = 0
    <3>1. \A w \in 1 .. Len(dest) : GoodWord(Words(Current)[w], w)
      BY <2>1 DEF AreRead
    <3>2. Len(dest) <= Len(dest)
      BY <1>3
    <3> QED
      BY <1>3, <2>2, <3>1, <3>2, FirstBadAfter
  <2>4. Faithful(Words(Current), dest)
    <3>1. dest \in Seq(0 .. INT_MAX)
      BY <1>4
    <3>2. DOMAIN dest = 1 .. Len(dest)
      BY <3>1
    <3>3. \A w \in DOMAIN dest : dest[w] \in 0 .. INT_MAX
      BY <3>1, ElementsAre
    <3> QED
      BY <1>3, <2>1, <2>2, <2>3, <3>2, <3>3 DEF Faithful, AreRead
  <2>5. ASSUME NEW k \in DOMAIN processes'
        PROVE  k \in DOMAIN Significant /\ Faithful(Words(Significant[k]), processes'[k])
    <3>1. CASE k \in 1 .. Len(processes)
      BY <1>2, <1>4, <3>1 DEF Stored
    <3>2. CASE k = Len(processes) + 1
      BY <1>4, <2>1, <2>4, <3>2 DEF Current
    <3> QED
      BY <1>3, <1>4, <3>1, <3>2
  <2> QED
    BY <1>5, <2>5 DEF Stored
<1>11. Counted'
  <2>1. Len(processes) <= MAX_PROCESSES /\ MAX_PROCESSES \in Nat
    BY <1>1, <1>2, ReadAssumption DEF Counted
  <2>2. Len(processes) + 1 \in 1 .. Len(Significant) /\ Len(Significant) \in Nat
    BY <1>1, <1>2, LinesCount DEF BeingRead
  <2>3. CASE Len(processes') > MAX_PROCESSES
    <3>1. Len(processes') = MAX_PROCESSES + 1 /\ Len(Significant) > MAX_PROCESSES
      BY <1>3, <1>4, <2>1, <2>2, <2>3
    <3> QED
      BY <1>1, <1>5, <2>3, <3>1 DEF Counted
  <2>4. CASE ~(Len(processes') > MAX_PROCESSES)
    <3>1. Len(processes') <= MAX_PROCESSES
      BY <1>3, <1>4, <2>1, <2>4
    <3> QED
      BY <1>1, <2>4, <3>1 DEF Counted
  <2> QED
    BY <2>3, <2>4
<1>12. RefusedRightly'
  BY <1>1 DEF RefusedRightly
<1> QED
  BY <1>6, <1>7, <1>8, <1>9, <1>10, <1>11, <1>12 DEF IInv

(* The lines. *)

\* The next line is at the place c + 1 of the file.
LEMMA NextLine ==
  ASSUME IInv, phase = "line", ~Exhausted
  PROVE  \E c \in 0 .. Len(file.lines) :
           /\ c + 1 \in 1 .. Len(file.lines)
           /\ lines[1] = file.lines[c + 1] /\ Tail(lines) = Suffix(file.lines, c + 1 + 1)
           /\ Cardinality(Below(Counting, c + 1)) = Len(processes)
           /\ c + 1 \in Counting <=> ~Ignored(lines[1])
<1>1. Types /\ LinesTaken /\ Len(processes) \in Nat
  BY LengthsAre DEF IInv
<1>2. PICK c \in 0 .. Len(file.lines) :
        /\ lines = Suffix(file.lines, c + 1)
        /\ Cardinality(Below(Counting, c + 1)) = Len(processes) + 0
  BY <1>1 DEF LinesTaken
<1>3. file.lines \in Seq(Seq(STRING)) /\ Len(file.lines) \in Nat
  <2>1. file.lines \in Seq(Seq(STRING))
    BY <1>1 DEF Types
  <2> QED
    BY <1>1, <2>1, LinesCount
<1>4. c + 1 \in 1 .. Len(file.lines) + 1
  BY <1>3
<1>5. /\ Len(lines) = Len(file.lines) + 1 - (c + 1)
      /\ lines = <<>> <=> c + 1 = Len(file.lines) + 1
      /\ c + 1 <= Len(file.lines) =>
           lines[1] = file.lines[c + 1] /\ Tail(lines) = Suffix(file.lines, c + 1 + 1)
  <2> DEFINE rest == Suffix(file.lines, c + 1)
  <2>1. /\ Len(rest) = Len(file.lines) + 1 - (c + 1)
        /\ rest = <<>> <=> c + 1 = Len(file.lines) + 1
        /\ c + 1 <= Len(file.lines) =>
             rest[1] = file.lines[c + 1] /\ Tail(rest) = Suffix(file.lines, c + 1 + 1)
    BY <1>3, <1>4, RestFacts
  <2>2. lines = rest
    BY <1>2
  <2> HIDE DEF rest
  <2> QED
    BY <2>1, <2>2, Zenon
<1>6. lines # <<>> /\ (Len(lines) = 1 => file.ended)
  BY DEF Exhausted
<1>7. c + 1 <= Len(file.lines) /\ (c + 1 = Len(file.lines) => Len(lines) = 1)
  <2>1. c + 1 # Len(file.lines) + 1
    BY <1>5, <1>6
  <2>2. c + 1 <= Len(file.lines)
    BY <1>3, <1>4, <2>1
  <2>3. c + 1 = Len(file.lines) => Len(file.lines) + 1 - (c + 1) = 1
    <3>1. Len(file.lines) \in Nat /\ c \in Nat
      BY <1>3
    <3> QED
      BY <3>1, OneLeft
  <2> QED
    BY <1>5, <2>2, <2>3
<1>8. c + 1 \in Counting <=> ~Ignored(lines[1])
  <2>1. c + 1 \in DOMAIN file.lines
    BY <1>3, <1>4, <1>7
  <2>2. c + 1 < Len(file.lines) \/ file.ended
    BY <1>3, <1>4, <1>6, <1>7
  <2> QED
    BY <1>5, <1>7, <2>1, <2>2 DEF Counting
<1>9. Len(processes) + 0 = Len(processes) /\ c + 1 \in 1 .. Len(file.lines)
  BY <1>1, <1>4, <1>7
<1> QED
  BY <1>2, <1>5, <1>7, <1>8, <1>9

LEMMA IgnoreLineKeeps ==
  ASSUME IInv, IgnoreLine
  PROVE  IInv'
<1>1. /\ outcome = "reading" /\ phase = "line" /\ ~Exhausted /\ Ignored(lines[1])
      /\ lines' = Tail(lines)
      /\ UNCHANGED <<file, ptr, phase, dest, processes, outcome>>
  BY DEF IgnoreLine, At
<1>2. PICK c \in 0 .. Len(file.lines) :
         /\ c + 1 \in 1 .. Len(file.lines)
         /\ lines[1] = file.lines[c + 1] /\ Tail(lines) = Suffix(file.lines, c + 1 + 1)
         /\ Cardinality(Below(Counting, c + 1)) = Len(processes)
         /\ c + 1 \in Counting <=> ~Ignored(lines[1])
  BY <1>1, NextLine
<1>3. /\ Counting' = Counting /\ Significant' = Significant /\ Current' = Current
  BY <1>1, FileFixed DEF Current
<1>4. Types /\ Counting \in SUBSET (1 .. Len(file.lines)) /\ Len(processes) \in Nat
  BY LinesCount, LengthsAre DEF IInv
<1>5. Below(Counting, c + 1) = Below(Counting, c + 1 + 1)
  <2>1. \A l \in Counting : l \in Int /\ l # c + 1
    BY <1>1, <1>2, <1>4
  <2>2. c \in Nat
    BY <1>2
  <2>3. \A l \in Counting : l < c + 1 <=> l < c + 1 + 1
    BY <2>1, <2>2
  <2> QED
    BY <2>3, SameBelow
<1>6. LinesTaken'
  <2>1. c + 1 \in 0 .. Len(file.lines) /\ Len(processes) = Len(processes) + 0
    BY <1>2, <1>4
  <2>2. lines' = Suffix(file.lines, (c + 1) + 1)
    BY <1>1, <1>2
  <2>3. Cardinality(Below(Counting, (c + 1) + 1)) = Len(processes) + 0
    BY <1>2, <1>5, <2>1
  <2> QED
    BY <1>1, <1>3, <2>1, <2>2, <2>3 DEF LinesTaken
<1>7. Types' /\ BeingRead' /\ Phases' /\ Counted' /\ RefusedRightly'
  BY <1>1, <1>3 DEF IInv, Types, BeingRead, Phases, Counted, RefusedRightly
<1>8. Stored'
  BY <1>1, StoredKept DEF IInv
<1> QED
  BY <1>6, <1>7, <1>8 DEF IInv

LEMMA ReadLineKeeps ==
  ASSUME IInv, ReadLine
  PROVE  IInv'
<1>1. /\ outcome = "reading" /\ phase = "line" /\ ~Exhausted /\ ~Ignored(lines[1])
      /\ lines' = Tail(lines) /\ ptr' = lines[1] /\ phase' = "pid" /\ dest' = <<>>
      /\ UNCHANGED <<file, processes, outcome>>
  BY DEF ReadLine, At
<1>2. PICK c \in 0 .. Len(file.lines) :
         /\ c + 1 \in 1 .. Len(file.lines)
         /\ lines[1] = file.lines[c + 1] /\ Tail(lines) = Suffix(file.lines, c + 1 + 1)
         /\ Cardinality(Below(Counting, c + 1)) = Len(processes)
         /\ c + 1 \in Counting <=> ~Ignored(lines[1])
  BY <1>1, NextLine
<1>3. /\ Counting' = Counting /\ Significant' = Significant /\ Current' = Current
  BY <1>1, FileFixed DEF Current
<1>4. /\ Types /\ Counting \in SUBSET (1 .. Len(file.lines)) /\ Len(processes) \in Nat
      /\ Len(file.lines) \in Nat
      /\ DOMAIN InOrder(Counting) = DOMAIN Significant
      /\ \A k \in DOMAIN Significant : Significant[k] = file.lines[InOrder(Counting)[k]]
  BY LinesCount, LengthsAre DEF IInv
<1>5. LET w == Cardinality(Below(Counting, c + 1)) + 1 IN
        /\ w \in DOMAIN InOrder(Counting) /\ InOrder(Counting)[w] = c + 1
        /\ Cardinality(Below(Counting, c + 1 + 1)) = w
  <2>1. \A l \in Counting : l \in Int
    BY <1>4
  <2>2. c + 1 \in Nat /\ c + 1 >= c + 1
    BY <1>2
  <2>3. \A l \in Counting : l < c + 1 \/ l >= c + 1
    BY <2>1, <2>2
  <2>4. c + 1 \in Counting
    BY <1>1, <1>2
  <2> QED
    BY <1>4, <2>2, <2>3, <2>4, NextInOrder
<1>6. LinesTaken'
  <2>1. c + 1 \in 0 .. Len(file.lines)
    BY <1>2, <1>4
  <2>2. lines' = Suffix(file.lines, (c + 1) + 1)
    BY <1>1, <1>2
  <2>3. Cardinality(Below(Counting, (c + 1) + 1)) = Len(processes) + 1
    BY <1>2, <1>5
  <2> QED
    BY <1>1, <1>3, <2>1, <2>2, <2>3 DEF LinesTaken
<1>7. /\ Len(processes) + 1 \in DOMAIN Significant /\ Current = file.lines[c + 1]
      /\ Current = lines[1]
  BY <1>2, <1>4, <1>5 DEF Current
<1>8. Current \in Seq(STRING)
  <2>1. file.lines \in Seq(Seq(STRING))
    BY <1>4 DEF Types
  <2>2. c + 1 \in 1 .. Len(file.lines)
    BY <1>2
  <2>3. file.lines[c + 1] \in Seq(STRING)
    BY <2>1, <2>2
  <2> QED
    BY <1>7, <2>3
<1>9. Len(<<>>) = 0
  OBVIOUS
<1>10. BeingRead'
  <2>1. 1 \in 1 .. Len(Current) + 1 /\ ptr' = Suffix(Current, 1) /\ Reading(Current, 1, 0)
    BY <1>1, <1>7, <1>8, WholeSuffix, NoneRead
  <2>2. AreRead(Words(Current), <<>>)
    BY <1>9 DEF AreRead
  <2> QED
    BY <1>1, <1>3, <1>7, <1>8, <1>9, <2>1, <2>2 DEF BeingRead
<1>11. Types'
  <2>1. <<>> \in Seq(0 .. INT_MAX)
    OBVIOUS
  <2> QED
    BY <1>1, <1>4, <2>1 DEF Types
<1>12. Phases'
  <2>1. 0 <= LastWord
    BY LastWordIs
  <2> QED
    BY <1>1, <1>9, <2>1 DEF Phases
<1>13. Stored'
  BY <1>1, StoredKept DEF IInv
<1>14. Counted' /\ RefusedRightly'
  BY <1>1, <1>3 DEF IInv, Counted, RefusedRightly
<1> QED
  BY <1>6, <1>10, <1>11, <1>12, <1>13, <1>14 DEF IInv

LEMMA EndOfFileKeeps ==
  ASSUME IInv, EndOfFile
  PROVE  IInv'
<1>1. /\ outcome = "reading" /\ phase = "line" /\ Exhausted /\ outcome' = "read"
      /\ UNCHANGED <<file, lines, ptr, phase, dest, processes>>
  BY DEF EndOfFile, At, Refuse
<1>2. Types /\ LinesTaken /\ Counted
  BY DEF IInv
<1>3. /\ Counting \in SUBSET (1 .. Len(file.lines)) /\ Len(file.lines) \in Nat
      /\ Len(Significant) = Cardinality(Counting) /\ Cardinality(Counting) \in Nat
      /\ Len(processes) \in Nat
  BY <1>2, LinesCount, LengthsAre
<1>4. PICK c \in 0 .. Len(file.lines) :
        /\ lines = Suffix(file.lines, c + 1)
        /\ Cardinality(Below(Counting, c + 1)) = Len(processes) + 0
  BY <1>1, <1>2 DEF LinesTaken
<1>5. c \in Nat /\ (c = Len(file.lines) \/ (c + 1 = Len(file.lines) /\ ~file.ended))
  <2>1. file.lines \in Seq(Seq(STRING))
    BY <1>2 DEF Types
  <2>2. c + 1 \in 1 .. Len(file.lines) + 1
    BY <1>3
  <2>3. /\ Len(lines) = Len(file.lines) + 1 - (c + 1)
        /\ lines = <<>> <=> c + 1 = Len(file.lines) + 1
    <3> DEFINE rest == Suffix(file.lines, c + 1)
    <3>1. /\ Len(rest) = Len(file.lines) + 1 - (c + 1)
          /\ rest = <<>> <=> c + 1 = Len(file.lines) + 1
      BY <2>1, <2>2, RestFacts
    <3>2. lines = rest
      BY <1>4
    <3> HIDE DEF rest
    <3> QED
      BY <3>1, <3>2, Zenon
  <2>4. lines = <<>> \/ (Len(lines) = 1 /\ ~file.ended)
    BY <1>1 DEF Exhausted
  <2>5. c + 1 = Len(file.lines) + 1 \/ (Len(file.lines) + 1 - (c + 1) = 1 /\ ~file.ended)
    BY <2>3, <2>4, Zenon
  <2>6. c \in Nat
    BY <1>3
  <2>7. c + 1 = Len(file.lines) + 1 => c = Len(file.lines)
    BY <1>3, <2>6
  <2>8. Len(file.lines) + 1 - (c + 1) = 1 => c + 1 = Len(file.lines)
    BY <1>3, <2>6, OneLeft
  <2> QED
    BY <2>5, <2>6, <2>7, <2>8
<1>6. \A l \in Counting : l < c + 1
  <2>1. \A l \in Counting : l \in 1 .. Len(file.lines) /\ (l < Len(file.lines) \/ file.ended)
    BY <1>3 DEF Counting
  <2> QED
    BY <1>3, <1>5, <2>1
<1>7. Len(processes) = Len(Significant)
  <2>1. Below(Counting, c + 1) = Counting
    BY <1>6, AllBelow
  <2> QED
    BY <1>3, <1>4, <2>1
<1>8. Significant' = Significant
  BY <1>1, FileFixed
<1>9. Counted'
  <2>1. Len(processes) <= MAX_PROCESSES /\ MAX_PROCESSES \in Nat
    BY <1>1, <1>2, ReadAssumption DEF Counted
  <2>2. ~(Len(Significant) > MAX_PROCESSES)
    BY <1>3, <1>7, <2>1
  <2> QED
    BY <1>1, <1>7, <1>8, <2>2 DEF Counted
<1>10. RefusedRightly'
  BY <1>1 DEF RefusedRightly
<1> QED
  BY <1>1, <1>9, <1>10, OnlyOutcome

LEMMA InitHolds == Init => IInv
<1> SUFFICES ASSUME Init PROVE IInv
  OBVIOUS
<1>1. /\ file \in [lines : Seq(Seq(STRING)), ended : BOOLEAN] /\ lines = file.lines
      /\ phase = "line" /\ dest = <<>> /\ processes = <<>> /\ outcome = "reading"
  BY ReadAssumption DEF Init
<1>2. file.lines \in Seq(Seq(STRING))
  BY <1>1
<1>3. Len(<<>>) = 0 /\ <<>> \in Seq(0 .. INT_MAX) /\ <<>> \in Seq(Seq(0 .. INT_MAX))
      /\ DOMAIN <<>> = {}
  OBVIOUS
<1>4. Types
  BY <1>1, <1>2, <1>3 DEF Types
<1>5. LinesTaken
  <2>1. Below(Counting, 0 + 1) = {}
    <3>1. \A l \in Counting : ~(l < 0 + 1)
      BY <1>4, LinesCount
    <3> QED
      BY <3>1 DEF Below
  <2>2. Cardinality({}) = 0 + 0
    BY FS_EmptySet
  <2>3. lines = Suffix(file.lines, 0 + 1) /\ 0 \in 0 .. Len(file.lines)
    BY <1>1, <1>2, WholeSuffix
  <2>4. Cardinality(Below(Counting, 0 + 1)) = Len(processes) + 0
    BY <1>1, <1>3, <2>1, <2>2
  <2> QED
    BY <1>1, <2>3, <2>4 DEF LinesTaken
<1>6. BeingRead /\ Stored
  BY <1>1, <1>3 DEF BeingRead, Stored
<1>7. Phases
  <2>1. 0 <= LastWord
    BY LastWordIs
  <2> QED
    BY <1>1, <1>3, <2>1 DEF Phases
<1>8. Counted /\ RefusedRightly
  <2>1. 0 <= MAX_PROCESSES
    BY ReadAssumption
  <2> QED
    BY <1>1, <1>3, <2>1 DEF Counted, RefusedRightly
<1> QED
  BY <1>4, <1>5, <1>6, <1>7, <1>8 DEF IInv

LEMMA StepHolds == IInv /\ [Next]_vars => IInv'
<1> SUFFICES ASSUME IInv, [Next]_vars PROVE IInv'
  OBVIOUS
<1>1. CASE EndOfFile
  BY <1>1, EndOfFileKeeps
<1>2. CASE IgnoreLine
  BY <1>2, IgnoreLineKeeps
<1>3. CASE ReadLine
  BY <1>3, ReadLineKeeps
<1>4. CASE ReadNumber("pid", "arrival")
  BY <1>4, ReadNumberKeeps
<1>5. CASE ReadNumber("arrival", "first")
  BY <1>5, ReadNumberKeeps
<1>6. CASE ReadNumber("first", "more")
  BY <1>6, ReadNumberKeeps
<1>7. CASE ReadIOBurst
  BY <1>7, ReadIOBurstKeeps
<1>8. CASE ReadCPUBurst
  BY <1>8, ReadCPUBurstKeeps
<1>9. CASE ProcessDone
  BY <1>9, ProcessDoneKeeps
<1>10. CASE UNCHANGED vars
  <2>1. UNCHANGED <<file, lines, ptr, phase, dest, processes, outcome>>
    BY <1>10 DEF vars
  <2>2. Counting' = Counting /\ Significant' = Significant /\ Current' = Current
    BY <2>1, FileFixed DEF Current
  <2>3. Types' /\ LinesTaken' /\ BeingRead' /\ Phases' /\ Counted' /\ RefusedRightly'
    BY <2>1, <2>2
      DEF IInv, Types, LinesTaken, BeingRead, Phases, Counted, RefusedRightly
  <2>4. Stored'
    BY <2>1, StoredKept DEF IInv
  <2> QED
    BY <2>3, <2>4 DEF IInv
<1> QED
  BY <1>1, <1>2, <1>3, <1>4, <1>5, <1>6, <1>7, <1>8, <1>9, <1>10 DEF Next

\* The invariant that the theorems rest on: what has been read of the file is the
\* lines that count, what has been read of the line is whole words, and each number
\* stored is the one that its word denotes.
THEOREM ParserInvariant == Spec => []IInv
<1> QED
  BY InitHolds, StepHolds, PTL DEF Spec

\* The array holds every line that counts and was not refused, in order, and the
\* numbers that are written there.
THEOREM ArrayIsFaithful == Spec => []StoredFaithful
<1>1. IInv => StoredFaithful
  <2> SUFFICES ASSUME IInv PROVE StoredFaithful
    OBVIOUS
  <2>1. numberOfBursts <= MAX_BURSTS
    <3>1. Len(dest) \in Nat
      BY LengthsAre DEF IInv
    <3>2. Len(dest) <= LastWord
      BY DEF IInv, Phases
    <3> QED
      BY <3>1, <3>2, LastWordIs, ReadAssumption DEF numberOfBursts
  <2>2. \A k \in DOMAIN processes : Faithful(Words(Significant[k]), processes[k])
    BY DEF IInv, Stored
  <2>3. Counted
    BY DEF IInv
  <2> QED
    BY <2>1, <2>2, <2>3 DEF StoredFaithful, Faithful, Counted
<1> QED
  BY <1>1, ParserInvariant, PTL

\* No line that has the documented syntax is refused, and the error reported is the
\* first of its line.
THEOREM RefusalIsRight == Spec => []RefusedRightly
<1>1. IInv => RefusedRightly
  BY DEF IInv
<1> QED
  BY <1>1, ParserInvariant, PTL
-----------------------------------------------------------------------------
(* What the simulators assume of the array. *)

\* The set Process of SchHelpers depends on none of its constants.
Helpers == INSTANCE SchHelpers WITH NUMBER_OF_PROCESSORS <- 1, Inputs <- {}

\* The fields of struct process that the numbers of a line fill.
AsProcess(p) ==
  [pid |-> p[1], arrivalTime |-> p[2], bursts |-> SubSeq(p, 3, Len(p))]

\* The array that main goes on with.
Array == [k \in DOMAIN processes |-> AsProcess(processes[k])]

\* Whatever the data file, the array that main goes on with is one that the
\* simulators are modelled for: SchAssumption and FcfsAssumption hold of it.
THEOREM ArrayIsInput ==
  Spec => [](outcome = "read" =>
               Array \in Seq(Helpers!Process) /\ Len(Array) <= MAX_PROCESSES + 1)
<1>1. ASSUME IInv, outcome = "read"
      PROVE  Array \in Seq(Helpers!Process) /\ Len(Array) <= MAX_PROCESSES + 1
  <2> DEFINE n == Len(processes)
  <2>1. Types /\ Stored /\ Counted /\ n \in Nat
    BY <1>1, LengthsAre DEF IInv
  <2>2. DOMAIN processes = 1 .. n /\ \A k \in DOMAIN processes : processes[k] \in Seq(0 .. INT_MAX)
    <3>1. processes \in Seq(Seq(0 .. INT_MAX))
      BY <2>1 DEF Types
    <3> QED
      BY <3>1, ElementsAre
  <2>3. ASSUME NEW k \in 1 .. n PROVE AsProcess(processes[k]) \in Helpers!Process
    <3> DEFINE p == processes[k]
               bursts == SubSeq(p, 3, Len(p))
    <3>1. p \in Seq(0 .. INT_MAX) /\ Len(p) % 2 = 1 /\ Len(p) >= 3
      BY <2>1, <2>2 DEF Stored, Faithful
    <3> HIDE DEF p
    <3>2. Len(p) \in Nat /\ \A w \in 1 .. Len(p) : p[w] \in Nat
      <4>1. DOMAIN p = 1 .. Len(p) /\ \A w \in DOMAIN p : p[w] \in 0 .. INT_MAX
        BY <3>1, ElementsAre
      <4>2. 0 .. INT_MAX \subseteq Nat
        BY IntFacts
      <4> QED
        BY <3>1, <4>1, <4>2
    <3>3. p[1] \in Nat /\ p[2] \in Nat
      BY <3>1, <3>2
    <3>4. bursts \in Seq(Nat) /\ Len(bursts) = Len(p) - 2
      BY <3>1, <3>2
    <3>5. Len(bursts) % 2 = 1
      BY <3>1, <3>2, <3>4
    <3> HIDE DEF bursts
    <3>6. AsProcess(p) = [pid |-> p[1], arrivalTime |-> p[2], bursts |-> bursts]
      BY DEF AsProcess, bursts
    <3>7. AsProcess(p) \in Helpers!Process
      BY <3>3, <3>4, <3>5, <3>6 DEF Helpers!Process
    <3> QED
      BY <3>7 DEF p
  <2>4. Array \in Seq(Helpers!Process) /\ Len(Array) = n
    <3> DEFINE T == Helpers!Process
    <3>1. Array = [k \in 1 .. n |-> AsProcess(processes[k])]
      BY <2>2 DEF Array
    <3> HIDE DEF n, T
    <3>2. \A k \in 1 .. n : AsProcess(processes[k]) \in T
      BY <2>3 DEF n, T
    <3>3. Array \in Seq(T) /\ Len(Array) = n
      BY <2>1, <3>1, <3>2
    <3> QED
      BY <3>3 DEF n, T
  <2>5. n <= MAX_PROCESSES + 1
    <3>1. Len(Significant) \in Nat /\ MAX_PROCESSES \in Nat
      BY <2>1, LinesCount, ReadAssumption
    <3>2. n = (IF Len(Significant) > MAX_PROCESSES THEN MAX_PROCESSES + 1
               ELSE Len(Significant))
      BY <1>1, <2>1 DEF Counted
    <3> HIDE DEF n
    <3> QED
      BY <3>1, <3>2
  <2> QED
    BY <2>4, <2>5
<1> QED
  BY <1>1, ParserInvariant, PTL
=============================================================================
