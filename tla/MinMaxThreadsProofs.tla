------------------------- MODULE MinMaxThreadsProofs -------------------------
(***************************************************************************)
(* Proofs about A1/thread.c for any number of files and any order of the   *)
(* threads: each file is folded once into the result, with the extremes of *)
(* its numbers, and the result is printed after the last.                  *)
(***************************************************************************)
EXTENDS MinMaxThreads, DataLemmas

\* A loop starts with limits that every number passes.
LEMMA StartLimits == Limits(Start, Values)
<1>1. /\ Values \subseteq Int /\ DBL_MIN \in Nat \ {0} /\ DBL_MAX \in Nat /\ DBL_MIN < DBL_MAX
      /\ \A v \in Values : v < DBL_MAX /\ (v = 0 \/ v > DBL_MIN \/ v < -DBL_MIN)
  BY ExtremaAssumption
<1>2. \A v \in Values : v > 0 => v > DBL_MIN
  BY <1>1
<1> QED
  BY <1>1, <1>2 DEF Limits, Start

\* The numbers of a text.
LEMMA NumbersType ==
  ASSUME NEW text \in Seq(Values \cup {Junk})
  PROVE  Numbers(text) \in Seq(Values)
<1> DEFINE t == Append(text, Junk)
           I == {k \in 1 .. Len(t) : t[k] = Junk}
           first == SelectInSeq(t, LAMBDA v : v = Junk)
<1>1. /\ Len(text) \in Nat /\ Len(t) = Len(text) + 1 /\ t[Len(text) + 1] = Junk
      /\ \A k \in 1 .. Len(text) : t[k] = text[k] /\ text[k] \in Values \cup {Junk}
  OBVIOUS
<1>2. first = IF I # {} THEN MinOf(I) ELSE 0
  BY DEF SelectInSeq, Min, MinOf
<1>3. I \in SUBSET (1 .. Len(text) + 1) /\ I # {}
  BY <1>1
<1> HIDE DEF first
<1>4. first \in I /\ \A m \in I : first <= m
  <2> HIDE DEF I
  <2>1. PICK n \in Nat : n = Len(text) + 1
    BY <1>1
  <2>2. MinOf(I) \in I /\ \A m \in I : MinOf(I) <= m
    BY <1>3, <2>1, FirstPlace
  <2> QED
    BY <1>2, <1>3, <2>2
<1>5. first \in 1 .. Len(text) + 1 /\ \A m \in 1 .. first - 1 : text[m] \in Values
  BY <1>1, <1>4
<1>6. SubSeq(text, 1, first - 1) \in Seq(Values)
  BY <1>1, <1>5
<1> QED
  BY <1>6 DEF Numbers, first

\* The scan of a file is a fold over its numbers.
LEMMA ScanIsExtremes ==
  ASSUME NEW text \in Seq(Values \cup {Junk}), NEW s, s = Numbers(text)
  PROVE  IsExtremes(Start, Scan(text), Rest(s, Len(s)), Above(s, Len(s)))
<1> DEFINE D == [min : Int, max : Int]
           n == Len(s)
           step == [e \in D |-> [k \in 1 .. n |-> Look(e, s[k])]]
           IsScan(g) == g = [S \in SUBSET (1 .. n) |->
                               IF S = {} THEN Start ELSE Look(g[S \ {Max(S)}], s[Max(S)])]
           it == CHOOSE g : IsScan(g)
<1>1. s \in Seq(Values) /\ n \in Nat /\ DOMAIN s = 1 .. n
  BY NumbersType
<1>2. Start \in D /\ \A k \in 1 .. n : s[k] \in Int
  <2>1. DBL_MAX \in Int /\ DBL_MIN \in Int /\ Values \subseteq Int
    BY ExtremaAssumption
  <2>2. \A k \in 1 .. n : s[k] \in Values
    BY <1>1
  <2> QED
    BY <2>1, <2>2 DEF Start
<1>3. step \in [D -> [1 .. n -> D]]
  <2>1. ASSUME NEW e \in D, NEW k \in 1 .. n PROVE Look(e, s[k]) \in D
    BY <1>2 DEF Look
  <2> HIDE DEF D, n
  <2>2. \A e \in D : [k \in 1 .. n |-> Look(e, s[k])] \in [1 .. n -> D]
    BY <2>1
  <2> QED
    BY <2>2, Zenon
<1> HIDE DEF D, n
<1>4. PICK g : IsFold(D, g, Start, step, n)
  BY <1>1, <1>2, <1>3, FoldExists
<1>5. IsScan(g)
  <2>1. /\ g \in [SUBSET (1 .. n) -> D]
        /\ g = [S \in SUBSET (1 .. n) |->
                  IF S = {} THEN Start ELSE step[g[S \ {MaxOf(S)}]][MaxOf(S)]]
    BY <1>4 DEF IsFold
  <2>2. ASSUME NEW S \in SUBSET (1 .. n), S # {}
        PROVE  step[g[S \ {MaxOf(S)}]][MaxOf(S)] = Look(g[S \ {Max(S)}], s[Max(S)])
    <3>1. MaxOf(S) \in 1 .. n
      BY <1>1, <2>2, MaxOfPlaces
    <3>2. g[S \ {MaxOf(S)}] \in D
      BY <2>1
    <3>3. Max(S) = MaxOf(S)
      BY DEF Max, MaxOf
    <3> QED
      BY <3>1, <3>2, <3>3
  <2> HIDE DEF step
  <2> QED
    BY <2>1, <2>2
<1>6. IsScan(it)
  BY <1>5
<1>7. Scan(text) = it[1 .. n]
  BY <1>1, Zenon DEF Scan, FoldLeft, MapThenFoldSet
<1> HIDE DEF it
<1>8. it[1 .. 0] = Start
  <2>1. 1 .. 0 = {} /\ {} \in SUBSET (1 .. n)
    OBVIOUS
  <2> QED
    BY <1>6, <2>1
<1>9. ASSUME NEW k \in Nat, k < n PROVE it[1 .. k + 1] = Look(it[1 .. k], s[k + 1])
  <2>1. /\ 1 .. k + 1 \in SUBSET (1 .. n) /\ 1 .. k + 1 # {}
        /\ MaxOf(1 .. k + 1) = k + 1 /\ (1 .. k + 1) \ {k + 1} = 1 .. k
    BY <1>1, <1>9, LastPlace
  <2>2. Max(1 .. k + 1) = k + 1
    BY <2>1 DEF Max, MaxOf
  <2> QED
    BY <1>6, <2>1, <2>2
<1>10. IsExtremes(Start, it[1 .. n], Rest(s, n), Above(s, n))
  BY <1>1, <1>8, <1>9, StartLimits, LoopIsExtremes DEF n, Look
<1> QED
  BY <1>7, <1>10 DEF n

\* A sum and a difference of doubles bring the extremes of a file to main.
LEMMA SumsArrive ==
  ASSUME NEW R \in SUBSET Values, NEW P \in SUBSET Values,
         NEW e, IsExtremes(Start, e, R, P)
  PROVE  Arrives(Start, e, parent_min(Sum(e), Dif(e)), parent_max(Sum(e), Dif(e)))
<1>0. Limits(Start, Values) /\ Start.min = DBL_MAX /\ Start.max = DBL_MIN
  BY StartLimits DEF Start
<1>1. PICK a \in Int, b \in Int :
        /\ a = e.min /\ b = e.max /\ a <= DBL_MAX /\ b >= DBL_MIN
        /\ a # DBL_MAX => a \in Values
        /\ b # DBL_MIN => b \in Values
  BY <1>0, ExtremesType
<1>2. /\ DBL_MIN \in Int /\ DBL_MIN > 0 /\ DBL_MAX \in Int /\ DBL_MIN < DBL_MAX
      /\ INFINITY \in Int /\ DBL_MAX < INFINITY
      /\ -b # DBL_MIN
      /\ b \in {DBL_MIN, -DBL_MIN} <=> b = DBL_MIN
      /\ -b \in {DBL_MIN, -DBL_MIN} <=> b = DBL_MIN
  <2>1. /\ DBL_MIN \in Nat \ {0} /\ DBL_MAX \in Nat /\ INFINITY \in Nat
        /\ DBL_MIN < DBL_MAX /\ DBL_MAX < INFINITY
    BY ExtremaAssumption
  <2> QED
    BY <1>1, <2>1
<1>3. CASE a = DBL_MAX
  <2>1. Sum(e) = DBL_MAX /\ Dif(e) = DBL_MAX
    BY <1>1, <1>3 DEF Sum, Dif, Plus
  <2> QED
    BY <1>0, <1>1, <1>2, <1>3, <2>1, Halves DEF Arrives, parent_min, parent_max
<1>4. CASE a # DBL_MAX /\ b = DBL_MIN /\ a # 0
  <2>1. Sum(e) = a /\ Dif(e) = a
    BY <1>1, <1>2, <1>4 DEF Sum, Dif, Plus
  <2> QED
    BY <1>0, <1>1, <1>4, <2>1, Halves DEF Arrives, parent_min, parent_max
<1>5. CASE a # DBL_MAX /\ ~(b = DBL_MIN /\ a # 0)
  <2>1. Sum(e) = a + b /\ Dif(e) = a + -b
    BY <1>1, <1>2, <1>5 DEF Sum, Dif, Plus
  <2>2. Dif(e) = a - b
    BY <2>1
  <2>3. ~(a + b = DBL_MAX /\ a - b = DBL_MAX)
    BY <1>1, <1>2
  <2> QED
    BY <1>0, <1>1, <1>5, <2>1, <2>2, <2>3, Halves DEF Arrives, parent_min, parent_max
<1> QED
  BY <1>3, <1>4, <1>5
-----------------------------------------------------------------------------
(* The fold. *)

FileNumbers(t) == IF files[t] = NoFile THEN <<>> ELSE Numbers(files[t])
numbers == [t \in Threads |-> FileNumbers(t)]
Folded == {t \in Threads : pc[t] = "ended" /\ tid[t] = "0"}

\* What a thread finds in its file.
Found(t) == IF files[t] = NoFile THEN Start ELSE Scan(files[t])

FilesInv == files \in Seq(Seq(Values \cup {Junk}) \cup {NoFile})

\* A thread stores what it found before it ends, and its slot names it until main
\* has joined it.
ThreadInv(t) ==
  /\ pc[t] \in {"scan", "storeSum", "storeDif"} => tid[t] = "thread"
  /\ tid[t] = "thread" => pc[t] \in {"scan", "storeSum", "storeDif", "ended"}
  /\ pc[t] \in {"storeSum", "storeDif", "ended"} => found[t] = Found(t)
  /\ pc[t] \in {"storeDif", "ended"} => sum[t] = Sum(found[t])
  /\ pc[t] = "ended" => dif[t] = Dif(found[t])

\* Slots main has not come to have no thread; remaining counts those not folded.
SlotsInv ==
  /\ i \in Nat \ {0} /\ DOMAIN pc = Threads /\ DOMAIN tid = Threads
  /\ DOMAIN sum = Threads /\ DOMAIN dif = Threads /\ DOMAIN found = Threads
  /\ \A t \in Threads : ThreadInv(t)
  /\ outcome = "creating" => \A t \in Threads : t >= i => pc[t] = "not created"
  /\ remaining = Len(files) - Cardinality(Folded)
  /\ outcome = "printed" => Folded = Threads

ResultInv == ExtremesOf(Start, all, numbers, Folded)

FoldInv == FilesInv /\ SlotsInv /\ ResultInv

\* The files and their numbers stay.
LEMMA FileFacts ==
  ASSUME FilesInv
  PROVE  /\ Len(files) \in Nat /\ Threads \subseteq Nat /\ IsFiniteSet(Threads)
         /\ Cardinality(Threads) = Len(files)
         /\ \A t \in Threads : files[t] # NoFile => files[t] \in Seq(Values \cup {Junk})
         /\ \A t \in Threads : numbers[t] = FileNumbers(t) /\ numbers[t] \in Seq(Values)
<1> DEFINE S == Seq(Values \cup {Junk}) \cup {NoFile}
<1>1. files \in Seq(S)
  BY DEF FilesInv
<1>2. \A t \in Threads : files[t] \in S
  <2> HIDE DEF S
  <2> QED
    BY <1>1 DEF Threads
<1>3. Len(files) \in Nat
  <2> HIDE DEF S
  <2> QED
    BY <1>1
<1>4. \A t \in Threads : files[t] # NoFile => files[t] \in Seq(Values \cup {Junk})
  BY <1>2
<1>5. \A t \in Threads : numbers[t] = FileNumbers(t) /\ numbers[t] \in Seq(Values)
  <2>1. <<>> \in Seq(Values)
    OBVIOUS
  <2> QED
    BY <1>4, <2>1, NumbersType DEF numbers, FileNumbers
<1>6. Threads \subseteq Nat /\ IsFiniteSet(Threads) /\ Cardinality(Threads) = Len(files)
  <2>1. PICK n \in Nat : n = Len(files)
    BY <1>3
  <2>2. IsFiniteSet(1 .. n) /\ Cardinality(1 .. n) = n
    <3>1. 1 \in Int /\ n \in Int /\ (IF 1 > n THEN 0 ELSE n - 1 + 1) = n
      OBVIOUS
    <3> QED
      BY <3>1, FS_Interval
  <2> QED
    BY <2>1, <2>2 DEF Threads
<1> QED
  BY <1>3, <1>4, <1>5, <1>6

\* What a thread finds are the extremes of the numbers of its file.
LEMMA FoundExtremes ==
  ASSUME FilesInv, NEW t \in Threads
  PROVE  /\ IsExtremes(Start, Found(t), Lows(numbers, t), Above(numbers[t], Len(numbers[t])))
         /\ Arrives(Start, Found(t), parent_min(Sum(Found(t)), Dif(Found(t))),
                 parent_max(Sum(Found(t)), Dif(Found(t))))
<1> DEFINE s == numbers[t]
<1>1. s = FileNumbers(t) /\ s \in Seq(Values) /\ Len(s) \in Nat
  BY FileFacts
<1>2. Rest(s, Len(s)) \subseteq Values /\ Above(s, Len(s)) \subseteq Values
  BY <1>1 DEF Rest, Above
<1>3. IsExtremes(Start, Found(t), Rest(s, Len(s)), Above(s, Len(s)))
  <2>1. CASE files[t] = NoFile
    <3>1. s = <<>> /\ Len(s) = 0 /\ Found(t) = Start
      BY <1>1, <2>1 DEF FileNumbers, Found
    <3> QED
      BY <3>1, StartLimits, StartIsExtremes
  <2>2. CASE files[t] # NoFile
    <3>1. s = Numbers(files[t]) /\ Found(t) = Scan(files[t])
      BY <1>1, <2>2 DEF FileNumbers, Found
    <3> QED
      BY <2>2, <3>1, FileFacts, ScanIsExtremes
  <2> QED
    BY <2>1, <2>2
<1> HIDE DEF s
<1>4. Arrives(Start, Found(t), parent_min(Sum(Found(t)), Dif(Found(t))),
                 parent_max(Sum(Found(t)), Dif(Found(t))))
  BY <1>2, <1>3, SumsArrive
<1> QED
  BY <1>3, <1>4 DEF Lows, s
-----------------------------------------------------------------------------
LEMMA InitFoldInv == Init => FoldInv
<1> SUFFICES ASSUME Init PROVE FoldInv
  OBVIOUS
<1>1. FilesInv
  BY ExtremaAssumption DEF Init, FilesInv
<1>2. Folded = {} /\ Cardinality({}) = 0
  BY FS_EmptySet DEF Init, Folded
<1>3. ResultInv
  BY <1>2, StartLimits, NoExtremes DEF Init, ResultInv
<1>4. \A t \in Threads : ThreadInv(t)
  BY DEF Init, ThreadInv
<1>5. remaining = Len(files) - Cardinality(Folded)
  <2>1. remaining = Len(files) /\ Len(files) \in Nat
    BY <1>1, FileFacts DEF Init
  <2> QED
    BY <1>2, <2>1
<1>6. /\ i = 1 /\ outcome = "creating" /\ \A t \in Threads : pc[t] = "not created"
      /\ DOMAIN pc = Threads /\ DOMAIN tid = Threads
      /\ DOMAIN sum = Threads /\ DOMAIN dif = Threads /\ DOMAIN found = Threads
  BY DEF Init
<1>7. SlotsInv
  <2>1. i \in Nat \ {0} /\ outcome # "printed"
    <3>1. i = 1 /\ outcome = "creating"
      BY <1>6
    <3> QED
      BY <3>1
  <2> QED
    BY <1>4, <1>5, <1>6, <2>1, Zenon DEF SlotsInv
<1> QED
  BY <1>1, <1>3, <1>7 DEF FoldInv

\* The steps of FoldInv that fold nothing: one thread or slot changes at most.
LEMMA NothingFolded ==
  ASSUME FoldInv, NEW t, UNCHANGED <<files, all, remaining>>,
         DOMAIN pc' = Threads, DOMAIN tid' = Threads,
         DOMAIN sum' = Threads, DOMAIN dif' = Threads, DOMAIN found' = Threads,
         \A u \in Threads : u # t => /\ pc'[u] = pc[u] /\ tid'[u] = tid[u]
                                     /\ sum'[u] = sum[u] /\ dif'[u] = dif[u]
                                     /\ found'[u] = found[u],
         t \in Threads => ThreadInv(t)' /\ (t \in Folded' <=> t \in Folded),
         i' \in Nat \ {0},
         outcome' = "creating" => \A u \in Threads : u >= i' => pc'[u] = "not created",
         outcome' = "printed" => Folded = Threads
  PROVE  FoldInv'
<1>1. Threads' = Threads /\ numbers' = numbers /\ FilesInv'
  BY DEF Threads, numbers, FileNumbers, FoldInv, FilesInv
<1>2. Folded' = Folded
  <2>1. ASSUME NEW u \in Threads PROVE u \in Folded' <=> u \in Folded
    <3>1. CASE u = t
      BY <3>1
    <3>2. CASE u # t
      BY <1>1, <3>2 DEF Folded
    <3> QED
      BY <3>1, <3>2
  <2>2. Folded \subseteq Threads /\ Folded' \subseteq Threads
    BY <1>1 DEF Folded
  <2> QED
    BY <2>1, <2>2
<1>3. ASSUME NEW u \in Threads, u # t PROVE ThreadInv(u)'
  <2>1. ThreadInv(u) /\ Found(u)' = Found(u)
    BY DEF FoldInv, SlotsInv, Found
  <2> QED
    BY <1>3, <2>1 DEF ThreadInv
<1>4. \A u \in Threads : ThreadInv(u)'
  BY <1>3
<1> QED
  BY <1>1, <1>2, <1>4 DEF FoldInv, SlotsInv, ResultInv

\* When nothing remains every file is folded.
LEMMA AllFolded ==
  ASSUME FoldInv, ~(remaining > 0) PROVE Folded = Threads
<1>1. /\ IsFiniteSet(Threads) /\ Cardinality(Threads) = Len(files) /\ Folded \subseteq Threads
      /\ Len(files) \in Nat
  BY FileFacts DEF FoldInv, Folded
<1>2. Cardinality(Folded) \in Nat /\ remaining = Len(files) - Cardinality(Folded)
  BY <1>1, FS_Subset, FS_CardinalityType DEF FoldInv, SlotsInv
<1>3. Cardinality(Folded) >= Cardinality(Threads)
  BY <1>1, <1>2
<1> QED
  BY <1>1, <1>2, <1>3, FS_Subset

LEMMA TryJoinFoldInv ==
  ASSUME FoldInv, TryJoin
  PROVE  /\ FoldInv' /\ i \in Threads /\ i \notin Folded /\ Folded' = Folded \cup {i}
<1>1. /\ outcome = "polling" /\ outcome' = "polling" /\ i <= Len(files)
      /\ tid[i] = "thread" /\ pc[i] = "ended" /\ tid' = [tid EXCEPT ![i] = "0"]
      /\ remaining' = remaining - 1 /\ i' = i + 1
      /\ all' = FoldIn(all, sum[i], dif[i])
      /\ UNCHANGED <<files, sum, dif, pc, found>>
  BY DEF TryJoin, Polling
<1>2. /\ FilesInv /\ FilesInv' /\ Threads' = Threads /\ numbers' = numbers
      /\ i \in Nat \ {0} /\ Len(files) \in Nat
      /\ \A t \in Threads : numbers[t] \in Seq(Values)
      /\ DOMAIN tid = Threads /\ IsFiniteSet(Threads)
  BY <1>1, FileFacts DEF Threads, numbers, FileNumbers, FoldInv, FilesInv, SlotsInv
<1>3. i \in Threads
  BY <1>1, <1>2 DEF Threads
<1>4. /\ DOMAIN tid' = Threads /\ tid'[i] = "0"
      /\ \A t \in Threads : t # i => tid'[t] = tid[t]
  BY <1>1, <1>2, <1>3
<1>5. i \notin Folded /\ Folded' = Folded \cup {i}
  BY <1>1, <1>2, <1>3, <1>4 DEF Folded
<1>6. /\ sum[i] = Sum(Found(i)) /\ dif[i] = Dif(Found(i))
  BY <1>1, <1>3 DEF FoldInv, SlotsInv, ThreadInv
<1>7. ExtremesOf(Start, all', numbers, Folded \cup {i})
  <2>1. /\ IsExtremes(Start, Found(i), Lows(numbers, i), Above(numbers[i], Len(numbers[i])))
        /\ Arrives(Start, Found(i), parent_min(sum[i], dif[i]), parent_max(sum[i], dif[i]))
    BY <1>2, <1>3, <1>6, FoundExtremes
  <2>2. ExtremesOf(Start, all, numbers, Folded) /\ \A g \in Folded \cup {i} : numbers[g] \in Seq(Values)
    BY <1>2, <1>3 DEF FoldInv, ResultInv, Folded
  <2>3. all' = [min |-> IF parent_min(sum[i], dif[i]) < all.min
                          THEN parent_min(sum[i], dif[i]) ELSE all.min,
                max |-> IF parent_max(sum[i], dif[i]) > all.max
                          THEN parent_max(sum[i], dif[i]) ELSE all.max]
    BY <1>1 DEF FoldIn
  <2> QED
    BY <2>1, <2>2, <2>3, StartLimits, OneMoreFile
<1>8. ResultInv'
  BY <1>2, <1>5, <1>7 DEF ResultInv
<1>9. \A t \in Threads : ThreadInv(t)'
  BY <1>1, <1>4 DEF FoldInv, SlotsInv, ThreadInv, Found
<1>10. remaining' = Len(files) - Cardinality(Folded')
  <2>1. IsFiniteSet(Folded) /\ Cardinality(Folded) \in Nat
    BY <1>2, FS_Subset, FS_CardinalityType DEF Folded
  <2>2. Cardinality(Folded') = Cardinality(Folded) + 1
    BY <1>5, <2>1, FS_AddElement
  <2> QED
    BY <1>1, <1>2, <2>1, <2>2 DEF FoldInv, SlotsInv
<1>11. SlotsInv'
  BY <1>1, <1>2, <1>4, <1>9, <1>10 DEF FoldInv, SlotsInv
<1> QED
  BY <1>2, <1>3, <1>5, <1>8, <1>11 DEF FoldInv

LEMMA MainFoldInv ==
  ASSUME FoldInv, AllocFails \/ Main, ~TryJoin
  PROVE  /\ FoldInv' /\ Folded' = Folded /\ all' = all /\ files' = files
         /\ outcome' = "printed" => Folded = Threads
<1>0. i \in Nat \ {0} /\ Len(files) \in Nat
  BY FileFacts DEF FoldInv, SlotsInv
<1>1. /\ DOMAIN pc = Threads /\ DOMAIN tid = Threads
      /\ DOMAIN sum = Threads /\ DOMAIN dif = Threads /\ DOMAIN found = Threads
      /\ \A t \in Threads : ThreadInv(t)
      /\ outcome = "creating" => \A t \in Threads : t >= i => pc[t] = "not created"
  BY DEF FoldInv, SlotsInv
<1>2. CASE CreateThread \/ CreateFails
  <2>1. /\ outcome = "creating" /\ outcome' = "creating" /\ i <= Len(files) /\ i' = i + 1
        /\ UNCHANGED <<files, remaining, all, sum, dif, found>>
    BY <1>2, Zenon DEF CreateThread, CreateFails, Creating
  <2>a. PICK state, id :
          /\ pc' = [pc EXCEPT ![i] = state] /\ tid' = [tid EXCEPT ![i] = id]
          /\ \/ state = "scan" /\ id = "thread"
             \/ state = "failed" /\ id # "thread"
    <3>1. CASE CreateThread
      BY <3>1, Zenon DEF CreateThread
    <3>2. CASE CreateFails
      <4>1. PICK junk \in {"0", "no thread"} : tid' = [tid EXCEPT ![i] = junk]
        BY <3>2, Zenon DEF CreateFails
      <4>2. junk # "thread" /\ pc' = [pc EXCEPT ![i] = "failed"]
        BY <3>2, <4>1, Zenon DEF CreateFails
      <4> QED
        BY <4>1, <4>2, Zenon
    <3> QED
      BY <1>2, <3>1, <3>2, Zenon
  <2>2. i \in Threads /\ pc[i] = "not created"
    <3>1. i \in Threads /\ i >= i
      BY <1>0, <2>1 DEF Threads
    <3> QED
      BY <1>1, <2>1, <3>1
  <2>3. /\ DOMAIN pc' = Threads /\ DOMAIN tid' = Threads
        /\ \A u \in Threads : u # i => pc'[u] = pc[u] /\ tid'[u] = tid[u]
        /\ \/ pc'[i] = "scan" /\ tid'[i] = "thread"
           \/ pc'[i] = "failed" /\ tid'[i] # "thread"
    BY <1>1, <2>2, <2>a
  <2>b. PICK t \in Threads : t = i
    BY <2>2
  <2>4. ThreadInv(t)' /\ t \notin Folded' /\ t \notin Folded
    BY <2>2, <2>3, <2>b DEF ThreadInv, Folded
  <2>5. \A u \in Threads : u >= i' => pc'[u] = "not created"
    <3>1. \A u \in Threads : u >= i + 1 => u >= i /\ u # i
      BY <1>0 DEF Threads
    <3> QED
      BY <1>1, <2>1, <2>3, <3>1
  <2>6. i' \in Nat \ {0} /\ Threads' = Threads
    BY <1>0, <2>1 DEF Threads
  <2>7. FoldInv'
    BY <1>1, <2>1, <2>3, <2>b, <2>4, <2>5, <2>6, NothingFolded
  <2>8. Folded' = Folded
    BY <2>3, <2>b, <2>4, <2>6 DEF Folded
  <2> QED
    BY <2>1, <2>7, <2>8
<1>3. CASE AllocFails \/ PassOver \/ JoinCrashes \/ StartPass("creating") \/ StartPass("polling")
  <2>1. /\ i' \in {i, i + 1, 1} /\ outcome' # "creating"
        /\ UNCHANGED <<files, all, remaining, tid, sum, dif, pc, found>>
        /\ outcome' = "printed" => ~(remaining > 0)
    BY <1>3 DEF AllocFails, PassOver, JoinCrashes, StartPass, Polling, slots
  <2>2. outcome' = "printed" => Folded = Threads
    BY <2>1, AllFolded
  <2>3. i' \in Nat \ {0}
    BY <1>0, <2>1
  <2>4. Folded' = Folded /\ \A t \in Threads : ThreadInv(t)'
    BY <1>1, <2>1 DEF Folded, Threads, ThreadInv, Found
  <2>5. FoldInv'
    <3>1. PICK t : t \notin Threads
      <4>1. -1 \notin Threads
        BY <1>0 DEF Threads
      <4> QED
        BY <4>1
    <3> QED
      BY <1>1, <2>1, <2>2, <2>3, <3>1, NothingFolded
  <2> QED
    BY <2>1, <2>2, <2>4, <2>5
<1> QED
  BY <1>2, <1>3 DEF Main

LEMMA ThreadFoldInv ==
  ASSUME FoldInv, NEW t \in Threads, runner(t)
  PROVE  FoldInv' /\ Folded' = Folded /\ all' = all /\ files' = files /\ outcome' = outcome
<1>1. /\ i \in Nat \ {0}
      /\ DOMAIN pc = Threads /\ DOMAIN tid = Threads
      /\ DOMAIN sum = Threads /\ DOMAIN dif = Threads /\ DOMAIN found = Threads
      /\ ThreadInv(t)
      /\ outcome = "creating" => \A u \in Threads : u >= i => pc[u] = "not created"
  BY DEF FoldInv, SlotsInv
<1>2. /\ outcome \in {"creating", "polling"}
      /\ UNCHANGED <<files, outcome, i, remaining, all, tid>>
      /\ \/ /\ pc[t] = "scan" /\ pc' = [pc EXCEPT ![t] = "storeSum"]
            /\ found' = [found EXCEPT ![t] = Found(t)] /\ UNCHANGED <<sum, dif>>
         \/ /\ pc[t] = "storeSum" /\ pc' = [pc EXCEPT ![t] = "storeDif"]
            /\ sum' = [sum EXCEPT ![t] = Sum(found[t])] /\ UNCHANGED <<dif, found>>
         \/ /\ pc[t] = "storeDif" /\ pc' = [pc EXCEPT ![t] = "ended"]
            /\ dif' = [dif EXCEPT ![t] = Dif(found[t])] /\ UNCHANGED <<sum, found>>
  BY DEF runner, ScanFile, StoreSum, StoreDif, ThreadStep, Found
<1>3. /\ DOMAIN pc' = Threads /\ DOMAIN sum' = Threads /\ DOMAIN dif' = Threads
      /\ DOMAIN found' = Threads
      /\ \A u \in Threads : u # t => /\ pc'[u] = pc[u] /\ sum'[u] = sum[u]
                                     /\ dif'[u] = dif[u] /\ found'[u] = found[u]
  BY <1>1, <1>2
<1>4. tid[t] = "thread" /\ tid' = tid /\ Threads' = Threads
  BY <1>1, <1>2 DEF ThreadInv, Threads
<1>5. t \notin Folded /\ t \notin Folded'
  BY <1>4 DEF Folded
<1>6. Folded' = Folded
  BY <1>3, <1>4, <1>5 DEF Folded
<1>7. ThreadInv(t)'
  BY <1>1, <1>2, <1>4 DEF ThreadInv, Found
<1>8. outcome' = "creating" => \A u \in Threads : u >= i' => pc'[u] = "not created"
  <2>1. pc[t] # "not created"
    BY <1>2
  <2> QED
    BY <1>1, <1>2, <1>3, <2>1
<1>9. FoldInv'
  BY <1>1, <1>2, <1>3, <1>4, <1>5, <1>7, <1>8, NothingFolded
<1> QED
  BY <1>2, <1>6, <1>9

LEMMA NextFoldInv == FoldInv /\ [Next]_vars => FoldInv'
<1> SUFFICES ASSUME FoldInv, [Next]_vars PROVE FoldInv'
  OBVIOUS
<1>1. CASE UNCHANGED vars
  BY <1>1 DEF FoldInv, FilesInv, SlotsInv, ThreadInv, ResultInv, Found, Folded, numbers,
     FileNumbers, Threads, vars, slots
<1> QED
  BY <1>1, TryJoinFoldInv, MainFoldInv, ThreadFoldInv DEF Next, Main
-----------------------------------------------------------------------------
\* The abstract result of a set of files.
LEMMA AbstractExtremes ==
  ASSUME FilesInv, NEW F \in SUBSET Threads, NEW e, ExtremesOf(Start, e, numbers, F)
  PROVE  e = Fold!Extremes(F)
<1> DEFINE Ns == [t \in Threads |-> IF files[t] = NoFile THEN <<>> ELSE Numbers(files[t])]
           G == {f \in F : Lows(numbers, f) # {}}
<1>1. Ns = numbers
  BY DEF numbers, FileNumbers
<1>2. \A f \in F : numbers[f] \in Seq(Values) /\ DOMAIN numbers[f] = 1 .. Len(numbers[f])
  BY FileFacts
<1>3. \A s, k : Fold!IsRecord(s, k) <=> IsRecord(s, k)
  BY DEF Fold!IsRecord, IsRecord
<1>4. ASSUME NEW f \in F
      PROVE  /\ Fold!Others(f) = Lows(numbers, f)
             /\ Fold!Positive(f) = Above(numbers[f], Len(numbers[f]))
  <2>1. Fold!Others(f) = {Ns[f][k] : k \in {k \in DOMAIN Ns[f] : ~IsRecord(Ns[f], k)}}
    BY <1>3 DEF Fold!Others
  <2>2. Fold!Positive(f) = {v \in {Ns[f][k] : k \in DOMAIN Ns[f]} : v > 0}
    BY DEF Fold!Positive
  <2> HIDE DEF Ns
  <2> QED
    BY <1>1, <1>2, <2>1, <2>2 DEF Lows, Rest, Above
<1>5. e = [min |-> Min({DBL_MAX} \cup UNION {Lows(numbers, f) : f \in G}),
           max |-> Max({DBL_MIN} \cup UNION {Above(numbers[f], Len(numbers[f])) : f \in G})]
  <2>1. Start.min = DBL_MAX /\ Start.max = DBL_MIN
    BY DEF Start
  <2>2. e = [min |-> MinOf(AllLows(Start, numbers, F)),
             max |-> MaxOf(AllHighs(Start, numbers, F))]
    BY <1>2, StartLimits, ExtremesAre
  <2>3. \A S : MinOf(S) = Min(S) /\ MaxOf(S) = Max(S)
    BY DEF Min, Max, MinOf, MaxOf
  <2> QED
    BY <2>1, <2>2, <2>3 DEF AllLows, AllHighs, WithLows
<1>6. /\ {f \in F : Fold!Others(f) # {}} = G
      /\ UNION {Fold!Others(f) : f \in G} = UNION {Lows(numbers, f) : f \in G}
      /\ UNION {Fold!Positive(f) : f \in G} =
           UNION {Above(numbers[f], Len(numbers[f])) : f \in G}
  BY <1>4
<1>7. Fold!Extremes(F) =
        [min |-> Min({DBL_MAX} \cup UNION {Fold!Others(f) : f \in G}),
         max |-> Max({DBL_MIN} \cup UNION {Fold!Positive(f) : f \in G})]
  BY <1>6 DEF Fold!Extremes, Fold!Min, Fold!Max, Min, Max
<1> QED
  BY <1>5, <1>6, <1>7

(* Whatever the order in which the threads end, each file is folded once into the
   result, with the extremes of its numbers, and the result is printed after the
   last: what main reads of a slot is what its thread has stored there. *)
THEOREM FoldRefines == Spec => FoldSpec
<1>1. ASSUME FoldInv PROVE all = Fold!Extremes(Folded) /\ Folded \in SUBSET Threads
  BY <1>1, AbstractExtremes DEF FoldInv, ResultInv, Folded
<1>2. Init => Fold!Init
  <2> SUFFICES ASSUME Init PROVE Fold!Init
    OBVIOUS
  <2>1. FoldInv /\ Folded = {} /\ outcome # "printed"
    BY InitFoldInv DEF Init, Folded
  <2>2. all = Fold!Extremes({})
    BY <1>1, <2>1
  <2> QED
    BY <2>1, <2>2 DEF Fold!Init, Folded
<1>3. ASSUME FoldInv, [Next]_vars PROVE [Fold!Next]_(Fold!vars)
  <2>1. FoldInv'
    BY <1>3, NextFoldInv
  <2>2. CASE UNCHANGED vars
    BY <2>2 DEF vars, slots, Fold!vars, Threads
  <2>3. CASE TryJoin
    <3>1. PICK t \in Threads : t \notin Folded /\ Folded' = Folded \cup {t}
      BY <1>3, <2>3, TryJoinFoldInv
    <3>2. outcome = "polling" /\ outcome' = "polling" /\ files' = files
      BY <2>3 DEF TryJoin, Polling
    <3>3. numbers' = numbers /\ Threads' = Threads
      BY <3>2 DEF numbers, FileNumbers, Threads
    <3>4. all' = Fold!Extremes(Folded')
      <4>1. ExtremesOf(Start, all', numbers, Folded') /\ Folded' \in SUBSET Threads
        BY <2>1, <3>3 DEF FoldInv, ResultInv, Folded
      <4> QED
        BY <1>3, <4>1, AbstractExtremes DEF FoldInv
    <3>5. t \in Fold!Files
      BY DEF Fold!Files
    <3>6. Fold!Fold(t)
      BY <3>1, <3>2, <3>3, <3>4 DEF Fold!Fold, Folded, numbers, FileNumbers
    <3>7. Fold!Next
      BY <3>5, <3>6, Zenon DEF Fold!Next
    <3> QED
      BY <3>7
  <2>4. ASSUME Folded' = Folded, all' = all, files' = files,
               outcome' = "printed" => outcome = "printed" \/ Folded = Threads,
               outcome = "printed" => outcome' = "printed"
        PROVE  [Fold!Next]_(Fold!vars)
    <3>1. Threads' = Threads
      BY <2>4 DEF Threads
    <3>2. CASE (outcome' = "printed") = (outcome = "printed")
      BY <2>4, <3>1, <3>2 DEF Fold!vars, Folded
    <3>3. CASE outcome' = "printed" /\ outcome # "printed"
      <4>1. Folded = Threads
        BY <2>4, <3>3
      <4>2. Fold!PrintResult
        BY <2>4, <3>1, <3>3, <4>1 DEF Fold!PrintResult, Fold!Files, Folded
      <4> QED
        BY <4>2 DEF Fold!Next
    <3> QED
      BY <2>4, <3>2, <3>3
  <2>5. CASE (AllocFails \/ Main) /\ ~TryJoin
    <3>1. outcome # "printed"
      BY <2>5 DEF AllocFails, Main, CreateThread, CreateFails, Creating, StartPass,
         TryJoin, PassOver, JoinCrashes, Polling
    <3> QED
      BY <1>3, <2>4, <2>5, <3>1, MainFoldInv
  <2>6. CASE \E t \in Threads : runner(t)
    BY <1>3, <2>4, <2>6, ThreadFoldInv
  <2> QED
    BY <1>3, <2>2, <2>3, <2>5, <2>6 DEF Next
<1> QED
  BY <1>2, <1>3, InitFoldInv, NextFoldInv, PTL DEF Spec, FoldSpec, Fold!Spec

\* When a thread could not be created main prints no result at all, however the
\* other threads end and whatever became of the slot's tid.
THEOREM FailureStays == Spec => []FailureIsFinal
<1>1. FoldInv => FailureIsFinal
  BY DEF FoldInv, SlotsInv, Folded, FailureIsFinal
<1> QED
  BY InitFoldInv, NextFoldInv, <1>1, PTL DEF Spec
=============================================================================
