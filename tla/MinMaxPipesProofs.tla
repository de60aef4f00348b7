-------------------------- MODULE MinMaxPipesProofs --------------------------
(***************************************************************************)
(* Proofs about A1/process.c for any number of files: what is in the pipes *)
(* that main and its children share; and each file is folded once into the *)
(* result, with the extremes of its numbers.                               *)
(***************************************************************************)
EXTENDS MinMaxPipes, DataLemmas

\* What a pipe may hold, by how far its child has come.
Contents(k) ==
  pipe[k] \in (IF pc[k] = "read" THEN {<<>>, <<Name>>}
               ELSE IF pc[k] \in {"exit", "ended", "waited for"} THEN {<<>>, <<msg[k]>>}
               ELSE {<<>>})

\* The children from n on have not been forked.
NotForkedFrom(n) == \A k \in Children : k >= n => pc[k] = "not forked"

PipeInv ==
  /\ Len(files) \in Nat /\ i \in Nat \ {0}
  /\ DOMAIN pipe = Children /\ DOMAIN pc = Children /\ DOMAIN msg = Children
  /\ \A k \in Children : Contents(k)
  /\ outcome = "fork" => NotForkedFrom(i)
  /\ outcome = "send" =>
       /\ i \in Children /\ pc[i] = "read" /\ pipe[i] = <<>>
       /\ NotForkedFrom(i + 1)
  /\ outcome = "receive" => j \in Children /\ pc[j] = "waited for"

LEMMA InitPipeInv == Init => PipeInv
<1> SUFFICES ASSUME Init PROVE PipeInv
  OBVIOUS
<1> DEFINE S == Seq(Values \cup {Junk}) \cup {NoFile}
<1>1. files \in Seq(S)
  BY ExtremaAssumption DEF Init
<1> HIDE DEF S
<1>2. Len(files) \in Nat
  BY <1>1
<1>3. \A k \in Children : Contents(k)
  BY DEF Init, Contents
<1>4. /\ outcome = "fork" /\ i = 1 /\ NotForkedFrom(i)
      /\ DOMAIN pipe = Children /\ DOMAIN pc = Children /\ DOMAIN msg = Children
  BY DEF Init, NotForkedFrom
<1> QED
  BY <1>2, <1>3, <1>4 DEF PipeInv

\* One child takes a step: the other pipes are as before.
LEMMA OneChild ==
  ASSUME PipeInv, NEW k \in Children, UNCHANGED <<files, main>>,
         \A c \in Children : c # k => /\ pipe'[c] = pipe[c] /\ pc'[c] = pc[c]
                                      /\ msg'[c] = msg[c],
         DOMAIN pipe' = Children, DOMAIN pc' = Children, DOMAIN msg' = Children,
         Contents(k)', pc[k] # "not forked", pc[k] # "waited for",
         pc[k] = "read" => pipe[k] # <<>>
  PROVE  PipeInv'
<1>1. /\ Children' = Children /\ i' = i /\ j' = j /\ outcome' = outcome
      /\ files' = files
  BY DEF Children, main
<1>2. \A c \in Children : Contents(c)'
  BY <1>1 DEF PipeInv, Contents
<1>3. \A n : NotForkedFrom(n) => NotForkedFrom(n)'
  BY <1>1 DEF NotForkedFrom
<1>4. outcome = "send" => k # i
  BY DEF PipeInv
<1> QED
  BY <1>1, <1>2, <1>3, <1>4 DEF PipeInv

LEMMA ChildPipeInv ==
  ASSUME PipeInv, NEW k \in Children, Child(k) PROVE PipeInv'
<1>1. /\ UNCHANGED <<files, main>> /\ Contents(k)
      /\ DOMAIN pipe = Children /\ DOMAIN pc = Children /\ DOMAIN msg = Children
  BY DEF PipeInv, Child, ReadName, ScanFile, ScanCrashes, WriteResult, Exit, ChildStep
<1>2. CASE ReadName(k)
  <2>1. /\ pc[k] = "read" /\ pc' = [pc EXCEPT ![k] = "scan"] /\ pipe[k] # <<>>
        /\ pipe' = [pipe EXCEPT ![k] = Tail(@)] /\ msg' = msg
    BY <1>2 DEF ReadName, ChildStep
  <2>2. pipe[k] = <<Name>>
    BY <1>1, <2>1 DEF Contents
  <2>3. Contents(k)'
    BY <1>1, <2>1, <2>2 DEF Contents
  <2> QED
    BY <1>1, <2>1, <2>3, OneChild
<1>3. CASE ScanFile(k)
  <2>1. /\ pc[k] = "scan" /\ pc' = [pc EXCEPT ![k] = "write"] /\ pipe' = pipe
        /\ \E m : msg' = [msg EXCEPT ![k] = m]
    BY <1>3 DEF ScanFile, ChildStep
  <2>2. Contents(k)'
    BY <1>1, <2>1 DEF Contents
  <2> QED
    BY <1>1, <2>1, <2>2, OneChild
<1>4. CASE ScanCrashes(k) \/ Exit(k)
  <2>1. /\ pc[k] \in {"scan", "exit"} /\ pc' = [pc EXCEPT ![k] = "ended"]
        /\ pipe' = pipe /\ msg' = msg
    BY <1>4 DEF ScanCrashes, Exit, ChildStep
  <2>2. Contents(k)'
    BY <1>1, <2>1 DEF Contents
  <2> QED
    BY <1>1, <2>1, <2>2, OneChild
<1>5. CASE WriteResult(k)
  <2>1. /\ pc[k] = "write" /\ pc' = [pc EXCEPT ![k] = "exit"] /\ msg' = msg
        /\ pipe' = [pipe EXCEPT ![k] = Append(@, msg[k])]
    BY <1>5 DEF WriteResult, ChildStep, write
  <2>2. pipe[k] = <<>>
    BY <1>1, <2>1 DEF Contents
  <2>3. Contents(k)'
    BY <1>1, <2>1, <2>2 DEF Contents
  <2> QED
    BY <1>1, <2>1, <2>3, OneChild
<1> QED
  BY <1>2, <1>3, <1>4, <1>5 DEF Child

LEMMA MainPipeInv == ASSUME PipeInv, MainStep PROVE PipeInv'
<1>1. files' = files /\ Children' = Children
  BY DEF MainStep, Fork, ForkFails, SendName, ForksDone, Wait, Receive, ReceiveNothing,
     PrintResult, Main, Children
<1>2. /\ i \in Nat \ {0} /\ Children \subseteq Nat /\ \A k \in Children : Contents(k)
      /\ DOMAIN pipe = Children /\ DOMAIN pc = Children /\ DOMAIN msg = Children
  <2>1. Children \subseteq Nat
    BY DEF Children
  <2> QED
    BY <2>1 DEF PipeInv
<1>3. CASE Fork
  <2>1. /\ outcome = "fork" /\ outcome' = "send" /\ i <= Len(files)
        /\ pc' = [pc EXCEPT ![i] = "read"] /\ UNCHANGED <<i, j, pipe, msg>>
    BY <1>3 DEF Fork, Main
  <2>2. i \in Children /\ NotForkedFrom(i)
    <3>1. Len(files) \in Nat
      BY DEF PipeInv
    <3> QED
      BY <1>2, <2>1, <3>1 DEF PipeInv, Children
  <2>3. /\ pc'[i] = "read" /\ pipe'[i] = <<>>
        /\ \A k \in Children : k # i => pc'[k] = pc[k]
        /\ \A k \in Children : k >= i + 1 => pc'[k] = "not forked"
    <3>1. i >= i /\ \A k \in Nat : k >= i + 1 => k >= i /\ k # i
      BY <1>2
    <3>2. pc[i] = "not forked"
      BY <2>2, <3>1 DEF NotForkedFrom
    <3>3. \A k \in Children : k >= i + 1 => k >= i /\ k # i
      BY <1>2, <3>1
    <3> QED
      BY <1>2, <2>1, <2>2, <3>2, <3>3 DEF NotForkedFrom, Contents
  <2>4. \A k \in Children : Contents(k)'
    BY <1>2, <2>1, <2>2, <2>3 DEF Contents
  <2> QED
    BY <1>1, <1>2, <2>1, <2>2, <2>3, <2>4 DEF PipeInv, NotForkedFrom
<1>4. CASE ForkFails \/ PrintResult \/ ReceiveNothing \/ ForksDone
  <2>1. /\ outcome' \in {"failed", "printed", "wait"} /\ UNCHANGED <<pipe, pc, msg>>
        /\ i' \in {i, i + 1, 1}
    BY <1>4 DEF ForkFails, PrintResult, ReceiveNothing, ForksDone, Main, children
  <2>2. \A k \in Children : Contents(k)'
    BY <1>2, <2>1 DEF Contents
  <2>3. i' \in Nat \ {0}
    BY <1>2, <2>1
  <2> QED
    BY <1>1, <1>2, <2>1, <2>2, <2>3 DEF PipeInv
<1>5. CASE SendName
  <2>1. /\ outcome = "send" /\ outcome' = "fork" /\ i' = i + 1
        /\ pipe' = [pipe EXCEPT ![i] = Append(@, Name)] /\ UNCHANGED <<pc, msg>>
    BY <1>5 DEF SendName, Main, write, children
  <2>2. i \in Children /\ pc[i] = "read" /\ pipe[i] = <<>> /\ NotForkedFrom(i + 1)
    BY <2>1 DEF PipeInv
  <2>3. pipe'[i] = <<Name>> /\ \A k \in Children : k # i => pipe'[k] = pipe[k]
    BY <1>2, <2>1, <2>2
  <2>4. \A k \in Children : Contents(k)'
    BY <1>2, <2>1, <2>2, <2>3 DEF Contents
  <2>5. \A k \in Children : k >= i' => pc'[k] = "not forked"
    BY <2>1, <2>2 DEF NotForkedFrom
  <2>6. DOMAIN pipe' = Children /\ i' \in Nat \ {0}
    BY <1>2, <2>1
  <2> QED
    BY <1>1, <1>2, <2>1, <2>4, <2>5, <2>6 DEF PipeInv, NotForkedFrom
<1>6. CASE Wait
  <2>1. PICK k \in Children :
          /\ pc[k] = "ended" /\ j' = k /\ pc' = [pc EXCEPT ![k] = "waited for"]
          /\ outcome' = "receive" /\ UNCHANGED <<i, pipe, msg>>
    BY <1>6 DEF Wait, Main
  <2>2. \A c \in Children : Contents(c)'
    BY <1>2, <2>1 DEF Contents
  <2> QED
    BY <1>1, <1>2, <2>1, <2>2 DEF PipeInv
<1>7. CASE Receive
  <2>1. /\ outcome = "receive" /\ outcome' = "wait" /\ i' = i + 1 /\ pipe[j] # <<>>
        /\ pipe' = [pipe EXCEPT ![j] = Tail(@)] /\ UNCHANGED <<pc, msg>>
    BY <1>7 DEF Receive, Main, children
  <2>2. j \in Children /\ pc[j] = "waited for" /\ pipe[j] = <<msg[j]>>
    BY <1>2, <2>1 DEF PipeInv, Contents
  <2>3. pipe'[j] = <<>> /\ \A k \in Children : k # j => pipe'[k] = pipe[k]
    <3>1. Tail(<<msg[j]>>) = <<>>
      OBVIOUS
    <3>2. pipe'[j] = Tail(pipe[j]) /\ \A k \in Children : k # j => pipe'[k] = pipe[k]
      BY <1>2, <2>1, <2>2
    <3> QED
      BY <2>2, <3>1, <3>2
  <2>4. \A k \in Children : Contents(k)'
    BY <1>2, <2>1, <2>2, <2>3 DEF Contents
  <2>5. DOMAIN pipe' = Children /\ i' \in Nat \ {0}
    BY <1>2, <2>1
  <2> QED
    BY <1>1, <1>2, <2>1, <2>4, <2>5 DEF PipeInv
<1> QED
  BY <1>3, <1>4, <1>5, <1>6, <1>7 DEF MainStep

LEMMA NextPipeInv == PipeInv /\ [Next]_vars => PipeInv'
<1> SUFFICES ASSUME PipeInv, [Next]_vars PROVE PipeInv'
  OBVIOUS
<1>1. CASE UNCHANGED vars
  BY <1>1 DEF PipeInv, Contents, NotForkedFrom, Children, vars, main, children
<1> QED
  BY <1>1, MainPipeInv, ChildPipeInv DEF Next

(* A pipe used in both directions never holds more than one message: the name
   until the child has read it, then the result; main reads a pipe only when its
   child has ended, so never the name it wrote itself. *)
THEOREM MessagesCorrect == Spec => []OneMessage
<1>1. PipeInv => OneMessage
  BY DEF PipeInv, OneMessage, Contents
<1> QED
  BY <1>1, InitPipeInv, NextPipeInv, PTL DEF Spec
-----------------------------------------------------------------------------
(* The scan of a file. *)

\* A loop starts with limits that every number passes.
LEMMA StartLimits == Limits(Start, Values)
<1>1. /\ Values \subseteq Int /\ DBL_MIN \in Nat \ {0} /\ DBL_MAX \in Nat /\ DBL_MIN < DBL_MAX
      /\ \A v \in Values : v < DBL_MAX /\ (v = 0 \/ v > DBL_MIN \/ v < -DBL_MIN)
  BY ExtremaAssumption
<1>2. \A v \in Values : v > 0 => v > DBL_MIN
  BY <1>1
<1> QED
  BY <1>1, <1>2 DEF Limits, Start

\* The numbers of a text.
LEMMA NumbersType ==
  ASSUME NEW text \in Seq(Values \cup {Junk})
  PROVE  Numbers(text) \in Seq(Values)
<1> DEFINE t == Append(text, Junk)
           I == {k \in 1 .. Len(t) : t[k] = Junk}
           first == SelectInSeq(t, LAMBDA v : v = Junk)
<1>1. /\ Len(text) \in Nat /\ Len(t) = Len(text) + 1 /\ t[Len(text) + 1] = Junk
      /\ \A k \in 1 .. Len(text) : t[k] = text[k] /\ text[k] \in Values \cup {Junk}
  OBVIOUS
<1>2. first = IF I # {} THEN MinOf(I) ELSE 0
  BY DEF SelectInSeq, Min, MinOf
<1>3. I \in SUBSET (1 .. Len(text) + 1) /\ I # {}
  BY <1>1
<1> HIDE DEF first
<1>4. first \in I /\ \A m \in I : first <= m
  <2> HIDE DEF I
  <2>1. PICK n \in Nat : n = Len(text) + 1
    BY <1>1
  <2>2. MinOf(I) \in I /\ \A m \in I : MinOf(I) <= m
    BY <1>3, <2>1, FirstPlace
  <2> QED
    BY <1>2, <1>3, <2>2
<1>5. first \in 1 .. Len(text) + 1 /\ \A m \in 1 .. first - 1 : text[m] \in Values
  BY <1>1, <1>4
<1>6. SubSeq(text, 1, first - 1) \in Seq(Values)
  BY <1>1, <1>5
<1> QED
  BY <1>6 DEF Numbers, first

\* The scan of a file is a fold over its numbers.
LEMMA ScanIsExtremes ==
  ASSUME NEW text \in Seq(Values \cup {Junk}), NEW s, s = Numbers(text)
  PROVE  IsExtremes(Start, Scan(text), Rest(s, Len(s)), Above(s, Len(s)))
<1> DEFINE D == [min : Int, max : Int]
           n == Len(s)
           step == [e \in D |-> [k \in 1 .. n |-> Look(e, s[k])]]
           IsScan(g) == g = [S \in SUBSET (1 .. n) |->
                               IF S = {} THEN Start ELSE Look(g[S \ {Max(S)}], s[Max(S)])]
           it == CHOOSE g : IsScan(g)
<1>1. s \in Seq(Values) /\ n \in Nat /\ DOMAIN s = 1 .. n
  BY NumbersType
<1>2. Start \in D /\ \A k \in 1 .. n : s[k] \in Int
  <2>1. DBL_MAX \in Int /\ DBL_MIN \in Int /\ Values \subseteq Int
    BY ExtremaAssumption
  <2>2. \A k \in 1 .. n : s[k] \in Values
    BY <1>1
  <2> QED
    BY <2>1, <2>2 DEF Start
<1>3. step \in [D -> [1 .. n -> D]]
  <2>1. ASSUME NEW e \in D, NEW k \in 1 .. n PROVE Look(e, s[k]) \in D
    BY <1>2 DEF Look
  <2> HIDE DEF D, n
  <2>2. \A e \in D : [k \in 1 .. n |-> Look(e, s[k])] \in [1 .. n -> D]
    BY <2>1
  <2> QED
    BY <2>2, Zenon
<1> HIDE DEF D, n
<1>4. PICK g : IsFold(D, g, Start, step, n)
  BY <1>1, <1>2, <1>3, FoldExists
<1>5. IsScan(g)
  <2>1. /\ g \in [SUBSET (1 .. n) -> D]
        /\ g = [S \in SUBSET (1 .. n) |->
                  IF S = {} THEN Start ELSE step[g[S \ {MaxOf(S)}]][MaxOf(S)]]
    BY <1>4 DEF IsFold
  <2>2. ASSUME NEW S \in SUBSET (1 .. n), S # {}
        PROVE  step[g[S \ {MaxOf(S)}]][MaxOf(S)] = Look(g[S \ {Max(S)}], s[Max(S)])
    <3>1. MaxOf(S) \in 1 .. n
      BY <1>1, <2>2, MaxOfPlaces
    <3>2. g[S \ {MaxOf(S)}] \in D
      BY <2>1
    <3>3. Max(S) = MaxOf(S)
      BY DEF Max, MaxOf
    <3> QED
      BY <3>1, <3>2, <3>3
  <2> HIDE DEF step
  <2> QED
    BY <2>1, <2>2
<1>6. IsScan(it)
  BY <1>5
<1>7. Scan(text) = it[1 .. n]
  BY <1>1, Zenon DEF Scan, FoldLeft, MapThenFoldSet
<1> HIDE DEF it
<1>8. it[1 .. 0] = Start
  <2>1. 1 .. 0 = {} /\ {} \in SUBSET (1 .. n)
    OBVIOUS
  <2> QED
    BY <1>6, <2>1
<1>9. ASSUME NEW k \in Nat, k < n PROVE it[1 .. k + 1] = Look(it[1 .. k], s[k + 1])
  <2>1. /\ 1 .. k + 1 \in SUBSET (1 .. n) /\ 1 .. k + 1 # {}
        /\ MaxOf(1 .. k + 1) = k + 1 /\ (1 .. k + 1) \ {k + 1} = 1 .. k
    BY <1>1, <1>9, LastPlace
  <2>2. Max(1 .. k + 1) = k + 1
    BY <2>1 DEF Max, MaxOf
  <2> QED
    BY <1>6, <2>1, <2>2
<1>10. IsExtremes(Start, it[1 .. n], Rest(s, n), Above(s, n))
  BY <1>1, <1>8, <1>9, StartLimits, LoopIsExtremes DEF n, Look
<1> QED
  BY <1>7, <1>10 DEF n
-----------------------------------------------------------------------------
(* The fold. *)

FileNumbers(k) == IF files[k] = NoFile THEN <<>> ELSE Numbers(files[k])
numbers == [k \in Children |-> FileNumbers(k)]
Folded == {k \in Children : pc[k] = "waited for" /\ ~(outcome = "receive" /\ j = k)}

FilesInv ==
  /\ files \in Seq(Seq(Values \cup {Junk}) \cup {NoFile})
  /\ \A k \in Children : files[k] # NoFile => Scan(files[k]).min # DBL_MAX

\* What a child sends.
Answer(k) ==
  [sum |-> Printed(Sum(Scan(files[k]))), dif |-> Printed(Dif(Scan(files[k])))]

\* A child that has come to its end, and whose pipe main has not read.
Unread(k) ==
  pc[k] \in {"exit", "ended"} \/ (pc[k] = "waited for" /\ outcome = "receive" /\ j = k)

\* A child sends what it found, and nothing if its file could not be opened.
AnswerInv(k) ==
  /\ pc[k] \in {"write", "exit"} => files[k] # NoFile
  /\ pc[k] \in {"write", "exit", "ended", "waited for"} /\ files[k] # NoFile =>
       msg[k] = Answer(k)
  /\ Unread(k) => (pipe[k] = <<>> <=> files[k] = NoFile)

\* The turns of main's second loop are counted by the files it has folded.
CountInv ==
  /\ outcome \in {"fork", "send"} => Folded = {}
  /\ outcome \in {"wait", "receive"} => i = Cardinality(Folded) + 1
  /\ outcome = "printed" => Folded = Children

FoldInv ==
  /\ PipeInv /\ FilesInv /\ CountInv /\ \A k \in Children : AnswerInv(k)
  /\ ExtremesOf(Start, all, numbers, Folded)

\* The files and their numbers stay.
LEMMA FileFacts ==
  ASSUME FilesInv
  PROVE  /\ Len(files) \in Nat /\ IsFiniteSet(Children)
         /\ Cardinality(Children) = Len(files)
         /\ \A k \in Children : files[k] # NoFile => files[k] \in Seq(Values \cup {Junk})
         /\ \A k \in Children : numbers[k] = FileNumbers(k) /\ numbers[k] \in Seq(Values)
<1> DEFINE S == Seq(Values \cup {Junk}) \cup {NoFile}
<1>1. files \in Seq(S)
  BY DEF FilesInv
<1>2. \A k \in Children : files[k] \in S
  <2> HIDE DEF S
  <2> QED
    BY <1>1 DEF Children
<1>3. Len(files) \in Nat
  <2> HIDE DEF S
  <2> QED
    BY <1>1
<1>4. \A k \in Children : files[k] # NoFile => files[k] \in Seq(Values \cup {Junk})
  BY <1>2
<1>5. \A k \in Children : numbers[k] = FileNumbers(k) /\ numbers[k] \in Seq(Values)
  <2>1. <<>> \in Seq(Values)
    OBVIOUS
  <2> QED
    BY <1>4, <2>1, NumbersType DEF numbers, FileNumbers
<1>6. IsFiniteSet(Children) /\ Cardinality(Children) = Len(files)
  <2>1. PICK n \in Nat : n = Len(files)
    BY <1>3
  <2>2. IsFiniteSet(1 .. n) /\ Cardinality(1 .. n) = n
    <3>1. 1 \in Int /\ n \in Int /\ (IF 1 > n THEN 0 ELSE n - 1 + 1) = n
      OBVIOUS
    <3> QED
      BY <3>1, FS_Interval
  <2> QED
    BY <2>1, <2>2 DEF Children
<1> QED
  BY <1>3, <1>4, <1>5, <1>6

\* Printing loses DBL_MIN, which is the maximum of a file without a positive number.
LEMMA PrintedArrive ==
  ASSUME NEW R \in SUBSET Values, NEW P \in SUBSET Values,
         NEW e, IsExtremes(Start, e, R, P), e.min # DBL_MAX
  PROVE  Arrives(Start, e, parent_min(Printed(Sum(e)), Printed(Dif(e))),
                 parent_max(Printed(Sum(e)), Printed(Dif(e))))
<1>0. Limits(Start, Values) /\ Start.min = DBL_MAX /\ Start.max = DBL_MIN
  BY StartLimits DEF Start
<1>1. PICK a \in Values, b \in Int :
        /\ a = e.min /\ b = e.max /\ b >= DBL_MIN
        /\ b # DBL_MIN => b \in Values
  BY <1>0, ExtremesType
<1>2. /\ DBL_MIN \in Int /\ DBL_MIN > 0 /\ DBL_MAX \in Int /\ DBL_MIN < DBL_MAX
      /\ a \in Int /\ a < DBL_MAX /\ a # DBL_MIN /\ a # -DBL_MIN
      /\ ~(a + b = DBL_MAX /\ a - b = DBL_MAX)
  <2>1. /\ Values \subseteq Int /\ DBL_MIN \in Nat \ {0} /\ DBL_MAX \in Nat
        /\ DBL_MIN < DBL_MAX
        /\ \A v \in Values : v < DBL_MAX /\ (v = 0 \/ v > DBL_MIN \/ v < -DBL_MIN)
    BY ExtremaAssumption
  <2>2. a \in Int /\ a < DBL_MAX /\ (a = 0 \/ a > DBL_MIN \/ a < -DBL_MIN)
    BY <2>1
  <2> QED
    BY <1>1, <2>1, <2>2
<1>3. CASE b = DBL_MIN /\ a = 0
  <2>1. Sum(e) = DBL_MIN /\ Dif(e) = -DBL_MIN
    BY <1>1, <1>2, <1>3 DEF Sum, Dif, Plus
  <2>2. Printed(Sum(e)) = 0 /\ Printed(Dif(e)) = 0
    BY <2>1 DEF Printed
  <2>3. (0 + 0) \div 2 = 0 /\ (0 - 0) \div 2 = 0
    OBVIOUS
  <2> QED
    BY <1>0, <1>1, <1>2, <1>3, <2>2, <2>3 DEF Arrives, parent_min, parent_max
<1>4. CASE b = DBL_MIN /\ a # 0
  <2>1. Sum(e) = a /\ Dif(e) = a
    BY <1>1, <1>2, <1>4 DEF Sum, Dif, Plus
  <2>2. Printed(Sum(e)) = a /\ Printed(Dif(e)) = a
    BY <1>2, <2>1 DEF Printed
  <2> QED
    BY <1>0, <1>1, <1>2, <1>4, <2>2, Halves DEF Arrives, parent_min, parent_max
<1>5. CASE b # DBL_MIN
  <2>1. Sum(e) = a + b /\ Dif(e) = a - b
    <3>1. ~(b \in {DBL_MIN, -DBL_MIN}) /\ ~(-b \in {DBL_MIN, -DBL_MIN}) /\ a + -b = a - b
      BY <1>1, <1>2, <1>5
    <3> QED
      BY <1>1, <1>2, <3>1 DEF Sum, Dif, Plus
  <2>2. b \in Values
    BY <1>1, <1>5
  <2>3. {a + b, a - b} \cap {DBL_MIN, -DBL_MIN} = {}
    BY <2>2, PipesAssumption
  <2>4. Printed(Sum(e)) = a + b /\ Printed(Dif(e)) = a - b
    BY <2>1, <2>3 DEF Printed
  <2> QED
    BY <1>0, <1>1, <1>2, <1>5, <2>4, Halves DEF Arrives, parent_min, parent_max
<1> QED
  BY <1>3, <1>4, <1>5

\* What a child finds are the extremes of the numbers of its file, and what it sends
\* brings them to main.
LEMMA AnswerArrives ==
  ASSUME FilesInv, NEW k \in Children, files[k] # NoFile
  PROVE  \E e : /\ IsExtremes(Start, e, Lows(numbers, k), Above(numbers[k], Len(numbers[k])))
                /\ Arrives(Start, e, parent_min(Answer(k).sum, Answer(k).dif),
                           parent_max(Answer(k).sum, Answer(k).dif))
<1> DEFINE s == numbers[k]
           e == Scan(files[k])
<1>1. s = Numbers(files[k]) /\ s \in Seq(Values) /\ Len(s) \in Nat
  BY FileFacts DEF FileNumbers
<1>2. Rest(s, Len(s)) \subseteq Values /\ Above(s, Len(s)) \subseteq Values
  BY <1>1 DEF Rest, Above
<1>3. IsExtremes(Start, e, Rest(s, Len(s)), Above(s, Len(s)))
  BY <1>1, FileFacts, ScanIsExtremes
<1>4. e.min # DBL_MAX
  BY DEF FilesInv
<1>5. Answer(k).sum = Printed(Sum(e)) /\ Answer(k).dif = Printed(Dif(e))
  BY DEF Answer
<1> HIDE DEF s, e
<1>6. Arrives(Start, e, parent_min(Printed(Sum(e)), Printed(Dif(e))),
                        parent_max(Printed(Sum(e)), Printed(Dif(e))))
  BY <1>2, <1>3, <1>4, PrintedArrive
<1> QED
  BY <1>3, <1>5, <1>6 DEF Lows, s

LEMMA InitFoldInv == Init => FoldInv
<1> SUFFICES ASSUME Init PROVE FoldInv
  OBVIOUS
<1>1. FilesInv
  <2>1. files \in Inputs /\ Inputs \subseteq Seq(Seq(Values \cup {Junk}) \cup {NoFile})
    BY ExtremaAssumption DEF Init
  <2>2. DOMAIN files = Children
    <3> DEFINE S == Seq(Values \cup {Junk}) \cup {NoFile}
    <3>1. files \in Seq(S)
      BY <2>1
    <3> HIDE DEF S
    <3> QED
      BY <3>1 DEF Children
  <2> QED
    BY <2>1, <2>2, PipesAssumption DEF FilesInv
<1>2. Folded = {} /\ outcome = "fork" /\ all = Start
  BY DEF Init, Folded
<1>3. CountInv /\ ExtremesOf(Start, all, numbers, Folded)
  BY <1>2, StartLimits, NoExtremes DEF CountInv
<1>4. \A k \in Children : AnswerInv(k)
  BY DEF Init, AnswerInv, Unread
<1> QED
  BY <1>1, <1>3, <1>4, InitPipeInv DEF FoldInv

\* A step that folds nothing.
LEMMA NothingFolded ==
  ASSUME FoldInv, [Next]_vars, UNCHANGED <<files, all>>, Folded' = Folded, CountInv',
         \A k \in Children : AnswerInv(k)'
  PROVE  FoldInv'
<1>1. Children' = Children /\ numbers' = numbers /\ FilesInv'
  BY DEF Children, numbers, FileNumbers, FoldInv, FilesInv
<1>2. PipeInv'
  BY NextPipeInv DEF FoldInv
<1> QED
  BY <1>1, <1>2 DEF FoldInv

LEMMA ChildFoldInv ==
  ASSUME FoldInv, NEW k \in Children, Child(k)
  PROVE  FoldInv' /\ UNCHANGED <<files, all, outcome>> /\ Folded' = Folded
<1>1. /\ UNCHANGED <<files, outcome, i, j, all>> /\ AnswerInv(k) /\ Contents(k)
      /\ DOMAIN pipe = Children /\ DOMAIN pc = Children /\ DOMAIN msg = Children
      /\ Children' = Children
  BY DEF FoldInv, PipeInv, Child, ReadName, ScanFile, ScanCrashes, WriteResult, Exit,
     ChildStep, main, Children
<1>2. /\ \A c \in Children : c # k =>
           pipe'[c] = pipe[c] /\ pc'[c] = pc[c] /\ msg'[c] = msg[c]
      /\ pc[k] # "waited for" /\ pc'[k] # "waited for" /\ DOMAIN pc' = Children
  BY <1>1 DEF Child, ReadName, ScanFile, ScanCrashes, WriteResult, Exit, ChildStep, write
<1>3. Folded' = Folded
  BY <1>1, <1>2 DEF Folded
<1>4. ASSUME NEW c \in Children, c # k PROVE AnswerInv(c)'
  <2>1. AnswerInv(c) /\ Answer(c)' = Answer(c)
    BY <1>1 DEF FoldInv, Answer
  <2> QED
    BY <1>1, <1>2, <1>4, <2>1 DEF AnswerInv, Unread
<1>5. AnswerInv(k)'
  <2>1. Answer(k)' = Answer(k)
    BY <1>1 DEF Answer
  <2>2. CASE ReadName(k)
    <3>1. pc'[k] = "scan"
      BY <1>1, <2>2 DEF ReadName, ChildStep
    <3> QED
      BY <3>1 DEF AnswerInv, Unread
  <2>3. CASE ScanFile(k)
    <3>1. pc'[k] = "write" /\ files[k] # NoFile /\ msg'[k] = Answer(k)
      BY <1>1, <2>3 DEF ScanFile, ChildStep, Answer
    <3> QED
      BY <1>1, <2>1, <3>1 DEF AnswerInv, Unread
  <2>4. CASE ScanCrashes(k)
    <3>1. /\ pc[k] = "scan" /\ pc'[k] = "ended" /\ files[k] = NoFile /\ pipe' = pipe
      BY <1>1, <2>4 DEF ScanCrashes, ChildStep
    <3>2. pipe[k] = <<>>
      BY <1>1, <3>1 DEF Contents
    <3> QED
      BY <1>1, <3>1, <3>2 DEF AnswerInv, Unread
  <2>5. CASE WriteResult(k)
    <3>1. /\ pc[k] = "write" /\ pc'[k] = "exit" /\ msg' = msg
          /\ pipe'[k] = Append(pipe[k], msg[k])
      BY <1>1, <2>5 DEF WriteResult, ChildStep, write
    <3>2. pipe[k] = <<>> /\ Append(<<>>, msg[k]) # <<>>
      BY <1>1, <3>1 DEF Contents
    <3>3. files[k] # NoFile /\ msg[k] = Answer(k)
      BY <1>1, <3>1 DEF AnswerInv
    <3> QED
      BY <1>1, <2>1, <3>1, <3>2, <3>3 DEF AnswerInv, Unread
  <2>6. CASE Exit(k)
    <3>1. pc[k] = "exit" /\ pc'[k] = "ended" /\ msg' = msg /\ pipe' = pipe
      BY <1>1, <2>6 DEF Exit, ChildStep
    <3> QED
      BY <1>1, <2>1, <3>1 DEF AnswerInv, Unread
  <2> QED
    BY <2>2, <2>3, <2>4, <2>5, <2>6 DEF Child
<1>6. CountInv'
  BY <1>1, <1>3 DEF FoldInv, CountInv
<1> QED
  BY <1>1, <1>3, <1>4, <1>5, <1>6, NothingFolded DEF Next

\* The turn of main that folds the file of the child it has waited for, or passes
\* over that of one that died.
LEMMA TurnFoldInv ==
  ASSUME FoldInv, Receive \/ ReceiveNothing
  PROVE  /\ FoldInv' /\ UNCHANGED files /\ outcome = "receive" /\ outcome' = "wait"
         /\ \E k \in Children : k \notin Folded /\ Folded' = Folded \cup {k}
<1>1. /\ outcome = "receive" /\ outcome' = "wait" /\ i' = i + 1
      /\ UNCHANGED <<files, j, pc, msg>>
  BY DEF Receive, ReceiveNothing, Main, children
<1>2. PICK k \in Children : k = j /\ pc[k] = "waited for"
  BY <1>1 DEF FoldInv, PipeInv
<1>3. /\ FilesInv /\ FilesInv' /\ Children' = Children /\ numbers' = numbers
      /\ DOMAIN pipe = Children /\ AnswerInv(k) /\ Contents(k)
      /\ IsFiniteSet(Children) /\ Len(files) \in Nat
      /\ i = Cardinality(Folded) + 1
  BY <1>1, FileFacts
     DEF Children, numbers, FileNumbers, FoldInv, FilesInv, PipeInv, CountInv
<1>4. k \notin Folded /\ Folded' = Folded \cup {k}
  BY <1>1, <1>2, <1>3 DEF Folded
<1>5. ExtremesOf(Start, all', numbers, Folded \cup {k})
  <2>1. /\ ExtremesOf(Start, all, numbers, Folded)
        /\ pipe[k] = <<>> <=> files[k] = NoFile
        /\ \A g \in Folded \cup {k} : numbers[g] \in Seq(Values)
    BY <1>1, <1>2, <1>3, FileFacts DEF FoldInv, AnswerInv, Unread, Folded
  <2>2. CASE Receive
    <3>1. pipe[k] # <<>> /\ all' = FoldIn(all, Head(pipe[k]).sum, Head(pipe[k]).dif)
      BY <1>2, <2>2 DEF Receive
    <3>2. pipe[k] = <<msg[k]>> /\ msg[k] = Answer(k) /\ files[k] # NoFile
      BY <1>2, <1>3, <2>1, <3>1 DEF Contents, AnswerInv
    <3>3. Head(pipe[k]) = Answer(k)
      BY <3>2
    <3>4. PICK low, high :
            /\ low = parent_min(Answer(k).sum, Answer(k).dif)
            /\ high = parent_max(Answer(k).sum, Answer(k).dif)
      OBVIOUS
    <3>5. all' = [min |-> IF low < all.min THEN low ELSE all.min,
                  max |-> IF high > all.max THEN high ELSE all.max]
      BY <3>1, <3>3, <3>4 DEF FoldIn
    <3>6. PICK e : /\ IsExtremes(Start, e, Lows(numbers, k),
                                 Above(numbers[k], Len(numbers[k])))
                   /\ Arrives(Start, e, low, high)
      BY <1>3, <3>2, <3>4, AnswerArrives
    <3> QED
      BY <2>1, <3>5, <3>6, StartLimits, OneMoreFile
  <2>3. CASE ReceiveNothing
    <3>1. files[k] = NoFile /\ all' = all
      BY <1>2, <2>1, <2>3 DEF ReceiveNothing
    <3>2. numbers[k] = <<>>
      BY <1>3, <3>1, FileFacts DEF FileNumbers
    <3> QED
      BY <2>1, <3>1, <3>2, EmptyFile
  <2> QED
    BY <2>2, <2>3
<1>6. CountInv'
  <2>1. IsFiniteSet(Folded) /\ Cardinality(Folded) \in Nat
    BY <1>3, FS_Subset, FS_CardinalityType DEF Folded
  <2>2. Cardinality(Folded') = Cardinality(Folded) + 1
    BY <1>4, <2>1, FS_AddElement
  <2> QED
    BY <1>1, <1>3, <2>1, <2>2 DEF CountInv
<1>7. \A c \in Children : AnswerInv(c)'
  <2>1. \A c \in Children : c # k => pipe'[c] = pipe[c]
    BY <1>2, <1>3 DEF Receive, ReceiveNothing
  <2> TAKE c \in Children
  <2>2. AnswerInv(c) /\ Answer(c)' = Answer(c)
    BY <1>1 DEF FoldInv, Answer
  <2>3. Unread(c)' => Unread(c) /\ c # k
    BY <1>1, <1>2 DEF Unread
  <2> QED
    BY <1>1, <2>1, <2>2, <2>3 DEF AnswerInv
<1>8. PipeInv'
  BY NextPipeInv DEF FoldInv, Next, MainStep
<1> QED
  BY <1>1, <1>3, <1>4, <1>5, <1>6, <1>7, <1>8 DEF FoldInv

\* The other steps of main.
LEMMA MainFoldInv ==
  ASSUME FoldInv, MainStep, ~(Receive \/ ReceiveNothing)
  PROVE  /\ FoldInv' /\ UNCHANGED <<files, all>> /\ Folded' = Folded
         /\ outcome # "printed" /\ (outcome' = "printed" => Folded = Children)
<1>1. /\ UNCHANGED <<files, all, msg>> /\ Children' = Children
      /\ DOMAIN pipe = Children /\ DOMAIN pc = Children
      /\ \A k \in Children : AnswerInv(k) /\ Answer(k)' = Answer(k)
      /\ CountInv /\ PipeInv /\ [Next]_vars
  BY DEF FoldInv, PipeInv, MainStep, Fork, ForkFails, SendName, ForksDone, Wait,
     PrintResult, Main, Children, Answer, children, Next
<1>2. CASE Fork
  <2>1. /\ outcome = "fork" /\ outcome' = "send" /\ i <= Len(files)
        /\ pc' = [pc EXCEPT ![i] = "read"] /\ UNCHANGED <<i, j, pipe>>
    BY <1>2 DEF Fork, Main
  <2>2. PICK k \in Children : k = i
    <3>1. i \in Nat \ {0} /\ Len(files) \in Nat
      BY <1>1 DEF PipeInv
    <3> QED
      BY <2>1, <3>1 DEF Children
  <2>3. pc[k] = "not forked"
    <3>1. k >= i
      BY <2>2 DEF Children
    <3> QED
      BY <1>1, <2>1, <3>1 DEF PipeInv, NotForkedFrom
  <2>4. pc'[k] = "read" /\ \A c \in Children : c # k => pc'[c] = pc[c]
    BY <1>1, <2>1, <2>2
  <2>5. Folded' = Folded
    BY <1>1, <2>1, <2>3, <2>4 DEF Folded
  <2>6. CountInv'
    BY <1>1, <2>1, <2>5 DEF CountInv
  <2>7. \A c \in Children : AnswerInv(c)'
    BY <1>1, <2>1, <2>4 DEF AnswerInv, Unread
  <2> QED
    BY <1>1, <2>1, <2>5, <2>6, <2>7, NothingFolded
<1>3. CASE SendName
  <2>1. /\ outcome = "send" /\ outcome' = "fork"
        /\ pipe' = [pipe EXCEPT ![i] = Append(@, Name)] /\ UNCHANGED <<j, pc>>
    BY <1>3 DEF SendName, Main, write, children
  <2>2. Folded' = Folded
    BY <1>1, <2>1 DEF Folded
  <2>3. CountInv'
    BY <1>1, <2>1, <2>2 DEF CountInv
  <2>4. ASSUME NEW c \in Children PROVE AnswerInv(c)'
    <3>1. pc[i] = "read"
      BY <1>1, <2>1 DEF PipeInv
    <3>2. CASE c = i
      BY <2>1, <3>1, <3>2 DEF AnswerInv, Unread
    <3>3. CASE c # i
      BY <1>1, <2>1, <3>3 DEF AnswerInv, Unread
    <3> QED
      BY <3>2, <3>3
  <2> QED
    BY <1>1, <2>1, <2>2, <2>3, <2>4, NothingFolded
<1>4. CASE ForkFails \/ ForksDone
  <2>1. /\ outcome = "fork" /\ outcome' \in {"failed", "wait"} /\ UNCHANGED <<j, pipe, pc>>
        /\ outcome' = "wait" => i' = 1
    BY <1>4 DEF ForkFails, ForksDone, Main, children
  <2>2. Folded = {} /\ Folded' = {}
    BY <1>1, <2>1 DEF CountInv, Folded
  <2>3. CountInv'
    BY <2>1, <2>2, FS_EmptySet DEF CountInv
  <2>4. \A c \in Children : AnswerInv(c)'
    BY <1>1, <2>1 DEF AnswerInv, Unread
  <2> QED
    BY <1>1, <2>1, <2>2, <2>3, <2>4, NothingFolded
<1>5. CASE Wait
  <2>1. PICK k \in Children :
          /\ pc[k] = "ended" /\ j' = k /\ pc' = [pc EXCEPT ![k] = "waited for"]
          /\ outcome = "wait" /\ outcome' = "receive" /\ UNCHANGED <<i, pipe>>
    BY <1>5 DEF Wait, Main
  <2>2. pc'[k] = "waited for" /\ \A c \in Children : c # k => pc'[c] = pc[c]
    BY <1>1, <2>1
  <2>3. Folded' = Folded
    BY <1>1, <2>1, <2>2 DEF Folded
  <2>4. CountInv'
    BY <1>1, <2>1, <2>3 DEF CountInv
  <2>5. ASSUME NEW c \in Children PROVE AnswerInv(c)'
    <3>1. Unread(c)' => Unread(c)
      BY <2>1, <2>2 DEF Unread
    <3> QED
      BY <1>1, <2>1, <2>2, <3>1 DEF AnswerInv
  <2> QED
    BY <1>1, <2>1, <2>3, <2>4, <2>5, NothingFolded
<1>6. CASE PrintResult
  <2>1. /\ outcome = "wait" /\ outcome' = "printed" /\ i = Len(files) + 1
        /\ UNCHANGED <<j, pipe, pc>>
    BY <1>6 DEF PrintResult, Main, children
  <2>2. Folded' = Folded
    BY <1>1, <2>1 DEF Folded
  <2>3. Folded = Children
    <3>1. /\ IsFiniteSet(Children) /\ Cardinality(Children) = Len(files)
          /\ Len(files) \in Nat /\ Folded \subseteq Children
      BY FileFacts DEF FoldInv, Folded
    <3>2. Cardinality(Folded) \in Nat /\ Cardinality(Folded) = Cardinality(Children)
      <4>1. Cardinality(Folded) \in Nat
        BY <3>1, FS_Subset, FS_CardinalityType
      <4> QED
        BY <1>1, <2>1, <3>1, <4>1 DEF CountInv
    <3> QED
      BY <3>1, <3>2, FS_Subset
  <2>4. CountInv'
    BY <1>1, <2>1, <2>2, <2>3 DEF CountInv
  <2>5. \A c \in Children : AnswerInv(c)'
    BY <1>1, <2>1 DEF AnswerInv, Unread
  <2> QED
    BY <1>1, <2>1, <2>2, <2>3, <2>4, <2>5, NothingFolded
<1> QED
  BY <1>2, <1>3, <1>4, <1>5, <1>6 DEF MainStep

LEMMA NextFoldInv == FoldInv /\ [Next]_vars => FoldInv'
<1> SUFFICES ASSUME FoldInv, [Next]_vars PROVE FoldInv'
  OBVIOUS
<1>1. CASE UNCHANGED vars
  BY <1>1, NextPipeInv DEF FoldInv, FilesInv, CountInv, AnswerInv, Answer, Unread, Folded,
     numbers, FileNumbers, Children, vars, main, children
<1> QED
  BY <1>1, TurnFoldInv, MainFoldInv, ChildFoldInv DEF Next
-----------------------------------------------------------------------------
\* The abstract result of a set of files.
LEMMA AbstractExtremes ==
  ASSUME FilesInv, NEW F \in SUBSET Children, NEW e, ExtremesOf(Start, e, numbers, F)
  PROVE  e = Fold!Extremes(F)
<1> DEFINE Ns == [k \in Children |-> IF files[k] = NoFile THEN <<>> ELSE Numbers(files[k])]
           G == {f \in F : Lows(numbers, f) # {}}
<1>1. Ns = numbers
  BY DEF numbers, FileNumbers
<1>2. \A f \in F : numbers[f] \in Seq(Values) /\ DOMAIN numbers[f] = 1 .. Len(numbers[f])
  BY FileFacts
<1>3. \A s, k : Fold!IsRecord(s, k) <=> IsRecord(s, k)
  BY DEF Fold!IsRecord, IsRecord
<1>4. ASSUME NEW f \in F
      PROVE  /\ Fold!Others(f) = Lows(numbers, f)
             /\ Fold!Positive(f) = Above(numbers[f], Len(numbers[f]))
  <2>1. Fold!Others(f) = {Ns[f][k] : k \in {k \in DOMAIN Ns[f] : ~IsRecord(Ns[f], k)}}
    BY <1>3 DEF Fold!Others
  <2>2. Fold!Positive(f) = {v \in {Ns[f][k] : k \in DOMAIN Ns[f]} : v > 0}
    BY DEF Fold!Positive
  <2> HIDE DEF Ns
  <2> QED
    BY <1>1, <1>2, <2>1, <2>2 DEF Lows, Rest, Above
<1>5. e = [min |-> Min({DBL_MAX} \cup UNION {Lows(numbers, f) : f \in G}),
           max |-> Max({DBL_MIN} \cup UNION {Above(numbers[f], Len(numbers[f])) : f \in G})]
  <2>1. Start.min = DBL_MAX /\ Start.max = DBL_MIN
    BY DEF Start
  <2>2. e = [min |-> MinOf(AllLows(Start, numbers, F)),
             max |-> MaxOf(AllHighs(Start, numbers, F))]
    BY <1>2, StartLimits, ExtremesAre
  <2>3. \A S : MinOf(S) = Min(S) /\ MaxOf(S) = Max(S)
    BY DEF Min, Max, MinOf, MaxOf
  <2> QED
    BY <2>1, <2>2, <2>3 DEF AllLows, AllHighs, WithLows
<1>6. /\ {f \in F : Fold!Others(f) # {}} = G
      /\ UNION {Fold!Others(f) : f \in G} = UNION {Lows(numbers, f) : f \in G}
      /\ UNION {Fold!Positive(f) : f \in G} =
           UNION {Above(numbers[f], Len(numbers[f])) : f \in G}
  BY <1>4
<1>7. Fold!Extremes(F) =
        [min |-> Min({DBL_MAX} \cup UNION {Fold!Others(f) : f \in G}),
         max |-> Max({DBL_MIN} \cup UNION {Fold!Positive(f) : f \in G})]
  BY <1>6 DEF Fold!Extremes, Fold!Min, Fold!Max, Min, Max
<1> QED
  BY <1>5, <1>6, <1>7

(* Whatever the order in which the children end, each file is folded once into the
   result, with the extremes of its numbers, and the result is printed after the
   last; a child that died counts for nothing. *)
THEOREM FoldRefines == Spec => FoldSpec
<1>1. ASSUME FoldInv PROVE all = Fold!Extremes(Folded) /\ Folded \in SUBSET Children
  BY <1>1, AbstractExtremes DEF FoldInv, Folded
<1>2. Init => Fold!Init
  <2> SUFFICES ASSUME Init PROVE Fold!Init
    OBVIOUS
  <2>1. FoldInv /\ Folded = {} /\ outcome # "printed"
    BY InitFoldInv DEF Init, Folded
  <2>2. all = Fold!Extremes({})
    BY <1>1, <2>1
  <2> QED
    BY <2>1, <2>2 DEF Fold!Init, Folded
<1>3. ASSUME FoldInv, [Next]_vars PROVE [Fold!Next]_(Fold!vars)
  <2>1. FoldInv'
    BY <1>3, NextFoldInv
  <2>2. CASE UNCHANGED vars
    BY <2>2 DEF vars, main, children, Fold!vars, Children
  <2>3. CASE Receive \/ ReceiveNothing
    <3>1. PICK k \in Children : k \notin Folded /\ Folded' = Folded \cup {k}
      BY <1>3, <2>3, TurnFoldInv
    <3>2. outcome = "receive" /\ outcome' = "wait" /\ files' = files
      BY <1>3, <2>3, TurnFoldInv
    <3>3. numbers' = numbers /\ Children' = Children
      BY <3>2 DEF numbers, FileNumbers, Children
    <3>4. all' = Fold!Extremes(Folded')
      <4>1. ExtremesOf(Start, all', numbers, Folded') /\ Folded' \in SUBSET Children
        BY <2>1, <3>3 DEF FoldInv, Folded
      <4> QED
        BY <1>3, <4>1, AbstractExtremes DEF FoldInv
    <3>5. k \in Fold!Files
      BY DEF Fold!Files
    <3>6. Fold!Fold(k)
      BY <3>1, <3>2, <3>3, <3>4 DEF Fold!Fold, Folded, numbers, FileNumbers
    <3>7. Fold!Next
      BY <3>5, <3>6, Zenon DEF Fold!Next
    <3> QED
      BY <3>7
  <2>4. ASSUME Folded' = Folded, all' = all, files' = files,
               outcome' = "printed" => outcome = "printed" \/ Folded = Children,
               outcome = "printed" => outcome' = "printed"
        PROVE  [Fold!Next]_(Fold!vars)
    <3>1. Children' = Children
      BY <2>4 DEF Children
    <3>2. CASE (outcome' = "printed") = (outcome = "printed")
      BY <2>4, <3>1, <3>2 DEF Fold!vars, Folded
    <3>3. CASE outcome' = "printed" /\ outcome # "printed"
      <4>1. Folded = Children
        BY <2>4, <3>3
      <4>2. Fold!PrintResult
        BY <2>4, <3>1, <3>3, <4>1 DEF Fold!PrintResult, Fold!Files, Folded
      <4> QED
        BY <4>2 DEF Fold!Next
    <3> QED
      BY <2>4, <3>2, <3>3
  <2>5. CASE MainStep /\ ~(Receive \/ ReceiveNothing)
    BY <1>3, <2>4, <2>5, MainFoldInv
  <2>6. CASE \E k \in Children : Child(k)
    BY <1>3, <2>4, <2>6, ChildFoldInv
  <2> QED
    BY <1>3, <2>2, <2>3, <2>5, <2>6 DEF Next
<1> QED
  BY <1>2, <1>3, InitFoldInv, NextFoldInv, PTL DEF Spec, FoldSpec, Fold!Spec
=============================================================================
