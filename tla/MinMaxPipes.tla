----------------------------- MODULE MinMaxPipes -----------------------------
(***************************************************************************)
(* A1/process.c: main forks a child for each file and sends it the name    *)
(* through a pipe; the child sends the result back through the same pipe.  *)
(* A child is known by the index of its file, and so is its pid.  A step   *)
(* is one system call; the scan of a file is one step.                     *)
(***************************************************************************)
EXTENDS Extrema

\* A file without a number that is not a new maximum gives DBL_MAX, which
\* overflows write_msg when it is printed there: nothing can be said of it.  Six
\* decimals say all of the numbers, and of their sums and differences, none of
\* which is then as small as DBL_MIN.
ASSUME PipesAssumption ==
  /\ \A files \in Inputs : \A k \in DOMAIN files :
       files[k] # NoFile => Scan(files[k]).min # DBL_MAX
  /\ \A v, w \in Values : {v + w, v - w} \cap {DBL_MIN, -DBL_MIN} = {}

VARIABLES
  files,     \* the content of each file, fixed
  outcome,   \* of main: what it is about to do, then how it ended
  i, j,      \* its loop variables, from 1
  all,       \* PMIN and PMAX
  pipe,      \* the messages in each pipe
  closed,    \* the pipes main has closed its write end of
  pc,        \* of each child
  msg        \* the result of each child: its SUM and DIF, as printed

main     == <<outcome, i, j, all, closed>>
children == <<pc, msg>>
vars == <<files, main, pipe, children>>

Children == 1 .. Len(files)

Name == "name"

Init ==
  /\ files \in Inputs
  /\ outcome = "fork" /\ i = 1 /\ j = 0 /\ all = Start
  /\ pipe = [k \in Children |-> <<>>] /\ closed = {}
  /\ pc = [k \in Children |-> "not forked"]
  /\ msg = [k \in Children |-> [sum |-> 0, dif |-> 0]]

\* Nothing is left of DBL_MIN in six decimals.
Printed(x) == IF x \in {DBL_MIN, -DBL_MIN} THEN 0 ELSE x

write(k, message) == pipe' = [pipe EXCEPT ![k] = Append(@, message)]
-----------------------------------------------------------------------------
(* A child. *)

ChildStep(k, from, to) ==
  /\ pc[k] = from /\ pc' = [pc EXCEPT ![k] = to]
  /\ UNCHANGED <<files, main>>

\* The name comes through the pipe; the file of that name is the child's own as
\* long as only the name is there to be read.
ReadName(k) ==
  /\ ChildStep(k, "read", "scan") /\ pipe[k] # <<>>
  /\ pipe' = [pipe EXCEPT ![k] = Tail(@)] /\ UNCHANGED msg

ScanFile(k) ==
  LET e == Scan(files[k]) IN
  /\ ChildStep(k, "scan", "write") /\ files[k] # NoFile
  /\ msg' = [msg EXCEPT ![k] = [sum |-> Printed(Sum(e)), dif |-> Printed(Dif(e))]]
  /\ UNCHANGED pipe

\* fscanf of a file that could not be opened: the child dies.
ScanCrashes(k) ==
  /\ ChildStep(k, "scan", "ended") /\ files[k] = NoFile
  /\ UNCHANGED <<pipe, msg>>

WriteResult(k) ==
  /\ ChildStep(k, "write", "exit") /\ write(k, msg[k]) /\ UNCHANGED msg

Exit(k) == ChildStep(k, "exit", "ended") /\ UNCHANGED <<pipe, msg>>

Child(k) ==
  \/ ReadName(k) \/ ScanFile(k) \/ ScanCrashes(k) \/ WriteResult(k) \/ Exit(k)

Alive(k) == pc[k] \in {"read", "scan", "write", "exit"}

\* A child inherits the pipes made before it was forked and closes none.
Writers(k) == {c \in k .. Len(files) : Alive(c)}
-----------------------------------------------------------------------------
(* main *)

Main(from, to) == outcome = from /\ outcome' = to /\ UNCHANGED files

\* pipe and fork; nobody sees the pipe before the child.
Fork ==
  /\ i <= Len(files) /\ Main("fork", "send")
  /\ pc' = [pc EXCEPT ![i] = "read"]
  /\ UNCHANGED <<i, j, all, closed, pipe, msg>>

\* If either fails main returns; the children it has go on.
ForkFails ==
  /\ i <= Len(files) /\ Main("fork", "failed")
  /\ UNCHANGED <<i, j, all, closed, pipe, children>>

SendName ==
  /\ Main("send", "fork") /\ write(i, Name) /\ i' = i + 1
  /\ UNCHANGED <<j, all, closed, children>>

\* Mutant: main waits for one child too few.
ForksDoneSkip ==
  /\ i = Len(files) + 1 /\ Main("fork", "wait") /\ i' = 2
  /\ UNCHANGED <<j, all, closed, pipe, children>>

ForksDone ==
  /\ i = Len(files) + 1 /\ Main("fork", "wait") /\ i' = 1
  /\ UNCHANGED <<j, all, closed, pipe, children>>

\* Mutant: the write end is not closed before the pipe is read.
WaitOpen ==
  /\ i <= Len(files) /\ Main("wait", "receive")
  /\ \E k \in Children :
       pc[k] = "ended" /\ j' = k /\ pc' = [pc EXCEPT ![k] = "waited for"]
  /\ UNCHANGED <<i, all, closed, pipe, msg>>

\* Mutant: the results are taken in the order of the files.
WaitInOrder ==
  /\ i <= Len(files) /\ Main("wait", "receive")
  /\ \E k \in Children :
       pc[k] = "ended" /\ j' = i /\ pc' = [pc EXCEPT ![k] = "waited for"]
  /\ closed' = closed \cup {j'}
  /\ UNCHANGED <<i, all, pipe, msg>>

\* wait returns the pid of any child that has ended; its pipe is found by it.
Wait ==
  /\ i <= Len(files) /\ Main("wait", "receive")
  /\ \E k \in Children :
       pc[k] = "ended" /\ j' = k /\ pc' = [pc EXCEPT ![k] = "waited for"]
  /\ closed' = closed \cup {j'}
  /\ UNCHANGED <<i, all, pipe, msg>>

Receive ==
  /\ Main("receive", "wait") /\ pipe[j] # <<>>
  /\ pipe' = [pipe EXCEPT ![j] = Tail(@)]
  /\ all' = FoldIn(all, Head(pipe[j]).sum, Head(pipe[j]).dif)
  /\ i' = i + 1
  /\ UNCHANGED <<j, closed, children>>

\* The read of an empty pipe returns when nobody has its write end any more.
ReceiveNothing ==
  /\ Main("receive", "wait") /\ pipe[j] = <<>> /\ j \in closed /\ Writers(j) = {}
  /\ i' = i + 1
  /\ UNCHANGED <<j, all, closed, pipe, children>>

PrintResult ==
  /\ i = Len(files) + 1 /\ Main("wait", "printed")
  /\ UNCHANGED <<i, j, all, closed, pipe, children>>

MainStep ==
  \/ Fork \/ ForkFails \/ SendName \/ ForksDone
  \/ Wait \/ Receive \/ ReceiveNothing \/ PrintResult

Next == MainStep \/ \E k \in Children : Child(k)

Spec == Init /\ [][Next]_vars

\* The operating system keeps running main and every child.
FairSpec ==
  Spec /\ WF_vars(MainStep)
       /\ \A k \in UNION {DOMAIN f : f \in Inputs} : WF_vars(k \in Children /\ Child(k))
-----------------------------------------------------------------------------
Running == {"fork", "send", "wait", "receive"}

\* A pipe used in both directions is safe because it never holds more than one
\* message: the name until the child has read it, then the result.  main reads a
\* pipe only when its child has ended, so never the name it wrote itself.
OneMessage ==
  /\ \A k \in Children :
       pipe[k] \in (IF pc[k] = "read" THEN {<<>>, <<Name>>}
                    ELSE IF pc[k] \in {"exit", "ended", "waited for"}
                      THEN {<<>>, <<msg[k]>>}
                    ELSE {<<>>})
  /\ outcome = "receive" => pc[j] = "waited for"

\* Whatever the order in which the children end, each file is folded once, with
\* the extremes that its scan found, and the result is printed after the last; a
\* child that died counts for nothing.
Fold == INSTANCE MinMax
  WITH numbers <- [k \in Children |-> IF files[k] = NoFile THEN <<>> ELSE Numbers(files[k])],
       folded  <- {k \in Children : pc[k] = "waited for"
                                      /\ ~(outcome = "receive" /\ j = k)},
       result  <- all,
       printed <- outcome = "printed"
FoldSpec == Fold!Spec

\* main comes to its end: it blocks in wait, and in a read while younger children
\* keep the pipe of a dead one open, but not for ever.
Terminates == <>(outcome \notin Running)
=============================================================================
