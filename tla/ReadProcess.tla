----------------------------- MODULE ReadProcess -----------------------------
(***************************************************************************)
(* The parser of P__2/sch-helpers.c and the loop of main in P__2/rr.c that *)
(* fills the array of processes with it.  A character is a string of       *)
(* length 1; every line is written with the newline that ends it, which a  *)
(* file that is not `ended' lacks in its last line.  A step is one call of *)
(* readLine, readInt or readBracedInt.                                     *)
(***************************************************************************)
EXTENDS Integers, SequencesExt

CONSTANTS
  MAX_PROCESSES, MAX_BURSTS,
  INT_MAX,  \* the greatest int; the least is -INT_MAX - 1
  Files     \* the lines of the data file, and whether a newline ends the last

\* An I/O burst is stored before the limit is looked at: that needs it even; the
\* first burst is stored without a look: that needs it positive.
ASSUME ReadAssumption ==
  /\ MAX_PROCESSES \in Nat /\ MAX_BURSTS \in Nat \ {0} /\ MAX_BURSTS % 2 = 0
  /\ INT_MAX \in Nat \ {0}
  /\ Files \subseteq [lines : Seq(Seq(STRING)), ended : BOOLEAN]

VARIABLES
  file,       \* the input, fixed
  lines,      \* what is left of it
  ptr,        \* what is left of the current line
  phase,      \* what readProcess is about to read; main reads between lines
  dest,       \* the process being read
  processes,  \* the array, up to totalProcesses
  outcome

vars == <<file, lines, ptr, phase, dest, processes, outcome>>

digits == <<"0", "1", "2", "3", "4", "5", "6", "7", "8", "9">>
IsDigit(c) == c \in Range(digits)
DigitValue(c) == SelectInSeq(digits, LAMBDA d : d = c) - 1

\* "VT" stands for the vertical tab, for which TLA+ has no escape.
isspace(c) == c \in {" ", "\t", "\n", "VT", "\f", "\r"}

\* Splitting a text before its k-th character, or after its end if k is 0.
Before(s, k) == IF k = 0 THEN s ELSE SubSeq(s, 1, k - 1)
After(s, k) == IF k = 0 THEN <<>> ELSE SubSeq(s, k, Len(s))

SkipSpace(s) == After(s, SelectInSeq(s, LAMBDA c : ~isspace(c)))
empty(s) == SkipSpace(s) = <<>>

\* How many ints there are; the value of one that a computation took out of its range.
Ints == 2 * (INT_MAX + 1)
Wrap(n) ==
  LET m == n % Ints IN IF m <= INT_MAX THEN m ELSE m - Ints

\* Mutant: a digit that leaves the value at 0 is taken for an overflow.
AddDigitStrict(result, c) ==
  IF result = -1 \/ ~IsDigit(c) THEN -1
  ELSE LET new_result == Wrap(result * 10 + DigitValue(c))
       IN IF new_result <= result THEN -1 ELSE new_result

\* One digit more; the check compares the new value, perhaps wrapped, with the
\* old one.  -1 stands for the early return of -1.
AddDigit(result, c) ==
  IF result = -1 \/ ~IsDigit(c) THEN -1
  ELSE LET new_result == Wrap(result * 10 + DigitValue(c))
       IN IF new_result < result THEN -1 ELSE new_result

\* The result of a call and what is left of the line.
readInt(s) ==
  LET t == SkipSpace(s)
      k == SelectInSeq(t, isspace)
  IN IF t = <<>> THEN [value |-> -1, rest |-> t]
     ELSE [value |-> FoldLeft(AddDigit, 0, Before(t, k)), rest |-> After(t, k)]

readBracedInt(s) ==
  LET t    == SkipSpace(s)
      k    == SelectInSeq(Tail(t), LAMBDA c : isspace(c) \/ c = ")")
      rest == After(Tail(t), k)
  IN IF t = <<>> \/ t[1] # "(" \/ rest = <<>> \/ rest[1] # ")"
     THEN [value |-> -1, rest |-> t]
     ELSE [value |-> FoldLeft(AddDigit, 0, Before(Tail(t), k)), rest |-> Tail(rest)]
-----------------------------------------------------------------------------
Init ==
  /\ file \in Files /\ lines = file.lines /\ ptr = <<>>
  /\ phase = "line" /\ dest = <<>> /\ processes = <<>> /\ outcome = "reading"

At(name) == outcome = "reading" /\ phase = name

Goto(name) == phase' = name /\ UNCHANGED <<file, lines, processes, outcome>>

Refuse(s) ==
  outcome' = s /\ UNCHANGED <<file, lines, ptr, phase, dest, processes>>

\* readLine gives up at the end of the file, even when it has read a line that
\* no newline ends.
Exhausted == lines = <<>> \/ (Len(lines) = 1 /\ ~file.ended)

EndOfFile == At("line") /\ Exhausted /\ Refuse("read")

Ignored(line) == empty(line) \/ line[1] = "#"

IgnoreLine ==
  /\ At("line") /\ ~Exhausted /\ Ignored(lines[1]) /\ lines' = Tail(lines)
  /\ UNCHANGED <<file, ptr, phase, dest, processes, outcome>>

ReadLine ==
  /\ At("line") /\ ~Exhausted /\ ~Ignored(lines[1])
  /\ lines' = Tail(lines) /\ ptr' = lines[1] /\ phase' = "pid" /\ dest' = <<>>
  /\ UNCHANGED <<file, processes, outcome>>

\* dest is the sequence of the numbers read: pid, arrivalTime, bursts.
Store(r, next) ==
  /\ dest' = Append(dest, r.value) /\ ptr' = r.rest /\ Goto(next)

numberOfBursts == Len(dest) - 2

\* pid, arrivalTime and the first burst.
ReadNumber(this, next) ==
  /\ At(this)
  /\ LET r == readInt(ptr) IN
     IF r.value < 0 THEN Refuse("malformed") ELSE Store(r, next)

ReadIOBurst ==
  /\ At("more") /\ ~empty(ptr)
  /\ LET r == readBracedInt(ptr) IN
     IF r.value = -1 THEN Refuse("malformed") ELSE Store(r, "cpu")

\* Mutant: the limit is off by one.
ReadCPUBurstPast ==
  /\ At("cpu")
  /\ LET r == readInt(ptr) IN
     IF r.value = -1 THEN Refuse("malformed")
     ELSE IF numberOfBursts > MAX_BURSTS THEN Refuse("too many bursts")
     ELSE Store(r, "more")

ReadCPUBurst ==
  /\ At("cpu")
  /\ LET r == readInt(ptr) IN
     IF r.value = -1 THEN Refuse("malformed")
     ELSE IF numberOfBursts = MAX_BURSTS THEN Refuse("too many bursts")
     ELSE Store(r, "more")

\* The process is complete; main stops at the first one too many.
ProcessDone ==
  /\ At("more") /\ empty(ptr)
  /\ processes' = Append(processes, dest) /\ phase' = "line"
  /\ outcome' = IF Len(processes') > MAX_PROCESSES THEN "read" ELSE "reading"
  /\ UNCHANGED <<file, lines, ptr, dest>>

Next ==
  \/ EndOfFile \/ IgnoreLine \/ ReadLine
  \/ ReadNumber("pid", "arrival") \/ ReadNumber("arrival", "first")
  \/ ReadNumber("first", "more")
  \/ ReadIOBurst \/ ReadCPUBurst \/ ProcessDone

Spec == Init /\ [][Next]_vars
=============================================================================
