# A verification project for EECS3221

The repository holds six small C programs of an operating-systems course: a
multi-threaded file copier, three CPU-scheduling simulators and two programs
that find a minimum and a maximum in parallel.  It has no documentation of its
own; what the programs are supposed to do is in their comments, their usage
lines, their assertions and one recorded log.  This directory holds TLA+ models
of the programs, the TLC configurations that check them, and proofs checked by
TLAPS.

- [1. The system](#1-the-system)
- [2. The plan](#2-the-plan)
- [3. The file copier](#3-the-file-copier-a2copyc)
- [4. The round-robin simulator](#4-the-round-robin-simulator-p__2rrc)
- [5. The feedback-queue simulator](#5-the-feedback-queue-simulator-p__2fbqc)
- [6. The linked list and the first-come-first-served simulator](#6-the-linked-list-and-the-first-come-first-served-simulator)
- [7. The parser](#7-the-parser)
- [8. Minimum and maximum](#8-minimum-and-maximum-a1)
- [9. The runs](#9-the-runs)
- [10. The proofs](#10-the-proofs)
- [11. Where the code and its comments disagree](#11-where-the-code-and-its-comments-disagree)
- [12. What is not modelled](#12-what-is-not-modelled)

## 1. The system

| Component | State | Operations | What is hard | What makes it correct |
|---|---|---|---|---|
| **File copier** `A2/copy.c` | two files, a ring of `bufSize` slots with two pointers, the mutex, the semaphores `empty` and `full`, one `buf` pointer per thread | the IN-thread loop (read, wait, insert, post), the OUT-thread loop (test, wait, fetch, post, write), `main` (create, join) | every interleaving of `nIN + nOUT` threads; failing seeks, reads, writes and thread creations; uninitialised pointers; blocking and exit conditions | mutual exclusion; no slot overwritten, items in order; each byte copied once at its own offset; the program ends |
| **Round-robin simulator** `P__2/rr.c` | the array of processes, `preReadyQ`, `readyQ`, `ioWaitingQ`, `cpu[]`, clock and counters; per process the burst in progress, its step, the quantum left | seven functions called once per simulated cycle | the order of the calls in a cycle, equality tests on counters, a quantum kept across I/O, exit test that ignores a queue | a process is in one place and goes through its bursts in order; no processor idles while a process is ready; every cycle is accounted once; the quantum is respected; the loop ends |
| **Feedback-queue simulator** `P__2/fbq.c` | as above with three ready queues and, per process, the queue it belongs to | five functions per cycle | as above, and a field `currentQueue` kept by hand in five places | as above, and the queue a process is in tells which quanta it has used |
| **First-come-first-served simulator** `P1__1/fcfs.c` (and `fcfs`, a compiled copy) | three linked lists, `cpu[]`; the nodes it creates beside those in the lists | one long `main`: load, then per cycle the processors, `ioWaitQ`, the waiting times; the report | an off-by-one in the test for the last burst; lists dequeued and enqueued while a count taken before is being worked off; a cycle lost at each dispatch | as for round robin; its lists are FIFO queues; the figures add up |
| **Process structures, comparators** `sch-helpers.[ch]` | `struct process` | `compareByArrival` | ties in `qsort` | the array is in order of arrival |
| **Process queue** `sch-helpers.[ch]` | nodes on the heap; lists with `front`, `back`, `size` | `createProcessNode`, `enqueueProcess`, `dequeueProcess` | the empty and one-element cases, nodes that are freed and come back | it is a FIFO queue, and its assertions hold |
| **Data file parser** `sch-helpers.c` | what is left of the file and of the line, the process being read, the array | `readLine`, `readInt`, `readBracedInt`, `readProcess`, the loop of `main` | integer overflow, array limits, the end of the file | what is stored is what is written; what is refused is malformed |
| **Min/max with threads** `A1/thread.c` | one slot per thread, `remaining` | create, worker, polling join | out-of-order ends, failed creations and joins, a slot written in two steps | each file is folded once into the result; `main` ends |
| **Min/max with processes** `A1/process.c` | one pipe per child, used both ways | fork, child, wait, read | children end in any order, a pipe that its writer could read, ends of pipes that other children hold open | each file is folded once into the result; `main` ends |

How they interact: the three simulators are separate programs on top of
`sch-helpers`, which each directory has a copy of; they share the process
structure, the queue, the parser and the comparator, and nothing at run time.
In the copier the threads share everything, under one mutex and two semaphores.
The A1 programs share memory (threads) or pipes (processes) with their workers.

The list of hazards, with the line where each bites and the properties that
watch it, is in `PROJECT.json`.

## 2. The plan

In the order of how much can go wrong and how little a test would show:

1. `Copy` (the most concurrent program), with `BoundedBuffer` as the abstract
   specification of its ring, and their proofs. Done.
2. `SchHelpers`, `RoundRobin`, with `ProcessLifecycle` as the abstract
   specification all the multiprocessor schedulers implement, and their proofs.
   Done.
3. `FeedbackQueue`, against the same `ProcessLifecycle`, and its proofs. Done.
4. `ProcessQueue`: the linked list, with the nodes as a heap, against the
   abstract `Fifo`. Done, proved.
5. `Fcfs` on top of `ProcessQueue`, against `ProcessLifecycle`: its test for the
   last burst is off by one, so whether it implements it is the question. Done,
   proved.
6. `ReadProcess`: the parser, character by character, on ints of a given width,
   against a reference definition by words. Done, proved.
7. `MinMaxThreads` and `MinMaxPipes`, against one abstract specification of a
   fold in any order, `MinMax`. Done, proved.
8. Proofs about the data: what the files hold, what the reports say, how long
   the slices are, what is read of a line. Done.
9. Left to the model checker: liveness.

| Theorem | Inductive invariant | Status |
|---|---|---|
| copier: `TypeOK`, `MutualExclusion`, `EmptyTokens`, `NoOverwrite`, `ReadAheadByOne` | `TypeInv`, `MutexInv`, `TokenInv` | proved |
| copier: `RingSpec` (refinement), `NeverReturns` | `RingInv`; `EndInv` | proved |
| copier: `EveryByteOnce`, `OutputFaithful` | `ByteInv`, for a `BufferItem` per thread | proved |
| rr: `TypeOK`, `OnePlace` | `TypeInv`; `PlaceInv` (parity of the burst index) | proved |
| rr: `WorkConserving`, `AllServedAtExit` | `DispatchInv` | proved |
| rr: `StepAssertion`; `TimeAccounting` | `StepInv`; `AgeInv` | proved |
| rr: `LifecycleSpec` (refinement) | `PlaceInv` and a count of the processors | proved |
| rr: `ReportSound` | `ClockInv`, `SumsInv`, `TogetherInv`, `ExitInv` | proved |
| rr: `FirstBurstSlices` | `SliceInv` | proved |
| rr: `BoundedWait` | a count of the rounds of those not ahead in `readyQ` | proved |
| list: `ListsSound`, `FifoSpec` (refinement) | `ListInv` | proved |
| fcfs: `ListsSound`, `FifoSpec`, the assertions | `FcfsInv` | proved |
| fcfs: `LifecycleSpec` (refinement) | `PlaceInv`, `WaitInv`, `TurnInv`, `StagesInv` | proved |
| fcfs: `ReportSound` | `CyclesInv`, `PassFacts`, `UseInv`, `AliveInv`, `LatestInv`, `TotalsInv`, `ExitInv` | proved |
| fbq: `TypeOK`, `OnePlace`, `QueueTags`, `LifecycleSpec` (refinement) | `PlaceInv`, by level and with the tags | proved |
| fbq: `WorkConserving`; `TimeAccounting` | `DispatchInv`; `AgeInv` | proved |
| fbq: `FeedbackLevels` | `LevelInv` | proved |
| fbq: `ReportSound`; `SwitchesCounted` | as for rr; `SwitchInv` | proved |
| pipes: `OneMessage` | `PipeInv` | proved |
| threads: `FailureIsFinal` | part of `FoldInv` | proved |
| threads, pipes: `FoldSpec` (refinement) | `FoldInv`, over an induction on the scan of a file | proved |
| parser: `StoredFaithful`, `RefusedRightly` | `IInv`, over an induction on the digits of a number | proved |
| all: `Terminates`, `ConsumersStarve` | none | checked |

## 3. The file copier (`A2/copy.c`)

`Copy` has one action per access to shared state.  `pc[t]` is where thread `t`
is; the eight labels in `Critical` are those between a lock and its unlock.  The
threads `0 .. nIN - 1` are producers (`IN_thread`), the others consumers
(`OUT_thread`), and `main`'s state is `created`, `joined` and `outcome`.

| Code | Actions |
|---|---|
| `read_byte` | `LockRead`, `SeekIn`, `ReadByte`, `ReadNothing` |
| `produce` (wait on empty, insert, advance, post full) | `WaitEmpty`, `LockInsert`, `InsertItem`, `AdvanceInsert`, `PostFull` |
| `OUT_thread`'s loop condition | `Test`, which reads `removePointer` without the lock |
| `consume` | `WaitFull`, `LockRemove`, `RemoveItem`, `AdvanceRemove`, `PostEmpty` |
| `write_byte` | `LockWrite`, `SeekOut`, `WriteByte` |
| the way out after a failed seek or write | `Fail` (part of `SeekIn`, `SeekOut`, `WriteByte`), `Exit` |
| `main` | `CreateThread`, `JoinThread`, `JoinCrashes`, `Return` |

An unlock is part of the last access under the lock: nobody else can see the
state between.  A failed seek or write unlocks the mutex (`Fail`) and only then
calls `exit(1)` (`Exit`): between the two, at the label `exit`, the other threads
run on, and the -1 that a failed `lseek` returned is in the item.  `Faults` is the
set of calls that may fail in a run.  A failed read looks like the end of the file to the code and ends that thread
(`ReadNothing`).  `feof` is never true because the reads go through the
descriptor, so the loop's condition never ends it.

The `buf` fields are never assigned.  `BufValues` is the set of values `malloc`
may have left in them: null (the first access crashes the program,
`NullFault`), distinct, or shared.  An item cell that several threads share is
one element of `Cells`.  A wild pointer into the program's other data is not
modelled: nothing can be said of it.

Nobody looks at the result of `pthread_create` (the failure `"create"` of `Faults`): a
thread that could not be created is in `absent` and takes no step, `main` goes on,
and later joins an identifier that was never assigned, which is an error that
nobody looks at either (`JoinThread`) or a crash (`JoinCrashes`).

`put` and `got` are history variables, the items stored and fetched in order.

The central properties are two counting invariants.  `EmptyTokens`: each slot is
counted once, in `empty`, by a producer between its wait and its store, by an
item in the ring, or by a consumer between its fetch and its post.
`FullTokens`: the same for the items and `full`, with one token too many,
because `main` initialises `full` to 1.  From them follow `NoOverwrite` and
`ReadAheadByOne`, and with them that the ring implements `BoundedBuffer` with
`Slack = 1` (`RingSpec`).  A correct ring would have `Slack = 0`; `CopyLoss`
shows what the difference costs.

`EveryByteOnce` and `OutputFaithful` are about the two files: a seek and the
read or write after it are two system calls on an offset that all threads share.
Both suppose that no two threads share a `BufferItem`.

`NeverReturns` and `ConsumersStarve`: the loop condition of the consumers
compares a slot index with the number of consumers.  With `bufSize <= nOUT` it
is always true, so `main` never returns unless no consumer could be created, and
every fair run ends with the consumers blocked on `full`, if no `exit(1)` and no
crash ends it before.  Failing reads and creations are no way out of this.

**Fairness.**  `FairSpec` has weak fairness for each thread and for `main`: the
operating system keeps scheduling a thread that can run.  Nothing is assumed
about who gets the mutex or a semaphore; that would take strong fairness, which
neither POSIX nor the code promises.

## 4. The round-robin simulator (`P__2/rr.c`)

A process is its index in the sorted array; `NULL` is 0; a `process_queue` is a
sequence of indices (`SchHelpers`).  `phase` is the function of the cycle being
executed and `i` its loop variable, so each pass of each loop is a step:

| Code | Actions (`phase`) |
|---|---|
| `enquePreReadyQ` | `Admit`, `AdmitDone` (`admit`) |
| `fromRunningToWaiting` | `Block`, `Finish`, `Preempt`, `Continue`, `RunningDone` (`running`) |
| `fromIOWaitingToPreReady` | `Wake`, `KeepWaiting`, `IODone` (`io`) |
| `fromPreReadyToReadyToCPU` | `EnqueueReady`, `SortAssertFails`, `SortDone` (`sort`), `Dispatch`, `NoDispatch`, `DispatchDone` (`dispatch`) |
| `incrementIOWaiting`, `incrementReadyQIdle`, `incrementCPUBurst` | the actions of those names |
| the end of `main`'s loop | `EndOfCycle` |

`preReadyQ` is an array that is sorted by pid before anything reads it, so a set
stands for it, and the sort for taking its elements in order of pid.  Sorting
compares any two equal pids at some point, and the comparator then fails its
assertion: `SortAssertFails`.  A full turn of a queue (`incrementIOWaiting`)
leaves it as it was and is one step.

`Inputs` is the set of arrays a data file may describe: bursts alternate and
their number is odd, which the parser enforces.  `SortedInputs` keeps *every*
order of the processes that arrive together, because the comparator does not
tell them apart.  `served` and `waited` are history variables.

What is checked, and but for the last one proved: `OnePlace` (no process in two places
and none lost); that the simulator implements `ProcessLifecycle`, the states
`{new, ready, running, waiting, terminated}` of the comment on `struct process`;
`WorkConserving` and `AllServedAtExit` (the exit test does not look at `readyQ`,
and is right only because a ready process always finds a free processor in the
same cycle); `TimeAccounting` (in every state of every cycle, the time since a
process arrived is its waiting time plus its service time); `FirstBurstSlices`
(the quantum, no sooner and no later); `ReportSound` (the figures printed agree
with the data file); `BoundedWait` (a ready process is dispatched within a
quantum for each round of the others); and `Terminates`.

The assertion of `fromIOWaitingToPreReady` is a property, `StepAssertion`,
stated of every waiting process in every state, not a step that may fail.

**Fairness.**  The program is sequential: `WF_vars(Next)`.

## 5. The feedback-queue simulator (`P__2/fbq.c`)

`FeedbackQueue` has the same shape; `readyQ` is a function from the three levels
to sequences, `currentQueue` the field of that name.  `selectMoveRunning` calls
one of two functions for a running process according to that field; both treat
the end of a burst alike and share `Block` and `Finish`; `Demote` is what
`moveFrom_Q0_to_Q1_or_Q2` does at the end of a quantum.

Its own properties: `QueueTags` (the field agrees with the queue the process is
really in), `FeedbackLevels` (in queue 1 a process has used exactly the first
quantum, in queue 2 both; off the processor only whole quanta have been used),
and `SwitchesCounted` (the number of context switches reported is a function of
the data file and the quanta alone).  `ReportSound` includes that all processes
ended.

## 6. The linked list and the first-come-first-served simulator

`ProcessQueue` models `createProcessNode`, `enqueueProcess` and `dequeueProcess`
on a heap of `Nodes`: `data` and `next` of each node, `allocated`, and `front`,
`back` and `size` of each list.  A freed node keeps its fields and may be
returned again.  The assertions of the two functions are guards: a program whose
assertion fails makes no further step, which the run sees as a simulation that
does not end.  `Spare` is a node that the program creates and puts in no list,
which `fcfs.c` does whenever it turns a list, and leaks.  `chain`, a history
variable, is what each list should hold.  `ListsSound` relates it to the
pointers, and `FifoSpec` says that the processes found by following them are
those of the abstract `Fifo`.

`Fcfs` extends it: a step of `main` makes at most one call on a list.

| Code (`phase`) | Actions |
|---|---|
| load `readyQ` (`create`, `load`) | `Create`, `Load`, `LoadDone` |
| the condition of the loop (`test`) | `Test` |
| the processors (`cpu`) | `CPUBurstDone`, `CPUStep`, `Dispatch`, `Idle`, `CPUsDone` |
| the turn of `ioWaitQ` (`io`, `ioLeave`, `ioRotate`, `ioRequeue`) | `IOBurstDone`, `IOLeave`, `IOStep`, `Rotate`, `Requeue`, `IODone` |
| the waiting times, by following the pointers (`wait`) | `Wait`, `EndOfCycle` |
| the report (`report`, `reportRotate`, `reportRequeue`) | `Report`, `Rotate`, `Requeue`, `ReportDone` |

A process at the end of its last burst is put in `ioWaitQ` as well, because the
test for the last burst accepts an index one too large, and is found there in the
same cycle to have no burst left (`bursts` is read one past the last burst: zero,
as the array is static and never full).  `LifecycleSpec` shows that the process
goes through the right states all the same.  `ReportSound` says what the figures
are: the completion time is the waiting plus the bursts plus one cycle for each
CPU burst.  `CompletionTime` is what the comment above the averages says it is,
and is violated (`FcfsCompletion`).  Which free node `malloc` returns makes no difference to the program
(`Fresh`); the theorems hold for any choice.

The simulators of sections 4 and 5 use the same functions through sequences;
`ListsAreFifo` is why they may.

**Fairness.**  The program is sequential: `WF_vars(Next)`.

## 7. The parser

`ReadProcess` is the reading half of `P__2/rr.c`'s `main` with the functions of
`P__2/sch-helpers.c` under it; `P1__1` has the same parser.  A line is a sequence
of characters; a step is one call of `readLine`, `readInt` or `readBracedInt`,
and `phase` what `readProcess` is about to read.  The characters are those that the
parser tells apart: the six that `isspace` takes (`"VT"` is the vertical tab), the digits,
the braces, the comment character, and one that is malformed anywhere.  `AddDigit` is the loop of
`readInt` on an int whose greatest value is `INT_MAX`, with the wrap-around and the
overflow check that compares the new value with the old.  `Refuse` is an exit with
a message.  `ReadAssumption` wants `MAX_BURSTS` positive and even, as the 1000 of the
header is: the first burst and the I/O bursts are stored before anything is
compared with the limit.

`ReadProcessProperties` says what the result should be from the words of a line,
and the words from the places where they start and end (`Starts`, `Ends`), each
set taken in its order (`InOrder`): no reading is in that definition.
`StoredFaithful`: every line that counts and was not refused is in the array, in
order, its bursts within the limit, and each number equals the one written modulo
`Ints`, the number of ints; a weaker statement would not see a digit go wrong.
What the comments of the parser promise beyond this is `ReadAsDocumented`: that a
number which does not fit is refused (`NumbersFit`), that there is a number in the
braces (`BracesHoldInt`), and that a line is read whether or not a newline ends it
(`EveryLineRead`).  All three are false, and the run `ReadComments` shows them so of one
file.  `RefusedRightly`: no line of the
documented syntax is refused, and the message is about the first error of the
line.

The program is a function of its input, so one behaviour for each file is all
there is.

## 8. Minimum and maximum (A1)

`Extrema` is what the two programs share: the scan of a file, and the way a
result travels, as the sum and the difference of the two extremes.  Doubles are
integers, exact except for the limits: adding a number to `DBL_MAX` or `DBL_MIN`
loses the smaller of the two (`Plus`), which the decoding in `parent_min`
depends on.  `MinMax` is the abstract specification: each file is folded exactly
once, in any order, into `Extremes` of the set of the files folded, which is
stated without a loop.  Its definition of the extremes says what the loop in the
code computes, with its `else` that keeps a new maximum from being compared with
the minimum; section 11 says how that differs from the minimum.

`MinMaxThreads` (`thread.c`): `CreateThread`, `CreateFails`, `AllocFails`,
`StartPass`, `TryJoin`, `PassOver` and `JoinCrashes` are `main`; `ScanFile`,
`StoreSum` and `StoreDif` a thread.  A slot whose thread could not be created
keeps the `tid` that `malloc` left, which `main` takes for a thread; a join of it
may fail for ever or crash, and `main` then never ends, so `Terminates` is
claimed only when all threads could be created.  What is claimed of the others is
`FailureIsFinal`, which is proved: no result is printed that leaves a file out.  `FoldSpec` depends on
`main` reading a slot only after the join.

`MinMaxPipes` (`process.c`): `Fork`, `ForkFails`, `SendName`, `ForksDone`,
`Wait`, `Receive`, `ReceiveNothing` and `PrintResult` are `main`; `ReadName`,
`ScanFile`, `ScanCrashes`, `WriteResult` and `Exit` a child.  Parent and child
both read and write one pipe; `OneMessage` is why neither reads what it wrote.
A child whose file cannot be opened dies without an answer; the read of its pipe
returns only when the younger children, which inherited its write end, have
ended (`Writers`), and `Terminates` says that this is not for ever.  The six
decimals of the message are taken to say all of the numbers; what they lose is
`DBL_MIN`, which is printed as 0, and `PipesAssumption` says that no sum or
difference of two numbers is as small as that.

**Fairness.**  Weak fairness for `main` and for each thread or child: the
operating system keeps scheduling what can run.

## 9. The runs

| Run | Instance | Shows |
|---|---|---|
| `CopySafe` | 2 producers, 2 consumers, 1 slot, 2 bytes; a `BufferItem` per thread, or null pointers and a shared one; any call may fail, the creation of a thread included | lock, semaphores and ring are right whatever the pointers are and whatever fails; with a `BufferItem` per thread every byte travels once with its offset, and the copy holds nothing else as long as no consumer ran ahead; `main` never returns and every fair run that is not cut short ends with the consumers blocked |
| `CopyLoss` | see section 11 | violation |
| `RRSafe` | 2 processors, up to 3 processes of 4 shapes, or 5 without I/O; quanta 1 and 2 | all the properties of section 4 |
| `RRFields` | see section 11 | violation |
| `FBQSafe` | 2 processors, up to 3 processes of 4 shapes, or 4 of 3 shapes; quanta (1,2) and (0,1) | all the properties of section 5 |
| `FBQQueue2` | see section 11 | violation |
| `FcfsSafe` | 2 processors, 22 nodes; none, 2 or 3 processes of 5 shapes, 4 or 5 of 2 shapes | the linked lists of `fcfs.c` are sound FIFO queues, its processes live the life of the comment, its figures add up, it ends |
| `FcfsCompletion` | see section 11 | violation |
| `ReadSafe` | more than five thousand files; ints of 5 bits, at most 4 bursts and 2 processes | the parser stores what is written and refuses only what it should |
| `ReadComments` | see section 11 | violation |
| `ThreadsSafe` | each file of up to 3 of 4 numbers by itself, none, three files of 4 kinds; any thread may fail to be created | every file is folded once, whatever the interleaving; `main` ends if all threads exist |
| `PipesSafe` | the same, any file of three missing; `pipe` or `fork` may fail | every file is folded once; a pipe never holds two messages; `main` ends |

**Why these bounds are enough.**  Two producers and two consumers are the fewest
for which two threads of a kind compete for each semaphore and each critical
section.  With one slot and two bytes a producer waits for a consumer, a full ring is
one store away from an overwritten item, every advance wraps, and every thread sees
the end of the file.  More than one slot is in `CopyLoss`, whose trace goes around a
ring of two, and in the theorems, which are for any number.  `SomeBufs` has the pointers that the bytes need and one
choice of null and shared ones; for all others there are the
theorems.  `RecycledJunk` in `CopySafe` gives the unread slots an
offset that cannot be sought to, so that a consumer that ran ahead may be on its way
to `exit(1)` while the others run; `ZeroJunk` in `CopyLoss` lets it go on.

For the simulators, three processes on two processors are the fewest with both
a full set of processors and a queue; five make queues in which the order
matters over several rounds (`BoundedWait`).  The shapes `<<1>>`, `<<3>>`,
`<<2, 1, 2>>`, `<<1, 0, 3>>` are a burst shorter than a quantum, one longer, I/O
between CPU bursts, and an I/O burst of length 0; arrivals 0 and 1 give ties,
different cycles, and an arrival while others compete.  The inputs hold the
empty array, which is rejected, and two processes with one pid; `MAX_PROCESSES`
is large enough for the others.  Nothing else in these models is bounded by hand: the
clock and the counters are bounded by the inputs because the simulations end.

For `fcfs.c` the shapes hold bursts of length 0 of both kinds, which end in the
cycle they begin; the five processes are more than `MAX_PROCESSES`, which nothing
checks.  The 22 nodes are enough for those it leaks on these inputs.

In the parser, ints of 5 bits (`INT_MAX` is 15) are the narrowest for which a
number of two digits may wrap to a larger, a smaller and a negative value; the
lines hold one and two bursts too many, an error at each place, each kind of
malformed word, words with nothing between them and with each kind of space, comments,
blank lines, and a last line without its newline.

In the min/max programs a number stands for its half, so that 1 (`DBL_MIN`) lies
between 0 and every other positive number; the three files are enough for a child
to hold the pipes of two older ones and for two to end in either order while the
third runs.

**Deadlock** is not checked: every program really stops, and the copier may
also block for good, which `ConsumersStarve` and `Terminates` are about.

Inputs with a CPU burst of length 0 appear only in `RRFields`: there the simulation
never ends and the clock grows without bound.

Every property of a passing run has a mutant of the code (the definitions marked
"Mutant" in the modules) that makes the run fail.

## 10. The proofs

All proofs hold for every value of the constants that the named assumptions
`CopyAssumption`, `SchAssumption`, `QuantaAssumption`, `QueueAssumption`,
`FcfsAssumption`, `ReadAssumption`, `ExtremaAssumption` and `PipesAssumption` allow:
any number of threads, slots and bytes, any data file, an int of any width, any
number of processors, lists and nodes.

| Module | Theorem | Says |
|---|---|---|
| `CopyProofs` | `TypeCorrect` | `TypeOK` of the copier |
| | `MutexSafe` | `MutualExclusion`, whatever fails |
| | `EmptyTokensCorrect`, `FullTokensCorrect` | `EmptyTokens`, `FullTokens` |
| | `BufferBounds` | `NoOverwrite` and `ReadAheadByOne` |
| | `RingRefines` | `Copy` implements `BoundedBuffer` with slack 1 |
| | `NoReturn` | `NeverReturns` |
| | `BytesStored`, `BytesWritten` | `EveryByteOnce`, `OutputFaithful` |
| `RoundRobinProofs` | `TypeCorrect` | `TypeOK` of the simulator |
| | `PlacesCorrect` | `OnePlace` |
| | `NoIdleProcessor` | `WorkConserving` |
| | `NobodyLeftBehind` | `AllServedAtExit` |
| | `NoBurstOvershot` | `StepAssertion` |
| | `TimesAccounted` | `TimeAccounting` |
| | `LifecycleRefines` | `RoundRobin` implements `ProcessLifecycle` |
| | `ReportCorrect` | `ReportSound` |
| | `SlicesCorrect` | `FirstBurstSlices` |
| | `WaitBounded` | `BoundedWait` |
| `FeedbackQueueProofs` | `TypeCorrect`, `PlacesCorrect`, `TagsCorrect` | `TypeOK`, `OnePlace`, `QueueTags` of the simulator |
| | `NoIdleProcessor`, `TimesAccounted` | `WorkConserving`, `TimeAccounting` |
| | `LevelsCorrect` | `FeedbackLevels` |
| | `LifecycleRefines` | `FeedbackQueue` implements `ProcessLifecycle` |
| | `ReportCorrect`, `SwitchesCorrect` | `ReportSound`, `SwitchesCounted` |
| `FcfsProofs` | `ListsAreSound` | `ListsSound`, for any program that calls the functions of the list |
| | `ListsAreFifo` | `ProcessQueue` implements `Fifo` |
| | `CallsOnly` | `Fcfs` is such a program: it implements `ProcessQueue` |
| | `FcfsListsSound`, `FcfsListsFifo` | so its lists are sound, and are FIFO queues |
| | `AssertionsPass` | no assertion of the lists stops it |
| | `LifecycleRefines` | `Fcfs` implements `ProcessLifecycle` |
| | `ReportCorrect` | `ReportSound` |
| `MinMaxThreadsProofs` | `FailureStays` | `FailureIsFinal` |
| | `FoldRefines` | `MinMaxThreads` implements `MinMax` |
| `MinMaxPipesProofs` | `MessagesCorrect` | `OneMessage` of `MinMaxPipes` |
| | `FoldRefines` | `MinMaxPipes` implements `MinMax` |
| `ReadProcessProofs` | `ParserInvariant` | `IInv`, which the two theorems that follow rest on |
| | `ArrayIsFaithful` | `StoredFaithful` |
| | `RefusalIsRight` | `RefusedRightly` |
| | `ArrayIsInput` | the array that `main` goes on with is one the simulators are modelled for: a sequence of `Process` |

Every invariant and every step property that a passing run checks is stated by one
of these theorems.

**Lemmas about data.**  `DataLemmas` holds what several proofs need of numbers,
queues and sums: remainders, the elements of a queue after a step, `Leading` (the
first `n` elements of one), sums over finite sets, folds over sequences, and the
first and the last of a set of places.  The community modules
define a sum as a fold, and the library's induction theorems take an operator,
which the provers cannot instantiate; that a well-founded relation has minimal
elements (`WFMin`) needs none, so an induction is written as a smallest
counterexample that cannot be one; `InductionUpTo` is the form in which most proofs
use it.  `FoldExists` shows that a fold over a sequence has the value that its
recursion on the places left promises, and `SumIsSum` gives in this way the one equation
about sums that everything else follows from: the sum over a set is that over
the rest plus the value at any one of its elements.

**The copier.**  `MutualExclusion` is not inductive; `MutexInv` adds that, as
long as the program runs, a thread at a critical label holds the mutex.  With it each
step of a critical section is made by the only thread there, so the sets of
threads in the counting invariants change by one known element, and the four
lemmas on `Cardinality` (a thread enters, leaves, moves, stays) settle every
action.  `BufferBounds` is arithmetic on the two invariants.  For `RingRefines`
the invariant also ties the ring to the history: the pointers are the lengths
of `put` and `got` modulo `bufSize`, counting the advances still to come, and
the slots between them hold the items put and not yet got.  The step that is
hardest to see is the fetch: the token invariants show that the slot fetched
still holds item number `Len(got) + 1`, or that no item is left.

`ByteInv` follows a byte from file to file.  On the way in, the offset a producer
noted is where the read that follows will read, because both are made under the
mutex; and the bytes read are those stored plus those carried, which makes each
stored once.  On the way out, an item in the hands of a consumer is one that was
fetched, and what is fetched is in the hands of a consumer or in the copy.  Both
need that no two threads use one cell (`DistinctBufs`, a premise of the properties,
which are false with a shared cell); no step assigns a pointer (`BufsStay`), so what
holds for a run that starts with distinct ones holds all along.

**Round robin.**  `OnePlace` is not inductive either: that a process woken from
I/O is not at its end needs that an I/O burst is never the last.  `BurstInv`
adds that a ready or running process is in a burst of even index and a waiting
one in a burst of odd index; the number of bursts is odd, so neither the wake
nor the block can step past the last burst.  Each action that moves a process
has a lemma of its own; the others are covered by `QuietPlaces`.

The other invariants of the simulator are about the loops of one cycle, where a
property of the whole cycle is true only of the part already done.

- `DispatchInv`: in the dispatch loop the processors before `i` are taken as
  long as a process is ready, after it all are, and from that loop on
  `preReadyQ` is empty.  It gives `WorkConserving`; and `AllServedAtExit`,
  because an idle processor at the end of a cycle means that `readyQ` is empty,
  which is why the exit test need not look at it.
- `StepInv`: in the turn of `ioWaitingQ` the processes already looked at, which
  are those at its end, have a cycle of their I/O left; after the turn all have,
  so the next increment cannot go past the length.  A length of 0 is met when
  the burst starts with a step of 0.
- `AgeInv`: a process still to be admitted never has an arrival time in the
  past, so it is admitted in the very cycle it arrives in.
  That needs the array sorted, or one process would hide an earlier one.  With
  the sets of processes already counted in the cycle (`Counted`) disjoint, each
  of the three increments adds one to exactly one side of `TimeAccounting`.
- `SumsInv`: what a process has been served is the lengths of the bursts behind
  it plus its step, and what the processors were used for is the sum of the CPU
  parts of this over all processes.  A burst that ends moves its length from
  the step to the sum, which is an equality because the code tests for one.
- `TogetherInv`: the processes with one pid and one arrival time stay together in
  `preReadyQ` until the sort aborts, so that the abort happens for exactly the
  inputs that `ReportSound` names.
- `ClockInv` and `ExitInv`: nothing has ended at clock 0 before a processor was
  used, and the last process ends in the last cycle; this is why the report does
  not divide by zero.
- `SliceInv`: in its first CPU burst, the cycles a process has used and what is
  left of its quantum are together a multiple of the quantum, and the quantum
  is renewed when it is 0 and at no other time.  After I/O the quantum is
  not renewed and nothing like it holds (`RRFields`).
- `RoundsInv`: let a process be in place `j` of a `readyQ` of `n` and have waited
  `r` quanta and `s` cycles more.  The `n - j` admitted processes that are not ahead
  of it then stand for `r + 1` rounds of all processors, and for the running ones
  that have more than what is left of this quantum (`Rounded`).  At the end of the
  dispatch loop every processor is busy with a quantum that is not 0, so a quantum
  waited in full becomes one more round (`Fresh`).  As `n - j` is less than the
  number of processes, `Rounds` follows.  Without I/O (`SingleBursts`) the quantum is
  always renewed, which is what the argument needs of it.

`LifecycleRefines` maps a process to its state by the place that holds it.  The
lemmas on the places say where each action takes which process; that one more
may run is a count: `cpu` maps the busy processors onto the running processes,
and processor `i` is not among the busy ones.

**Feedback queue.**  The invariants have the shape of those of round robin, with
the three ready queues taken together (`Queued`, and `LevelsApart` for what
keeps them disjoint), and two things are new.  The types are not inductive on
their own: a process that goes down to queue 2 is given the length of its burst
as its quantum, and that there is such a burst is part of `PlaceInv`.  And
`FeedbackLevels` needs `LevelInv`: once `selectMoveRunning` has looked at a
processor (`Passed`), the process it has left there has at least one unit of its
quantum, because one that had used it all was demoted and one that had used its
burst blocked or finished; until the next increment only fresh quanta are added.
So a quantum that is counted down from a positive value to exactly 0 is never
overrun, and the equality test that demotes a process never misses.
`SwitchesCounted` follows from `SwitchInv`, a sum over the processes of the
demotions their ended bursts called for (`Demotions`) plus the queue each is in;
the two agree at the end of a burst because a process was only moved down by a
quantum its burst outlasted (`Outlasts`).

**The linked list.**  `ListsSound` is all but inductive; `ListInv` adds the types.
The step to see is the enqueue: the node that `back` points to is the last of its
own list and, the lists being apart, in no other, so overwriting its `next`
disturbs nothing else; and the new node is in no list because it was not
allocated.  For `Fifo`, `data` only ever changes at such a node, so following the
pointers gives the old processes and, after an enqueue, the new one at the end.

**First come, first served.**  What is to show first is that `fcfs.c` calls the
functions of its lists with a process each time.  `FcfsInv` says that the lists
hold processes, that `node` points to one where the program reads it, and
(`PassInv`) that the turn of `ioWaitQ` never runs past it: as many processes as
are left of the count taken before the turn are still in the list, although the
turn itself removes some and puts others back.  The same bounds give the
assertions.

From there on the lists are the sequences `held`, and `PlaceInv` is about the
five sets in which a process may be: not loaded, ready, on a processor, in
`ioWaitQ` or in the node that the turn has taken out of it, in `terminatedQ`.  The
off-by-one is in `BurstInv`: a process in `ioWaitQ` is in a burst of odd index *or
one past its last burst*, whose length is read as 0, and by the end of the turn
(`TurnInv`) those have been moved to `terminatedQ`.  The abstract state of such a
process is `terminated`, which is why `LifecycleRefines` holds: the step that takes
it out of `ioWaitQ` is a stutter.

`ReportSound` needs the time of every process accounted (`CyclesInv`): its waiting,
its service and one cycle for each dispatch add up to the time, for an ended
process to the time of its end.  The loop over `readyQ` follows pointers, and
`WaitInv` ties where it is to a position of the queue.  `UseInv` bounds all that was
served by the cycles the processors have had, one processor at a time within a
cycle; `AliveInv` and `LatestInv` say that the process turned last by the report is
one of those that ended last; and `TotalsInv` that the totals are the sums over the
processes turned so far (`Reported`), a sum that grows by the first of the queue
until it is that over all.

**The pipes.**  `PipeInv` says what the pipe of a child may hold at each of its
steps (`Contents`): the name until the child has read it, then nothing, then the
answer of that child until the parent, which waits for the end of the child,
has read it.  The parent sends before the child can answer and receives after
the child has ended, and this is all that keeps each from reading its own message.

**The folds of A1.** The lemmas on extremes in `DataLemmas` are about any file,
any fold of that form and any limits that its numbers keep (`Limits`).  That
after `n` numbers the loop has the extremes of the first `n` (`LoopIsExtremes`)
is an induction, written like the others with a least counterexample; each
program's `ScanIsExtremes` says that its `Scan` is that loop.  What is compared
with the minimum is what is no new maximum *at its place*, and this is what the
condition in the loop's body keeps track of.  `SumsArrive` and `PrintedArrive`
say what survives the journey: the minimum always does, unless it was never
found, and a maximum never found arrives as one that changes nothing.
`OneMoreFile` is the fold step of `MinMax`: the extremes of a set of files,
folded with those of one more.

What is left are the steps of the programs.  Of the threads, `FoldInv` ties what a
slot holds to the step of its thread, so that what `main` reads after the join is
the whole result; and it counts `remaining` by the files folded, so `main` prints
when, and only when, all are.  Of the processes, it says that a child that has
come to its end left its answer in its pipe, or died of a file it could not open
and left none, and that the turns of `main`'s second loop are the files folded.
Both then step from `ExtremesOf` of a set to `ExtremesOf` of the set and one file.

**The parser.**  The code knows nothing of words: it skips spaces, takes digits one
by one and looks at what is left.  `IInv` ties the three levels together.  Of the
file, the lines taken are those up to some place, and as many of them count as
there are processes, and one more while one is being read (`LinesTaken`).  Of the
line, `Reading(s, p, n)`: before the place `p`, `n` words start and `n` end, and `p` is
a space or where the next word starts.  Of the numbers, each in `dest` is the one that its word denotes, modulo
the number of ints (`AreRead`), and the words are good ones.

`NextWord` is the step from places to words: if a word starts at `p`, it is the word
number `n + 1`, because the element of a set in order is the one with as many below
(`NextInOrder`).  `ReadIntWord` and `ReadBracedWord` say of one call that it reads
exactly the next word, or that there is none that is of the form and fits.
`ReadsDenoted` is about the digits: the loop of `readInt` and the fold of `Denoted`
agree modulo the number of ints after every digit, as long as the check for an
overflow has not stopped the loop, and agree exactly if the number fits.

`Phases` ties what is to be read to the numbers read: an odd number of bursts after
a CPU burst, an even one after an I/O burst.  Hence the array of bursts is never
left, although only one of the two readers looks at the limit: an I/O burst is read
with an odd number of bursts below an even limit.  That a refusal is right is then a
matter of which word is the first bad one: `FirstBadAfter` and `FirstBadBefore` bound
it from the words read and from the call that failed.

**Only model-checked.**  Liveness (`ConsumersStarve`, `Terminates`), which is out of
the prover's reach, as all that needs fairness is.

## 11. Where the code and its comments disagree

Each of these has a run that shows it:

| Run | Property | Code | What happens |
|---|---|---|---|
| `CopyLoss` | `CopyComplete` | `copy.c:234` | when all is still, the copy differs from the file: `full` starts at 1, a consumer fetches a slot nobody filled, and later fetches miss their item |
| `RRFields` | `FieldsAsDocumented` (`QuantumLeft`, `StepWithinLength`) | `rr.c:137` | the quantum is not renewed after I/O: it goes to -1 and the process is not preempted again |
| | | `rr.c:185` | in the same step of the trace, a CPU burst of length 0 is stepped over; it never ends |
| `FBQQueue2` | `Queue2Last` | `fbq.c:331` | a process of queue 2 keeps its processor while queues 0 and 1 are not empty |
| `FcfsCompletion` | `CompletionTime` | `fcfs.c:135` | "completion time = bursts time + waiting time" leaves out one cycle for each CPU burst, so the turnaround printed is too short |
| `ReadComments` | `ReadAsDocumented` (`NumbersFit`, `BracesHoldInt`, `EveryLineRead`) | `sch-helpers.c:210` | a number that does not fit, which is to be refused, is accepted if it wraps to a larger value |
| | | `sch-helpers.c:235` | `()` is accepted as an I/O burst of length 0 |
| | | `sch-helpers.c:180` | a last line without its newline is dropped |

Signed overflow is undefined in C; the models wrap, as an unoptimised build does.

And these were met while modelling; the properties named state what the code
really does.

- `copy.c:184`: the consumers compare a slot index with a number of threads; with
  `bufSize <= nOUT` the program never returns (`NeverReturns`), with more slots it
  may.
- `rr.c:65`, `fbq.c:94`: two processes with one pid are accepted and abort the
  sort if they become ready in the same cycle (`ReportSound` of `rr`).
- `fbq.c:456`: of several processes that finish last one pid is printed, the code
  says "last process(es)" (`ReportSound`).
- `sch-helpers.c:336`: the comment promises the order of the pids for processes
  that arrive together, the comparator does not look at them (`SortedInputs`).
- `fcfs.c:299`: the turnaround counts from 0 and not from the arrival.  An empty
  input divides by zero (`fcfs.c:298`, `ReportSound`).
- `thread.c:108`, `process.c:98`: a new maximum is not compared with the minimum, and
  the maximum starts at `DBL_MIN`: a file of one positive number, or of ascending ones,
  has no minimum, one without positive numbers has no maximum, and what is printed
  need not be a number of the files (`Extremes`).
- `thread.c:73`: a slot whose thread could not be created is polled for ever, or
  crashes the program (`FailureIsFinal`).

## 12. What is not modelled

- The data files, the recorded log and `fcfs`, a compiled copy of `fcfs.c`: data.
- Memory errors, of whose outcome nothing can be said: in `fcfs.c` more processes
  than the array holds; in `process.c` names and results longer than their buffers
  (`PipesAssumption` leaves out the files whose result is); in `thread.c` file
  names longer than theirs.  Running out of memory ends the simulators.
- Doubles, but for what their limits do; their formatting, but for `DBL_MIN`
  printed as 0: other numbers are those that six decimals say in full.
- In `copy.c`: the opening of the files and the conversion of the arguments (the
  model starts with the files open and the counts at least 1); the log
  file; `nsleep`, which is never called; a failing lock or semaphore operation; of a join
  of an identifier never assigned, all but an error and a crash.
- In the simulators: the check of `argc`, the formatting of the report, and the
  overflow of the counters, which are unbounded integers here: they stay below
  the total length of the input's bursts and gaps.
- `fbq.c` names the processors `cpu[0]` to `cpu[3]` in its exit test,
  and `fcfs.c` in its loop; the models use all of `CPUs`,
  which is the same for the four processors of `NUMBER_OF_PROCESSORS`.
