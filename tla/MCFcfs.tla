------------------------------- MODULE MCFcfs -------------------------------
(* Instances of Fcfs for TLC. *)
EXTENDS FcfsProperties

\* All arrays of n processes with pids 1 .. n and the given bursts; the arrivals
\* are 0, as the program never looks at them after the sort.
Arrays(n, bursts) ==
  {[j \in 1 .. n |-> [pid |-> j, arrivalTime |-> 0, bursts |-> b[j]]] :
     b \in [1 .. n -> bursts]}

\* I/O between CPU bursts, and bursts of length 0 of either kind.
MixedBursts == {<<0>>, <<2>>, <<1, 2, 1>>, <<2, 0, 1>>,
                <<1, 1, 0, 2, 1>>}

\* None, two or three processes; and five that compete for the processors, more
\* than MAX_PROCESSES.
SomeInputs ==
  Arrays(0, {}) \cup Arrays(2, MixedBursts) \cup Arrays(3, MixedBursts)
    \cup Arrays(4, {<<0>>, <<1, 1, 1>>}) \cup Arrays(5, {<<1>>, <<0, 1, 2>>})
=============================================================================
