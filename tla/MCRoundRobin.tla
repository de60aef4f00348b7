---------------------------- MODULE MCRoundRobin ----------------------------
(* Instances of RoundRobin for TLC. *)
EXTENDS RoundRobinProperties

\* All arrays of at most n processes with the given pids, arrivals and bursts.
Arrays(n, pids, arrivals, bursts) ==
  UNION {[1 .. m -> [pid : pids, arrivalTime : arrivals, bursts : bursts]] :
           m \in 0 .. n}

Distinct(arrays) ==
  {a \in arrays : \A j, k \in DOMAIN a : a[j].pid = a[k].pid => j = k}

\* A short and a long CPU burst, I/O between CPU bursts, an I/O burst of 0.
MixedBursts == {<<1>>, <<3>>, <<2, 1, 2>>, <<1, 0, 3>>}

\* Up to three processes; none; and two processes with one pid.
MixedInputs ==
  Distinct(Arrays(3, 1 .. 3, 0 .. 1, MixedBursts))
    \cup Arrays(2, {1}, 0 .. 1, MixedBursts)

\* Five processes without I/O.
SingleInputs ==
  {a \in [1 .. 5 -> [pid : 1 .. 5, arrivalTime : 0 .. 1, bursts : {<<1>>, <<4>>}]] :
     \A j \in 1 .. 5 : a[j].pid = j}

\* Up to three processes of mixed shapes, or five without I/O.
AllInputs == MixedInputs \cup SingleInputs

\* A process whose first CPU burst ends with its quantum and, when it comes back
\* from its I/O, one whose CPU burst has length 0.
IOZeroInputs == {<<[pid |-> 1, arrivalTime |-> 0, bursts |-> <<2, 1, 3>>],
                   [pid |-> 2, arrivalTime |-> 3, bursts |-> <<0>>]>>}
=============================================================================
