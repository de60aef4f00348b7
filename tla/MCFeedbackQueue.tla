--------------------------- MODULE MCFeedbackQueue ---------------------------
(* Instances of FeedbackQueue for TLC. *)
EXTENDS FeedbackQueueProperties

\* All arrays of at most n processes with the given pids, arrivals and bursts.
Arrays(n, pids, arrivals, bursts) ==
  UNION {[1 .. m -> [pid : pids, arrivalTime : arrivals, bursts : bursts]] :
           m \in 0 .. n}

Distinct(arrays) ==
  {a \in arrays : \A j, k \in DOMAIN a : a[j].pid = a[k].pid => j = k}

\* CPU bursts that end in each of the queues, I/O between CPU bursts, an I/O
\* burst of 0.
MixedBursts == {<<1>>, <<4>>, <<2, 1, 2>>, <<1, 0, 3>>}

\* Up to three processes; none; and two processes with one pid.
MixedInputs ==
  Distinct(Arrays(3, 1 .. 3, 0 .. 1, MixedBursts))
    \cup Arrays(2, {1}, 0 .. 1, MixedBursts)

SomeQuanta == {<<1, 2>>, <<0, 1>>}

\* Quanta so short that a burst of 4 goes on for long in queue 2.
ShortQuanta == {<<1, 1>>}

\* Four processes that compete for the processors.
CrowdedInputs ==
  {[j \in 1 .. 4 |-> [pid |-> j, arrivalTime |-> a[j], bursts |-> b[j]]] :
     a \in [1 .. 4 -> 0 .. 1], b \in [1 .. 4 -> {<<1>>, <<4>>, <<3, 2, 1>>}]}

AllInputs == MixedInputs \cup CrowdedInputs
=============================================================================
