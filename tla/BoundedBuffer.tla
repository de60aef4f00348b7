---------------------------- MODULE BoundedBuffer ----------------------------
(***************************************************************************)
(* What the shared circular buffer of A2/copy.c promises to its users: a   *)
(* queue of at most Capacity items in which the k-th item taken is the     *)
(* k-th item put.  Slack is the number of takes that may run ahead of the  *)
(* puts; a take that runs ahead returns an arbitrary item.  A correct      *)
(* bounded buffer has Slack = 0.                                           *)
(***************************************************************************)
EXTENDS Integers, Sequences

CONSTANTS Capacity, Slack, Items

VARIABLES put,   \* the items put, oldest first
          got    \* the items taken, oldest first

vars == <<put, got>>

Init == put = <<>> /\ got = <<>>

Put(item) ==
  /\ Len(put) - Len(got) < Capacity
  /\ put' = Append(put, item)
  /\ UNCHANGED got

Take(item) ==
  /\ Len(got) < Len(put) + Slack
  /\ Len(got) < Len(put) => item = put[Len(got) + 1]
  /\ got' = Append(got, item)
  /\ UNCHANGED put

Next == \E item \in Items : Put(item) \/ Take(item)

Spec == Init /\ [][Next]_vars
=============================================================================
