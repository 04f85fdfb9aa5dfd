---------------------------- MODULE BoundedQueue ----------------------------
(***************************************************************************)
(* What the keyboard buffer promises: a queue of at most Capacity key      *)
(* values.  A key that comes when it is full is dropped; the keys taken    *)
(* out are the ones put in, each once and in order.                        *)
(***************************************************************************)
EXTENDS Naturals, Sequences

CONSTANTS Keys, Capacity

VARIABLES queue, taken    \* what waits, and everything taken so far

vars == <<queue, taken>>

Init == queue = <<>> /\ taken = <<>>

Put(k) ==
  /\ Len(queue) < Capacity
  /\ queue' = Append(queue, k)
  /\ UNCHANGED taken

Take ==
  /\ queue # <<>>
  /\ queue' = Tail(queue)
  /\ taken' = Append(taken, Head(queue))

Next == Take \/ \E k \in Keys : Put(k)

Spec == Init /\ [][Next]_vars
=============================================================================
