----------------------------- MODULE BoundedFifo -----------------------------
(***************************************************************************)
(* What both rings promise one producer and one consumer: a first-in       *)
(* first-out queue of at most Capacity items.  A push appends a batch, a   *)
(* pop hands over a prefix; a call that returns 0 or false changes nothing *)
(* and is a stuttering step.                                               *)
(***************************************************************************)
EXTENDS Integers, Sequences

CONSTANTS Items, Capacity

VARIABLES
  queue,   \* items pushed and not yet popped, oldest first
  got      \* what the last successful pop handed over

vars == <<queue, got>>

Init == queue = <<>> /\ got = <<>>

Push(in) ==
  /\ Len(queue) + Len(in) <= Capacity
  /\ queue' = queue \o in
  /\ UNCHANGED got

Pop(n) ==
  /\ got' = SubSeq(queue, 1, n)
  /\ queue' = SubSeq(queue, n + 1, Len(queue))

Next ==
  \/ \E n \in 1..Capacity : \E in \in [1..n -> Items] : Push(in)
  \/ \E n \in 1..Len(queue) : Pop(n)

Spec == Init /\ [][Next]_vars
==============================================================================
