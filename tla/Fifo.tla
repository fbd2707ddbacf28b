-------------------------------- MODULE Fifo --------------------------------
(***************************************************************************)
(* A first-in first-out queue with atomic operations: what the users of     *)
(* LFQueue count on.  Module LFQueue implements it.                         *)
(***************************************************************************)
EXTENDS Sequences

CONSTANT Values

VARIABLES
  queue,    \* the values that have been pushed and not popped
  taken     \* the values that have been popped, in order

vars == <<queue, taken>>

Init == queue = <<>> /\ taken = <<>>

Push(v) ==
  /\ queue' = Append(queue, v)
  /\ UNCHANGED taken

Pop ==
  /\ queue # <<>>
  /\ queue' = Tail(queue)
  /\ taken' = Append(taken, Head(queue))

Next == Pop \/ \E v \in Values : Push(v)

(* The consumer comes back until it has found everything. *)
Spec == Init /\ [][Next]_vars /\ WF_vars(Pop)
=============================================================================
