---------------------------- MODULE BarrierRounds ----------------------------
(***************************************************************************)
(* What the callers of a barrier rely on: they meet in rounds, and nobody   *)
(* leaves a round before all have come to it.  A barrier is used again and  *)
(* again, so that a fast thread may be waiting for the next round while a   *)
(* slow one has not left the last.  Modules SpinBarrier and SleepingBarrier *)
(* implement this specification.                                            *)
(***************************************************************************)
CONSTANT Threads

VARIABLES
  waiting,    \* the threads that have come to the current round
  released    \* the threads that may leave the round before

vars == <<waiting, released>>

Init == waiting = {} /\ released = {}

Enter(t) ==
  /\ t \notin waiting \union released
  /\ waiting' = waiting \union {t}
  /\ UNCHANGED released

Open ==
  /\ waiting = Threads
  /\ released' = Threads
  /\ waiting' = {}

Leave(t) ==
  /\ t \in released
  /\ released' = released \ {t}
  /\ UNCHANGED waiting

Next == Open \/ \E t \in Threads : Enter(t) \/ Leave(t)

(* An open barrier is left by all; nobody need come to it. *)
Spec ==
  /\ Init /\ [][Next]_vars
  /\ WF_vars(Open) /\ \A t \in Threads : WF_vars(Leave(t))
=============================================================================
