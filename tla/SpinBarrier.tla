----------------------------- MODULE SpinBarrier -----------------------------
(***************************************************************************)
(* spin_barrier: the threads count themselves in nwait_atmc and spin on     *)
(* step_atmc, which the last one increments.  xitao_start and the workers   *)
(* meet at such a barrier.                                                  *)
(***************************************************************************)
EXTENDS Integers, FiniteSets

CONSTANTS
  Threads,
  Modulus     \* the number of values of step_atmc, 2^32 in the code

(* what the constants must be *)
ConstantsOK ==
  /\ IsFiniteSet(Threads) /\ Threads # {}
  /\ Modulus \in Nat /\ Modulus > 1

VARIABLES
  nwait,   \* nwait_atmc: the threads that have come to this round
  step,    \* step_atmc
  lstep,   \* the local variable of wait()
  pc

vars == <<nwait, step, lstep, pc>>

nthreads == Cardinality(Threads)

Goto(t, label) == pc' = [pc EXCEPT ![t] = label]

Init ==
  /\ nwait = 0
  /\ step = 0
  /\ lstep = [t \in Threads |-> 0]
  /\ pc = [t \in Threads |-> "outside"]

LoadStep(t) ==
  /\ pc[t] = "outside"
  /\ lstep' = [lstep EXCEPT ![t] = step]
  /\ Goto(t, "count")
  /\ UNCHANGED <<nwait, step>>

(* Mutant: the last but one opens the barrier. *)
CountMe_TooEarly(t) ==
  /\ pc[t] = "count"
  /\ nwait' = nwait + 1
  /\ Goto(t, IF nwait + 1 >= nthreads - 1 THEN "reset" ELSE "spin")
  /\ UNCHANGED <<step, lstep>>

(* fetch_add returns the value before the increment *)
CountMe(t) ==
  /\ pc[t] = "count"
  /\ nwait' = nwait + 1
  /\ Goto(t, IF nwait = nthreads - 1 THEN "reset" ELSE "spin")
  /\ UNCHANGED <<step, lstep>>

(* Mutant: the count of waiting threads is not reset. *)
ResetCount_Forgets(t) ==
  /\ pc[t] = "reset"
  /\ Goto(t, "open")
  /\ UNCHANGED <<nwait, step, lstep>>

ResetCount(t) ==
  /\ pc[t] = "reset"
  /\ nwait' = 0
  /\ Goto(t, "open")
  /\ UNCHANGED <<step, lstep>>

(* "release the barrier" *)
OpenBarrier(t) ==
  /\ pc[t] = "open"
  /\ step' = (step + 1) % Modulus
  /\ Goto(t, "leave")
  /\ UNCHANGED <<nwait, lstep>>

(* return true *)
LeaveAsLast(t) ==
  /\ pc[t] = "leave"
  /\ Goto(t, "outside")
  /\ UNCHANGED <<nwait, step, lstep>>

(* return false *)
LeaveSpin(t) ==
  /\ pc[t] = "spin"
  /\ step # lstep[t]
  /\ Goto(t, "outside")
  /\ UNCHANGED <<nwait, step, lstep>>

Inside(t) ==
  \/ CountMe(t) \/ ResetCount(t) \/ OpenBarrier(t)
  \/ LeaveAsLast(t) \/ LeaveSpin(t)

Next == \E t \in Threads : LoadStep(t) \/ Inside(t)

Spec == Init /\ [][Next]_vars

(* A thread that has called wait() runs on; it need not call it again. *)
FairSpec == Spec /\ \A t \in Threads : WF_vars(Inside(t))
-----------------------------------------------------------------------------
(* Properties. *)

(* the threads counted for the round that is not open yet *)
Waiting == {t \in Threads : \/ pc[t] = "spin" /\ lstep[t] = step
                            \/ pc[t] \in {"reset", "open"}}

(* the threads of an open round that have not left it *)
Released == {t \in Threads : \/ pc[t] = "spin" /\ lstep[t] # step
                             \/ pc[t] = "leave"}

(* The barrier can be used again at once: it implements rounds that nobody
   leaves before all have come. *)
BR == INSTANCE BarrierRounds WITH waiting <- Waiting, released <- Released

ImplementsBarrier == BR!Spec
=============================================================================
