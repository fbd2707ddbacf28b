--------------------------- MODULE SleepingBarrier ---------------------------
(***************************************************************************)
(* cxx_barrier: the threads count themselves down under a mutex and sleep   *)
(* on a condition variable until the last one notifies all.  xitao_barrier  *)
(* lets the master and a running task meet at one.  The threads are finitely *)
(* many and at least one.                                                   *)
(*                                                                          *)
(* The C++ standard allows wait() of a condition variable to return without *)
(* a notification; whether it does is a constant of the model.  The wait    *)
(* has no predicate: the properties below hold for Spurious = FALSE only.   *)
(***************************************************************************)
EXTENDS Integers, FiniteSets

CONSTANTS
  Threads,
  Spurious     \* whether the condition variable wakes a thread on its own

VARIABLES
  pending,   \* pending_threads
  pc         \* where a thread is in wait(); at "notify" it holds the mutex

vars == <<pending, pc>>

nthreads == Cardinality(Threads)

Init ==
  /\ pending = nthreads
  /\ pc = [t \in Threads |-> "outside"]

Call(t) ==
  /\ pc[t] = "outside"
  /\ pc' = [pc EXCEPT ![t] = "enter"]
  /\ UNCHANGED pending

(* the round before has left pending_threads at zero *)
Refilled == IF pending = 0 THEN nthreads ELSE pending

MutexFree == \A u \in Threads : pc[u] # "notify"

(* Mutant: the count stays where the round before has left it. *)
Arrive_NoRefill(t) ==
  /\ pc[t] = "enter"
  /\ MutexFree
  /\ pending' = pending - 1
  /\ pc' = [pc EXCEPT ![t] = IF pending' > 0 THEN "asleep" ELSE "notify"]

(* the wait for the notification gives the mutex back *)
Arrive(t) ==
  /\ pc[t] = "enter"
  /\ MutexFree
  /\ pending' = Refilled - 1
  /\ pc' = [pc EXCEPT ![t] = IF pending' > 0 THEN "asleep" ELSE "notify"]

(* Mutant: one thread is notified, not all. *)
NotifyAll_One(t) ==
  /\ pc[t] = "notify"
  /\ \E u \in Threads :
       pc' = [pc EXCEPT ![t] = "woken", ![u] = "woken"]
  /\ UNCHANGED pending

NotifyAll(t) ==
  /\ pc[t] = "notify"
  /\ pc' = [u \in Threads |->
              IF u = t \/ pc[u] = "asleep" THEN "woken" ELSE pc[u]]
  /\ UNCHANGED pending

(* where the wait of a thread can end, with or without a notification *)
Awake == {"woken"} \union (IF Spurious THEN {"asleep"} ELSE {})

(* back from the wait with the mutex, or still with it *)
Return(t) ==
  /\ pc[t] \in Awake
  /\ MutexFree
  /\ pc' = [pc EXCEPT ![t] = "outside"]
  /\ UNCHANGED pending

Next == \E t \in Threads :
  Call(t) \/ Arrive(t) \/ NotifyAll(t) \/ Return(t)

Spec == Init /\ [][Next]_vars

(* A thread that has called wait() gets the mutex when it stays free; it need
   not call again. *)
FairSpec ==
  Spec /\ \A t \in Threads :
            WF_vars(Arrive(t)) /\ WF_vars(NotifyAll(t)) /\ WF_vars(Return(t))
-----------------------------------------------------------------------------
(* Properties. *)

(* The barrier can be used again at once: it implements rounds that nobody
   leaves before all have come. *)
BR == INSTANCE BarrierRounds
        WITH waiting  <- {t \in Threads : pc[t] \in {"asleep", "notify"}},
             released <- {t \in Threads : pc[t] = "woken"}

ImplementsBarrier == BR!Spec
=============================================================================
