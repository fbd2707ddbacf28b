----------------------------- MODULE MCScheduler -----------------------------
(* Small instances of Scheduler for TLC. *)
EXTENDS Scheduler

CONSTANTS t1, t2, t3, t4

AllWorkers == Worker

AllPlaces == {p \in [leader : Worker, width : 1 .. NThreads] :
                p.leader + p.width <= NThreads}

(* One root, two tasks in parallel, one that waits for both. *)
Diamond == [t \in Tasks |-> CASE t = t1 -> {t2, t3} [] t = t2 -> {t4}
                              [] t = t3 -> {t4} [] OTHER -> {}]

SecondToOne == [t \in Tasks |-> IF t = t2 THEN 1 ELSE NoAffinity]

OneThief == [w \in Worker |-> IF w = 2 THEN {0} ELSE {}]
=============================================================================
