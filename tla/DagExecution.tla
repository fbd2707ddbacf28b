---------------------------- MODULE DagExecution ----------------------------
(***************************************************************************)
(* What a program that gives XiTAO a task graph may rely on, without        *)
(* workers, queues, places or counters: a task is started at most once, not *)
(* before all tasks with an edge to it have finished, and every task is     *)
(* finished in the end.  Module Scheduler implements this specification.    *)
(***************************************************************************)
CONSTANTS
  Tasks,
  Succ     \* Succ[t]: the tasks t has an edge to

VARIABLES
  started,
  finished

vars == <<started, finished>>

Preds(t) == {u \in Tasks : t \in Succ[u]}

Init == started = {} /\ finished = {}

Start(t) ==
  /\ t \notin started
  /\ Preds(t) \subseteq finished
  /\ started' = started \union {t}
  /\ UNCHANGED finished

Finish(t) ==
  /\ t \in started \ finished
  /\ finished' = finished \union {t}
  /\ UNCHANGED started

Next == \E t \in Tasks : Start(t) \/ Finish(t)

Spec == Init /\ [][Next]_vars /\ WF_vars(Next)
=============================================================================
