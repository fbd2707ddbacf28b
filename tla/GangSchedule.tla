---------------------------- MODULE GangSchedule ----------------------------
(***************************************************************************)
(* What the assembly queues promise, without queues, locks or counters:     *)
(* tasks are put one after the other into one serial schedule, each with    *)
(* its place.  A task starts once each of its members has run everything    *)
(* earlier in the schedule that includes this member; each member then      *)
(* runs it once, and it is committed once, after all of them.               *)
(* Module AssemblyQueues implements this specification.                     *)
(***************************************************************************)
EXTENDS Integers, FiniteSets

CONSTANTS NThreads, Tasks, Places

Worker == 0 .. NThreads - 1

VARIABLES
  place,      \* where a scheduled task runs
  stamp,      \* its position in the schedule, 0 when it is not in it yet
  started,    \* tasks all the members of which have arrived
  ran,        \* the members that have run a task
  committed   \* tasks that are done

vars == <<place, stamp, started, ran, committed>>

NoPlace == [leader |-> 0, width |-> 0]
Members(p) == p.leader .. (p.leader + p.width - 1)

Scheduled == {t \in Tasks : stamp[t] > 0}

Init ==
  /\ place = [t \in Tasks |-> NoPlace]
  /\ stamp = [t \in Tasks |-> 0]
  /\ started = {}
  /\ ran = [t \in Tasks |-> {}]
  /\ committed = {}

Schedule(t) ==
  /\ stamp[t] = 0
  /\ \E p \in Places : place' = [place EXCEPT ![t] = p]
  /\ stamp' = [stamp EXCEPT ![t] = Cardinality(Scheduled) + 1]
  /\ UNCHANGED <<started, ran, committed>>

(* Nobody is still busy with, or has yet to run, something earlier. *)
MembersAreFree(t) ==
  \A u \in Scheduled : stamp[u] < stamp[t] =>
    Members(place[u]) \intersect Members(place[t]) \subseteq ran[u]

Start(t) ==
  /\ stamp[t] > 0
  /\ t \notin started
  /\ MembersAreFree(t)
  /\ started' = started \union {t}
  /\ UNCHANGED <<place, stamp, ran, committed>>

Run(w, t) ==
  /\ t \in started
  /\ w \in Members(place[t]) \ ran[t]
  /\ ran' = [ran EXCEPT ![t] = @ \union {w}]
  /\ UNCHANGED <<place, stamp, started, committed>>

Finish(t) ==
  /\ t \in started \ committed
  /\ ran[t] = Members(place[t])
  /\ committed' = committed \union {t}
  /\ UNCHANGED <<place, stamp, started, ran>>

Next ==
  \E t \in Tasks :
    \/ Schedule(t) \/ Start(t) \/ Finish(t)
    \/ \E w \in Worker : Run(w, t)

(* The schedule moves on by itself: whatever is possible is done. *)
Spec == Init /\ [][Next]_vars /\ WF_vars(Next)
=============================================================================
