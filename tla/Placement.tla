------------------------------ MODULE Placement ------------------------------
(***************************************************************************)
(* Where an assembly task runs.  Tasks of one type share a performance      *)
(* table; a worker that takes a task from a ready queue chooses its place   *)
(* by this table (history_mold_locally), among the places of the layout     *)
(* that include the worker.  The table remembers the last width chosen and  *)
(* how often in a row it was chosen; after SettleAfter repetitions the      *)
(* choice is not made any more, the width is taken over.  Neither field is  *)
(* protected by a lock.  A critical task is placed by global_search_ptt,    *)
(* and without performance modeling worker_loop computes a leader from the  *)
(* width the program gave.                                                  *)
(*                                                                          *)
(* Abstracted: the execution times in the table; which of the places that   *)
(* may be chosen comes out best is left open.                               *)
(***************************************************************************)
EXTENDS Integers, FiniteSets

CONSTANTS
  NThreads,      \* xitao_nthreads and config::nthreads
  Molders,       \* the workers that take tasks of the type
  Widths,        \* Widths[l]: the widths worker l may lead, ptt_layout[l]
  GivenWidths,   \* the widths the program gives to its tasks
  SettleAfter,   \* the bound on cont_choices, 10 in the code
  Modeling,      \* config::use_performance_modeling, TRUE or FALSE, or both
  MoldTask       \* the values mold && it->mold takes for the tasks

Worker == 0 .. NThreads - 1

ASSUME NThreadsAssumption == NThreads \in Nat \ {0}
ASSUME MoldersAssumption == IsFiniteSet(Molders) /\ Molders \subseteq Worker
ASSUME WidthsAssumption ==
  /\ Widths \in [Worker -> SUBSET (1 .. NThreads)]
  /\ \A l \in Worker : \A v \in Widths[l] : l + v <= NThreads
  /\ \A i \in Molders : \E l \in Worker : \E v \in Widths[l] :
       l <= i /\ i < l + v
ASSUME GivenAssumption == GivenWidths \subseteq Nat \ {0}
ASSUME SettleAssumption == SettleAfter \in Nat \ {0}
ASSUME ModelingAssumption == Modeling \subseteq BOOLEAN /\ Modeling # {}
ASSUME MoldAssumption == MoldTask \subseteq BOOLEAN /\ MoldTask # {}

VARIABLES
  modeling,    \* config::use_performance_modeling of this run
  lastWidth,   \* ptt->last_width
  contChoices, \* ptt->cont_choices
  pc,          \* where a worker is in the choice for its task
  choice,      \* leader and width of the task: [leader, width]
  count,       \* the value of cont_choices that cont_choices++ has read
  torn         \* history: last_width changed between the reads of a shortcut

ptt  == <<lastWidth, contChoices>>
vars == <<modeling, ptt, pc, choice, count, torn>>

Place == [leader : Int, width : Int]
Layout == {p \in [leader : Worker, width : 1 .. NThreads] :
             p.width \in Widths[p.leader]}
Members(p) == p.leader .. (p.leader + p.width - 1)

(* inclusive_partitions[w] *)
Partitions(w) == {p \in Layout : w \in Members(p)}

(* the places of S a task may get that is molded, or that is not *)
Candidates(S, mold) == {p \in S : mold \/ p.width = 1}

(* new_leader and new_width before the search, and after a vain one *)
NoChoice == [leader |-> -1, width |-> 1]

Goto(w, label) == pc' = [pc EXCEPT ![w] = label]

Init ==
  /\ modeling \in Modeling
  /\ lastWidth = -1
  /\ contChoices = 0
  /\ pc = [w \in Molders |-> "idle"]
  /\ choice = [w \in Molders |-> NoChoice]
  /\ count = [w \in Molders |-> 0]
  /\ torn = [w \in Molders |-> FALSE]

(* An assembly is taken from a ready queue: try_pop_ready_task molds it if the
   performance is modeled. *)
Take(w) ==
  /\ pc[w] = "idle"
  /\ Goto(w, IF modeling THEN "mold" ELSE "unmolded")
  /\ UNCHANGED <<modeling, ptt, choice, count, torn>>

-----------------------------------------------------------------------------
(* history_mold_locally: the shortcut.                                       *)

(* Mutant: the shortcut does not wait for a choice to repeat. *)
TestSettled_AtOnce(w) ==
  /\ pc[w] = "mold"
  /\ Goto(w, "settled")
  /\ UNCHANGED <<modeling, ptt, choice, count, torn>>

TestSettled(w) ==
  /\ pc[w] = "mold"
  /\ Goto(w, IF contChoices >= SettleAfter THEN "settled" ELSE "search")
  /\ UNCHANGED <<modeling, ptt, choice, count, torn>>

(* Mutant: the leader is the worker itself. *)
SettleLeader_Unaligned(w) ==
  /\ pc[w] = "settled"
  /\ choice' = [choice EXCEPT ![w] = [leader |-> w, width |-> lastWidth]]
  /\ Goto(w, "settling")
  /\ UNCHANGED <<modeling, ptt, count, torn>>

(* reads last_width; C++ leaves -1 for the remainder of a division by -1 zero,
   and a width of zero would end the program *)
SettleLeader(w) ==
  /\ pc[w] = "settled"
  /\ lastWidth # 0
  /\ choice' = [choice EXCEPT ![w] =
       [leader |-> IF lastWidth > 0 THEN w - (w % lastWidth) ELSE w,
        width |-> lastWidth]]
  /\ Goto(w, "settling")
  /\ UNCHANGED <<modeling, ptt, count, torn>>

(* reads last_width again *)
SettleWidth(w) ==
  /\ pc[w] = "settling"
  /\ torn' = [torn EXCEPT ![w] = lastWidth # choice[w].width]
  /\ choice' = [choice EXCEPT ![w].width = lastWidth]
  /\ Goto(w, "placed")
  /\ UNCHANGED <<modeling, ptt, count>>

-----------------------------------------------------------------------------
(* history_mold_locally: the search, and once in refresh_frequency calls a   *)
(* random choice.                                                            *)

Search(w) ==
  /\ pc[w] = "search"
  /\ \E mold \in MoldTask :
       LET S == Candidates(Partitions(w), mold)
       IN  \E p \in IF S = {} THEN {NoChoice} ELSE S :
             choice' = [choice EXCEPT ![w] = p]
  /\ Goto(w, "compare")
  /\ UNCHANGED <<modeling, ptt, count, torn>>

(* a task that is not molded stays with the worker, whatever the layout *)
Refresh(w) ==
  /\ pc[w] = "search"
  /\ \E mold \in MoldTask :
       \E p \in IF mold THEN Partitions(w) ELSE {[leader |-> w, width |-> 1]} :
         choice' = [choice EXCEPT ![w] = p]
  /\ Goto(w, "placed")
  /\ UNCHANGED <<modeling, ptt, count, torn>>

CompareSame(w) ==
  /\ pc[w] = "compare"
  /\ lastWidth = choice[w].width
  /\ count' = [count EXCEPT ![w] = contChoices]
  /\ Goto(w, "increment")
  /\ UNCHANGED <<modeling, ptt, choice, torn>>

(* new_leader # -1: the task gets the place, else it keeps what it has *)
Finish(w) == Goto(w, IF choice[w].leader = -1 THEN "unmolded" ELSE "placed")

(* Stale increments can push cont_choices up without a limit, but it is only
   compared with the bound: values above it are not told apart. *)
Increment(w) ==
  /\ pc[w] = "increment"
  /\ contChoices' = IF count[w] < SettleAfter THEN count[w] + 1 ELSE count[w]
  /\ count' = [count EXCEPT ![w] = 0]
  /\ Goto(w, "store")
  /\ UNCHANGED <<modeling, lastWidth, choice, torn>>

CompareOther(w) ==
  /\ pc[w] = "compare"
  /\ lastWidth >= 0
  /\ lastWidth # choice[w].width
  /\ Goto(w, "reset")
  /\ UNCHANGED <<modeling, ptt, choice, count, torn>>

Reset(w) ==
  /\ pc[w] = "reset"
  /\ contChoices' = 0
  /\ Goto(w, "store")
  /\ UNCHANGED <<modeling, lastWidth, choice, count, torn>>

CompareFirst(w) ==
  /\ pc[w] = "compare"
  /\ lastWidth < 0
  /\ Goto(w, "store")
  /\ UNCHANGED <<modeling, ptt, choice, count, torn>>

Store(w) ==
  /\ pc[w] = "store"
  /\ lastWidth' = choice[w].width
  /\ Finish(w)
  /\ UNCHANGED <<modeling, contChoices, choice, count, torn>>

-----------------------------------------------------------------------------
(* The other two ways to a place.                                            *)

(* global_search_ptt, for a critical successor of a task the worker commits *)
GlobalSearch(w) ==
  /\ pc[w] = "idle"
  /\ modeling
  /\ \E mold \in MoldTask :
       LET S == Candidates(Layout, mold)
       IN  \E p \in IF S = {} THEN {NoChoice} ELSE S :
             choice' = [choice EXCEPT ![w] = p]
  /\ Goto(w, "placed")
  /\ UNCHANGED <<modeling, ptt, count, torn>>

(* The "defensive check against uninitialized leader" of worker_loop: only
   here does the width v count that the program gave the task. *)
DefaultLeader(w, v) ==
  /\ pc[w] = "unmolded"
  /\ choice' = [choice EXCEPT ![w] = [leader |-> (w \div v) * v, width |-> v]]
  /\ Goto(w, "placed")
  /\ UNCHANGED <<modeling, ptt, count, torn>>

(* insert_task_in_assembly_queues distributes it over the place, and the
   worker turns to another task *)
Insert(w) ==
  /\ pc[w] = "placed"
  /\ choice' = [choice EXCEPT ![w] = NoChoice]
  /\ torn' = [torn EXCEPT ![w] = FALSE]
  /\ Goto(w, "idle")
  /\ UNCHANGED <<modeling, ptt, count>>

-----------------------------------------------------------------------------
Mold(w) ==
  \/ TestSettled(w) \/ SettleLeader(w) \/ SettleWidth(w)
  \/ Search(w) \/ CompareSame(w) \/ Increment(w) \/ CompareOther(w)
  \/ Reset(w) \/ CompareFirst(w) \/ Store(w)

Step(w) ==
  \/ Take(w) \/ Mold(w) \/ Refresh(w) \/ GlobalSearch(w)
  \/ \E v \in GivenWidths : DefaultLeader(w, v)
  \/ Insert(w)

Next == \E w \in Molders : Step(w)

Spec == Init /\ [][Next]_vars
-----------------------------------------------------------------------------
(* Properties. *)

(* The shortcut divides by last_width: it is never taken before a width was
   stored, in whatever order the workers write the two fields. *)
SettledOnWidth ==
  \A w \in Molders : pc[w] \in {"settled", "settling"} => lastWidth > 0

(* "the allowed resource partition widths": a task is placed where the layout
   allows, unless last_width changed while the shortcut read it.  Without
   performance modeling it is placed within the machine and around the worker,
   when the width the program gave divides the machine. *)
PlaceAllowed ==
  \A w \in Molders : pc[w] = "placed" /\ ~ torn[w]
    => IF modeling THEN choice[w] \in Layout
       ELSE Members(choice[w]) \subseteq Worker /\ w \in Members(choice[w])

(* The assertion of insert_task_in_assembly_queues, for every member i of the
   place: i < config::nthreads && i >= 0. *)
MembersExist ==
  \A w \in Molders : pc[w] = "placed" => Members(choice[w]) \subseteq Worker
=============================================================================
