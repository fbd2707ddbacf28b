--------------------------- MODULE AssemblyQueues ---------------------------
(***************************************************************************)
(* The gang part of the XiTAO scheduler: a ready assembly task (a TAO) is   *)
(* given a place, a range of workers [leader, leader + width), and its      *)
(* pointer is pushed into the private assembly queue of every worker of     *)
(* that range, under one spin lock per queue                                *)
(* (insert_task_in_assembly_queues).  Each worker pops its own queue        *)
(* without any lock, and the members of a place meet twice around           *)
(* execute(): in the entry barrier threads_in_tao, where they spin, and in  *)
(* the exit counter threads_out_tao, which elects the member that commits   *)
(* the task and deletes it.                                                 *)
(*                                                                          *)
(* Abstracted: which place is chosen (any one of Places), the order of a    *)
(* ready queue, the body of execute(), and the successors a commit wakes    *)
(* (module Scheduler).  A queue is the sequence of everything ever pushed   *)
(* plus the number of pops; module LFQueue justifies the atomic pop and     *)
(* push of one queue.                                                       *)
(***************************************************************************)
EXTENDS Integers, Sequences, FiniteSets

CONSTANTS
  NThreads,       \* xitao_nthreads, one worker_loop each
  Tasks,          \* the assembly tasks of the run
  Places,         \* the places a task may be molded to, [leader, width]
  Critical,       \* tasks with criticality 1, molded over the whole layout
  Home,           \* the worker in whose ready queue a task starts
  NoTask,         \* a null task pointer
  DeleteExecuted  \* config::delete_executed_taos

Worker == 0 .. NThreads - 1

ASSUME NThreadsAssumption == NThreads \in Nat \ {0}
ASSUME PlacesAssumption ==
  /\ Places \subseteq [leader : Nat, width : Nat \ {0}]
  /\ \A p \in Places : p.leader + p.width <= NThreads
ASSUME NoTaskAssumption == NoTask \notin Tasks
ASSUME CriticalAssumption == Critical \subseteq Tasks
ASSUME HomeAssumption == Home \in [Tasks -> Worker]
ASSUME DeleteAssumption == DeleteExecuted \in BOOLEAN

Free    == NThreads                       \* no worker holds the lock
NoPlace == [leader |-> 0, width |-> 0]    \* not molded yet, no members

VARIABLES
  ready,       \* ready[w]: tasks in worker_ready_q[w]
  place,       \* leader and width of a task
  pc,          \* where worker_loop of w stands
  cur,         \* the task in the local variables st and assembly of w
  pos,         \* the variable i of the two loops over the place
  alock,       \* worker_assembly_lock[i]: the worker that holds it
  log,         \* log[i]: every task pushed to worker_assembly_q[i], in order
  head,        \* head[i]: how many of them worker i has popped
  threadsIn,   \* threads_in_tao
  threadsOut,  \* threads_out_tao
  seen,        \* the value ++threads_out_tao returned to w
  deleted,     \* tasks whose memory has been freed
  ran,         \* history: the workers that have run execute() of a task
  commits,     \* history: how often a task was committed
  stamp,       \* history: when the last push of a task happened, 0 before
  clock        \* history: the last stamp given

queueVars == <<alock, log, head>>
gangVars  == <<threadsIn, threadsOut, seen, deleted, ran, commits>>
histVars  == <<stamp, clock>>
vars == <<ready, place, pc, cur, pos, queueVars, gangVars, histVars>>

Members(p) == p.leader .. (p.leader + p.width - 1)

Entries(i) == {log[i][k] : k \in 1 .. Len(log[i])}

Goto(w, label) == pc' = [pc EXCEPT ![w] = label]

Init ==
  /\ ready = [w \in Worker |-> {t \in Tasks : Home[t] = w}]
  /\ place = [t \in Tasks |-> NoPlace]
  /\ pc = [w \in Worker |-> "loop"]
  /\ cur = [w \in Worker |-> NoTask]
  /\ pos = [w \in Worker |-> 0]
  /\ alock = [i \in Worker |-> Free]
  /\ log = [i \in Worker |-> <<>>]
  /\ head = [i \in Worker |-> 0]
  /\ threadsIn = [t \in Tasks |-> 0]
  /\ threadsOut = [t \in Tasks |-> 0]
  /\ seen = [w \in Worker |-> 0]
  /\ deleted = {}
  /\ ran = [t \in Tasks |-> {}]
  /\ commits = [t \in Tasks |-> 0]
  /\ stamp = [t \in Tasks |-> 0]
  /\ clock = 0

-----------------------------------------------------------------------------
(* The top of worker_loop: the own assembly queue comes first. *)

PopAssembly(w) ==
  /\ pc[w] = "loop"
  /\ head[w] < Len(log[w])
  /\ cur' = [cur EXCEPT ![w] = log[w][head[w] + 1]]
  /\ head' = [head EXCEPT ![w] = @ + 1]
  /\ Goto(w, "entry")
  /\ UNCHANGED <<ready, place, pos, alock, log, gangVars, histVars>>

FindNoAssembly(w) ==
  /\ pc[w] = "loop"
  /\ head[w] = Len(log[w])
  /\ Goto(w, "ready")
  /\ UNCHANGED <<ready, place, cur, pos, queueVars, gangVars, histVars>>

(* Then the own ready queue, then that of a victim.  history_mold_locally and
   the default leader choose a place around the worker itself, while
   global_search_ptt, for critical tasks, may choose any: the worker that
   commits the last predecessor inserts them at once, here the worker that
   takes them. *)

MayMold(w, t, p) == t \in Critical \/ w \in Members(p)

TakeReady(w, v) ==
  /\ pc[w] = "ready"
  /\ v # w => ready[w] = {}
  /\ \E t \in ready[v], p \in Places :
       /\ MayMold(w, t, p)
       /\ ready' = [ready EXCEPT ![v] = @ \ {t}]
       /\ place' = [place EXCEPT ![t] = p]
       /\ cur' = [cur EXCEPT ![w] = t]
       /\ pos' = [pos EXCEPT ![w] = p.leader]
  /\ Goto(w, "acquire")
  /\ UNCHANGED <<queueVars, gangVars, histVars>>

FindNothing(w) ==
  /\ pc[w] = "ready"
  /\ ready[w] = {}
  /\ Goto(w, "loop")
  /\ UNCHANGED <<ready, place, cur, pos, queueVars, gangVars, histVars>>

-----------------------------------------------------------------------------
(* insert_task_in_assembly_queues: lock and push in ascending order, keep   *)
(* every lock, then unlock in ascending order.                              *)

LastMember(t) == place[t].leader + place[t].width - 1

(* Mutant: the lock is taken without looking whether it is free. *)
Acquire_NoTest(w) ==
  /\ pc[w] = "acquire"
  /\ alock' = [alock EXCEPT ![pos[w]] = w]
  /\ Goto(w, "push")
  /\ UNCHANGED <<ready, place, cur, pos, log, head, gangVars, histVars>>

Acquire(w) ==
  /\ pc[w] = "acquire"
  /\ alock[pos[w]] = Free
  /\ alock' = [alock EXCEPT ![pos[w]] = w]
  /\ Goto(w, "push")
  /\ UNCHANGED <<ready, place, cur, pos, log, head, gangVars, histVars>>

(* Mutant: the lock of a queue is given back right after the push. *)
PushMore_Unlocks(w) ==
  /\ pc[w] = "push"
  /\ pos[w] < LastMember(cur[w])
  /\ log' = [log EXCEPT ![pos[w]] = Append(@, cur[w])]
  /\ alock' = [alock EXCEPT ![pos[w]] = Free]
  /\ pos' = [pos EXCEPT ![w] = @ + 1]
  /\ Goto(w, "acquire")
  /\ UNCHANGED <<ready, place, cur, head, gangVars, histVars>>

PushMore(w) ==
  /\ pc[w] = "push"
  /\ pos[w] < LastMember(cur[w])
  /\ log' = [log EXCEPT ![pos[w]] = Append(@, cur[w])]
  /\ pos' = [pos EXCEPT ![w] = @ + 1]
  /\ Goto(w, "acquire")
  /\ UNCHANGED <<ready, place, cur, alock, head, gangVars, histVars>>

PushLast(w) ==
  /\ pc[w] = "push"
  /\ pos[w] = LastMember(cur[w])
  /\ log' = [log EXCEPT ![pos[w]] = Append(@, cur[w])]
  /\ clock' = clock + 1
  /\ stamp' = [stamp EXCEPT ![cur[w]] = clock + 1]
  /\ Goto(w, "rewind")
  /\ UNCHANGED <<ready, place, cur, pos, alock, head, gangVars>>

(* The release loop reads leader and width again, from a task that its
   members may have deleted by now: then any place may be found there. *)
PlaceRead(t) == IF t \in deleted THEN Places ELSE {place[t]}

(* Mutant: the release loop starts one queue too late. *)
Rewind_SkipsLeader(w) ==
  /\ pc[w] = "rewind"
  /\ \E p \in PlaceRead(cur[w]) : pos' = [pos EXCEPT ![w] = p.leader + 1]
  /\ Goto(w, "release")
  /\ UNCHANGED <<ready, place, cur, queueVars, gangVars, histVars>>

Rewind(w) ==
  /\ pc[w] = "rewind"
  /\ \E p \in PlaceRead(cur[w]) : pos' = [pos EXCEPT ![w] = p.leader]
  /\ Goto(w, "release")
  /\ UNCHANGED <<ready, place, cur, queueVars, gangVars, histVars>>

ReleaseOne(w) ==
  /\ pc[w] = "release"
  /\ \E p \in PlaceRead(cur[w]) : pos[w] < p.leader + p.width
  /\ alock' = [alock EXCEPT ![pos[w]] = Free]
  /\ pos' = [pos EXCEPT ![w] = @ + 1]
  /\ UNCHANGED <<ready, place, pc, cur, log, head, gangVars, histVars>>

(* Mutant: st is not reset after the insertion. *)
ReleaseDone_KeepsTask(w) ==
  /\ pc[w] = "release"
  /\ \E p \in PlaceRead(cur[w]) : pos[w] >= p.leader + p.width
  /\ pos' = [pos EXCEPT ![w] = 0]
  /\ Goto(w, "loop")
  /\ UNCHANGED <<ready, place, cur, queueVars, gangVars, histVars>>

ReleaseDone(w) ==
  /\ pc[w] = "release"
  /\ \E p \in PlaceRead(cur[w]) : pos[w] >= p.leader + p.width
  /\ cur' = [cur EXCEPT ![w] = NoTask]
  /\ pos' = [pos EXCEPT ![w] = 0]
  /\ Goto(w, "loop")
  /\ UNCHANGED <<ready, place, queueVars, gangVars, histVars>>

-----------------------------------------------------------------------------
(* Executing an assembly, between the two barriers.                         *)

Enter(w) ==
  /\ pc[w] = "entry"
  /\ threadsIn' = [threadsIn EXCEPT ![cur[w]] = @ + 1]
  /\ Goto(w, "spin")
  /\ UNCHANGED <<ready, place, cur, pos, queueVars, threadsOut, seen, deleted,
                 ran, commits, histVars>>

(* Mutant: the entry barrier opens one member early. *)
LeaveSpin_Early(w) ==
  /\ pc[w] = "spin"
  /\ threadsIn[cur[w]] + 1 >= place[cur[w]].width
  /\ Goto(w, "execute")
  /\ UNCHANGED <<ready, place, cur, pos, queueVars, gangVars, histVars>>

LeaveSpin(w) ==
  /\ pc[w] = "spin"
  /\ threadsIn[cur[w]] >= place[cur[w]].width
  /\ Goto(w, "execute")
  /\ UNCHANGED <<ready, place, cur, pos, queueVars, gangVars, histVars>>

Execute(w) ==
  /\ pc[w] = "execute"
  /\ ran' = [ran EXCEPT ![cur[w]] = @ \union {w}]
  /\ Goto(w, "leave")
  /\ UNCHANGED <<ready, place, cur, pos, queueVars, threadsIn, threadsOut,
                 seen, deleted, commits, histVars>>

Leave(w) ==
  /\ pc[w] = "leave"
  /\ threadsOut' = [threadsOut EXCEPT ![cur[w]] = @ + 1]
  /\ seen' = [seen EXCEPT ![w] = threadsOut[cur[w]] + 1]
  /\ Goto(w, "test")
  /\ UNCHANGED <<ready, place, cur, pos, queueVars, threadsIn, deleted, ran,
                 commits, histVars>>

(* Mutant: the exit counter is compared with one less than the width. *)
WidthRead_OneLess(t) == {place[t].width - 1}

(* The comparison reads assembly->width after the increment.  When another
   member has deleted the task in between, the read is of freed memory:
   any width a task may have can be found there. *)
WidthRead(t) == IF t \in deleted THEN 1 .. NThreads ELSE {place[t].width}

TestFinal(w) ==
  /\ pc[w] = "test"
  /\ seen[w] \in WidthRead(cur[w])
  /\ Goto(w, "commit")
  /\ UNCHANGED <<ready, place, cur, pos, queueVars, gangVars, histVars>>

TestNotFinal(w) ==
  /\ pc[w] = "test"
  /\ WidthRead(cur[w]) # {seen[w]}
  /\ cur' = [cur EXCEPT ![w] = NoTask]
  /\ Goto(w, "loop")
  /\ UNCHANGED <<ready, place, pos, queueVars, gangVars, histVars>>

Commit(w) ==
  /\ pc[w] = "commit"
  /\ commits' = [commits EXCEPT ![cur[w]] = @ + 1]
  /\ deleted' = IF DeleteExecuted THEN deleted \union {cur[w]} ELSE deleted
  /\ cur' = [cur EXCEPT ![w] = NoTask]
  /\ Goto(w, "loop")
  /\ UNCHANGED <<ready, place, pos, queueVars, threadsIn, threadsOut, seen,
                 ran, histVars>>

-----------------------------------------------------------------------------
Insert(w) ==
  \/ Acquire(w) \/ PushMore(w) \/ PushLast(w)
  \/ Rewind(w) \/ ReleaseOne(w) \/ ReleaseDone(w)

Gang(w) ==
  \/ Enter(w) \/ LeaveSpin(w) \/ Execute(w) \/ Leave(w)
  \/ TestFinal(w) \/ TestNotFinal(w) \/ Commit(w)

Step(w) ==
  \/ PopAssembly(w) \/ FindNoAssembly(w)
  \/ \E v \in Worker : TakeReady(w, v)
  \/ FindNothing(w)
  \/ Insert(w) \/ Gang(w)

Next == \E w \in Worker : Step(w)

Spec == Init /\ [][Next]_vars

(* Every worker is a thread of its own that the operating system keeps
   running; nothing more is assumed, no lock or queue is fair. *)
FairSpec == Spec /\ \A w \in Worker : WF_vars(Step(w))
-----------------------------------------------------------------------------
(* Properties. *)

Label == {"loop", "ready", "acquire", "push", "rewind", "release",
          "entry", "spin", "execute", "leave", "test", "commit"}

(* The types of the state: a label for every worker, places out of Places,
   queues of tasks, counters in range. *)
TypeOK ==
  /\ ready \in [Worker -> SUBSET Tasks]
  /\ place \in [Tasks -> Places \union {NoPlace}]
  /\ pc \in [Worker -> Label]
  /\ cur \in [Worker -> Tasks \union {NoTask}]
  /\ \A w \in Worker : cur[w] = NoTask <=> pc[w] \in {"loop", "ready"}
  /\ pos \in [Worker -> Nat]
  /\ alock \in [Worker -> Worker \union {Free}]
  /\ log \in [Worker -> Seq(Tasks)]
  /\ head \in [Worker -> Nat]
  /\ threadsIn \in [Tasks -> Nat]
  /\ threadsOut \in [Tasks -> Nat]
  /\ seen \in [Worker -> Nat]
  /\ deleted \subseteq Tasks
  /\ ran \in [Tasks -> SUBSET Worker]
  /\ commits \in [Tasks -> Nat]
  /\ stamp \in [Tasks -> Nat]
  /\ clock \in Nat

(* t was pushed before u to the queue of worker i *)
Before(i, t, u) ==
  \E a, b \in 1 .. Len(log[i]) : a < b /\ log[i][a] = t /\ log[i][b] = u

(* Every assembly queue lists its tasks in one and the same global order, the
   order in which insert_task_in_assembly_queues made its last push; only the
   newest entry of a queue may belong to an insertion still in progress. *)
SerialOrder ==
  \A i \in Worker : \A a, b \in 1 .. Len(log[i]) : a < b =>
    /\ stamp[log[i][a]] > 0
    /\ stamp[log[i][b]] > 0 => stamp[log[i][a]] < stamp[log[i][b]]

(* Two tasks that share two workers reach both in the same order, although
   the pushes to the two queues are separate steps and the owners pop while
   an insertion is under way. *)
CommonOrder ==
  \A i, j \in Worker : \A t, u \in Tasks :
    Before(i, t, u) /\ u \in Entries(j) /\ j \in Members(place[t])
      => Before(j, t, u)

(* lfq-fifo.h leaves "single producer" to its callers: two workers never push
   to the same assembly queue at the same time. *)
SingleProducer ==
  \A v, w \in Worker : v # w /\ pc[v] = "push" /\ pc[w] = "push"
    => pos[v] # pos[w]

Entered(t) ==
  ran[t] \union {w \in Worker : cur[w] = t /\ pc[w] \in {"spin", "execute"}}

Blocked(w) ==
  \/ pc[w] = "spin" /\ threadsIn[cur[w]] < place[cur[w]].width
  \/ pc[w] = "acquire" /\ alock[pos[w]] # Free

(* the workers a blocked worker cannot go on without *)
WaitsFor(w) ==
  IF pc[w] = "spin" THEN Members(place[cur[w]]) \ Entered(cur[w])
                    ELSE {alock[pos[w]]}

(* Workers never wait for each other in a circle, in the entry barriers of
   assemblies, for the queue locks, or in a mixture of both. *)
NoWaitCycle ==
  \A S \in (SUBSET Worker) \ {{}} :
    \E w \in S : Blocked(w) => WaitsFor(w) \intersect S = {}

(* NEED_BARRIER: no member runs execute() before all members have arrived. *)
GangEntry ==
  \A w \in Worker : pc[w] \in {"execute", "leave", "test", "commit"} =>
    Members(place[cur[w]]) = Entered(cur[w])

(* "the last exiting thread updates": a task is committed by one member only,
   after every member has run it, and nobody is inside it any more. *)
LastExit ==
  \A t \in Tasks :
    /\ commits[t] <= 1
    /\ commits[t] = 1 =>
         /\ ran[t] = Members(place[t])
         /\ \A w \in Worker : cur[w] = t => pc[w] \in {"rewind", "release", "test"}

(* Each task pushed to a ready queue is inserted, met by all its members and
   committed in the end. *)
EveryTaskCommits == \A t \in Tasks : <>(commits[t] = 1)

(* The queues implement the serial gang schedule: a task enters it with its
   last push and starts with the arrival of its last member. *)
GS == INSTANCE GangSchedule WITH
  place <- [t \in Tasks |-> IF stamp[t] > 0 THEN place[t] ELSE NoPlace],
  started <- {t \in Tasks : stamp[t] > 0 /\ threadsIn[t] = place[t].width},
  committed <- {t \in Tasks : commits[t] > 0}

ImplementsGangSchedule == GS!Spec
-----------------------------------------------------------------------------
(* The state of an insertion, the strengthening under which SerialOrder is  *)
(* inductive; the proofs are in AssemblyQueues_proofs.                      *)

Pushing(w)   == pc[w] \in {"acquire", "push"}
Inserting(w) == pc[w] \in {"acquire", "push", "rewind", "release"}

Holds(w, i) ==
  LET p == place[cur[w]] IN
  \/ pc[w] = "acquire" /\ p.leader <= i /\ i < pos[w]
  \/ pc[w] = "push" /\ p.leader <= i /\ i <= pos[w]
  \/ pc[w] = "rewind" /\ i \in Members(p)
  \/ pc[w] = "release" /\ pos[w] <= i /\ i \in Members(p)

LoopBounds ==
  \A w \in Worker : Inserting(w) =>
    /\ cur[w] \in Tasks
    /\ place[cur[w]] \in Places
    /\ Pushing(w) => pos[w] \in Members(place[cur[w]])
    /\ pc[w] = "release" => /\ pos[w] >= place[cur[w]].leader
                            /\ pos[w] <= LastMember(cur[w]) + 1
    /\ Pushing(w) <=> stamp[cur[w]] = 0

LocksHeld == \A w, i \in Worker : alock[i] = w <=> Holds(w, i)

OneInserter ==
  /\ \A v, w \in Worker :
       v # w /\ Inserting(v) /\ Inserting(w) => cur[v] # cur[w]
  /\ \A v, w \in Worker : Inserting(w) => cur[w] \notin ready[v]
  /\ \A v, w \in Worker : v # w => ready[v] \intersect ready[w] = {}
  /\ \A v \in Worker : \A t \in ready[v] : stamp[t] = 0

OpenEntries ==
  \A i \in Worker : \A k \in 1 .. Len(log[i]) : stamp[log[i][k]] = 0 =>
    /\ k = Len(log[i])
    /\ \E w \in Worker : /\ Pushing(w)
                         /\ cur[w] = log[i][k]
                         /\ place[cur[w]].leader <= i /\ i < pos[w]

PushedSoFar ==
  /\ \A t \in Tasks : stamp[t] > 0 =>
       /\ place[t] \in Places
       /\ \A i \in Members(place[t]) : t \in Entries(i)
  /\ \A w, i \in Worker :
       Pushing(w) /\ place[cur[w]].leader <= i /\ i < pos[w]
         => cur[w] \in Entries(i)

(* The inductive invariant of insert_task_in_assembly_queues: whoever has an
   entry in a queue without having finished its pushes holds that queue's
   lock, and its entry is the newest one. *)
InsertInv ==
  /\ LoopBounds /\ LocksHeld /\ OneInserter /\ OpenEntries /\ PushedSoFar
  /\ \A t \in Tasks : stamp[t] <= clock
  /\ deleted = {}
  /\ SerialOrder
=============================================================================
