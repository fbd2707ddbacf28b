------------------------------ MODULE Scheduler ------------------------------
(***************************************************************************)
(* The execution of a task graph by the workers.  A task keeps the number   *)
(* of edges that still lead to it in an atomic refcount; whoever commits a  *)
(* task decrements the refcount of its successors and hands over those that *)
(* became ready: a critical one directly to the assembly queues, another    *)
(* one to a ready queue, its affinity queue or the committing worker's own. *)
(* A worker looks into its assembly queue, its ready queue and the ready    *)
(* queue of a victim, in this order; a simple task it runs by itself, an    *)
(* assembly it distributes to the members of a place.                       *)
(*                                                                          *)
(* An insertion into the assembly queues is one step here: module           *)
(* AssemblyQueues has its steps and shows that the queues it leaves are     *)
(* those of atomic insertions.  Module Placement has the choice of a place, *)
(* module TaskAccounting the counters of idle workers.                      *)
(***************************************************************************)
EXTENDS Integers, Sequences, FiniteSets

CONSTANTS
  NThreads,   \* xitao_nthreads
  Active,     \* the workers that belong to a partition of the PTT layout
  Tasks,
  Succ,       \* Succ[t]: the tasks t->make_edge() was called for
  Simple,     \* the tasks of type TASK_SIMPLE
  Critical,   \* criticality 1, with performance modeling
  Affinity,   \* affinity_queue of a task, or NoAffinity
  StealFrom,  \* the victims a worker may steal from; {} without stealing
  Places,     \* the places an assembly may be molded to, [leader, width]
  NoTask

Worker == 0 .. NThreads - 1
NoAffinity == -1
NoPlace == [leader |-> 0, width |-> 0]
Members(p) == p.leader .. (p.leader + p.width - 1)

Preds(t) == {u \in Tasks : t \in Succ[u]}

ASSUME NThreadsAssumption == NThreads \in Nat \ {0}
ASSUME ActiveAssumption == Active \subseteq Worker
ASSUME TasksAssumption ==
  /\ IsFiniteSet(Tasks)
  /\ NoTask \notin Tasks
  /\ Simple \subseteq Tasks
  /\ Critical \subseteq Tasks \ Simple   \* only an assembly can be inserted
ASSUME DagAssumption ==
  /\ Succ \in [Tasks -> SUBSET Tasks]
  /\ \E depth \in [Tasks -> 1 .. Cardinality(Tasks)] :
       \A t \in Tasks : \A s \in Succ[t] : depth[t] < depth[s]
ASSUME AffinityAssumption == Affinity \in [Tasks -> Worker \union {NoAffinity}]
ASSUME StealAssumption == StealFrom \in [Worker -> SUBSET Worker]
ASSUME PlacesAssumption ==
  /\ Places \subseteq [leader : Nat, width : Nat \ {0}]
  /\ \A p \in Places : Members(p) \subseteq Active

VARIABLES
  unpushed,    \* root tasks the program has not pushed yet
  refcount,    \* edges to a task from tasks that have not released it
  readyQ,      \* worker_ready_q, a vector used at its back
  assemblyQ,   \* worker_assembly_q
  place,       \* leader and width
  st,          \* the task a worker has in its hands
  pc,          \* where worker_loop stands
  todo,        \* the successors commit_and_wakeup has not visited yet
  gift,        \* the successor that has just become ready
  threadsIn,   \* threads_in_tao
  threadsOut,  \* threads_out_tao
  ran,         \* history: ran[t] lists the workers that have run t
  begun,       \* history: the tasks that have begun to run
  completed    \* history: the tasks that have been committed

queueVars == <<readyQ, assemblyQ>>
gangVars  == <<threadsIn, threadsOut>>
wakeVars  == <<todo, gift>>
histVars  == <<ran, begun, completed>>
vars == <<unpushed, refcount, queueVars, place, st, pc, wakeVars, gangVars,
          histVars>>

Goto(w, label) == pc' = [pc EXCEPT ![w] = label]

Init ==
  /\ unpushed = {t \in Tasks : Preds(t) = {}}
  /\ refcount = [t \in Tasks |-> Cardinality(Preds(t))]
  /\ readyQ = [w \in Worker |-> <<>>]
  /\ assemblyQ = [w \in Worker |-> <<>>]
  /\ place = [t \in Tasks |-> NoPlace]
  /\ st = [w \in Worker |-> NoTask]
  /\ pc = [w \in Worker |-> IF w \in Active THEN "loop" ELSE "off"]
  /\ todo = [w \in Worker |-> {}]
  /\ gift = [w \in Worker |-> NoTask]
  /\ threadsIn = [t \in Tasks |-> 0]
  /\ threadsOut = [t \in Tasks |-> 0]
  /\ ran = [t \in Tasks |-> <<>>]
  /\ begun = {}
  /\ completed = {}

-----------------------------------------------------------------------------
(* xitao_push, while the workers run: a queue without a worker is passed    *)
(* over for the next one that has one.                                      *)

Push(t, q) ==
  /\ t \in unpushed
  /\ q \in Active
  /\ unpushed' = unpushed \ {t}
  /\ readyQ' = [readyQ EXCEPT ![q] = Append(@, t)]
  /\ UNCHANGED <<refcount, assemblyQ, place, st, pc, wakeVars, gangVars,
                 histVars>>

-----------------------------------------------------------------------------
(* The search of worker_loop for something to do.                           *)

PopAssembly(w) ==
  /\ pc[w] = "loop"
  /\ assemblyQ[w] # <<>>
  /\ st' = [st EXCEPT ![w] = Head(assemblyQ[w])]
  /\ assemblyQ' = [assemblyQ EXCEPT ![w] = Tail(@)]
  /\ threadsIn' = [threadsIn EXCEPT ![Head(assemblyQ[w])] = @ + 1]
  /\ Goto(w, "spin")
  /\ UNCHANGED <<unpushed, refcount, readyQ, place, wakeVars, threadsOut,
                 histVars>>

FindNoAssembly(w) ==
  /\ pc[w] = "loop"
  /\ assemblyQ[w] = <<>>
  /\ Goto(w, "ready")
  /\ UNCHANGED <<unpushed, refcount, queueVars, place, st, wakeVars, gangVars,
                 histVars>>

(* history_mold_locally, for the worker that took the task; an assembly gets
   a place around this worker, a simple task has no use for one *)
Mold(w, t) ==
  IF t \in Simple THEN UNCHANGED place
  ELSE \E p \in Places : w \in Members(p) /\ place' = [place EXCEPT ![t] = p]

(* try_pop_ready_task takes the youngest task *)
TakeFrom(w, v) ==
  LET t == readyQ[v][Len(readyQ[v])] IN
  /\ readyQ[v] # <<>>
  /\ readyQ' = [readyQ EXCEPT ![v] = SubSeq(@, 1, Len(@) - 1)]
  /\ st' = [st EXCEPT ![w] = t]
  /\ Mold(w, t)
  /\ Goto(w, "have")
  /\ UNCHANGED <<unpushed, refcount, assemblyQ, wakeVars, gangVars, histVars>>

TakeOwn(w) == pc[w] = "ready" /\ TakeFrom(w, w)

FindNoReady(w) ==
  /\ pc[w] = "ready"
  /\ readyQ[w] = <<>>
  /\ Goto(w, "steal")
  /\ UNCHANGED <<unpushed, refcount, queueVars, place, st, wakeVars, gangVars,
                 histVars>>

Steal(w) == pc[w] = "steal" /\ \E v \in StealFrom[w] \ {w} : TakeFrom(w, v)

(* also when the victims it tried had nothing, or it did not try *)
GiveUp(w) ==
  /\ pc[w] = "steal"
  /\ Goto(w, "loop")
  /\ UNCHANGED <<unpushed, refcount, queueVars, place, st, wakeVars, gangVars,
                 histVars>>

-----------------------------------------------------------------------------
(* A task in hand: an assembly is distributed, a simple task is run.        *)

(* Mutant: the last member of the place is left out. *)
Inserted_AllButLast(t, p) ==
  [i \in Worker |-> IF i \in p.leader .. (p.leader + p.width - 2)
                      THEN Append(assemblyQ[i], t) ELSE assemblyQ[i]]

(* insert_task_in_assembly_queues *)
Inserted(t, p) ==
  [i \in Worker |-> IF i \in Members(p) THEN Append(assemblyQ[i], t)
                                        ELSE assemblyQ[i]]

Distribute(w) ==
  /\ pc[w] = "have"
  /\ st[w] \notin Simple
  /\ assemblyQ' = Inserted(st[w], place[st[w]])
  /\ st' = [st EXCEPT ![w] = NoTask]
  /\ Goto(w, "loop")
  /\ UNCHANGED <<unpushed, refcount, readyQ, place, wakeVars, gangVars,
                 histVars>>

BeginSimple(w) ==
  /\ pc[w] = "have"
  /\ st[w] \in Simple
  /\ begun' = begun \union {st[w]}
  /\ Goto(w, "simple")
  /\ UNCHANGED <<unpushed, refcount, queueVars, place, st, wakeVars, gangVars,
                 ran, completed>>

EndSimple(w) ==
  /\ pc[w] = "simple"
  /\ ran' = [ran EXCEPT ![st[w]] = Append(@, w)]
  /\ todo' = [todo EXCEPT ![w] = Succ[st[w]]]
  /\ Goto(w, "wake")
  /\ UNCHANGED <<unpushed, refcount, queueVars, place, st, gift, gangVars,
                 begun, completed>>

-----------------------------------------------------------------------------
(* An assembly popped from the assembly queue, between its two barriers.    *)

BeginAssembly(w) ==
  /\ pc[w] = "spin"
  /\ threadsIn[st[w]] >= place[st[w]].width
  /\ begun' = begun \union {st[w]}
  /\ Goto(w, "execute")
  /\ UNCHANGED <<unpushed, refcount, queueVars, place, st, wakeVars, gangVars,
                 ran, completed>>

(* Mutant: the member that leads the place commits, not the last one. *)
EndAssembly_LeaderCommits(w) ==
  /\ pc[w] = "execute"
  /\ ran' = [ran EXCEPT ![st[w]] = Append(@, w)]
  /\ threadsOut' = [threadsOut EXCEPT ![st[w]] = @ + 1]
  /\ IF place[st[w]].leader = w
       THEN /\ todo' = [todo EXCEPT ![w] = Succ[st[w]]]
            /\ Goto(w, "wake")
            /\ UNCHANGED st
       ELSE /\ st' = [st EXCEPT ![w] = NoTask]
            /\ Goto(w, "loop")
            /\ UNCHANGED todo
  /\ UNCHANGED <<unpushed, refcount, queueVars, place, gift, threadsIn, begun,
                 completed>>

EndAssembly(w) ==
  /\ pc[w] = "execute"
  /\ ran' = [ran EXCEPT ![st[w]] = Append(@, w)]
  /\ threadsOut' = [threadsOut EXCEPT ![st[w]] = @ + 1]
  /\ IF threadsOut[st[w]] + 1 = place[st[w]].width
       THEN /\ todo' = [todo EXCEPT ![w] = Succ[st[w]]]
            /\ Goto(w, "wake")
            /\ UNCHANGED st
       ELSE /\ st' = [st EXCEPT ![w] = NoTask]
            /\ Goto(w, "loop")
            /\ UNCHANGED todo
  /\ UNCHANGED <<unpushed, refcount, queueVars, place, gift, threadsIn, begun,
                 completed>>

-----------------------------------------------------------------------------
(* commit_and_wakeup.  The list out is walked in the order of the calls of  *)
(* make_edge, which may be any.                                             *)

Visit(w, s, becomesReady) ==
  /\ pc[w] = "wake"
  /\ s \in todo[w]
  /\ todo' = [todo EXCEPT ![w] = @ \ {s}]
  /\ refcount' = [refcount EXCEPT ![s] = @ - 1]
  /\ IF becomesReady
       THEN gift' = [gift EXCEPT ![w] = s] /\ Goto(w, "give")
       ELSE UNCHANGED <<gift, pc>>
  /\ UNCHANGED <<unpushed, queueVars, place, st, gangVars, histVars>>

(* Mutant: the successor is taken for ready when one edge is left. *)
Release_TooEarly(w, s) == Visit(w, s, refcount[s] = 2)

(* fetch_sub returned 1 *)
Release(w, s) == Visit(w, s, refcount[s] = 1)

(* Mutant: every successor goes to the queue its affinity names, and is lost
   when it names none. *)
GiveReady_NeedsAffinity(w) ==
  /\ pc[w] = "give"
  /\ gift[w] \notin Critical
  /\ readyQ' = [q \in Worker |-> IF q = Affinity[gift[w]]
                                   THEN Append(readyQ[q], gift[w])
                                   ELSE readyQ[q]]
  /\ gift' = [gift EXCEPT ![w] = NoTask]
  /\ Goto(w, "wake")
  /\ UNCHANGED <<unpushed, refcount, assemblyQ, place, st, todo, gangVars,
                 histVars>>

GiveReady(w) ==
  /\ pc[w] = "give"
  /\ gift[w] \notin Critical
  /\ LET q == IF Affinity[gift[w]] = NoAffinity THEN w ELSE Affinity[gift[w]]
     IN  readyQ' = [readyQ EXCEPT ![q] = Append(@, gift[w])]
  /\ gift' = [gift EXCEPT ![w] = NoTask]
  /\ Goto(w, "wake")
  /\ UNCHANGED <<unpushed, refcount, assemblyQ, place, st, todo, gangVars,
                 histVars>>

(* global_search_ptt may choose any place of the machine *)
GiveCritical(w) ==
  /\ pc[w] = "give"
  /\ gift[w] \in Critical
  /\ \E p \in Places :
       /\ place' = [place EXCEPT ![gift[w]] = p]
       /\ assemblyQ' = Inserted(gift[w], p)
  /\ gift' = [gift EXCEPT ![w] = NoTask]
  /\ Goto(w, "wake")
  /\ UNCHANGED <<unpushed, refcount, readyQ, st, todo, gangVars, histVars>>

(* Mutant: the commit ends before the last successor was visited. *)
Complete_SkipsRest(w) ==
  /\ pc[w] = "wake"
  /\ completed' = completed \union {st[w]}
  /\ st' = [st EXCEPT ![w] = NoTask]
  /\ Goto(w, "loop")
  /\ UNCHANGED <<unpushed, refcount, queueVars, place, wakeVars, gangVars, ran,
                 begun>>

Complete(w) ==
  /\ pc[w] = "wake"
  /\ todo[w] = {}
  /\ completed' = completed \union {st[w]}
  /\ st' = [st EXCEPT ![w] = NoTask]
  /\ Goto(w, "loop")
  /\ UNCHANGED <<unpushed, refcount, queueVars, place, wakeVars, gangVars, ran,
                 begun>>

-----------------------------------------------------------------------------
Search(w) ==
  \/ PopAssembly(w) \/ FindNoAssembly(w) \/ TakeOwn(w) \/ FindNoReady(w)
  \/ Steal(w) \/ GiveUp(w)

Run(w) ==
  \/ Distribute(w) \/ BeginSimple(w) \/ EndSimple(w)
  \/ BeginAssembly(w) \/ EndAssembly(w)

Wakeup(w) ==
  \/ \E s \in Tasks : Release(w, s)
  \/ GiveReady(w) \/ GiveCritical(w) \/ Complete(w)

Step(w) == Search(w) \/ Run(w) \/ Wakeup(w)

PushRoot == \E t \in Tasks, q \in Worker : Push(t, q)

Next == PushRoot \/ \E w \in Worker : Step(w)

Spec == Init /\ [][Next]_vars

(* The workers keep running and the program pushes all its root tasks.
   Stealing succeeds or not as it likes. *)
FairSpec == Spec /\ WF_vars(PushRoot) /\ \A w \in Worker : WF_vars(Step(w))
-----------------------------------------------------------------------------
(* Properties. *)

(* u may still release its successor t *)
Unreleased(u, t) ==
  /\ u \notin completed
  /\ \A w \in Worker : st[w] = u /\ pc[w] \in {"wake", "give"} => t \in todo[w]

(* The refcount of a task is the number of its predecessors that have not
   released it, with several workers committing predecessors at once: so
   exactly one of them sees it reach zero. *)
RefcountExact ==
  \A t \in Tasks :
    refcount[t] = Cardinality({u \in Preds(t) : Unreleased(u, t)})

Size(t) == IF t \in Simple THEN 1 ELSE place[t].width

(* the tasks all workers of their place have run *)
Finished == {t \in Tasks : Len(ran[t]) > 0 /\ Len(ran[t]) >= Size(t)}

(* make_edge: a task begins on no worker before its predecessors have ended
   on all of theirs. *)
DependenciesHold == \A t \in begun : Preds(t) \subseteq Finished

Count(q, t) == Cardinality({k \in 1 .. Len(q) : q[k] = t})

Distributed(t) ==
  threadsIn[t] > 0 \/ \E w \in Worker : Count(assemblyQ[w], t) > 0

Queued(t) ==
  UNION {{w} \X {k \in 1 .. Len(readyQ[w]) : readyQ[w][k] = t} : w \in Worker}

(* In how many hands t is that may still start it: the program's, the entries
   of ready queues, a worker that took or stole it and has not distributed or
   run it, a commit that is about to hand it over. *)
Custodians(t) ==
  Cardinality({t} \intersect unpushed) + Cardinality(Queued(t))
    + Cardinality({w \in Worker : st[w] = t /\ pc[w] \in {"have", "simple"}})
    + Cardinality({w \in Worker : gift[w] = t})

(* A ready task is neither lost nor duplicated between a commit, its ready
   queue, thieves and the worker that distributes it. *)
Custody ==
  \A t \in Tasks :
    Custodians(t) =
      IF refcount[t] = 0 /\ ~ Distributed(t) /\ ran[t] = <<>> THEN 1 ELSE 0

(* A distributed assembly reaches each member of its place exactly once: it
   is in the member's queue, or in its hands, or has been run by it. *)
EachMemberOnce ==
  \A t \in Tasks \ Simple, w \in Worker :
    Count(assemblyQ[w], t) + Count(ran[t], w)
      + Cardinality({x \in {w} : st[x] = t /\ pc[x] \in {"spin", "execute"}})
    = IF Distributed(t) /\ w \in Members(place[t]) THEN 1 ELSE 0

(* The whole graph is executed and every task committed. *)
EveryTaskCompletes == \A t \in Tasks : <>(t \in completed)

(* The scheduler implements the execution of the task graph: the steps that
   begin and end a task respect the edges, and all tasks end. *)
DE == INSTANCE DagExecution WITH started <- begun, finished <- Finished

ImplementsDagExecution == DE!Spec
=============================================================================
