--------------------------- MODULE TaskAccounting ---------------------------
(***************************************************************************)
(* How XiTAO knows that there is nothing left to do.  One atomic counter,   *)
(* pending_tasks, covers the tasks that exist; to touch it rarely, the      *)
(* constructor of a task draws from a per-thread pool of virtual tasks      *)
(* that are counted beforehand, and a worker counts the tasks it completes  *)
(* privately.  An idle worker gives both back.  xitao_drain sleeps until    *)
(* the counter is zero, and after xitao_fini a worker leaves worker_loop    *)
(* when it reads zero.                                                      *)
(*                                                                          *)
(* Modelled: the PolyTask constructor, xitao_push, the idle part of         *)
(* worker_loop, xitao_start, xitao_drain and xitao_fini, with the sessions  *)
(* a program may run one after the other.  Abstracted: a ready queue is a   *)
(* set, a task runs on one worker, and dependent tasks are those a running  *)
(* task creates and pushes.                                                 *)
(***************************************************************************)
EXTENDS Integers, FiniteSets

CONSTANTS
  NThreads,   \* xitao_nthreads
  Active,     \* the workers that belong to a partition of the PTT layout
  Tasks,      \* the tasks the program may create
  PoolSize,   \* TASK_POOL
  Sessions,   \* how often the program calls xitao_start
  Master,     \* the thread that calls the API
  NoTask

Worker == 0 .. NThreads - 1
Agent  == Worker \union {Master}

ASSUME NThreadsAssumption == NThreads \in Nat \ {0}
ASSUME ActiveAssumption == Active \subseteq Worker /\ Active # {}
ASSUME TasksAssumption == IsFiniteSet(Tasks) /\ NoTask \notin Tasks
ASSUME PoolAssumption == PoolSize \in Nat \ {0}
ASSUME SessionsAssumption == Sessions \in Nat \ {0}
ASSUME MasterAssumption == Master \notin Int

VARIABLES
  pending,      \* PolyTask::pending_tasks
  pool,         \* task_pool[i].tasks
  completions,  \* task_completions[w].tasks
  wlock,        \* worker_lock[i]: the agent that holds it
  ready,        \* ready[w]: tasks in worker_ready_q[w]
  state,        \* what has become of a task
  job,          \* the task worker w is running
  made,         \* the task an agent is constructing, or has not pushed yet
  index,        \* the _nthread argument of that constructor
  canExit,      \* gotao_can_exit
  session,      \* number of calls of xitao_start that have started workers
  pc

taskVars == <<ready, state, job>>
makeVars == <<made, index>>
ctrlVars == <<canExit, session>>
vars == <<pending, pool, completions, wlock, taskVars, makeVars, ctrlVars, pc>>

Nobody == NThreads      \* a lock that is free

Goto(a, label) == pc' = [pc EXCEPT ![a] = label]

(* Where an agent may construct a task and where it goes on afterwards. *)
MayConstruct(a) ==
  \/ a = Master /\ pc[a] = "user"
  \/ a \in Worker /\ pc[a] = "run"
Resume(a) == IF a = Master THEN "user" ELSE "run"

Init ==
  /\ pending = 0
  /\ pool = [w \in Worker |-> 0]
  /\ completions = [w \in Worker |-> 0]
  /\ wlock = [w \in Worker |-> Nobody]
  /\ ready = [w \in Worker |-> {}]
  /\ state = [t \in Tasks |-> "none"]
  /\ job = [w \in Worker |-> NoTask]
  /\ made = [a \in Agent |-> NoTask]
  /\ index = [a \in Agent |-> 0]
  /\ canExit = FALSE
  /\ session = 0
  /\ pc = [a \in Agent |-> IF a = Master THEN "user" ELSE "off"]

-----------------------------------------------------------------------------
(* PolyTask::PolyTask(t, i), called by the master or inside a running task. *)

Construct(a, i, t) ==
  /\ MayConstruct(a)
  /\ made[a] = NoTask
  /\ state[t] = "none"
  /\ wlock[i] = Nobody
  /\ wlock' = [wlock EXCEPT ![i] = a]
  /\ state' = [state EXCEPT ![t] = "new"]
  /\ made' = [made EXCEPT ![a] = t]
  /\ index' = [index EXCEPT ![a] = i]
  /\ Goto(a, "draw")
  /\ UNCHANGED <<pending, pool, completions, ready, job, ctrlVars>>

Refill(a) ==
  /\ pc[a] = "draw"
  /\ pool[index[a]] = 0
  /\ pending' = pending + PoolSize
  /\ Goto(a, "refilled")
  /\ UNCHANGED <<pool, completions, wlock, taskVars, makeVars, ctrlVars>>

(* the pool loses one task, to the task that is now counted by itself *)
Drawn(a, left) ==
  /\ pool' = [pool EXCEPT ![index[a]] = left]
  /\ state' = [state EXCEPT ![made[a]] = "created"]
  /\ wlock' = [wlock EXCEPT ![index[a]] = Nobody]
  /\ Goto(a, Resume(a))
  /\ UNCHANGED <<pending, completions, ready, job, makeVars, ctrlVars>>

(* Mutant: the new task is not taken out of the fresh pool. *)
DrawFresh_Full(a) == pc[a] = "refilled" /\ Drawn(a, PoolSize)

DrawFresh(a) == pc[a] = "refilled" /\ Drawn(a, PoolSize - 1)

Draw(a) ==
  /\ pc[a] = "draw"
  /\ pool[index[a]] > 0
  /\ Drawn(a, pool[index[a]] - 1)

(* xitao_push leaves out the queues of workers without a partition. *)
Push(a, q) ==
  /\ MayConstruct(a)
  /\ made[a] # NoTask
  /\ q \in Active
  /\ wlock[q] = Nobody
  /\ ready' = [ready EXCEPT ![q] = @ \union {made[a]}]
  /\ made' = [made EXCEPT ![a] = NoTask]
  /\ UNCHANGED <<pending, pool, completions, wlock, state, job, index,
                 ctrlVars, pc>>

-----------------------------------------------------------------------------
(* worker_loop: running a task.                                             *)

(* try_pop_ready_task takes the lock of the queue for the time of the call. *)
TakeFrom(w, v) ==
  /\ wlock[v] = Nobody
  /\ \E t \in ready[v] :
       /\ ready' = [ready EXCEPT ![v] = @ \ {t}]
       /\ job' = [job EXCEPT ![w] = t]
  /\ Goto(w, "run")
  /\ UNCHANGED <<pending, pool, completions, wlock, state, makeVars, ctrlVars>>

TakeOwn(w) == pc[w] = "loop" /\ TakeFrom(w, w)

FindNoReady(w) ==
  /\ pc[w] = "loop"
  /\ wlock[w] = Nobody
  /\ ready[w] = {}
  /\ Goto(w, "steal")
  /\ UNCHANGED <<pending, pool, completions, wlock, taskVars, makeVars, ctrlVars>>

Steal(w, v) == pc[w] = "steal" /\ v # w /\ TakeFrom(w, v)

Commit(w) ==
  /\ pc[w] = "run"
  /\ made[w] = NoTask
  /\ state' = [state EXCEPT ![job[w]] = "committed"]
  /\ job' = [job EXCEPT ![w] = NoTask]
  /\ completions' = [completions EXCEPT ![w] = @ + 1]
  /\ Goto(w, "loop")
  /\ UNCHANGED <<pending, pool, wlock, ready, makeVars, ctrlVars>>

-----------------------------------------------------------------------------
(* worker_loop: nothing to run.  Stealing is random: a worker may give up,   *)
(* or not try, whatever is in the queues of the others.                      *)

(* Mutant: a worker with nothing to report leaves its pool alone. *)
GoIdle_SkipsPool(w) ==
  /\ pc[w] = "steal"
  /\ Goto(w, IF completions[w] > 0 THEN "report" ELSE "notify")
  /\ UNCHANGED <<pending, pool, completions, wlock, taskVars, makeVars, ctrlVars>>

GoIdle(w) ==
  /\ pc[w] = "steal"
  /\ Goto(w, IF completions[w] > 0 THEN "report" ELSE "flush")
  /\ UNCHANGED <<pending, pool, completions, wlock, taskVars, makeVars, ctrlVars>>

ReportCompletions(w) ==
  /\ pc[w] = "report"
  /\ pending' = pending - completions[w]
  /\ Goto(w, "reported")
  /\ UNCHANGED <<pool, completions, wlock, taskVars, makeVars, ctrlVars>>

ResetCompletions(w) ==
  /\ pc[w] = "reported"
  /\ completions' = [completions EXCEPT ![w] = 0]
  /\ Goto(w, "flush")
  /\ UNCHANGED <<pending, pool, wlock, taskVars, makeVars, ctrlVars>>

(* Mutant: the pool is read without taking its lock. *)
FlushPool_Unlocked(w) ==
  /\ pc[w] = "flush"
  /\ IF pool[w] > 0
       THEN pending' = pending - pool[w] /\ Goto(w, "flushed")
       ELSE UNCHANGED pending /\ Goto(w, "notify")
  /\ UNCHANGED <<pool, completions, wlock, taskVars, makeVars, ctrlVars>>

FlushPool(w) ==
  /\ pc[w] = "flush"
  /\ wlock[w] = Nobody
  /\ IF pool[w] > 0
       THEN /\ pending' = pending - pool[w]
            /\ wlock' = [wlock EXCEPT ![w] = w]
            /\ Goto(w, "flushed")
       ELSE /\ Goto(w, "notify")
            /\ UNCHANGED <<pending, wlock>>
  /\ UNCHANGED <<pool, completions, taskVars, makeVars, ctrlVars>>

(* Mutant: the pool that was given back is not emptied. *)
EmptyPool_Keeps(w) ==
  /\ pc[w] = "flushed"
  /\ wlock' = [wlock EXCEPT ![w] = Nobody]
  /\ Goto(w, "notify")
  /\ UNCHANGED <<pending, pool, completions, taskVars, makeVars, ctrlVars>>

EmptyPool(w) ==
  /\ pc[w] = "flushed"
  /\ pool' = [pool EXCEPT ![w] = 0]
  /\ wlock' = [wlock EXCEPT ![w] = Nobody]
  /\ Goto(w, "notify")
  /\ UNCHANGED <<pending, completions, taskVars, makeVars, ctrlVars>>

(* notify_one, without the mutex of the condition variable: it is lost on a
   master that has tested the counter but does not sleep yet. *)
Notify(w) ==
  /\ pc[w] = "notify"
  /\ pc' = [pc EXCEPT ![w] = "exit",
                      ![Master] = IF pending = 0 /\ @ = "asleep"
                                    THEN "drain" ELSE @]
  /\ UNCHANGED <<pending, pool, completions, wlock, taskVars, makeVars, ctrlVars>>

TestExit(w) ==
  /\ pc[w] = "exit"
  /\ Goto(w, IF canExit /\ pending = 0 THEN "exited" ELSE "loop")
  /\ UNCHANGED <<pending, pool, completions, wlock, taskVars, makeVars, ctrlVars>>

-----------------------------------------------------------------------------
(* The API, called by the master.                                           *)

(* Workers outside every partition return from worker_loop at once. *)
Start ==
  /\ pc[Master] = "user"
  /\ session < Sessions
  /\ \A w \in Worker : pc[w] = "off"
  /\ session' = session + 1
  /\ pc' = [a \in Agent |-> IF a = Master THEN "user"
                            ELSE IF a \in Active THEN "loop" ELSE "exited"]
  /\ UNCHANGED <<pending, pool, completions, wlock, taskVars, makeVars, canExit>>

Started == \E w \in Worker : pc[w] # "off"

CallDrain ==
  /\ pc[Master] = "user"
  /\ Started
  /\ made[Master] = NoTask
  /\ Goto(Master, "drain")
  /\ UNCHANGED <<pending, pool, completions, wlock, taskVars, makeVars, ctrlVars>>

TestDrained ==
  /\ pc[Master] = "drain"
  /\ Goto(Master, IF pending <= 0 THEN "drained" ELSE "tosleep")
  /\ UNCHANGED <<pending, pool, completions, wlock, taskVars, makeVars, ctrlVars>>

FallAsleep ==
  /\ pc[Master] = "tosleep"
  /\ Goto(Master, "asleep")
  /\ UNCHANGED <<pending, pool, completions, wlock, taskVars, makeVars, ctrlVars>>

(* A condition variable may wake without a notification. *)
WakeSpuriously ==
  /\ pc[Master] = "asleep"
  /\ Goto(Master, "drain")
  /\ UNCHANGED <<pending, pool, completions, wlock, taskVars, makeVars, ctrlVars>>

ReturnFromDrain ==
  /\ pc[Master] = "drained"
  /\ Goto(Master, "user")
  /\ UNCHANGED <<pending, pool, completions, wlock, taskVars, makeVars, ctrlVars>>

CallFini ==
  /\ pc[Master] = "user"
  /\ Started
  /\ made[Master] = NoTask
  /\ canExit' = TRUE
  /\ Goto(Master, "join")
  /\ UNCHANGED <<pending, pool, completions, wlock, taskVars, makeVars, session>>

(* All threads have been joined; nothing sets gotao_can_exit back. *)
Join ==
  /\ pc[Master] = "join"
  /\ \A w \in Worker : pc[w] = "exited"
  /\ pc' = [a \in Agent |-> IF a = Master
                              THEN IF session < Sessions THEN "user" ELSE "done"
                              ELSE "off"]
  /\ UNCHANGED <<pending, pool, completions, wlock, taskVars, makeVars, ctrlVars>>

-----------------------------------------------------------------------------
(* A constructor that has been entered. *)
Make(a) == Refill(a) \/ DrawFresh(a) \/ Draw(a)

Work(w) ==
  \/ TakeOwn(w) \/ FindNoReady(w) \/ \E v \in Worker : Steal(w, v)
  \/ Commit(w) \/ GoIdle(w) \/ ReportCompletions(w) \/ ResetCompletions(w)
  \/ FlushPool(w) \/ EmptyPool(w) \/ Notify(w) \/ TestExit(w)

MasterWaits == TestDrained \/ FallAsleep \/ ReturnFromDrain \/ Join

Next ==
  \/ \E a \in Agent :
       \/ \E i \in Worker, t \in Tasks : Construct(a, i, t)
       \/ Make(a)
       \/ \E q \in Worker : Push(a, q)
  \/ \E w \in Worker : Work(w)
  \/ Start \/ CallDrain \/ CallFini \/ MasterWaits \/ WakeSpuriously

Spec == Init /\ [][Next]_vars

(* The threads keep running; the program pushes what it has created and its
   tasks end, but it need not call anything else. *)
FairSpec ==
  /\ Spec
  /\ \A w \in Worker : WF_vars(Work(w))
  /\ \A a \in Agent : WF_vars(Make(a)) /\ WF_vars(\E q \in Worker : Push(a, q))
  /\ WF_vars(MasterWaits)
-----------------------------------------------------------------------------
(* Properties. *)

Outstanding == {t \in Tasks : state[t] = "created"}

(* The sum of a per-thread counter: how many units it has altogether. *)
Units(f) == UNION {{w} \X (1 .. f[w]) : w \in Worker}
Total(f) == Cardinality(Units(f))

(* A pool and a completion counter as pending_tasks sees them, in the middle
   of a refill, a report or a flush too. *)
CountedPool ==
  [i \in Worker |->
     IF wlock[i] \in Agent /\ pc[wlock[i]] = "refilled" THEN pool[i] + PoolSize
     ELSE IF pc[i] = "flushed" THEN 0 ELSE pool[i]]
CountedCompletions ==
  [w \in Worker |-> IF pc[w] = "reported" THEN 0 ELSE completions[w]]

(* pending_tasks is at every moment the number of created tasks that are not
   committed, plus the virtual tasks in the pools, plus the completions that
   were not reported yet. *)
Accounting ==
  pending = Cardinality(Outstanding) + Total(CountedPool)
              + Total(CountedCompletions)

(* xitao_drain waits for "all ready TAOs": the counter it waits for cannot be
   zero, or below, while a created task is uncommitted.  (It is never below: Accounting
   adds numbers of things, so that the test pending <= 0 of drain and the test
   pending == 0 of the workers agree.) *)
QuiescentIsDone == pending <= 0 => Outstanding = {}

(* No worker leaves worker_loop while a task is still to be executed. *)
ExitSound ==
  (\E w \in Active : pc[w] = "exited") => Outstanding = {}

(* xitao_drain returns, although notify_one may hit a master that does not
   sleep yet. *)
DrainReturns == pc[Master] = "drain" ~> pc[Master] = "drained"

(* xitao_fini returns: every worker comes to read zero and leaves. *)
FiniReturns == pc[Master] = "join" ~> pc[Master] # "join"

=============================================================================
