----------------------- MODULE TaskAccounting_proofs -----------------------
(***************************************************************************)
(* Proofs that the books of the runtime are right: pending_tasks counts the *)
(* tasks, the pools and the unreported completions at every moment, so that *)
(* it reads zero only when every created task is committed, and a worker    *)
(* that leaves worker_loop leaves nothing behind.  For any number of        *)
(* workers and tasks and any TASK_POOL; the last for a program that starts  *)
(* the workers once (the run accounting_restart shows what happens to one   *)
(* that starts them again).                                                 *)
(*                                                                          *)
(* The inductive invariant says who holds worker_lock[i] (LocksHeld), that  *)
(* a constructor adds a task that is not counted yet to a pool it has       *)
(* locked (Constructors), and that no task is in two queues or run by two   *)
(* workers (QueuedOnce, HeldOnce): without that, two commits could report   *)
(* one task.                                                                *)
(***************************************************************************)
EXTENDS TaskAccounting, TLAPS, FiniteSetTheorems

(* the places of the code *)
Label == {"user", "off", "loop", "run", "steal", "draw", "refilled", "report",
          "reported", "flush", "flushed", "notify", "exit", "exited", "drain",
          "drained", "tosleep", "asleep", "join", "done"}

Types ==
  /\ pending \in Int
  /\ pool \in [Worker -> Nat]
  /\ completions \in [Worker -> Nat]
  /\ wlock \in [Worker -> Agent \union {Nobody}]
  /\ ready \in [Worker -> SUBSET Tasks]
  /\ state \in [Tasks -> {"none", "new", "created", "committed"}]
  /\ job \in [Worker -> Tasks \union {NoTask}]
  /\ made \in [Agent -> Tasks \union {NoTask}]
  /\ index \in [Agent -> Worker]
  /\ canExit \in BOOLEAN
  /\ session \in Nat
  /\ pc \in [Agent -> Label]

(* a is inside the constructor of a task *)
Inside(a) == pc[a] \in {"draw", "refilled"}

(* a is at a place of the code where it has locked i *)
Holds(a, i) ==
  \/ Inside(a) /\ index[a] = i
  \/ pc[a] = "flushed" /\ a = i

(* A lock is held from the place where it is taken to where it is freed. *)
LocksHeld == \A a \in Agent : \A i \in Worker : wlock[i] = a <=> Holds(a, i)

(* A constructor has a task that counts when it is done; the pool is refilled
   when it is empty. *)
Constructors ==
  \A a \in Agent :
    /\ Inside(a) => made[a] # NoTask
    /\ made[a] # NoTask =>
         state[made[a]] = IF Inside(a) THEN "new" ELSE "created"
    /\ pc[a] = "refilled" => pool[index[a]] = 0

(* A worker that runs a task has one. *)
Running ==
  \A w \in Worker :
    /\ pc[w] = "run" \/ Inside(w) => job[w] # NoTask
    /\ job[w] # NoTask => state[job[w]] = "created"

(* A queued task is in one queue, and with no one. *)
QueuedOnce ==
  \A q \in Worker : \A t \in ready[q] :
    /\ state[t] = "created"
    /\ \A v \in Worker : t \in ready[v] => v = q
    /\ \A v \in Worker : job[v] # t
    /\ \A a \in Agent : made[a] # t

(* A task is run by one worker, and made by one agent. *)
HeldOnce ==
  /\ \A v \in Worker, w \in Worker : job[v] = job[w] /\ job[v] # NoTask => v = w
  /\ \A a \in Agent, b \in Agent : made[a] = made[b] /\ made[a] # NoTask => a = b
  /\ \A v \in Worker, a \in Agent : job[v] # NoTask => job[v] # made[a]

Inv ==
  /\ Types
  /\ LocksHeld
  /\ Constructors
  /\ Running
  /\ QueuedOnce
  /\ HeldOnce

IInv == Inv /\ Accounting

-----------------------------------------------------------------------------
(* Sums of per-thread counters. *)

(* There are finitely many workers. *)
LEMMA WorkerFinite == IsFiniteSet(Worker)
BY NThreadsAssumption, FS_Interval DEF Worker

(* The units of the counters of some workers are finitely many. *)
LEMMA UnitsFinite ==
  ASSUME NEW f \in [Worker -> Nat], NEW S \in SUBSET Worker
  PROVE  IsFiniteSet(UNION {{w} \X (1 .. f[w]) : w \in S})
<1> DEFINE Part(w) == {w} \X (1 .. f[w])
           Parts == {Part(w) : w \in S}
<1>1. ASSUME NEW w \in S PROVE IsFiniteSet(Part(w))
  <2>1. IsFiniteSet({w})
    BY FS_Singleton
  <2>2. f[w] \in Int
    OBVIOUS
  <2>3. IsFiniteSet(1 .. f[w])
    BY <2>2, FS_Interval
  <2> QED
    BY <2>1, <2>3, FS_Product
<1>2. IsFiniteSet(S)
  BY WorkerFinite, FS_Subset
<1>3. IsFiniteSet(Parts)
  <2> DEFINE part == [w \in S |-> Part(w)]
  <2>1. part \in Surjection(S, Parts)
    BY DEF Surjection
  <2> HIDE DEF part
  <2> QED
    BY <1>2, <2>1, FS_Surjection
<1>4. \A T \in Parts : IsFiniteSet(T)
  BY <1>1
<1>5. IsFiniteSet(UNION Parts)
  BY <1>3, <1>4, FS_UNION
<1> QED
  BY <1>5

(* A change of one counter changes the total by as much. *)
LEMMA TotalChange ==
  ASSUME NEW f \in [Worker -> Nat], NEW g \in [Worker -> Nat],
         NEW i \in Worker, \A w \in Worker : w # i => f[w] = g[w]
  PROVE  Total(f) \in Nat /\ Total(g) = Total(f) - f[i] + g[i]
<1> DEFINE Others(h) == UNION {{w} \X (1 .. h[w]) : w \in Worker \ {i}}
           Own(h) == {i} \X (1 .. h[i])
<1>1. ASSUME NEW h \in [Worker -> Nat]
      PROVE  Cardinality(Others(h)) \in Nat /\ Total(h) = Cardinality(Others(h)) + h[i]
  <2>1. Units(h) = Others(h) \union Own(h)
    BY DEF Units
  <2>2. Others(h) \intersect Own(h) = {}
    OBVIOUS
  <2>3. IsFiniteSet(Others(h))
    BY UnitsFinite
  <2>4. h[i] \in Nat
    OBVIOUS
  <2>5. IsFiniteSet(1 .. h[i]) /\ Cardinality(1 .. h[i]) = h[i]
    BY <2>4, FS_Interval
  <2>6. IsFiniteSet({i}) /\ Cardinality({i}) = 1
    BY FS_Singleton
  <2>7. IsFiniteSet(Own(h)) /\ Cardinality(Own(h)) = h[i]
    <3>1. Cardinality(Own(h)) = Cardinality({i}) * Cardinality(1 .. h[i])
      BY <2>5, <2>6, FS_Product
    <3>2. IsFiniteSet(Own(h))
      BY <2>5, <2>6, FS_Product
    <3> QED
      BY <2>4, <2>5, <2>6, <3>1, <3>2
  <2>8. Cardinality(Others(h)) \in Nat
    BY <2>3, FS_CardinalityType
  <2> HIDE DEF Others, Own
  <2>9. Cardinality(Units(h)) = Cardinality(Others(h)) + h[i] - Cardinality({})
    BY <2>1, <2>2, <2>3, <2>7, FS_Union
  <2> QED
    BY <2>4, <2>8, <2>9, FS_EmptySet DEF Total
<1>2. Others(f) = Others(g)
  <2>1. \A w \in Worker \ {i} : {w} \X (1 .. f[w]) = {w} \X (1 .. g[w])
    OBVIOUS
  <2> QED
    BY <2>1
<1> HIDE DEF Others
<1>3. f[i] \in Nat /\ g[i] \in Nat
  OBVIOUS
<1> QED
  BY <1>1, <1>2, <1>3

(* The tasks that wait to be committed are finitely many. *)
LEMMA OutstandingFinite ==
  IsFiniteSet(Outstanding) /\ Cardinality(Outstanding) \in Nat
BY TasksAssumption, FS_Subset, FS_CardinalityType DEF Outstanding

(* no agent is nobody, and the master is no worker *)
LEMMA Agents ==
  /\ Worker \subseteq Agent
  /\ Master \in Agent
  /\ Nobody \notin Agent
  /\ \A a \in Agent : a \in Worker \/ a = Master
  /\ Master \notin Worker
BY NThreadsAssumption, MasterAssumption DEF Agent, Worker, Nobody

-----------------------------------------------------------------------------
(* The invariant holds initially. *)

LEMMA InvInit == Init => Inv
<1> SUFFICES ASSUME Init PROVE Inv
  OBVIOUS
<1> USE Agents DEF Init
<1>1. pc \in [Agent -> Label] /\ \A a \in Agent : pc[a] \in {"user", "off"}
  BY DEF Label
<1>2. Types
  <2>1. 0 \in Worker
    BY NThreadsAssumption DEF Worker
  <2>2. pool \in [Worker -> Nat] /\ completions \in [Worker -> Nat]
    OBVIOUS
  <2>3. pending \in Int /\ session \in Nat
    OBVIOUS
  <2>4. canExit \in BOOLEAN
    OBVIOUS
  <2>5. wlock \in [Worker -> Agent \union {Nobody}] /\ ready \in [Worker -> SUBSET Tasks]
    OBVIOUS
  <2>6. state \in [Tasks -> {"none", "new", "created", "committed"}]
    OBVIOUS
  <2>7. /\ job \in [Worker -> Tasks \union {NoTask}]
        /\ made \in [Agent -> Tasks \union {NoTask}]
    OBVIOUS
  <2>8. index \in [Agent -> Worker]
    BY <2>1
  <2> QED
    BY <1>1, <2>2, <2>3, <2>4, <2>5, <2>6, <2>7, <2>8 DEF Types
<1>3. \A a \in Agent : ~ Inside(a) /\ pc[a] \notin {"flushed", "run", "refilled"}
  BY <1>1 DEF Inside
<1>4. LocksHeld
  BY <1>3 DEF LocksHeld, Holds
<1>5. Constructors /\ Running
  BY <1>3 DEF Constructors, Running
<1>6. QueuedOnce /\ HeldOnce
  BY DEF QueuedOnce, HeldOnce
<1> QED
  BY <1>2, <1>4, <1>5, <1>6 DEF Inv

-----------------------------------------------------------------------------
(* Most steps move some agents between places where they hold nothing. *)
Strolls ==
  /\ pc' \in [Agent -> Label]
  /\ \A a \in Agent : pc'[a] # pc[a] =>
       /\ pc[a] \notin {"draw", "refilled", "flushed"}
       /\ pc'[a] \notin {"draw", "refilled", "flushed", "run"}
  /\ UNCHANGED <<pool, wlock, taskVars, makeVars>>

(* A step of this kind keeps the invariant. *)
LEMMA StrollInv ==
  ASSUME Inv, Strolls,
         pending' \in Int, completions' \in [Worker -> Nat],
         canExit' \in BOOLEAN, session' \in Nat
  PROVE  Inv'
<1> USE DEF Strolls, taskVars, makeVars, Inv
<1>1. Types'
  BY DEF Types
<1>2. \A a \in Agent :
        /\ Inside(a)' <=> Inside(a)
        /\ pc'[a] = "refilled" <=> pc[a] = "refilled"
        /\ pc'[a] = "flushed" <=> pc[a] = "flushed"
        /\ pc'[a] = "run" => pc[a] = "run"
  BY DEF Inside
<1>3. LocksHeld'
  BY <1>2 DEF LocksHeld, Holds
<1>4. Constructors'
  BY <1>2 DEF Constructors
<1>5. Running'
  BY <1>2, Agents DEF Running
<1>6. QueuedOnce' /\ HeldOnce'
  BY DEF QueuedOnce, HeldOnce
<1> QED
  BY <1>1, <1>3, <1>4, <1>5, <1>6

-----------------------------------------------------------------------------
(* The steps that lock, unlock or move a task. *)

(* The constructor locks a pool. *)
LEMMA ConstructInv ==
  ASSUME Inv, NEW a \in Agent, NEW i \in Worker, NEW t \in Tasks, Construct(a, i, t)
  PROVE  Inv'
<1> USE Agents, TasksAssumption DEF Inv
<1>1. /\ pc[a] \in {"user", "run"} /\ made[a] = NoTask
      /\ state[t] = "none" /\ wlock[i] = Nobody
  BY DEF Construct, MayConstruct
<1>2. /\ wlock' = [wlock EXCEPT ![i] = a]
      /\ state' = [state EXCEPT ![t] = "new"]
      /\ made' = [made EXCEPT ![a] = t]
      /\ index' = [index EXCEPT ![a] = i]
      /\ pc' = [pc EXCEPT ![a] = "draw"]
      /\ UNCHANGED <<pending, pool, completions, ready, job, canExit, session>>
  BY DEF Construct, Goto, ctrlVars
<1>3. Types'
  BY <1>2 DEF Types, Label
<1>4. /\ Inside(a)' /\ ~ Inside(a) /\ pc'[a] = "draw"
      /\ \A b \in Agent : b # a => (Inside(b)' <=> Inside(b)) /\ pc'[b] = pc[b]
  BY <1>1, <1>2 DEF Types, Inside
<1>5. LocksHeld'
  BY <1>1, <1>2, <1>4 DEF LocksHeld, Holds, Types
<1>6. /\ \A b \in Agent : made[b] # t
      /\ \A w \in Worker : job[w] # t /\ t \notin ready[w]
  BY <1>1 DEF Constructors, Running, QueuedOnce, Types
<1>7. Constructors'
  <2>1. ASSUME NEW b \in Agent, b # a
        PROVE  /\ Inside(b)' => made'[b] # NoTask
               /\ made'[b] # NoTask =>
                    state'[made'[b]] = IF Inside(b)' THEN "new" ELSE "created"
               /\ pc'[b] = "refilled" => pool'[index'[b]] = 0
    <3>1. /\ made'[b] = made[b] /\ index'[b] = index[b]
          /\ made[b] # t /\ made[b] \in Tasks \union {NoTask}
      BY <1>2, <1>6, <2>1 DEF Types
    <3>2. made[b] # NoTask => state'[made[b]] = state[made[b]]
      BY <1>2, <3>1 DEF Types
    <3> QED
      BY <1>2, <1>4, <2>1, <3>1, <3>2 DEF Constructors
  <2>2. made'[a] = t /\ state'[t] = "new"
    BY <1>2 DEF Types
  <2> QED
    BY <1>4, <2>1, <2>2 DEF Constructors
<1>8. Running'
  <2>1. ASSUME NEW w \in Worker
        PROVE  /\ pc'[w] = "run" \/ Inside(w)' => job[w] # NoTask
               /\ job[w] # NoTask => state'[job[w]] = "created"
    <3>1. pc'[w] = "run" \/ Inside(w)' => pc[w] = "run" \/ Inside(w)
      <4>1. CASE w = a
        BY <1>1, <4>1 DEF MayConstruct, Construct
      <4> QED
        BY <1>4, <4>1
    <3>2. job[w] # t
      BY <1>6
    <3>3. job[w] # NoTask => state'[job[w]] = state[job[w]]
      BY <1>2, <3>2 DEF Types
    <3> QED
      BY <3>1, <3>3 DEF Running
  <2> QED
    BY <1>2, <2>1 DEF Running
<1>9. QueuedOnce'
  BY <1>2, <1>6 DEF QueuedOnce, Types
<1>10. HeldOnce'
  BY <1>1, <1>2, <1>6 DEF HeldOnce, Types
<1> QED
  BY <1>3, <1>5, <1>7, <1>8, <1>9, <1>10

(* It refills a pool that is empty. *)
LEMMA RefillInv ==
  ASSUME Inv, NEW a \in Agent, Refill(a)
  PROVE  Inv'
<1> USE Agents DEF Inv
<1>1. /\ pc[a] = "draw" /\ pool[index[a]] = 0
      /\ pending' = pending + PoolSize
      /\ pc' = [pc EXCEPT ![a] = "refilled"]
      /\ UNCHANGED <<pool, completions, wlock, ready, state, job, made, index,
                     canExit, session>>
  BY DEF Refill, Goto, taskVars, makeVars, ctrlVars
<1>2. Types'
  BY <1>1, PoolAssumption DEF Types, Label
<1>3. /\ pc'[a] = "refilled"
      /\ \A b \in Agent : (Inside(b)' <=> Inside(b)) /\ (b # a => pc'[b] = pc[b])
  BY <1>1 DEF Types, Inside
<1>4. LocksHeld'
  BY <1>1, <1>3 DEF LocksHeld, Holds
<1>5. Constructors'
  BY <1>1, <1>3 DEF Constructors
<1>6. Running'
  BY <1>1, <1>3 DEF Running
<1>7. QueuedOnce' /\ HeldOnce'
  BY <1>1 DEF QueuedOnce, HeldOnce
<1> QED
  BY <1>2, <1>4, <1>5, <1>6, <1>7

(* It takes a task out of the pool and unlocks it. *)
LEMMA DrawnInv ==
  ASSUME Inv, NEW a \in Agent, Inside(a), NEW left \in Nat, Drawn(a, left)
  PROVE  Inv'
<1> USE Agents, TasksAssumption DEF Inv
<1> DEFINE i == index[a]
           t == made[a]
<1>1. /\ pool' = [pool EXCEPT ![index[a]] = left]
      /\ state' = [state EXCEPT ![made[a]] = "created"]
      /\ wlock' = [wlock EXCEPT ![index[a]] = Nobody]
      /\ pc' = [pc EXCEPT ![a] = Resume(a)]
      /\ UNCHANGED <<pending, completions, ready, job, made, index, canExit, session>>
  BY DEF Drawn, Goto, makeVars, ctrlVars
<1>2. Resume(a) \in {"user", "run"} /\ (a \in Worker => Resume(a) = "run")
  BY DEF Resume
<1>3. i \in Worker /\ t \in Tasks /\ state[t] = "new" /\ wlock[i] = a
  BY DEF Types, Constructors, LocksHeld, Holds
<1>4. Types'
  BY <1>1, <1>2, <1>3 DEF Types, Label
<1>5. /\ pc'[a] = Resume(a) /\ ~ Inside(a)' /\ pc'[a] # "flushed"
      /\ \A b \in Agent : b # a => (Inside(b)' <=> Inside(b)) /\ pc'[b] = pc[b]
  BY <1>1, <1>2 DEF Types, Inside
<1>6. \A b \in Agent : b # a /\ Inside(b) => index[b] # i
  BY <1>3 DEF LocksHeld, Holds
<1>8. LocksHeld'
  <2>1. ASSUME NEW b \in Agent, NEW j \in Worker
        PROVE  (wlock'[j] = b) <=> Holds(b, j)'
    <3>1. wlock'[j] = IF j = i THEN Nobody ELSE wlock[j]
      BY <1>1, <1>3 DEF Types
    <3>2. wlock[j] = b <=> Holds(b, j)
      BY DEF LocksHeld
    <3>3. CASE b = a
      <4>1. ~ Holds(a, j)'
        BY <1>5 DEF Holds
      <4>2. j # i => wlock[j] # a
        BY <3>2, <3>3 DEF Holds, Inside
      <4> QED
        BY <3>1, <3>3, <4>1, <4>2
    <3>4. CASE b # a
      <4>1. Holds(b, j)' <=> Holds(b, j)
        BY <1>1, <1>5, <3>4 DEF Holds
      <4>2. j = i => ~ Holds(b, j)
        BY <1>3, <3>2, <3>4
      <4> QED
        BY <3>1, <3>2, <4>1, <4>2
    <3> QED
      BY <3>3, <3>4
  <2> QED
    BY <2>1 DEF LocksHeld
<1>9. /\ \A b \in Agent : b # a => made[b] # t
      /\ \A w \in Worker : job[w] # t /\ t \notin ready[w]
  BY <1>3 DEF HeldOnce, Running, QueuedOnce
<1>10. Constructors'
  <2>1. ASSUME NEW b \in Agent, b # a
        PROVE  /\ Inside(b)' => made'[b] # NoTask
               /\ made'[b] # NoTask =>
                    state'[made'[b]] = IF Inside(b)' THEN "new" ELSE "created"
               /\ pc'[b] = "refilled" => pool'[index'[b]] = 0
    <3>1. made'[b] # t /\ made'[b] = made[b] /\ made[b] \in Tasks \union {NoTask}
      BY <1>1, <1>9, <2>1 DEF Types
    <3>2. made[b] # NoTask => state'[made[b]] = state[made[b]]
      BY <1>1, <1>3, <3>1 DEF Types
    <3>3. pc'[b] = "refilled" => index[b] # i
      BY <1>5, <1>6, <2>1 DEF Inside
    <3>4. pc'[b] = "refilled" => pool'[index'[b]] = pool[index[b]]
      BY <1>1, <1>3, <3>3 DEF Types
    <3> QED
      BY <1>5, <2>1, <3>1, <3>2, <3>4 DEF Constructors
  <2>2. state'[made'[a]] = "created" /\ ~ Inside(a)' /\ pc'[a] # "refilled"
    BY <1>1, <1>2, <1>3, <1>5 DEF Types
  <2> QED
    BY <2>1, <2>2 DEF Constructors
<1>11. Running'
  BY <1>1, <1>3, <1>5, <1>9 DEF Running, Types
<1>12. QueuedOnce'
  BY <1>1, <1>3, <1>9 DEF QueuedOnce, Types
<1>13. HeldOnce'
  BY <1>1 DEF HeldOnce
<1> QED
  BY <1>4, <1>8, <1>10, <1>11, <1>12, <1>13

(* xitao_push moves the task to a queue. *)
LEMMA PushInv ==
  ASSUME Inv, NEW a \in Agent, NEW q \in Worker, Push(a, q)
  PROVE  Inv'
<1> USE Agents, TasksAssumption DEF Inv
<1>1. /\ pc[a] \in {"user", "run"} /\ made[a] # NoTask
      /\ ready' = [ready EXCEPT ![q] = @ \union {made[a]}]
      /\ made' = [made EXCEPT ![a] = NoTask]
      /\ UNCHANGED <<pending, pool, completions, wlock, state, job, index,
                     canExit, session, pc>>
  BY DEF Push, MayConstruct, ctrlVars
<1>2. \A b \in Agent : Inside(b)' <=> Inside(b)
  BY <1>1 DEF Inside
<1>3. made[a] \in Tasks /\ state[made[a]] = "created" /\ ~ Inside(a)
  BY <1>1 DEF Types, Constructors, Inside
<1>4. Types'
  BY <1>1, <1>3 DEF Types
<1>5. LocksHeld'
  BY <1>1, <1>2 DEF LocksHeld, Holds
<1>6. Constructors'
  BY <1>1, <1>2, <1>3 DEF Constructors, Types
<1>7. Running'
  BY <1>1, <1>2 DEF Running
<1>8. QueuedOnce'
  BY <1>1, <1>3 DEF QueuedOnce, HeldOnce, Types
<1>9. HeldOnce'
  BY <1>1 DEF HeldOnce, Types
<1> QED
  BY <1>4, <1>5, <1>6, <1>7, <1>8, <1>9

(* A worker takes a task from its own queue or from another one. *)
LEMMA TakeInv ==
  ASSUME Inv, NEW w \in Worker, NEW v \in Worker,
         pc[w] \in {"loop", "steal"}, TakeFrom(w, v)
  PROVE  Inv'
<1> USE Agents, TasksAssumption DEF Inv
<1>1. PICK t \in ready[v] : /\ ready' = [ready EXCEPT ![v] = @ \ {t}]
                           /\ job' = [job EXCEPT ![w] = t]
  BY DEF TakeFrom
<1>2. /\ pc' = [pc EXCEPT ![w] = "run"]
      /\ UNCHANGED <<pending, pool, completions, wlock, state, made, index,
                     canExit, session>>
  BY DEF TakeFrom, Goto, makeVars, ctrlVars
<1>3. /\ ~ Inside(w) /\ ~ Inside(w)' /\ pc'[w] = "run"
      /\ \A b \in Agent : b # w => (Inside(b)' <=> Inside(b)) /\ pc'[b] = pc[b]
  BY <1>2 DEF Types, Inside
<1>4. /\ t \in Tasks /\ state[t] = "created"
      /\ \A u \in Worker : job[u] # t /\ (t \in ready[u] => u = v)
      /\ \A b \in Agent : made[b] # t
  BY DEF Types, QueuedOnce
<1>5. Types'
  BY <1>1, <1>2, <1>4 DEF Types, Label
<1>6. LocksHeld'
  BY <1>2, <1>3 DEF LocksHeld, Holds
<1>7. Constructors'
  BY <1>2, <1>3 DEF Constructors
<1>8. Running'
  BY <1>1, <1>2, <1>3, <1>4 DEF Running, Types
<1>9. QueuedOnce'
  BY <1>1, <1>2, <1>4 DEF QueuedOnce, Types
<1>10. HeldOnce'
  BY <1>1, <1>2, <1>4 DEF HeldOnce, Types
<1> QED
  BY <1>5, <1>6, <1>7, <1>8, <1>9, <1>10

(* A worker ends a task, which no one else has. *)
LEMMA CommitInv ==
  ASSUME Inv, NEW w \in Worker, Commit(w)
  PROVE  Inv'
<1> USE Agents, TasksAssumption DEF Inv
<1>1. /\ pc[w] = "run" /\ made[w] = NoTask
      /\ state' = [state EXCEPT ![job[w]] = "committed"]
      /\ job' = [job EXCEPT ![w] = NoTask]
      /\ completions' = [completions EXCEPT ![w] = @ + 1]
      /\ pc' = [pc EXCEPT ![w] = "loop"]
      /\ UNCHANGED <<pending, pool, wlock, ready, made, index, canExit, session>>
  BY DEF Commit, Goto, makeVars, ctrlVars
<1>2. /\ ~ Inside(w) /\ ~ Inside(w)' /\ pc'[w] = "loop"
      /\ \A b \in Agent : b # w => (Inside(b)' <=> Inside(b)) /\ pc'[b] = pc[b]
  BY <1>1 DEF Types, Inside
<1>3. job[w] \in Tasks /\ state[job[w]] = "created"
  BY <1>1 DEF Types, Running
<1>4. /\ \A v \in Worker : (v # w => job[v] # job[w]) /\ job[w] \notin ready[v]
      /\ \A b \in Agent : made[b] # job[w]
  BY <1>3 DEF HeldOnce, QueuedOnce
<1>5. Types'
  BY <1>1, <1>3 DEF Types, Label
<1>6. LocksHeld'
  BY <1>1, <1>2 DEF LocksHeld, Holds
<1>7. Constructors'
  BY <1>1, <1>2, <1>3, <1>4 DEF Constructors, Types
<1>8. Running'
  BY <1>1, <1>2, <1>3, <1>4 DEF Running, Types
<1>9. QueuedOnce'
  BY <1>1, <1>3, <1>4 DEF QueuedOnce, Types
<1>10. HeldOnce'
  BY <1>1 DEF HeldOnce, Types
<1> QED
  BY <1>5, <1>6, <1>7, <1>8, <1>9, <1>10

(* An idle worker locks its pool and gives it back, when there is something in it. *)
LEMMA FlushInv ==
  ASSUME Inv, NEW w \in Worker, FlushPool(w)
  PROVE  Inv'
<1> USE Agents DEF Inv
<1>1. /\ pc[w] = "flush" /\ wlock[w] = Nobody
      /\ UNCHANGED <<pool, completions, ready, state, job, made, index,
                     canExit, session>>
  BY DEF FlushPool, taskVars, makeVars, ctrlVars
<1>2. CASE pool[w] > 0
  <2>1. /\ pending' = pending - pool[w]
        /\ wlock' = [wlock EXCEPT ![w] = w]
        /\ pc' = [pc EXCEPT ![w] = "flushed"]
    BY <1>2 DEF FlushPool, Goto
  <2>2. Types'
    BY <1>1, <2>1 DEF Types, Label
  <2>3. /\ ~ Inside(w) /\ ~ Inside(w)' /\ pc'[w] = "flushed"
        /\ \A b \in Agent : b # w => (Inside(b)' <=> Inside(b)) /\ pc'[b] = pc[b]
    BY <1>1, <2>1 DEF Types, Inside
  <2>4. LocksHeld'
    BY <1>1, <2>1, <2>3 DEF LocksHeld, Holds, Types
  <2>5. Constructors'
    BY <1>1, <2>3 DEF Constructors
  <2>6. Running'
    BY <1>1, <2>3 DEF Running
  <2>7. QueuedOnce' /\ HeldOnce'
    BY <1>1 DEF QueuedOnce, HeldOnce
  <2> QED
    BY <2>2, <2>4, <2>5, <2>6, <2>7
<1>3. CASE ~ pool[w] > 0
  <2>1. pc' = [pc EXCEPT ![w] = "notify"] /\ UNCHANGED <<pending, wlock>>
    BY <1>3 DEF FlushPool, Goto
  <2>2. Strolls
    BY <1>1, <2>1 DEF Strolls, Types, Label, taskVars, makeVars
  <2> QED
    BY <1>1, <2>1, <2>2, StrollInv DEF Types
<1> QED
  BY <1>2, <1>3

(* Then it empties and unlocks the pool. *)
LEMMA EmptyInv ==
  ASSUME Inv, NEW w \in Worker, EmptyPool(w)
  PROVE  Inv'
<1> USE Agents DEF Inv
<1>1. /\ pc[w] = "flushed"
      /\ pool' = [pool EXCEPT ![w] = 0]
      /\ wlock' = [wlock EXCEPT ![w] = Nobody]
      /\ pc' = [pc EXCEPT ![w] = "notify"]
      /\ UNCHANGED <<pending, completions, ready, state, job, made, index,
                     canExit, session>>
  BY DEF EmptyPool, Goto, taskVars, makeVars, ctrlVars
<1>2. Types'
  BY <1>1 DEF Types, Label
<1>3. /\ ~ Inside(w) /\ ~ Inside(w)' /\ pc'[w] = "notify"
      /\ \A b \in Agent : b # w => (Inside(b)' <=> Inside(b)) /\ pc'[b] = pc[b]
  BY <1>1 DEF Types, Inside
<1>4. wlock[w] = w /\ \A b \in Agent : Inside(b) => index[b] # w
  BY <1>1, <1>3 DEF LocksHeld, Holds
<1>5. LocksHeld'
  BY <1>1, <1>3, <1>4 DEF LocksHeld, Holds, Types
<1>6. Constructors'
  BY <1>1, <1>3, <1>4 DEF Constructors, Types, Inside
<1>7. Running'
  BY <1>1, <1>3 DEF Running
<1>8. QueuedOnce' /\ HeldOnce'
  BY <1>1 DEF QueuedOnce, HeldOnce
<1> QED
  BY <1>2, <1>5, <1>6, <1>7, <1>8

(* The other steps of a worker, and those of the API. *)
StrollSteps ==
  \/ \E w \in Worker :
       FindNoReady(w) \/ GoIdle(w) \/ ReportCompletions(w) \/ ResetCompletions(w)
       \/ Notify(w) \/ TestExit(w)
  \/ Start \/ CallDrain \/ CallFini \/ MasterWaits \/ WakeSpuriously

(* They are steps of this kind. *)
LEMMA StrollTypes ==
  ASSUME Inv, StrollSteps
  PROVE  /\ Strolls
         /\ pending' \in Int /\ completions' \in [Worker -> Nat]
         /\ canExit' \in BOOLEAN /\ session' \in Nat
<1> USE Agents DEF taskVars, makeVars, ctrlVars, Goto
<1>1. Types
  BY DEF Inv
<1> DEFINE Still == UNCHANGED <<pending, completions, ctrlVars>>
<1>2. ASSUME NEW w \in Worker, FindNoReady(w) PROVE Strolls /\ Still
  BY <1>1, <1>2 DEF FindNoReady, Strolls, Types, Label
<1>3. ASSUME NEW w \in Worker, GoIdle(w) PROVE Strolls /\ Still
  BY <1>1, <1>3 DEF GoIdle, Strolls, Types, Label
<1>4. ASSUME NEW w \in Worker, ReportCompletions(w)
      PROVE  Strolls /\ pending' \in Int /\ UNCHANGED <<completions, ctrlVars>>
  BY <1>1, <1>4 DEF ReportCompletions, Strolls, Types, Label
<1>5. ASSUME NEW w \in Worker, ResetCompletions(w)
      PROVE  /\ Strolls /\ completions' \in [Worker -> Nat]
             /\ UNCHANGED <<pending, ctrlVars>>
  BY <1>1, <1>5 DEF ResetCompletions, Strolls, Types, Label
<1>6. ASSUME NEW w \in Worker, Notify(w) PROVE Strolls /\ Still
  BY <1>1, <1>6 DEF Notify, Strolls, Types, Label
<1>7. ASSUME NEW w \in Worker, TestExit(w) PROVE Strolls /\ Still
  BY <1>1, <1>7 DEF TestExit, Strolls, Types, Label
<1>8. ASSUME Start
      PROVE  /\ Strolls /\ session' \in Nat
             /\ UNCHANGED <<pending, completions, canExit>>
  BY <1>1, <1>8 DEF Start, Strolls, Types, Label
<1>9. ASSUME CallDrain PROVE Strolls /\ Still
  BY <1>1, <1>9 DEF CallDrain, Strolls, Types, Label
<1>10. ASSUME CallFini
      PROVE  /\ Strolls /\ canExit' \in BOOLEAN
             /\ UNCHANGED <<pending, completions, session>>
  BY <1>1, <1>10 DEF CallFini, Strolls, Types, Label
<1>11. ASSUME TestDrained PROVE Strolls /\ Still
  BY <1>1, <1>11 DEF TestDrained, Strolls, Types, Label
<1>12. ASSUME FallAsleep PROVE Strolls /\ Still
  BY <1>1, <1>12 DEF FallAsleep, Strolls, Types, Label
<1>13. ASSUME ReturnFromDrain PROVE Strolls /\ Still
  BY <1>1, <1>13 DEF ReturnFromDrain, Strolls, Types, Label
<1>14. ASSUME Join PROVE Strolls /\ Still
  BY <1>1, <1>14 DEF Join, Strolls, Types, Label
<1>15. ASSUME WakeSpuriously PROVE Strolls /\ Still
  BY <1>1, <1>15 DEF WakeSpuriously, Strolls, Types, Label
<1>16. UNCHANGED ctrlVars => UNCHANGED <<canExit, session>>
  OBVIOUS
<1>17. ASSUME Strolls,
              UNCHANGED pending \/ pending' \in Int,
              UNCHANGED completions \/ completions' \in [Worker -> Nat],
              UNCHANGED canExit \/ canExit' \in BOOLEAN,
              UNCHANGED session \/ session' \in Nat
       PROVE  /\ Strolls
              /\ pending' \in Int /\ completions' \in [Worker -> Nat]
              /\ canExit' \in BOOLEAN /\ session' \in Nat
  BY <1>1, <1>17 DEF Types
<1> HIDE DEF taskVars, makeVars, ctrlVars, Goto
<1> QED
  BY <1>2, <1>3, <1>4, <1>5, <1>6, <1>7, <1>8, <1>9, <1>10, <1>11, <1>12,
     <1>13, <1>14, <1>15, <1>16, <1>17 DEF StrollSteps, MasterWaits

(* Every step is one of those, or one that locks, unlocks or moves a task. *)
LEMMA Steps ==
  ASSUME Next
  PROVE  \/ StrollSteps
         \/ \E a \in Agent, i \in Worker, t \in Tasks : Construct(a, i, t)
         \/ \E a \in Agent : Refill(a) \/ DrawFresh(a) \/ Draw(a)
         \/ \E a \in Agent, q \in Worker : Push(a, q)
         \/ \E w \in Worker, v \in Worker :
              pc[w] \in {"loop", "steal"} /\ TakeFrom(w, v)
         \/ \E w \in Worker : Commit(w) \/ FlushPool(w) \/ EmptyPool(w)
<1>1. ASSUME NEW w \in Worker, Work(w)
      PROVE  \/ StrollSteps
             \/ \E v \in Worker : pc[w] \in {"loop", "steal"} /\ TakeFrom(w, v)
             \/ Commit(w) \/ FlushPool(w) \/ EmptyPool(w)
  <2>1. TakeOwn(w) => pc[w] \in {"loop", "steal"} /\ TakeFrom(w, w)
    BY DEF TakeOwn
  <2>2. \A v \in Worker : Steal(w, v) => pc[w] \in {"loop", "steal"} /\ TakeFrom(w, v)
    BY DEF Steal
  <2> QED
    BY <1>1, <2>1, <2>2 DEF Work, StrollSteps
<1>2. Start \/ CallDrain \/ CallFini \/ MasterWaits \/ WakeSpuriously => StrollSteps
  BY DEF StrollSteps
<1> QED
  BY <1>1, <1>2 DEF Next, Make

(* Every step keeps the invariant. *)
LEMMA InvNext ==
  ASSUME Inv, [Next]_vars
  PROVE  Inv'
<1>1. CASE Next
  <2>1. CASE StrollSteps
    BY <2>1, StrollTypes, StrollInv
  <2>2. ASSUME NEW a \in Agent, DrawFresh(a) PROVE Inv'
    <3>1. PoolSize - 1 \in Nat
      BY PoolAssumption
    <3> QED
      BY <2>2, <3>1, DrawnInv DEF DrawFresh, Inside
  <2>3. ASSUME NEW a \in Agent, Draw(a) PROVE Inv'
    <3>1. pool[index[a]] - 1 \in Nat
      BY <2>3 DEF Draw, Inv, Types
    <3> QED
      BY <2>3, <3>1, DrawnInv DEF Draw, Inside
  <2> QED
    BY <1>1, <2>1, <2>2, <2>3, Steps, ConstructInv, RefillInv, PushInv, TakeInv,
       CommitInv, FlushInv, EmptyInv
<1>2. CASE UNCHANGED vars
  <2>1. Strolls /\ UNCHANGED <<pending, completions, canExit, session>>
    BY <1>2 DEF vars, Strolls, ctrlVars, Inv, Types
  <2> QED
    BY <2>1, StrollInv DEF Inv, Types
<1> QED
  BY <1>1, <1>2

-----------------------------------------------------------------------------
(* The books. *)

(* What is counted are natural numbers. *)
LEMMA CountedTypes ==
  Inv => /\ CountedPool \in [Worker -> Nat]
         /\ CountedCompletions \in [Worker -> Nat]
BY PoolAssumption DEF Inv, Types, CountedPool, CountedCompletions

(* One pool, one completion counter and the tasks change, and pending_tasks
   changes by the sum. *)
LEMMA Balance ==
  ASSUME Inv, Inv', Accounting, NEW i \in Worker, NEW w \in Worker, NEW d \in Int,
         \A j \in Worker : j # i => CountedPool'[j] = CountedPool[j],
         \A j \in Worker : j # w => CountedCompletions'[j] = CountedCompletions[j],
         Cardinality(Outstanding') = Cardinality(Outstanding) + d,
         pending' = pending + d + CountedPool'[i] - CountedPool[i]
                      + CountedCompletions'[w] - CountedCompletions[w]
  PROVE  Accounting'
<1>1. /\ CountedPool \in [Worker -> Nat]
      /\ CountedCompletions \in [Worker -> Nat]
      /\ CountedPool' \in [Worker -> Nat]
      /\ CountedCompletions' \in [Worker -> Nat]
  BY PoolAssumption DEF Inv, Types, CountedPool, CountedCompletions
<1>2. /\ Total(CountedPool) \in Nat
      /\ Total(CountedPool') = Total(CountedPool) - CountedPool[i] + CountedPool'[i]
  BY <1>1, TotalChange
<1>3. /\ Total(CountedCompletions) \in Nat
      /\ Total(CountedCompletions') =
           Total(CountedCompletions) - CountedCompletions[w] + CountedCompletions'[w]
  BY <1>1, TotalChange
<1>4. /\ CountedPool[i] \in Int /\ CountedPool'[i] \in Int
      /\ CountedCompletions[w] \in Int /\ CountedCompletions'[w] \in Int
      /\ Cardinality(Outstanding) \in Int
  BY <1>1, OutstandingFinite
<1> QED
  BY <1>2, <1>3, <1>4 DEF Accounting

(* The tasks that are counted change when a constructor ends or a task is
   committed. *)
LEMMA OneMore ==
  ASSUME Types, NEW t \in Tasks, state[t] # "created",
         state' = [state EXCEPT ![t] = "created"]
  PROVE  Cardinality(Outstanding') = Cardinality(Outstanding) + 1
<1>1. Outstanding' = Outstanding \union {t} /\ t \notin Outstanding
  BY DEF Outstanding, Types
<1> QED
  BY <1>1, OutstandingFinite, FS_AddElement

(* A commit takes one away. *)
LEMMA OneLess ==
  ASSUME Types, NEW t \in Tasks, state[t] = "created",
         state' = [state EXCEPT ![t] = "committed"]
  PROVE  Cardinality(Outstanding') = Cardinality(Outstanding) - 1
<1>1. Outstanding' = Outstanding \ {t} /\ t \in Outstanding
  BY DEF Outstanding, Types
<1> QED
  BY <1>1, OutstandingFinite, FS_RemoveElement

(* A step that changes none of what is counted. *)
LEMMA NothingCounted ==
  ASSUME Inv, Inv', Accounting, pending' = pending,
         Outstanding' = Outstanding,
         \A j \in Worker : /\ CountedPool'[j] = CountedPool[j]
                           /\ CountedCompletions'[j] = CountedCompletions[j]
  PROVE  Accounting'
<1>1. 0 \in Worker
  BY NThreadsAssumption DEF Worker
<1>2. /\ CountedPool[0] \in Nat /\ CountedCompletions[0] \in Nat
      /\ pending \in Int /\ Cardinality(Outstanding) \in Nat
  BY <1>1, CountedTypes, OutstandingFinite DEF Inv, Types
<1>3. /\ Cardinality(Outstanding') = Cardinality(Outstanding) + 0
      /\ pending' = pending + 0 + CountedPool'[0] - CountedPool[0]
                      + CountedCompletions'[0] - CountedCompletions[0]
  BY <1>1, <1>2
<1> QED
  BY <1>1, <1>3, Balance

(* What a pool counts, and how a step of the lock holder changes it. *)
LEMMA PoolCounts ==
  ASSUME Inv, NEW i \in Worker
  PROVE  /\ \A a \in Agent : Inside(a) /\ index[a] = i =>
              CountedPool[i] = IF pc[a] = "refilled" THEN PoolSize ELSE pool[i]
         /\ pc[i] = "flushed" => CountedPool[i] = 0
         /\ wlock[i] = Nobody => CountedPool[i] = pool[i]
<1> USE Agents DEF Inv
<1>1. ASSUME NEW a \in Agent, Inside(a), index[a] = i
      PROVE  CountedPool[i] = IF pc[a] = "refilled" THEN PoolSize ELSE pool[i]
  <2>1. wlock[i] = a
    BY <1>1 DEF LocksHeld, Holds
  <2>2. pc[i] # "flushed"
    <3>1. pc[i] = "flushed" => wlock[i] = i
      BY DEF LocksHeld, Holds
    <3> QED
      BY <1>1, <2>1, <3>1 DEF Inside
  <2>3. pc[a] = "refilled" => pool[i] = 0
    BY <1>1 DEF Constructors
  <2> QED
    BY <2>1, <2>2, <2>3, PoolAssumption DEF CountedPool
<1>2. pc[i] = "flushed" => CountedPool[i] = 0
  BY DEF CountedPool, LocksHeld, Holds
<1>3. wlock[i] = Nobody => CountedPool[i] = pool[i]
  <2>1. pc[i] = "flushed" => wlock[i] = i
    BY DEF LocksHeld, Holds
  <2> QED
    BY <2>1 DEF CountedPool
<1> QED
  BY <1>1, <1>2, <1>3

(* The counted pools of a step that leaves the pools alone and moves no one to
   or from "refilled" or "flushed". *)
LEMMA SamePools ==
  ASSUME Inv, pool' = pool,
         \A j \in Worker :
           wlock'[j] = wlock[j] \/ \A a \in Agent : a = wlock[j] \/ a = wlock'[j] =>
                                     pc'[a] # "refilled" /\ pc[a] # "refilled",
         \A a \in Agent : /\ pc'[a] = "refilled" <=> pc[a] = "refilled"
                          /\ pc'[a] = "flushed" <=> pc[a] = "flushed"
  PROVE  \A j \in Worker : CountedPool'[j] = CountedPool[j]
BY Agents DEF CountedPool

(* Steps that move no task and report nothing keep the books. *)
LEMMA StrollAccounting ==
  ASSUME Inv, Inv', Accounting, Strolls, UNCHANGED <<pending, completions>>,
         \A w \in Worker : pc'[w] = "reported" <=> pc[w] = "reported"
  PROVE  Accounting'
<1> USE Agents DEF Strolls, taskVars, makeVars
<1>1. \A a \in Agent : /\ pc'[a] = "refilled" <=> pc[a] = "refilled"
                       /\ pc'[a] = "flushed" <=> pc[a] = "flushed"
  OBVIOUS
<1>2. \A j \in Worker : CountedPool'[j] = CountedPool[j]
  BY <1>1, SamePools
<1>3. \A j \in Worker : CountedCompletions'[j] = CountedCompletions[j]
  BY DEF CountedCompletions
<1>4. Outstanding' = Outstanding
  BY DEF Outstanding
<1> QED
  BY <1>2, <1>3, <1>4, NothingCounted

(* A task under construction is not counted yet. *)
LEMMA ConstructAccounting ==
  ASSUME Inv, Inv', Accounting,
         NEW a \in Agent, NEW i \in Worker, NEW t \in Tasks, Construct(a, i, t)
  PROVE  Accounting'
<1> USE Agents DEF Inv
<1>1. /\ pc[a] \in {"user", "run"} /\ state[t] = "none" /\ wlock[i] = Nobody
      /\ wlock' = [wlock EXCEPT ![i] = a]
      /\ state' = [state EXCEPT ![t] = "new"]
      /\ pc' = [pc EXCEPT ![a] = "draw"]
      /\ UNCHANGED <<pending, pool, completions>>
  BY DEF Construct, MayConstruct, Goto
<1>2. \A b \in Agent : /\ pc'[b] = "refilled" <=> pc[b] = "refilled"
                       /\ pc'[b] = "flushed" <=> pc[b] = "flushed"
                       /\ pc'[b] = "reported" <=> pc[b] = "reported"
  BY <1>1 DEF Types
<1>3. pc[a] # "refilled" /\ pc'[a] # "refilled"
  BY <1>1 DEF Types
<1>4. \A j \in Worker : wlock'[j] = IF j = i THEN a ELSE wlock[j]
  BY <1>1 DEF Types
<1>5. \A j \in Worker : CountedPool'[j] = CountedPool[j]
  BY <1>1, <1>2, <1>3, <1>4, SamePools
<1>6. \A j \in Worker : CountedCompletions'[j] = CountedCompletions[j]
  BY <1>1, <1>2 DEF CountedCompletions
<1>7. Outstanding' = Outstanding
  BY <1>1 DEF Outstanding, Types
<1> QED
  BY <1>1, <1>5, <1>6, <1>7, NothingCounted

(* Nor does it matter in which queue a task is, or who runs it. *)
LEMMA PushTakeAccounting ==
  ASSUME Inv, Inv', Accounting, NEW a \in Agent, NEW q \in Worker,
         \/ Push(a, q)
         \/ a \in Worker /\ pc[a] \in {"loop", "steal"} /\ TakeFrom(a, q)
  PROVE  Accounting'
<1>1. UNCHANGED <<pending, pool, completions, wlock, state>>
  BY DEF Push, TakeFrom
<1>2. \A b \in Agent : /\ pc'[b] = "refilled" <=> pc[b] = "refilled"
                       /\ pc'[b] = "flushed" <=> pc[b] = "flushed"
                       /\ pc'[b] = "reported" <=> pc[b] = "reported"
  BY DEF Push, TakeFrom, Goto, Inv, Types
<1>3. \A j \in Worker : CountedPool'[j] = CountedPool[j]
  BY <1>1, <1>2, SamePools
<1>4. \A j \in Worker : CountedCompletions'[j] = CountedCompletions[j]
  BY <1>1, <1>2, Agents DEF CountedCompletions
<1>5. Outstanding' = Outstanding
  BY <1>1 DEF Outstanding
<1> QED
  BY <1>1, <1>3, <1>4, <1>5, NothingCounted

(* a refill: one pool and the counter grow by PoolSize *)
LEMMA RefillAccounting ==
  ASSUME Inv, Inv', Accounting, NEW a \in Agent, Refill(a)
  PROVE  Accounting'
<1> USE Agents DEF Inv
<1> DEFINE i == index[a]
<1>1. /\ pc[a] = "draw" /\ pool[index[a]] = 0
      /\ pending' = pending + PoolSize
      /\ pc' = [pc EXCEPT ![a] = "refilled"]
      /\ UNCHANGED <<pool, completions, wlock, ready, state, job, made, index>>
  BY DEF Refill, Goto, taskVars, makeVars
<1>2. i \in Worker /\ \A j \in Worker : wlock[j] = a <=> j = i
  BY <1>1 DEF Types, LocksHeld, Holds, Inside
<1>3. /\ pc'[a] = "refilled"
      /\ \A b \in Agent : b # a => pc'[b] = pc[b]
  BY <1>1 DEF Types
<1>4. CountedPool[i] = 0
  BY <1>1, <1>2, PoolCounts DEF Inside
<1>5. CountedPool'[i] = PoolSize
  BY <1>1, <1>2, <1>3, PoolAssumption DEF CountedPool
<1>6. \A j \in Worker : j # i => CountedPool'[j] = CountedPool[j]
  <2> SUFFICES ASSUME NEW j \in Worker, j # i PROVE CountedPool'[j] = CountedPool[j]
    OBVIOUS
  <2>1. wlock[j] # a /\ wlock'[j] = wlock[j] /\ pool'[j] = pool[j]
    BY <1>1, <1>2
  <2>2. pc'[j] = "flushed" <=> pc[j] = "flushed"
    BY <1>1, <1>3
  <2> QED
    BY <1>3, <2>1, <2>2 DEF CountedPool
<1>7. \A j \in Worker : CountedCompletions'[j] = CountedCompletions[j]
  BY <1>1, <1>3 DEF CountedCompletions
<1>8. Outstanding' = Outstanding
  BY <1>1 DEF Outstanding
<1>9. /\ CountedCompletions[i] \in Nat /\ pending \in Int /\ PoolSize \in Int
      /\ Cardinality(Outstanding) \in Int
  BY <1>2, CountedTypes, OutstandingFinite, PoolAssumption DEF Types
<1>10. /\ Cardinality(Outstanding') = Cardinality(Outstanding) + 0
       /\ pending' = pending + 0 + CountedPool'[i] - CountedPool[i]
                       + CountedCompletions'[i] - CountedCompletions[i]
  BY <1>1, <1>2, <1>4, <1>5, <1>7, <1>8, <1>9
<1> HIDE DEF i
<1> QED
  BY <1>2, <1>6, <1>7, <1>10, Balance

(* the end of a constructor: one pool loses what Outstanding gains *)
LEMMA DrawnAccounting ==
  ASSUME Inv, Inv', Accounting, NEW a \in Agent, Inside(a), NEW left \in Nat,
         Drawn(a, left), CountedPool[index[a]] = left + 1
  PROVE  Accounting'
<1> USE Agents DEF Inv
<1> DEFINE i == index[a]
<1>1. /\ pool' = [pool EXCEPT ![index[a]] = left]
      /\ state' = [state EXCEPT ![made[a]] = "created"]
      /\ wlock' = [wlock EXCEPT ![index[a]] = Nobody]
      /\ pc' = [pc EXCEPT ![a] = Resume(a)]
      /\ UNCHANGED <<pending, completions>>
  BY DEF Drawn, Goto
<1>2. /\ i \in Worker /\ \A j \in Worker : wlock[j] = a <=> j = i
      /\ made[a] \in Tasks /\ state[made[a]] = "new"
  BY DEF Types, Constructors, LocksHeld, Holds, Inside
<1>3. pc'[a] \in {"user", "run"} /\ \A b \in Agent : b # a => pc'[b] = pc[b]
  BY <1>1 DEF Types, Resume
<1>4. CountedPool'[i] = left
  <2>1. wlock'[i] = Nobody /\ pool'[i] = left
    BY <1>1, <1>2 DEF Types
  <2>2. pc'[i] # "flushed"
    <3>1. pc[i] = "flushed" => wlock[i] = i
      BY <1>2 DEF LocksHeld, Holds
    <3> QED
      BY <1>2, <1>3, <3>1 DEF Inside
  <2> QED
    BY <1>2, <2>1, <2>2 DEF CountedPool
<1>5. \A j \in Worker : j # i => CountedPool'[j] = CountedPool[j]
  <2> SUFFICES ASSUME NEW j \in Worker, j # i PROVE CountedPool'[j] = CountedPool[j]
    OBVIOUS
  <2>1. wlock[j] # a /\ wlock'[j] = wlock[j] /\ pool'[j] = pool[j]
    BY <1>1, <1>2 DEF Types
  <2>2. pc'[j] = "flushed" <=> pc[j] = "flushed"
    BY <1>3 DEF Inside
  <2> QED
    BY <1>3, <2>1, <2>2 DEF CountedPool
<1>6. \A j \in Worker : CountedCompletions'[j] = CountedCompletions[j]
  BY <1>1, <1>3 DEF CountedCompletions, Inside
<1>7. Cardinality(Outstanding') = Cardinality(Outstanding) + 1
  BY <1>1, <1>2, OneMore
<1>8. CountedCompletions[i] \in Nat /\ pending \in Int
  BY <1>2, CountedTypes DEF Types
<1>9. pending' = pending + 1 + CountedPool'[i] - CountedPool[i]
                    + CountedCompletions'[i] - CountedCompletions[i]
  BY <1>1, <1>2, <1>4, <1>6, <1>8
<1> HIDE DEF i
<1> QED
  BY <1>2, <1>5, <1>6, <1>7, <1>9, Balance

(* a commit: one counter of completions gains what Outstanding loses *)
LEMMA CommitAccounting ==
  ASSUME Inv, Inv', Accounting, NEW w \in Worker, Commit(w)
  PROVE  Accounting'
<1> USE Agents, TasksAssumption DEF Inv
<1>1. /\ pc[w] = "run"
      /\ state' = [state EXCEPT ![job[w]] = "committed"]
      /\ completions' = [completions EXCEPT ![w] = @ + 1]
      /\ pc' = [pc EXCEPT ![w] = "loop"]
      /\ UNCHANGED <<pending, pool, wlock>>
  BY DEF Commit, Goto
<1>2. job[w] \in Tasks /\ state[job[w]] = "created"
  BY <1>1 DEF Types, Running
<1>3. pc'[w] = "loop" /\ \A b \in Agent : b # w => pc'[b] = pc[b]
  BY <1>1 DEF Types
<1>4. \A j \in Worker : CountedPool'[j] = CountedPool[j]
  BY <1>1, <1>3, SamePools
<1>5. /\ CountedCompletions[w] = completions[w] /\ completions[w] \in Nat
      /\ CountedCompletions'[w] = completions[w] + 1
      /\ \A j \in Worker : j # w => CountedCompletions'[j] = CountedCompletions[j]
  BY <1>1, <1>3 DEF CountedCompletions, Types
<1>6. Cardinality(Outstanding') = Cardinality(Outstanding) - 1
  BY <1>2, <1>1, OneLess
<1>7. CountedPool[w] \in Nat /\ pending \in Int /\ Cardinality(Outstanding) \in Nat
  BY CountedTypes, OutstandingFinite DEF Types
<1>8. /\ Cardinality(Outstanding') = Cardinality(Outstanding) + (-1)
      /\ pending' = pending + (-1) + CountedPool'[w] - CountedPool[w]
                       + CountedCompletions'[w] - CountedCompletions[w]
  BY <1>1, <1>4, <1>5, <1>6, <1>7
<1>9. -1 \in Int
  OBVIOUS
<1> QED
  BY <1>4, <1>5, <1>8, <1>9, Balance

(* a report: one counter of completions is taken off pending_tasks *)
LEMMA ReportAccounting ==
  ASSUME Inv, Inv', Accounting, NEW w \in Worker, ReportCompletions(w)
  PROVE  Accounting'
<1> USE Agents DEF Inv
<1>1. /\ pc[w] = "report"
      /\ pending' = pending - completions[w]
      /\ pc' = [pc EXCEPT ![w] = "reported"]
      /\ UNCHANGED <<pool, completions, wlock, state>>
  BY DEF ReportCompletions, Goto, taskVars
<1>2. pc'[w] = "reported" /\ \A b \in Agent : b # w => pc'[b] = pc[b]
  BY <1>1 DEF Types
<1>3. \A j \in Worker : CountedPool'[j] = CountedPool[j]
  BY <1>1, <1>2, SamePools
<1>4. /\ CountedCompletions[w] = completions[w] /\ completions[w] \in Nat
      /\ CountedCompletions'[w] = 0
      /\ \A j \in Worker : j # w => CountedCompletions'[j] = CountedCompletions[j]
  BY <1>1, <1>2 DEF CountedCompletions, Types
<1>5. Outstanding' = Outstanding
  BY <1>1 DEF Outstanding
<1>6. CountedPool[w] \in Nat /\ pending \in Int /\ Cardinality(Outstanding) \in Nat
  BY CountedTypes, OutstandingFinite DEF Types
<1>7. /\ Cardinality(Outstanding') = Cardinality(Outstanding) + 0
      /\ pending' = pending + 0 + CountedPool'[w] - CountedPool[w]
                       + CountedCompletions'[w] - CountedCompletions[w]
  BY <1>1, <1>3, <1>4, <1>5, <1>6
<1> QED
  BY <1>3, <1>4, <1>7, Balance

(* The completions just reported count no more. *)
LEMMA ResetAccounting ==
  ASSUME Inv, Inv', Accounting, NEW w \in Worker, ResetCompletions(w)
  PROVE  Accounting'
<1> USE Agents DEF Inv
<1>1. /\ pc[w] = "reported"
      /\ completions' = [completions EXCEPT ![w] = 0]
      /\ pc' = [pc EXCEPT ![w] = "flush"]
      /\ UNCHANGED <<pending, pool, wlock, state>>
  BY DEF ResetCompletions, Goto, taskVars
<1>2. pc'[w] = "flush" /\ \A b \in Agent : b # w => pc'[b] = pc[b]
  BY <1>1 DEF Types
<1>3. \A j \in Worker : CountedPool'[j] = CountedPool[j]
  BY <1>1, <1>2, SamePools
<1>4. \A j \in Worker : CountedCompletions'[j] = CountedCompletions[j]
  BY <1>1, <1>2 DEF CountedCompletions, Types
<1>5. Outstanding' = Outstanding
  BY <1>1 DEF Outstanding
<1> QED
  BY <1>1, <1>3, <1>4, <1>5, NothingCounted

(* a flush: one pool is taken off pending_tasks, and emptied later *)
LEMMA FlushAccounting ==
  ASSUME Inv, Inv', Accounting, NEW w \in Worker, FlushPool(w)
  PROVE  Accounting'
<1> USE Agents DEF Inv
<1>1. /\ pc[w] = "flush" /\ wlock[w] = Nobody
      /\ UNCHANGED <<pool, completions, ready, state, job, made, index>>
  BY DEF FlushPool, taskVars, makeVars
<1>2. CASE pool[w] > 0
  <2>1. /\ pending' = pending - pool[w]
        /\ wlock' = [wlock EXCEPT ![w] = w]
        /\ pc' = [pc EXCEPT ![w] = "flushed"]
    BY <1>2 DEF FlushPool, Goto
  <2>2. pc'[w] = "flushed" /\ \A b \in Agent : b # w => pc'[b] = pc[b]
    BY <2>1 DEF Types
  <2>3. CountedPool[w] = pool[w] /\ pool[w] \in Nat
    BY <1>1, PoolCounts DEF Types
  <2>4. CountedPool'[w] = 0
    BY <2>1, <2>2 DEF CountedPool, Types
  <2>5. \A j \in Worker : j # w => CountedPool'[j] = CountedPool[j]
    <3> SUFFICES ASSUME NEW j \in Worker, j # w PROVE CountedPool'[j] = CountedPool[j]
      OBVIOUS
    <3>1. wlock'[j] = wlock[j] /\ pool'[j] = pool[j] /\ pc'[j] = pc[j]
      BY <1>1, <2>1, <2>2 DEF Types
    <3>2. \A b \in Agent : pc'[b] = "refilled" <=> pc[b] = "refilled"
      BY <1>1, <2>2
    <3> QED
      BY <3>1, <3>2 DEF CountedPool
  <2>6. \A j \in Worker : CountedCompletions'[j] = CountedCompletions[j]
    BY <1>1, <2>2 DEF CountedCompletions
  <2>7. Outstanding' = Outstanding
    BY <1>1 DEF Outstanding
  <2>8. /\ CountedCompletions[w] \in Nat /\ pending \in Int
        /\ Cardinality(Outstanding) \in Nat
    BY CountedTypes, OutstandingFinite DEF Types
  <2>9. /\ Cardinality(Outstanding') = Cardinality(Outstanding) + 0
        /\ pending' = pending + 0 + CountedPool'[w] - CountedPool[w]
                         + CountedCompletions'[w] - CountedCompletions[w]
    BY <2>1, <2>3, <2>4, <2>6, <2>7, <2>8
  <2> QED
    BY <2>5, <2>6, <2>9, Balance
<1>3. CASE ~ pool[w] > 0
  <2>1. pc' = [pc EXCEPT ![w] = "notify"] /\ UNCHANGED <<pending, wlock>>
    BY <1>3 DEF FlushPool, Goto
  <2>2. Strolls
    BY <1>1, <2>1 DEF Strolls, Types, Label, taskVars, makeVars
  <2>3. \A v \in Worker : pc'[v] = "reported" <=> pc[v] = "reported"
    BY <1>1, <2>1 DEF Types
  <2> QED
    BY <1>1, <2>1, <2>2, <2>3, StrollAccounting
<1> QED
  BY <1>2, <1>3

(* The pool just given back counts no more. *)
LEMMA EmptyAccounting ==
  ASSUME Inv, Inv', Accounting, NEW w \in Worker, EmptyPool(w)
  PROVE  Accounting'
<1> USE Agents DEF Inv
<1>1. /\ pc[w] = "flushed"
      /\ pool' = [pool EXCEPT ![w] = 0]
      /\ wlock' = [wlock EXCEPT ![w] = Nobody]
      /\ pc' = [pc EXCEPT ![w] = "notify"]
      /\ UNCHANGED <<pending, completions, state>>
  BY DEF EmptyPool, Goto, taskVars
<1>2. pc'[w] = "notify" /\ \A b \in Agent : b # w => pc'[b] = pc[b]
  BY <1>1 DEF Types
<1>3. \A j \in Worker : CountedPool'[j] = CountedPool[j]
  <2>1. CountedPool[w] = 0
    BY <1>1, PoolCounts
  <2>2. CountedPool'[w] = 0
    BY <1>1, <1>2 DEF CountedPool, Types
  <2>3. ASSUME NEW j \in Worker, j # w PROVE CountedPool'[j] = CountedPool[j]
    <3>1. wlock'[j] = wlock[j] /\ pool'[j] = pool[j] /\ pc'[j] = pc[j]
      BY <1>1, <1>2, <2>3 DEF Types
    <3>2. \A b \in Agent : pc'[b] = "refilled" <=> pc[b] = "refilled"
      BY <1>1, <1>2
    <3> QED
      BY <3>1, <3>2 DEF CountedPool
  <2> QED
    BY <2>1, <2>2, <2>3
<1>4. \A j \in Worker : CountedCompletions'[j] = CountedCompletions[j]
  BY <1>1, <1>2 DEF CountedCompletions
<1>5. Outstanding' = Outstanding
  BY <1>1 DEF Outstanding
<1> QED
  BY <1>1, <1>3, <1>4, <1>5, NothingCounted

(* All the other steps of a worker and of the API keep the books. *)
LEMMA StrollStepsAccounting ==
  ASSUME Inv, Inv', Accounting, StrollSteps
  PROVE  Accounting'
<1> USE Agents DEF Goto, ctrlVars
<1>1. Strolls /\ Types
  BY StrollTypes DEF Inv
<1>2. ASSUME NEW w \in Worker,
             FindNoReady(w) \/ GoIdle(w) \/ Notify(w) \/ TestExit(w)
      PROVE  /\ UNCHANGED <<pending, completions>>
             /\ \A v \in Worker : pc'[v] = "reported" <=> pc[v] = "reported"
  <2>1. CASE FindNoReady(w)
    BY <1>1, <2>1 DEF FindNoReady, Types
  <2>2. CASE GoIdle(w)
    BY <1>1, <2>2 DEF GoIdle, Types
  <2>3. CASE Notify(w)
    BY <1>1, <2>3 DEF Notify, Types
  <2>4. CASE TestExit(w)
    BY <1>1, <2>4 DEF TestExit, Types
  <2> QED
    BY <1>2, <2>1, <2>2, <2>3, <2>4
<1>3. ASSUME Start \/ CallDrain \/ CallFini \/ MasterWaits \/ WakeSpuriously
      PROVE  /\ UNCHANGED <<pending, completions>>
             /\ \A v \in Worker : pc'[v] = "reported" <=> pc[v] = "reported"
  <2>1. CASE Start
    BY <1>1, <2>1 DEF Start, Types
  <2>2. CASE CallDrain \/ CallFini \/ WakeSpuriously
    BY <1>1, <2>2 DEF CallDrain, CallFini, WakeSpuriously, Types
  <2>3. CASE TestDrained \/ FallAsleep \/ ReturnFromDrain
    BY <1>1, <2>3 DEF TestDrained, FallAsleep, ReturnFromDrain, Types
  <2>4. CASE Join
    BY <1>1, <2>4 DEF Join, Types
  <2> QED
    BY <1>3, <2>1, <2>2, <2>3, <2>4 DEF MasterWaits
<1> HIDE DEF Goto, ctrlVars
<1>4. CASE \E w \in Worker : ReportCompletions(w) \/ ResetCompletions(w)
  BY <1>4, ReportAccounting, ResetAccounting
<1> QED
  BY <1>1, <1>2, <1>3, <1>4, StrollAccounting DEF StrollSteps

(* At first nothing is counted. *)
LEMMA AccountingInit == Init => Accounting
<1> SUFFICES ASSUME Init PROVE Accounting
  OBVIOUS
<1>1. Inv
  BY InvInit
<1>2. Outstanding = {}
  BY DEF Init, Outstanding
<1>3. /\ \A w \in Worker : CountedPool[w] = 0
      /\ \A w \in Worker : CountedCompletions[w] = 0
  <2>1. \A w \in Worker : pc[w] \in {"user", "off"} /\ wlock[w] = Nobody
    BY Agents DEF Init
  <2> QED
    BY <2>1, Agents DEF Init, CountedPool, CountedCompletions
<1>4. ASSUME NEW f \in [Worker -> Nat], \A w \in Worker : f[w] = 0 PROVE Total(f) = 0
  <2>1. Units(f) = {}
    BY <1>4 DEF Units
  <2> QED
    BY <2>1, FS_EmptySet DEF Total
<1>5. Total(CountedPool) = 0 /\ Total(CountedCompletions) = 0
  BY <1>1, <1>3, <1>4, CountedTypes
<1>6. pending = 0
  BY DEF Init
<1> QED
  BY <1>2, <1>5, <1>6, FS_EmptySet DEF Accounting

(* Every step keeps the invariant and the books. *)
LEMMA IInvNext ==
  ASSUME IInv, [Next]_vars
  PROVE  IInv'
<1> USE DEF IInv
<1>1. Inv'
  BY InvNext
<1>2. CASE Next
  <2>1. CASE StrollSteps
    BY <1>1, <2>1, StrollStepsAccounting
  <2>2. ASSUME NEW a \in Agent, DrawFresh(a) PROVE Accounting'
    <3>1. Inside(a) /\ index[a] \in Worker /\ pc[a] = "refilled"
      BY <2>2 DEF DrawFresh, Inside, Inv, Types
    <3>2. CountedPool[index[a]] = PoolSize
      BY <3>1, PoolCounts
    <3>3. PoolSize - 1 \in Nat /\ PoolSize = (PoolSize - 1) + 1
      BY PoolAssumption
    <3> QED
      BY <1>1, <2>2, <3>1, <3>2, <3>3, DrawnAccounting DEF DrawFresh
  <2>3. ASSUME NEW a \in Agent, Draw(a) PROVE Accounting'
    <3>1. Inside(a) /\ index[a] \in Worker /\ pc[a] = "draw"
      BY <2>3 DEF Draw, Inside, Inv, Types
    <3>2. CountedPool[index[a]] = pool[index[a]]
      BY <3>1, PoolCounts
    <3>3. pool[index[a]] \in Nat /\ pool[index[a]] > 0
      BY <2>3, <3>1 DEF Draw, Inv, Types
    <3>4. pool[index[a]] - 1 \in Nat /\ pool[index[a]] = (pool[index[a]] - 1) + 1
      BY <3>3
    <3> QED
      BY <1>1, <2>3, <3>1, <3>2, <3>4, DrawnAccounting DEF Draw
  <2>4. ASSUME NEW w \in Worker, NEW v \in Worker,
               pc[w] \in {"loop", "steal"}, TakeFrom(w, v)
        PROVE  Accounting'
    BY <1>1, <2>4, Agents, PushTakeAccounting
  <2> QED
    BY <1>1, <1>2, <2>1, <2>2, <2>3, <2>4, Steps, ConstructAccounting,
       RefillAccounting, PushTakeAccounting, CommitAccounting, FlushAccounting,
       EmptyAccounting
<1>3. CASE UNCHANGED vars
  <2>1. UNCHANGED <<pending, pool, completions, wlock, state, pc>>
    BY <1>3 DEF vars, taskVars
  <2>2. /\ CountedPool' = CountedPool /\ CountedCompletions' = CountedCompletions
        /\ Outstanding' = Outstanding
    BY <2>1 DEF CountedPool, CountedCompletions, Outstanding
  <2> QED
    BY <1>1, <2>1, <2>2, NothingCounted
<1> QED
  BY <1>1, <1>2, <1>3

(* The inductive invariant. *)
LEMMA IInvHolds == Spec => []IInv
<1>1. Init => IInv
  BY InvInit, AccountingInit DEF IInv
<1>2. IInv /\ [Next]_vars => IInv'
  BY IInvNext
<1> QED
  BY <1>1, <1>2, PTL DEF Spec

(* pending_tasks counts what it should, in the middle of a refill, a report or
   a flush too. *)
THEOREM CounterIsExact == Spec => []Accounting
<1>1. IInv => Accounting
  BY DEF IInv
<1> QED
  BY <1>1, IInvHolds, PTL

(* Numbers of things add up to zero only when there are none. *)
LEMMA ZeroMeansDone == IInv => QuiescentIsDone
<1> SUFFICES ASSUME IInv, pending <= 0 PROVE Outstanding = {}
  BY DEF QuiescentIsDone
<1>1. 0 \in Worker
  BY NThreadsAssumption DEF Worker
<1>2. Total(CountedPool) \in Nat /\ Total(CountedCompletions) \in Nat
  BY <1>1, CountedTypes, TotalChange DEF IInv
<1>3. Cardinality(Outstanding) = 0
  BY <1>2, OutstandingFinite DEF IInv, Inv, Types, Accounting
<1> QED
  BY <1>3, OutstandingFinite, FS_EmptySet

(* When the counter reads zero, or less, every created task is committed:
   xitao_drain cannot return too early. *)
THEOREM ZeroIsQuiescent == Spec => []QuiescentIsDone
BY ZeroMeansDone, IInvHolds, PTL

-----------------------------------------------------------------------------
(* The exit of the workers, when the program starts them once.              *)

(* xitao_fini comes after xitao_start and is the end; a worker leaves only
   after it, and when there is nothing left. *)
ExitInv ==
  /\ (\E w \in Worker : pc[w] # "off") => session = 1
  /\ canExit => pc[Master] \in {"join", "done"} /\ session = 1
  /\ pc[Master] \in {"join", "done"} => canExit
  /\ (\E w \in Active : pc[w] = "exited") => canExit
  /\ ExitSound

(* what most steps leave as it is *)
Stays ==
  /\ UNCHANGED ctrlVars
  /\ \A w \in Worker : pc[w] = "off" => pc'[w] = "off"
  /\ pc'[Master] \in {"join", "done"} <=> pc[Master] \in {"join", "done"}
  /\ \A w \in Active : pc'[w] = "exited" => pc[w] = "exited"

(* A step that lets no worker exit and creates no task keeps the invariant. *)
LEMMA StaysExit ==
  ASSUME ExitInv, Stays, Outstanding' \subseteq Outstanding
  PROVE  ExitInv'
BY DEF ExitInv, Stays, ctrlVars, ExitSound

(* Every step keeps it: a task can only be created by a running one. *)
LEMMA ExitNext ==
  ASSUME Sessions = 1, IInv, IInv', ExitInv, Next
  PROVE  ExitInv'
<1> USE Agents, ActiveAssumption
<1>1. Inv /\ Types
  BY DEF IInv, Inv
<1>2. \A w \in Active : w \in Worker /\ w # Master
  OBVIOUS
<1>3. ASSUME NEW a \in Agent, NEW i \in Worker, NEW t \in Tasks, Construct(a, i, t)
      PROVE  ExitInv'
  <2>1. Stays
    BY <1>1, <1>3 DEF Construct, MayConstruct, Goto, Stays, Types
  <2>2. Outstanding' \subseteq Outstanding
    BY <1>1, <1>3 DEF Construct, Outstanding, Types
  <2> QED
    BY <2>1, <2>2, StaysExit
<1>4. ASSUME NEW a \in Agent, Refill(a) PROVE ExitInv'
  <2>1. Stays
    BY <1>1, <1>4 DEF Refill, Goto, Stays, Types
  <2>2. Outstanding' = Outstanding
    BY <1>4 DEF Refill, Outstanding, taskVars
  <2> QED
    BY <2>1, <2>2, StaysExit
<1>5. ASSUME NEW a \in Agent, DrawFresh(a) \/ Draw(a) PROVE ExitInv'
  <2>1. /\ Inside(a) /\ pc' = [pc EXCEPT ![a] = Resume(a)]
        /\ UNCHANGED ctrlVars
    BY <1>5 DEF DrawFresh, Draw, Drawn, Goto, Inside
  <2>2. Stays
    BY <1>1, <2>1 DEF Resume, Stays, Types, Inside
  <2>3. ~ \E w \in Active : pc[w] = "exited"
    <3> SUFFICES ASSUME NEW w \in Active, pc[w] = "exited" PROVE FALSE
      OBVIOUS
    <3>1. canExit /\ Outstanding = {} /\ pc[Master] \in {"join", "done"}
      BY DEF ExitInv, ExitSound
    <3>2. a \in Worker
      BY <2>1, <3>1 DEF Inside
    <3>3. job[a] \in Tasks /\ state[job[a]] = "created"
      BY <1>1, <2>1, <3>2 DEF Inv, Running, Types
    <3> QED
      BY <3>1, <3>3 DEF Outstanding
  <2> QED
    BY <2>2, <2>3 DEF ExitInv, Stays, ctrlVars, ExitSound
<1>6. ASSUME NEW a \in Agent, NEW q \in Worker, Push(a, q) PROVE ExitInv'
  <2>1. Stays /\ Outstanding' = Outstanding
    BY <1>6 DEF Push, Stays, Outstanding
  <2> QED
    BY <2>1, StaysExit
<1>7. ASSUME NEW w \in Worker, NEW v \in Worker,
             pc[w] \in {"loop", "steal"}, TakeFrom(w, v)
      PROVE  ExitInv'
  <2>1. Stays
    BY <1>1, <1>7 DEF TakeFrom, Goto, Stays, Types
  <2>2. Outstanding' = Outstanding
    BY <1>7 DEF TakeFrom, Outstanding
  <2> QED
    BY <2>1, <2>2, StaysExit
<1>8. ASSUME NEW w \in Worker, Commit(w) PROVE ExitInv'
  <2>1. Stays
    BY <1>1, <1>8 DEF Commit, Goto, Stays, Types
  <2>2. Outstanding' \subseteq Outstanding
    BY <1>1, <1>8 DEF Commit, Outstanding, Types
  <2> QED
    BY <2>1, <2>2, StaysExit
<1>9. ASSUME NEW w \in Worker,
             FlushPool(w) \/ EmptyPool(w) \/ FindNoReady(w) \/ GoIdle(w)
               \/ ReportCompletions(w) \/ ResetCompletions(w) \/ Notify(w)
      PROVE  ExitInv'
  <2>1. UNCHANGED <<ctrlVars, state>>
    BY <1>9 DEF FlushPool, EmptyPool, FindNoReady, GoIdle, ReportCompletions,
       ResetCompletions, Notify, taskVars
  <2>2. CASE Notify(w)
    <3>1. Stays
      BY <1>1, <2>1, <2>2 DEF Notify, Stays, Types
    <3> QED
      BY <2>1, <3>1, StaysExit DEF Outstanding
  <2>3. CASE ~ Notify(w)
    <3>1. /\ pc[w] \notin {"off", "exited"}
          /\ \E l \in Label \ {"off", "exited"} : pc' = [pc EXCEPT ![w] = l]
      BY <1>9, <2>3 DEF FlushPool, EmptyPool, FindNoReady, GoIdle,
         ReportCompletions, ResetCompletions, Goto, Label
    <3>2. Stays
      BY <1>1, <2>1, <3>1 DEF Stays, Types
    <3> QED
      BY <2>1, <3>2, StaysExit DEF Outstanding
  <2> QED
    BY <2>2, <2>3
<1>10. ASSUME NEW w \in Worker, TestExit(w) PROVE ExitInv'
  <2>1. /\ pc[w] = "exit" /\ UNCHANGED <<ctrlVars, state>>
        /\ pc' = [pc EXCEPT ![w] = IF canExit /\ pending = 0 THEN "exited" ELSE "loop"]
    BY <1>10 DEF TestExit, Goto, taskVars
  <2>2. CASE canExit /\ pending = 0
    <3>1. Outstanding = {} /\ Outstanding' = {}
      BY <2>1, <2>2, ZeroMeansDone DEF QuiescentIsDone, Outstanding
    <3>2. /\ pc'[Master] = pc[Master]
          /\ \A v \in Worker : pc[v] = "off" => pc'[v] = "off"
      BY <1>1, <2>1 DEF Types
    <3> QED
      BY <2>1, <2>2, <3>1, <3>2 DEF ExitInv, ctrlVars, ExitSound
  <2>3. CASE ~ (canExit /\ pending = 0)
    <3>1. Stays
      BY <1>1, <2>1, <2>3 DEF Stays, Types
    <3> QED
      BY <2>1, <3>1, StaysExit DEF Outstanding
  <2> QED
    BY <2>2, <2>3
<1>11. CASE Start
  <2>1. /\ pc[Master] = "user" /\ session < 1 /\ session' = session + 1
        /\ pc' = [a \in Agent |-> IF a = Master THEN "user"
                                  ELSE IF a \in Active THEN "loop" ELSE "exited"]
        /\ UNCHANGED canExit
    BY <1>11 DEF Start
  <2>2. session' = 1
    BY <1>1, <2>1 DEF Types
  <2>3. pc'[Master] = "user" /\ \A w \in Active : pc'[w] = "loop"
    BY <1>2, <2>1
  <2>4. ~ canExit
    BY <2>1 DEF ExitInv
  <2> QED
    BY <2>1, <2>2, <2>3, <2>4 DEF ExitInv, ExitSound
<1>12. CASE CallDrain \/ TestDrained \/ FallAsleep \/ ReturnFromDrain \/ WakeSpuriously
  <2>1. /\ UNCHANGED <<ctrlVars, state>>
        /\ pc[Master] \notin {"join", "done"}
        /\ \E l \in Label \ {"join", "done"} : pc' = [pc EXCEPT ![Master] = l]
    BY <1>12 DEF CallDrain, TestDrained, FallAsleep, ReturnFromDrain,
       WakeSpuriously, Goto, Label, taskVars
  <2>2. Stays
    BY <1>1, <2>1 DEF Stays, Types
  <2> QED
    BY <2>1, <2>2, StaysExit DEF Outstanding
<1>13. CASE CallFini
  <2>1. /\ canExit' /\ Started /\ UNCHANGED <<session, state>>
        /\ pc' = [pc EXCEPT ![Master] = "join"]
    BY <1>13 DEF CallFini, Goto, taskVars
  <2>2. pc'[Master] = "join" /\ \A w \in Worker : pc'[w] = pc[w]
    BY <1>1, <2>1 DEF Types
  <2>3. session = 1
    BY <2>1 DEF Started, ExitInv
  <2>4. Outstanding' = Outstanding
    BY <2>1 DEF Outstanding
  <2> QED
    BY <1>2, <2>1, <2>2, <2>3, <2>4 DEF ExitInv, ExitSound
<1>14. CASE Join
  <2>1. /\ pc[Master] = "join" /\ UNCHANGED ctrlVars
        /\ pc' = [a \in Agent |-> IF a = Master
                                   THEN IF session < 1 THEN "user" ELSE "done"
                                   ELSE "off"]
    BY <1>14 DEF Join
  <2>2. canExit /\ session = 1
    BY <2>1 DEF ExitInv
  <2>3. pc'[Master] = "done" /\ \A w \in Worker : pc'[w] = "off"
    BY <2>1, <2>2
  <2> QED
    BY <1>2, <2>1, <2>2, <2>3 DEF ExitInv, ctrlVars, ExitSound
<1> QED
  BY <1>3, <1>4, <1>5, <1>6, <1>7, <1>8, <1>9, <1>10, <1>11, <1>12, <1>13, <1>14,
     Steps DEF StrollSteps, MasterWaits

(* No worker leaves worker_loop while a task is still to be executed, in a
   program that starts the workers once. *)
THEOREM ExitIsSound ==
  ASSUME Sessions = 1
  PROVE  Spec => []ExitSound
<1>1. Init => ExitInv
  BY Agents, ActiveAssumption DEF Init, ExitInv, ExitSound
<1>2. IInv /\ IInv' /\ ExitInv /\ [Next]_vars => ExitInv'
  <2>1. CASE Next
    BY <2>1, ExitNext
  <2>2. CASE UNCHANGED vars
    BY <2>2 DEF vars, taskVars, ctrlVars, ExitInv, ExitSound, Outstanding
  <2> QED
    BY <2>1, <2>2
<1>3. ExitInv => ExitSound
  BY DEF ExitInv
<1> QED
  BY <1>1, <1>2, <1>3, IInvHolds, PTL DEF Spec

=============================================================================
