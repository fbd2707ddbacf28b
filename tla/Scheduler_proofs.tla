-------------------------- MODULE Scheduler_proofs --------------------------
(***************************************************************************)
(* Proofs that the workers execute the task graph: refcounts are exact, a   *)
(* task begins when its predecessors have ended, and every step of the      *)
(* scheduler is a step of DagExecution or leaves it alone.  For any graph,  *)
(* any number of workers, any places, affinities and victims.               *)
(*                                                                          *)
(* The inductive invariant gives every task one place at a time on its way: *)
(* it waits for predecessors, is with the program, at one position of one   *)
(* ready queue, in the hands of one worker, a gift one commit is about to   *)
(* make, or launched (OnePlace).  That is why the place of an assembly does *)
(* not change while it runs, and no two workers commit the same task.  Kept *)
(* adds that it always is at some place, and that every member of a gang   *)
(* has one share of it: so nothing is lost or duplicated.                   *)
(***************************************************************************)
EXTENDS Scheduler, TLAPS, FiniteSetTheorems, SequenceTheorems, FunctionTheorems

(* the places of the code *)
Label == {"off", "loop", "ready", "steal", "have", "simple", "spin", "execute",
          "wake", "give"}

(* w is inside commit_and_wakeup *)
Committing(w) == pc[w] \in {"wake", "give"}

(* Types, with places not chosen yet. *)
Types ==
  /\ unpushed \subseteq Tasks
  /\ refcount \in [Tasks -> Int]
  /\ readyQ \in [Worker -> Seq(Tasks)]
  /\ assemblyQ \in [Worker -> Seq(Tasks)]
  /\ place \in [Tasks -> [leader : Nat, width : Nat]]
  /\ st \in [Worker -> Tasks \union {NoTask}]
  /\ pc \in [Worker -> Label]
  /\ todo \in [Worker -> SUBSET Tasks]
  /\ gift \in [Worker -> Tasks \union {NoTask}]
  /\ threadsIn \in [Tasks -> Nat]
  /\ threadsOut \in [Tasks -> Nat]
  /\ ran \in [Tasks -> Seq(Worker)]
  /\ begun \subseteq Tasks
  /\ completed \subseteq Tasks

(* What a worker has in its hands at each place. *)
HandOf(w) ==
  /\ pc[w] \notin {"off", "loop", "ready", "steal"} => st[w] \in Tasks
  /\ pc[w] = "simple" => st[w] \in Simple
  /\ pc[w] \in {"spin", "execute"} => st[w] \notin Simple
  /\ IF pc[w] = "give" THEN gift[w] \in Tasks ELSE gift[w] = NoTask
  /\ pc[w] \in {"wake", "give"} => todo[w] \subseteq Succ[st[w]]

(* A simple task is in no assembly queue. *)
OnlyAssemblies ==
  \A w \in Worker : \A k \in 1 .. Len(assemblyQ[w]) : assemblyQ[w][k] \notin Simple

(* All workers. *)
Hands == (\A w \in Worker : HandOf(w)) /\ OnlyAssemblies

(* t is distributed or has run: no one may start it any more *)
Launched(t) ==
  \/ ran[t] # <<>>
  \/ t \in completed
  \/ \E w \in Worker : st[w] = t /\ pc[w] \in {"spin", "execute", "wake", "give"}
  \/ \E w \in Worker : \E k \in 1 .. Len(assemblyQ[w]) : assemblyQ[w][k] = t

(* t is at this station of its way, w and k tell where exactly *)
At(t, where, w, k) ==
  \/ where = "waiting" /\ w = 0 /\ k = 0 /\ refcount[t] # 0
  \/ where = "program" /\ w = 0 /\ k = 0 /\ t \in unpushed
  \/ where = "queue" /\ k \in 1 .. Len(readyQ[w]) /\ readyQ[w][k] = t
  \/ where = "hand" /\ k = 0 /\ st[w] = t /\ pc[w] \in {"have", "simple"}
  \/ where = "gift" /\ k = 0 /\ gift[w] = t
  \/ where = "launched" /\ w = 0 /\ k = 0 /\ Launched(t)

Where == {"waiting", "program", "queue", "hand", "gift", "launched"}

(* A task is at one place at a time. *)
OnePlace ==
  \A t \in Tasks, a \in Where, b \in Where, v \in Worker, w \in Worker,
     k \in Nat, l \in Nat :
    At(t, a, v, k) /\ At(t, b, w, l) => a = b /\ v = w /\ k = l

(* A task is committed when all of its place have run it, by one worker, once. *)
Commits ==
  /\ completed \subseteq Finished
  /\ \A w \in Worker : Committing(w) => st[w] \in Finished \ completed
  /\ \A v, w \in Worker :
       Committing(v) /\ Committing(w) /\ st[v] = st[w] => v = w

(* threads_out_tao counts the members that have run an assembly. *)
RanIsOut == \A t \in Tasks \ Simple : Len(ran[t]) = threadsOut[t]

(* What has begun waits for nobody; what runs or has ended has begun. *)
BegunIsReady ==
  /\ \A t \in begun : refcount[t] = 0
  /\ \A w \in Worker : pc[w] \in {"simple", "execute"} => st[w] \in begun
  /\ Finished \subseteq begun

(* The inductive invariant. *)
Inv ==
  /\ Types /\ Hands /\ OnePlace /\ RefcountExact /\ Commits /\ RanIsOut
  /\ BegunIsReady

-----------------------------------------------------------------------------
(* Data: places, queues and what the actions do to them.                     *)

(* Workers are numbers, from zero. *)
LEMMA ZeroIsWorker == 0 \in Worker /\ Worker \subseteq Nat
  BY NThreadsAssumption DEF Worker

(* The places that may be chosen are pairs of numbers. *)
LEMMA PlaceType == \A p \in Places : p \in [leader : Nat, width : Nat]
  BY PlacesAssumption

(* A sequence without its last element. *)
LEMMA FrontProperties ==
  ASSUME NEW S, NEW s \in Seq(S), s # <<>>
  PROVE  /\ Len(s) \in Nat \ {0} /\ s[Len(s)] \in S
         /\ SubSeq(s, 1, Len(s) - 1) \in Seq(S)
         /\ Len(SubSeq(s, 1, Len(s) - 1)) = Len(s) - 1
         /\ \A k \in 1 .. Len(s) - 1 : SubSeq(s, 1, Len(s) - 1)[k] = s[k]
<1>1. Len(s) \in Nat \ {0}
  BY EmptySeq
<1> DEFINE n == Len(s) - 1
           front == SubSeq(s, 1, n)
<1>2. n \in Nat /\ n - 1 + 1 = n /\ \A k \in 1 .. n : k \in 1 .. Len(s) /\ 1 + k - 1 = k
  BY <1>1
<1>3. \A k \in 1 .. n : s[k] \in S
  BY <1>2, ElementOfSeq
<1>4. s[Len(s)] \in S
  BY <1>1, ElementOfSeq
<1> HIDE DEF n
<1>5. /\ front \in Seq(S)
      /\ Len(front) = IF 1 <= n THEN n - 1 + 1 ELSE 0
      /\ \A k \in 1 .. n - 1 + 1 : front[k] = s[1 + k - 1]
  BY <1>2, <1>3, SubSeqProperties
<1> HIDE DEF front
<1>6. Len(front) = n /\ \A k \in 1 .. n : front[k] = s[k]
  BY <1>2, <1>5
<1> QED
  BY <1>1, <1>4, <1>5, <1>6 DEF front, n

(* The queues after an insertion hold what they held, and the task. *)
LEMMA InsertedType ==
  ASSUME Types, NEW t \in Tasks, NEW p \in [leader : Nat, width : Nat]
  PROVE  /\ Inserted(t, p) \in [Worker -> Seq(Tasks)]
         /\ \A w \in Worker : \A k \in 1 .. Len(Inserted(t, p)[w]) :
              \/ Inserted(t, p)[w][k] = t
              \/ k \in 1 .. Len(assemblyQ[w]) /\ Inserted(t, p)[w][k] = assemblyQ[w][k]
<1>1. ASSUME NEW w \in Worker
      PROVE  /\ Append(assemblyQ[w], t) \in Seq(Tasks)
             /\ \A k \in 1 .. Len(Append(assemblyQ[w], t)) :
                  \/ Append(assemblyQ[w], t)[k] = t
                  \/ /\ k \in 1 .. Len(assemblyQ[w])
                     /\ Append(assemblyQ[w], t)[k] = assemblyQ[w][k]
  <2>1. assemblyQ[w] \in Seq(Tasks)
    BY DEF Types
  <2>2. Len(assemblyQ[w]) \in Nat
    BY <2>1, LenProperties
  <2> QED
    BY <2>1, <2>2, AppendProperties
<1>2. assemblyQ \in [Worker -> Seq(Tasks)]
  BY DEF Types
<1>3. ASSUME NEW w \in Worker
      PROVE  Inserted(t, p)[w] \in {assemblyQ[w], Append(assemblyQ[w], t)}
  BY DEF Inserted
<1>4. Inserted(t, p) \in [Worker -> Seq(Tasks)]
  BY <1>1, <1>2 DEF Inserted
<1>5. ASSUME NEW w \in Worker, NEW k \in 1 .. Len(Inserted(t, p)[w])
      PROVE  \/ Inserted(t, p)[w][k] = t
             \/ k \in 1 .. Len(assemblyQ[w]) /\ Inserted(t, p)[w][k] = assemblyQ[w][k]
  BY <1>1, <1>3
<1> QED
  BY <1>4, <1>5

(* Inserting an assembly leaves only assemblies in the queues. *)
LEMMA InsertedAssembly ==
  ASSUME Types, OnlyAssemblies, NEW t \in Tasks \ Simple,
         NEW p \in [leader : Nat, width : Nat], assemblyQ' = Inserted(t, p)
  PROVE  OnlyAssemblies'
<1> SUFFICES ASSUME NEW w \in Worker, NEW k \in 1 .. Len(assemblyQ'[w])
             PROVE  assemblyQ'[w][k] \notin Simple
  BY DEF OnlyAssemblies
<1> DEFINE q == Inserted(t, p)
<1>1. \/ q[w][k] = t
      \/ k \in 1 .. Len(assemblyQ[w]) /\ q[w][k] = assemblyQ[w][k]
  BY InsertedType
<1> QED
  BY <1>1 DEF OnlyAssemblies

(* The ready queues after a push to queue q. *)
LEMMA AppendedReady ==
  ASSUME Types, NEW t \in Tasks, NEW q \in Worker
  PROVE  LET r == [readyQ EXCEPT ![q] = Append(readyQ[q], t)]
         IN  /\ r \in [Worker -> Seq(Tasks)]
             /\ \A w \in Worker : \A k \in 1 .. Len(r[w]) :
                  \/ w = q /\ k = Len(readyQ[q]) + 1 /\ r[w][k] = t
                  \/ k \in 1 .. Len(readyQ[w]) /\ r[w][k] = readyQ[w][k]
<1> DEFINE longer == Append(readyQ[q], t)
<1>1. readyQ[q] \in Seq(Tasks)
  BY DEF Types
<1>2. Len(readyQ[q]) \in Nat
  BY <1>1, LenProperties
<1>3. /\ longer \in Seq(Tasks)
      /\ Len(longer) = Len(readyQ[q]) + 1
      /\ \A k \in 1 .. Len(readyQ[q]) : longer[k] = readyQ[q][k]
      /\ longer[Len(readyQ[q]) + 1] = t
  BY <1>1, AppendProperties
<1> HIDE DEF longer
<1> DEFINE r == [readyQ EXCEPT ![q] = longer]
<1>4. r \in [Worker -> Seq(Tasks)] /\ r[q] = longer
  BY <1>3 DEF Types
<1>5. \A w \in Worker \ {q} : r[w] = readyQ[w]
  BY DEF Types
<1> HIDE DEF r
<1>6. \A w \in Worker : \A k \in 1 .. Len(r[w]) :
        \/ w = q /\ k = Len(readyQ[q]) + 1 /\ r[w][k] = t
        \/ k \in 1 .. Len(readyQ[w]) /\ r[w][k] = readyQ[w][k]
  BY <1>2, <1>3, <1>4, <1>5
<1> QED
  BY <1>4, <1>6 DEF r, longer

(* Taking the youngest task of a ready queue, own or victim's. *)
LEMMA TakeFacts ==
  ASSUME Types, NEW w \in Worker, NEW v \in Worker, TakeFrom(w, v)
  PROVE  \E t \in Tasks :
           /\ Len(readyQ[v]) \in Nat \ {0} /\ t = readyQ[v][Len(readyQ[v])]
           /\ st' = [st EXCEPT ![w] = t]
           /\ place' \in [Tasks -> [leader : Nat, width : Nat]]
           /\ \A x \in Tasks \ {t} : place'[x] = place[x]
           /\ readyQ' \in [Worker -> Seq(Tasks)]
           /\ \A u \in Worker : \A k \in 1 .. Len(readyQ'[u]) :
                /\ k \in 1 .. Len(readyQ[u]) /\ readyQ'[u][k] = readyQ[u][k]
                /\ u = v => k # Len(readyQ[v])
<1> DEFINE t == readyQ[v][Len(readyQ[v])]
           front == SubSeq(readyQ[v], 1, Len(readyQ[v]) - 1)
<1>1. readyQ[v] \in Seq(Tasks) /\ readyQ[v] # <<>> /\ readyQ \in [Worker -> Seq(Tasks)]
  BY DEF Types, TakeFrom
<1>2. /\ Len(readyQ[v]) \in Nat \ {0} /\ t \in Tasks /\ front \in Seq(Tasks)
      /\ Len(front) = Len(readyQ[v]) - 1
      /\ \A k \in 1 .. Len(readyQ[v]) - 1 : front[k] = readyQ[v][k]
  BY <1>1, FrontProperties
<1>3. readyQ' = [readyQ EXCEPT ![v] = front]
  BY DEF TakeFrom
<1>4. st' = [st EXCEPT ![w] = t] /\ Mold(w, t)
  BY DEF TakeFrom
<1> HIDE DEF t, front
<1>5. place' \in [Tasks -> [leader : Nat, width : Nat]] /\ \A x \in Tasks \ {t} : place'[x] = place[x]
  <2>1. CASE t \in Simple
    BY <1>4, <2>1 DEF Mold, Types
  <2>2. CASE t \notin Simple
    <3>1. PICK p \in Places : place' = [place EXCEPT ![t] = p]
      BY <1>4, <2>2 DEF Mold
    <3> QED
      BY <1>2, <3>1, PlaceType DEF Types
  <2> QED
    BY <2>1, <2>2
<1>6. readyQ' \in [Worker -> Seq(Tasks)] /\ readyQ'[v] = front
  BY <1>1, <1>2, <1>3
<1>7. \A u \in Worker \ {v} : readyQ'[u] = readyQ[u]
  BY <1>1, <1>3
<1>8. \A u \in Worker : \A k \in 1 .. Len(readyQ'[u]) :
        /\ k \in 1 .. Len(readyQ[u]) /\ readyQ'[u][k] = readyQ[u][k]
        /\ u = v => k # Len(readyQ[v])
  BY <1>2, <1>6, <1>7
<1> QED
  BY <1>2, <1>4, <1>5, <1>6, <1>8 DEF t

(* Taking the oldest assembly. *)
LEMMA PopFacts ==
  ASSUME Types, NEW w \in Worker, PopAssembly(w)
  PROVE  \E t \in Tasks :
           /\ 1 \in 1 .. Len(assemblyQ[w]) /\ t = assemblyQ[w][1]
           /\ st' = [st EXCEPT ![w] = t]
           /\ threadsIn' = [threadsIn EXCEPT ![t] = @ + 1]
           /\ assemblyQ' \in [Worker -> Seq(Tasks)]
           /\ \A u \in Worker : \A k \in 1 .. Len(assemblyQ'[u]) :
                \E l \in 1 .. Len(assemblyQ[u]) : assemblyQ'[u][k] = assemblyQ[u][l]
<1> DEFINE q == assemblyQ[w]
           t == Head(q)
           rest == Tail(q)
<1>1. q \in Seq(Tasks) /\ q # <<>> /\ assemblyQ \in [Worker -> Seq(Tasks)]
  BY DEF Types, PopAssembly
<1>2. Len(q) \in Nat \ {0} /\ t = q[1] /\ t \in Tasks
  <2>1. Len(q) \in Nat \ {0}
    BY <1>1, EmptySeq
  <2>2. t = q[1]
    BY <1>1
  <2>3. q[1] \in Tasks
    BY <1>1, <2>1, ElementOfSeq
  <2> QED
    BY <2>1, <2>2, <2>3
<1>3. /\ rest \in Seq(Tasks) /\ Len(rest) = Len(q) - 1
      /\ \A k \in 1 .. Len(rest) : rest[k] = q[k + 1]
  BY <1>1, HeadTailProperties
<1>4. /\ assemblyQ' = [assemblyQ EXCEPT ![w] = rest] /\ st' = [st EXCEPT ![w] = t]
      /\ threadsIn' = [threadsIn EXCEPT ![t] = @ + 1]
  BY DEF PopAssembly
<1> HIDE DEF t, rest
<1>5. assemblyQ' \in [Worker -> Seq(Tasks)] /\ assemblyQ'[w] = rest
  BY <1>1, <1>3, <1>4
<1>6. \A u \in Worker \ {w} : assemblyQ'[u] = assemblyQ[u]
  BY <1>1, <1>4
<1>7. \A k \in 1 .. Len(rest) : k + 1 \in 1 .. Len(q)
  BY <1>2, <1>3
<1>8. \A u \in Worker : \A k \in 1 .. Len(assemblyQ'[u]) :
        \E l \in 1 .. Len(assemblyQ[u]) : assemblyQ'[u][k] = assemblyQ[u][l]
  BY <1>3, <1>5, <1>6, <1>7
<1>9. 1 \in 1 .. Len(q)
  BY <1>2
<1> QED
  BY <1>2, <1>4, <1>5, <1>8, <1>9

-----------------------------------------------------------------------------
(* Types and what workers hold.                                              *)

(* A step of a worker keeps the types. *)
LEMMA StepTypes == ASSUME Inv, NEW w \in Worker, Step(w) PROVE Types'
<1> USE DEF Goto, queueVars, gangVars, wakeVars, histVars
<1>0. Types /\ (pc[w] \notin {"off", "loop", "ready", "steal"} => st[w] \in Tasks)
  BY DEF Inv, Hands, HandOf
<1>1. CASE PopAssembly(w)
  <2>1. PICK t \in Tasks : /\ st' = [st EXCEPT ![w] = t]
                           /\ threadsIn' = [threadsIn EXCEPT ![t] = @ + 1]
                           /\ assemblyQ' \in [Worker -> Seq(Tasks)]
    BY <1>0, <1>1, PopFacts
  <2>2. threadsIn' \in [Tasks -> Nat]
    BY <1>0, <2>1 DEF Types
  <2>3. pc' = [pc EXCEPT ![w] = "spin"]
    BY <1>1 DEF PopAssembly
  <2>4. UNCHANGED <<unpushed, refcount, readyQ, place, todo, gift, threadsOut,
                    ran, begun, completed>>
    BY <1>1 DEF PopAssembly
  <2> QED
    BY <1>0, <2>1, <2>2, <2>3, <2>4 DEF Types, Label
<1>2. CASE FindNoAssembly(w)
  BY <1>0, <1>2 DEF FindNoAssembly, Types, Label
<1>3. ASSUME NEW v \in Worker, TakeFrom(w, v) PROVE Types'
  <2>1. PICK t \in Tasks : /\ st' = [st EXCEPT ![w] = t]
                           /\ place' \in [Tasks -> [leader : Nat, width : Nat]]
                           /\ readyQ' \in [Worker -> Seq(Tasks)]
    BY <1>0, <1>3, TakeFacts
  <2>2. /\ pc' = [pc EXCEPT ![w] = "have"]
        /\ UNCHANGED <<unpushed, refcount, assemblyQ, todo, gift, threadsIn, threadsOut,
                       ran, begun, completed>>
    BY <1>3 DEF TakeFrom
  <2>3. st' \in [Worker -> Tasks \union {NoTask}] /\ pc' \in [Worker -> Label]
    BY <1>0, <2>1, <2>2 DEF Types, Label
  <2> QED
    BY <1>0, <2>1, <2>2, <2>3 DEF Types
<1>4. CASE FindNoReady(w)
  BY <1>0, <1>4 DEF FindNoReady, Types, Label
<1>5. CASE GiveUp(w)
  BY <1>0, <1>5 DEF GiveUp, Types, Label
<1>6. CASE Distribute(w)
  <2>1. assemblyQ' \in [Worker -> Seq(Tasks)]
    BY <1>0, <1>6, InsertedType DEF Distribute, Types
  <2> QED
    BY <1>0, <1>6, <2>1 DEF Distribute, Types, Label
<1>7. CASE BeginSimple(w)
  BY <1>0, <1>7 DEF BeginSimple, Types, Label
<1>8. CASE EndSimple(w)
  <2>1. Append(ran[st[w]], w) \in Seq(Worker)
    BY <1>0, <1>8, AppendProperties DEF EndSimple, Types
  <2> QED
    BY <1>0, <1>8, <2>1, DagAssumption DEF EndSimple, Types, Label
<1>9. CASE BeginAssembly(w)
  BY <1>0, <1>9 DEF BeginAssembly, Types, Label
<1>10. CASE EndAssembly(w)
  <2>1. Append(ran[st[w]], w) \in Seq(Worker) /\ st[w] \in Tasks
    BY <1>0, <1>10, AppendProperties DEF EndAssembly, Types
  <2>2. ran' \in [Tasks -> Seq(Worker)] /\ threadsOut' \in [Tasks -> Nat]
    BY <1>0, <1>10, <2>1 DEF EndAssembly, Types
  <2>3. todo' \in [Worker -> SUBSET Tasks]
    <3>1. Succ[st[w]] \in SUBSET Tasks /\ todo \in [Worker -> SUBSET Tasks]
      BY <1>0, <2>1, DagAssumption DEF Types
    <3>2. todo' = todo \/ todo' = [todo EXCEPT ![w] = Succ[st[w]]]
      BY <1>10 DEF EndAssembly
    <3> QED
      BY <3>1, <3>2
  <2>4. st' \in [Worker -> Tasks \union {NoTask}] /\ pc' \in [Worker -> Label]
    BY <1>0, <1>10 DEF EndAssembly, Types, Label
  <2> QED
    BY <1>0, <1>10, <2>2, <2>3, <2>4 DEF EndAssembly, Types
<1>11. ASSUME NEW s \in Tasks, Release(w, s) PROVE Types'
  <2>1. gift' \in [Worker -> Tasks \union {NoTask}] /\ pc' \in [Worker -> Label]
    BY <1>0, <1>11 DEF Release, Visit, Types, Label
  <2>2. refcount' \in [Tasks -> Int] /\ todo' \in [Worker -> SUBSET Tasks]
    BY <1>0, <1>11 DEF Release, Visit, Types
  <2> QED
    BY <1>0, <1>11, <2>1, <2>2 DEF Release, Visit, Types
<1>12. CASE GiveReady(w)
  <2>1. gift[w] \in Tasks
    BY <1>12 DEF Inv, Hands, HandOf, GiveReady
  <2> DEFINE q == IF Affinity[gift[w]] = NoAffinity THEN w ELSE Affinity[gift[w]]
  <2>2. q \in Worker
    BY <2>1, AffinityAssumption
  <2>3. readyQ' = [readyQ EXCEPT ![q] = Append(readyQ[q], gift[w])]
    BY <1>12 DEF GiveReady
  <2> HIDE DEF q
  <2>4. readyQ' \in [Worker -> Seq(Tasks)]
    BY <1>0, <2>1, <2>2, <2>3, AppendedReady
  <2> QED
    BY <1>0, <1>12, <2>4 DEF GiveReady, Types, Label
<1>13. CASE GiveCritical(w)
  <2>1. gift[w] \in Tasks
    BY <1>13 DEF Inv, Hands, HandOf, GiveCritical
  <2>2. PICK p \in Places : /\ place' = [place EXCEPT ![gift[w]] = p]
                            /\ assemblyQ' = Inserted(gift[w], p)
    BY <1>13 DEF GiveCritical
  <2>3. p \in [leader : Nat, width : Nat]
    BY PlaceType
  <2>4. assemblyQ' \in [Worker -> Seq(Tasks)]
    BY <1>0, <2>1, <2>2, <2>3, InsertedType
  <2>5. place' \in [Tasks -> [leader : Nat, width : Nat]]
    BY <1>0, <2>2, <2>3 DEF Types
  <2> QED
    BY <1>0, <1>13, <2>4, <2>5 DEF GiveCritical, Types, Label
<1>14. CASE Complete(w)
  BY <1>0, <1>14 DEF Complete, Types, Label
<1> QED
  BY <1>1, <1>2, <1>3, <1>4, <1>5, <1>6, <1>7, <1>8, <1>9, <1>10, <1>11, <1>12,
     <1>13, <1>14, StealAssumption DEF Step, Search, Run, Wakeup, TakeOwn, Steal

(* Only worker w moves. *)
LEMMA HandMoves ==
  ASSUME Types, Hands, NEW w \in Worker, HandOf(w)', OnlyAssemblies',
         \A u \in Worker \ {w} : /\ pc'[u] = pc[u] /\ st'[u] = st[u]
                                 /\ gift'[u] = gift[u] /\ todo'[u] = todo[u]
  PROVE  Hands'
<1>1. ASSUME NEW u \in Worker, u # w PROVE HandOf(u)'
  <2>1. HandOf(u)
    BY DEF Hands
  <2> QED
    BY <1>1, <2>1 DEF HandOf
<1> QED
  BY <1>1 DEF Hands

(* Only worker w moves, and the assembly queues stay. *)
LEMMA HandMovesQuietly ==
  ASSUME Types, Hands, NEW w \in Worker, HandOf(w)', UNCHANGED assemblyQ,
         \A u \in Worker \ {w} : /\ pc'[u] = pc[u] /\ st'[u] = st[u]
                                 /\ gift'[u] = gift[u] /\ todo'[u] = todo[u]
  PROVE  Hands'
<1>1. OnlyAssemblies'
  BY DEF Hands, OnlyAssemblies
<1> QED
  BY <1>1, HandMoves

(* A step of a worker keeps what workers may hold. *)
LEMMA StepHands == ASSUME Inv, NEW w \in Worker, Step(w) PROVE Hands'
<1> USE DEF Goto, queueVars, gangVars, wakeVars, histVars
<1>0. /\ Types /\ Hands /\ HandOf(w) /\ OnlyAssemblies
      /\ pc \in [Worker -> Label] /\ st \in [Worker -> Tasks \union {NoTask}]
      /\ gift \in [Worker -> Tasks \union {NoTask}] /\ todo \in [Worker -> SUBSET Tasks]
  BY DEF Inv, Hands, Types
<1>1. CASE PopAssembly(w)
  <2>1. PICK t \in Tasks : /\ 1 \in 1 .. Len(assemblyQ[w]) /\ t = assemblyQ[w][1]
                           /\ st' = [st EXCEPT ![w] = t]
                           /\ \A u \in Worker : \A k \in 1 .. Len(assemblyQ'[u]) :
                                \E l \in 1 .. Len(assemblyQ[u]) :
                                  assemblyQ'[u][k] = assemblyQ[u][l]
    BY <1>0, <1>1, PopFacts
  <2>2. t \notin Simple
    BY <1>0, <2>1 DEF OnlyAssemblies
  <2>3. pc' = [pc EXCEPT ![w] = "spin"] /\ UNCHANGED <<todo, gift>> /\ pc[w] = "loop"
    BY <1>1 DEF PopAssembly
  <2>4. OnlyAssemblies'
    BY <1>0, <2>1 DEF OnlyAssemblies
  <2>5. HandOf(w)'
    BY <1>0, <2>1, <2>2, <2>3 DEF HandOf
  <2>6. \A u \in Worker \ {w} : /\ pc'[u] = pc[u] /\ st'[u] = st[u]
                                /\ gift'[u] = gift[u] /\ todo'[u] = todo[u]
    BY <1>0, <2>1, <2>3
  <2> QED
    BY <1>0, <2>4, <2>5, <2>6, HandMoves
<1>2. CASE FindNoAssembly(w)
  <2>1. \A u \in Worker \ {w} : /\ pc'[u] = pc[u] /\ st'[u] = st[u]
                                /\ gift'[u] = gift[u] /\ todo'[u] = todo[u]
    BY <1>0, <1>2 DEF FindNoAssembly
  <2>2. HandOf(w)' /\ UNCHANGED assemblyQ
    BY <1>0, <1>2 DEF FindNoAssembly, HandOf
  <2> QED
    BY <1>0, <2>1, <2>2, HandMovesQuietly
<1>3. ASSUME NEW v \in Worker, TakeFrom(w, v), pc[w] \in {"ready", "steal"} PROVE Hands'
  <2>1. PICK t \in Tasks : st' = [st EXCEPT ![w] = t]
    BY <1>0, <1>3, TakeFacts
  <2>2. pc' = [pc EXCEPT ![w] = "have"] /\ UNCHANGED <<todo, gift, assemblyQ>>
    BY <1>3 DEF TakeFrom
  <2>3. HandOf(w)'
    BY <1>0, <1>3, <2>1, <2>2 DEF HandOf
  <2>4. \A u \in Worker \ {w} : /\ pc'[u] = pc[u] /\ st'[u] = st[u]
                                /\ gift'[u] = gift[u] /\ todo'[u] = todo[u]
    BY <1>0, <2>1, <2>2
  <2> QED
    BY <1>0, <2>2, <2>3, <2>4, HandMovesQuietly
<1>4. CASE FindNoReady(w)
  <2>1. \A u \in Worker \ {w} : /\ pc'[u] = pc[u] /\ st'[u] = st[u]
                                /\ gift'[u] = gift[u] /\ todo'[u] = todo[u]
    BY <1>0, <1>4 DEF FindNoReady
  <2>2. HandOf(w)' /\ UNCHANGED assemblyQ
    BY <1>0, <1>4 DEF FindNoReady, HandOf
  <2> QED
    BY <1>0, <2>1, <2>2, HandMovesQuietly
<1>5. CASE GiveUp(w)
  <2>1. \A u \in Worker \ {w} : /\ pc'[u] = pc[u] /\ st'[u] = st[u]
                                /\ gift'[u] = gift[u] /\ todo'[u] = todo[u]
    BY <1>0, <1>5 DEF GiveUp
  <2>2. HandOf(w)' /\ UNCHANGED assemblyQ
    BY <1>0, <1>5 DEF GiveUp, HandOf
  <2> QED
    BY <1>0, <2>1, <2>2, HandMovesQuietly
<1>6. CASE Distribute(w)
  <2>1. st[w] \in Tasks \ Simple /\ place[st[w]] \in [leader : Nat, width : Nat]
    BY <1>0, <1>6 DEF Distribute, HandOf, Types
  <2>2. OnlyAssemblies'
    BY <1>0, <1>6, <2>1, InsertedAssembly DEF Distribute
  <2>3. HandOf(w)'
    BY <1>0, <1>6 DEF Distribute, HandOf
  <2>4. \A u \in Worker \ {w} : /\ pc'[u] = pc[u] /\ st'[u] = st[u]
                                /\ gift'[u] = gift[u] /\ todo'[u] = todo[u]
    BY <1>0, <1>6 DEF Distribute
  <2> QED
    BY <1>0, <2>2, <2>3, <2>4, HandMoves
<1>7. CASE BeginSimple(w)
  <2>1. \A u \in Worker \ {w} : /\ pc'[u] = pc[u] /\ st'[u] = st[u]
                                /\ gift'[u] = gift[u] /\ todo'[u] = todo[u]
    BY <1>0, <1>7 DEF BeginSimple
  <2>2. HandOf(w)' /\ UNCHANGED assemblyQ
    BY <1>0, <1>7 DEF BeginSimple, HandOf
  <2> QED
    BY <1>0, <2>1, <2>2, HandMovesQuietly
<1>8. CASE EndSimple(w)
  <2>1. \A u \in Worker \ {w} : /\ pc'[u] = pc[u] /\ st'[u] = st[u]
                                /\ gift'[u] = gift[u] /\ todo'[u] = todo[u]
    BY <1>0, <1>8 DEF EndSimple
  <2>2. HandOf(w)' /\ UNCHANGED assemblyQ
    BY <1>0, <1>8 DEF EndSimple, HandOf
  <2> QED
    BY <1>0, <2>1, <2>2, HandMovesQuietly
<1>9. CASE BeginAssembly(w)
  <2>1. \A u \in Worker \ {w} : /\ pc'[u] = pc[u] /\ st'[u] = st[u]
                                /\ gift'[u] = gift[u] /\ todo'[u] = todo[u]
    BY <1>0, <1>9 DEF BeginAssembly
  <2>2. HandOf(w)' /\ UNCHANGED assemblyQ
    BY <1>0, <1>9 DEF BeginAssembly, HandOf
  <2> QED
    BY <1>0, <2>1, <2>2, HandMovesQuietly
<1>10. CASE EndAssembly(w)
  <2>1. \A u \in Worker \ {w} : /\ pc'[u] = pc[u] /\ st'[u] = st[u]
                                /\ gift'[u] = gift[u] /\ todo'[u] = todo[u]
    BY <1>0, <1>10 DEF EndAssembly
  <2>2. HandOf(w)' /\ UNCHANGED assemblyQ
    BY <1>0, <1>10 DEF EndAssembly, HandOf
  <2> QED
    BY <1>0, <2>1, <2>2, HandMovesQuietly
<1>11. ASSUME NEW s \in Tasks, Release(w, s) PROVE Hands'
  <2>1. \A u \in Worker \ {w} : /\ pc'[u] = pc[u] /\ st'[u] = st[u]
                                /\ gift'[u] = gift[u] /\ todo'[u] = todo[u]
    BY <1>0, <1>11 DEF Release, Visit
  <2>2. HandOf(w)' /\ UNCHANGED assemblyQ
    BY <1>0, <1>11 DEF Release, Visit, HandOf
  <2> QED
    BY <1>0, <2>1, <2>2, HandMovesQuietly
<1>12. CASE GiveReady(w)
  <2>1. \A u \in Worker \ {w} : /\ pc'[u] = pc[u] /\ st'[u] = st[u]
                                /\ gift'[u] = gift[u] /\ todo'[u] = todo[u]
    BY <1>0, <1>12 DEF GiveReady
  <2>2. HandOf(w)' /\ UNCHANGED assemblyQ
    BY <1>0, <1>12 DEF GiveReady, HandOf
  <2> QED
    BY <1>0, <2>1, <2>2, HandMovesQuietly
<1>13. CASE GiveCritical(w)
  <2>1. gift[w] \in Tasks \ Simple
    BY <1>0, <1>13, TasksAssumption DEF GiveCritical, HandOf
  <2>2. PICK p \in Places : assemblyQ' = Inserted(gift[w], p)
    BY <1>13 DEF GiveCritical
  <2>3. p \in [leader : Nat, width : Nat]
    BY PlaceType
  <2>4. OnlyAssemblies'
    BY <1>0, <2>1, <2>2, <2>3, InsertedAssembly
  <2>5. HandOf(w)'
    BY <1>0, <1>13 DEF GiveCritical, HandOf
  <2>6. \A u \in Worker \ {w} : /\ pc'[u] = pc[u] /\ st'[u] = st[u]
                                /\ gift'[u] = gift[u] /\ todo'[u] = todo[u]
    BY <1>0, <1>13 DEF GiveCritical
  <2> QED
    BY <1>0, <2>4, <2>5, <2>6, HandMoves
<1>14. CASE Complete(w)
  <2>1. \A u \in Worker \ {w} : /\ pc'[u] = pc[u] /\ st'[u] = st[u]
                                /\ gift'[u] = gift[u] /\ todo'[u] = todo[u]
    BY <1>0, <1>14 DEF Complete
  <2>2. HandOf(w)' /\ UNCHANGED assemblyQ
    BY <1>0, <1>14 DEF Complete, HandOf
  <2> QED
    BY <1>0, <2>1, <2>2, HandMovesQuietly
<1> QED
  BY <1>1, <1>2, <1>3, <1>4, <1>5, <1>6, <1>7, <1>8, <1>9, <1>10, <1>11, <1>12,
     <1>13, <1>14, StealAssumption DEF Step, Search, Run, Wakeup, TakeOwn, Steal

-----------------------------------------------------------------------------
(* One place at a time.                                                      *)

(* No task moves. *)
LEMMA Stay ==
  ASSUME OnePlace,
         \A t \in Tasks, a \in Where, w \in Worker, k \in Nat :
           At(t, a, w, k)' => At(t, a, w, k)
  PROVE  OnePlace'
  BY DEF OnePlace

(* Only x moves, from its place at c, v, i to d, u, j. *)
Moves(x, c, v, i, d, u, j) ==
  /\ At(x, c, v, i)
  /\ \A t \in Tasks, a \in Where, w \in Worker, k \in Nat :
       At(t, a, w, k)' =>
         \/ At(t, a, w, k) /\ ~ (t = x /\ a = c /\ w = v /\ k = i)
         \/ t = x /\ a = d /\ w = u /\ k = j

(* A single task that moves is at one place afterwards. *)
LEMMA Moved ==
  ASSUME OnePlace, NEW x \in Tasks, NEW c \in Where, NEW v \in Worker, NEW i \in Nat,
         NEW d, NEW u, NEW j, Moves(x, c, v, i, d, u, j)
  PROVE  OnePlace'
<1>1. \A a \in Where, w \in Worker, k \in Nat :
         At(x, a, w, k)' => a = d /\ w = u /\ k = j
  BY DEF OnePlace, Moves
<1>2. \A t \in Tasks \ {x}, a \in Where, w \in Worker, k \in Nat :
         At(t, a, w, k)' => At(t, a, w, k)
  BY DEF Moves
<1> QED
  BY <1>1, <1>2 DEF OnePlace

(* xitao_push moves a task from the program to a queue. *)
LEMMA PushOnePlace ==
  ASSUME Inv, NEW t \in Tasks, NEW q \in Worker, Push(t, q) PROVE OnePlace'
<1>1. Types /\ OnePlace /\ 0 \in Worker /\ Len(readyQ[q]) \in Nat
  BY ZeroIsWorker, LenProperties DEF Inv, Types
<1>2. At(t, "program", 0, 0)
  BY DEF Push, At
<1>3. readyQ' = [readyQ EXCEPT ![q] = Append(readyQ[q], t)] /\ unpushed' = unpushed \ {t}
  BY DEF Push
<1>4. \A w \in Worker : \A k \in 1 .. Len(readyQ'[w]) :
        \/ w = q /\ k = Len(readyQ[q]) + 1 /\ readyQ'[w][k] = t
        \/ k \in 1 .. Len(readyQ[w]) /\ readyQ'[w][k] = readyQ[w][k]
  BY <1>1, <1>3, AppendedReady
<1>5. \A x \in Tasks : Launched(x)' <=> Launched(x)
  BY DEF Push, Launched, queueVars, gangVars, wakeVars, histVars
<1>6. ASSUME NEW x \in Tasks, NEW a \in Where, NEW w \in Worker, NEW k \in Nat,
             At(x, a, w, k)'
      PROVE  \/ At(x, a, w, k) /\ ~ (x = t /\ a = "program" /\ w = 0 /\ k = 0)
             \/ x = t /\ a = "queue" /\ w = q /\ k = Len(readyQ[q]) + 1
  BY <1>3, <1>4, <1>5, <1>6 DEF Push, At, Where, queueVars, gangVars, wakeVars, histVars
<1>7. Moves(t, "program", 0, 0, "queue", q, Len(readyQ[q]) + 1)
  BY <1>2, <1>6 DEF Moves
<1>8. "program" \in Where
  BY DEF Where
<1> QED
  BY <1>1, <1>7, <1>8, Moved

(* A refcount that is decremented counts the edge that is released: the one
   committing worker of this predecessor has not released it before. *)
LEMMA ReleasePositive ==
  ASSUME Inv, NEW w \in Worker, NEW s \in Tasks, Release(w, s)
  PROVE  refcount[s] \in Nat \ {0}
<1> DEFINE S == {u \in Preds(s) : Unreleased(u, s)}
<1>1. st[w] \in Tasks /\ s \in Succ[st[w]] /\ pc[w] = "wake" /\ s \in todo[w]
  BY DEF Inv, Hands, HandOf, Release, Visit
<1>2. st[w] \notin completed
  BY <1>1 DEF Inv, Commits, Committing
<1>3. \A v \in Worker : st[v] = st[w] /\ pc[v] \in {"wake", "give"} => v = w
  BY <1>1 DEF Inv, Commits, Committing
<1>4. st[w] \in S
  BY <1>1, <1>2, <1>3 DEF Preds, Unreleased
<1>5. S \subseteq Tasks /\ IsFiniteSet(Tasks)
  BY TasksAssumption DEF Preds
<1>6. IsFiniteSet(S)
  BY <1>5, FS_Subset
<1>7. Cardinality(S) \in Nat /\ Cardinality(S) # 0
  BY <1>4, <1>6, FS_CardinalityType, FS_EmptySet
<1>8. refcount[s] = Cardinality(S)
  BY DEF Inv, RefcountExact
<1> QED
  BY <1>7, <1>8

(* A step of a worker moves one task or none. *)
LEMMA StepOnePlace == ASSUME Inv, NEW w \in Worker, Step(w) PROVE OnePlace'
<1> USE DEF Goto, queueVars, gangVars, wakeVars, histVars
<1>0. /\ Types /\ OnePlace /\ HandOf(w) /\ 0 \in Worker
      /\ pc \in [Worker -> Label] /\ st \in [Worker -> Tasks \union {NoTask}]
      /\ gift \in [Worker -> Tasks \union {NoTask}] /\ NoTask \notin Tasks
      /\ "waiting" \in Where /\ "queue" \in Where /\ "hand" \in Where /\ "gift" \in Where
  BY ZeroIsWorker, TasksAssumption DEF Inv, Hands, Types, Where
<1>1. CASE PopAssembly(w)
  <2>1. PICK x \in Tasks : /\ 1 \in 1 .. Len(assemblyQ[w]) /\ x = assemblyQ[w][1]
                           /\ st' = [st EXCEPT ![w] = x]
                           /\ \A u \in Worker : \A k \in 1 .. Len(assemblyQ'[u]) :
                                \E l \in 1 .. Len(assemblyQ[u]) :
                                  assemblyQ'[u][k] = assemblyQ[u][l]
    BY <1>0, <1>1, PopFacts
  <2>2. /\ pc[w] = "loop" /\ pc' = [pc EXCEPT ![w] = "spin"]
        /\ UNCHANGED <<unpushed, refcount, readyQ, gift, ran, completed>>
    BY <1>1 DEF PopAssembly
  <2>3. \A t \in Tasks : Launched(t)' => Launched(t)
    BY <1>0, <2>1, <2>2 DEF Launched
  <2>4. \A t \in Tasks, a \in Where, u \in Worker, k \in Nat :
          At(t, a, u, k)' => At(t, a, u, k)
    BY <1>0, <2>1, <2>2, <2>3 DEF At, Where
  <2> QED
    BY <1>0, <2>4, Stay
<1>2. CASE FindNoAssembly(w)
  <2>1. \A t \in Tasks : Launched(t)' => Launched(t)
    BY <1>0, <1>2 DEF FindNoAssembly, Launched
  <2>2. \A t \in Tasks, a \in Where, u \in Worker, k \in Nat :
          At(t, a, u, k)' => At(t, a, u, k)
    BY <1>0, <1>2, <2>1 DEF FindNoAssembly, At, Where
  <2> QED
    BY <1>0, <2>2, Stay
<1>3. ASSUME NEW v \in Worker, TakeFrom(w, v), pc[w] \in {"ready", "steal"} PROVE OnePlace'
  <2>1. PICK x \in Tasks :
           /\ Len(readyQ[v]) \in Nat \ {0} /\ x = readyQ[v][Len(readyQ[v])]
           /\ st' = [st EXCEPT ![w] = x]
           /\ \A u \in Worker : \A k \in 1 .. Len(readyQ'[u]) :
                /\ k \in 1 .. Len(readyQ[u]) /\ readyQ'[u][k] = readyQ[u][k]
                /\ u = v => k # Len(readyQ[v])
    BY <1>0, <1>3, TakeFacts
  <2>2. /\ pc' = [pc EXCEPT ![w] = "have"]
        /\ UNCHANGED <<unpushed, refcount, gift, assemblyQ, ran, completed>>
    BY <1>3 DEF TakeFrom
  <2>3. \A t \in Tasks : Launched(t)' => Launched(t)
    BY <1>0, <1>3, <2>1, <2>2 DEF Launched
  <2>4. ASSUME NEW t \in Tasks, NEW a \in Where, NEW u \in Worker, NEW k \in Nat,
               At(t, a, u, k)'
        PROVE  \/ At(t, a, u, k) /\ ~ (t = x /\ a = "queue" /\ u = v /\ k = Len(readyQ[v]))
               \/ t = x /\ a = "hand" /\ u = w /\ k = 0
    BY <1>0, <2>1, <2>2, <2>3, <2>4 DEF At, Where
  <2>5. At(x, "queue", v, Len(readyQ[v]))
    BY <2>1 DEF At
  <2>6. Moves(x, "queue", v, Len(readyQ[v]), "hand", w, 0)
    BY <2>4, <2>5 DEF Moves
  <2> QED
    BY <1>0, <2>1, <2>6, Moved
<1>4. CASE FindNoReady(w)
  <2>1. \A t \in Tasks : Launched(t)' => Launched(t)
    BY <1>0, <1>4 DEF FindNoReady, Launched
  <2>2. \A t \in Tasks, a \in Where, u \in Worker, k \in Nat :
          At(t, a, u, k)' => At(t, a, u, k)
    BY <1>0, <1>4, <2>1 DEF FindNoReady, At, Where
  <2> QED
    BY <1>0, <2>2, Stay
<1>5. CASE GiveUp(w)
  <2>1. \A t \in Tasks : Launched(t)' => Launched(t)
    BY <1>0, <1>5 DEF GiveUp, Launched
  <2>2. \A t \in Tasks, a \in Where, u \in Worker, k \in Nat :
          At(t, a, u, k)' => At(t, a, u, k)
    BY <1>0, <1>5, <2>1 DEF GiveUp, At, Where
  <2> QED
    BY <1>0, <2>2, Stay
<1>6. CASE Distribute(w)
  <2>1. st[w] \in Tasks /\ place[st[w]] \in [leader : Nat, width : Nat]
    BY <1>0, <1>6 DEF Distribute, HandOf, Types
  <2>2. \A u \in Worker : \A k \in 1 .. Len(assemblyQ'[u]) :
          \/ assemblyQ'[u][k] = st[w]
          \/ k \in 1 .. Len(assemblyQ[u]) /\ assemblyQ'[u][k] = assemblyQ[u][k]
    BY <1>0, <1>6, <2>1, InsertedType DEF Distribute
  <2>3. \A t \in Tasks \ {st[w]} : Launched(t)' => Launched(t)
    BY <1>0, <1>6, <2>2 DEF Distribute, Launched
  <2>4. ASSUME NEW t \in Tasks, NEW a \in Where, NEW u \in Worker, NEW k \in Nat,
               At(t, a, u, k)'
        PROVE  \/ At(t, a, u, k) /\ ~ (t = st[w] /\ a = "hand" /\ u = w /\ k = 0)
               \/ t = st[w] /\ a = "launched" /\ u = 0 /\ k = 0
    BY <1>0, <1>6, <2>1, <2>3, <2>4 DEF Distribute, At, Where
  <2>5. At(st[w], "hand", w, 0)
    BY <1>6 DEF Distribute, At
  <2>6. Moves(st[w], "hand", w, 0, "launched", 0, 0)
    BY <2>4, <2>5 DEF Moves
  <2> QED
    BY <1>0, <2>1, <2>6, Moved
<1>7. CASE BeginSimple(w)
  <2>1. \A t \in Tasks : Launched(t)' => Launched(t)
    BY <1>0, <1>7 DEF BeginSimple, Launched
  <2>2. \A t \in Tasks, a \in Where, u \in Worker, k \in Nat :
          At(t, a, u, k)' => At(t, a, u, k)
    BY <1>0, <1>7, <2>1 DEF BeginSimple, At, Where
  <2> QED
    BY <1>0, <2>2, Stay
<1>8. CASE EndSimple(w)
  <2>1. st[w] \in Tasks
    BY <1>0, <1>8 DEF EndSimple, HandOf
  <2>3. \A t \in Tasks \ {st[w]} : Launched(t)' => Launched(t)
    BY <1>0, <1>8, <2>1 DEF EndSimple, Launched, Types
  <2>4. ASSUME NEW t \in Tasks, NEW a \in Where, NEW u \in Worker, NEW k \in Nat,
               At(t, a, u, k)'
        PROVE  \/ At(t, a, u, k) /\ ~ (t = st[w] /\ a = "hand" /\ u = w /\ k = 0)
               \/ t = st[w] /\ a = "launched" /\ u = 0 /\ k = 0
    BY <1>0, <1>8, <2>1, <2>3, <2>4 DEF EndSimple, At, Where
  <2>5. At(st[w], "hand", w, 0)
    BY <1>8 DEF EndSimple, At
  <2>6. Moves(st[w], "hand", w, 0, "launched", 0, 0)
    BY <2>4, <2>5 DEF Moves
  <2> QED
    BY <1>0, <2>1, <2>6, Moved
<1>9. CASE BeginAssembly(w)
  <2>1. \A t \in Tasks : Launched(t)' => Launched(t)
    BY <1>0, <1>9 DEF BeginAssembly, Launched
  <2>2. \A t \in Tasks, a \in Where, u \in Worker, k \in Nat :
          At(t, a, u, k)' => At(t, a, u, k)
    BY <1>0, <1>9, <2>1 DEF BeginAssembly, At, Where
  <2> QED
    BY <1>0, <2>2, Stay
<1>10. CASE EndAssembly(w)
  <2>1. st[w] \in Tasks /\ pc[w] = "execute" /\ Launched(st[w])
    BY <1>0, <1>10 DEF EndAssembly, HandOf, Launched
  <2>2. ran' = [ran EXCEPT ![st[w]] = Append(@, w)] /\ UNCHANGED <<completed, assemblyQ>>
    BY <1>10 DEF EndAssembly
  <2>3. \A u \in Worker \ {w} : st'[u] = st[u] /\ pc'[u] = pc[u]
    BY <1>0, <1>10 DEF EndAssembly
  <2>4. st'[w] \in {st[w], NoTask}
    BY <1>0, <1>10 DEF EndAssembly
  <2>5. \A t \in Tasks : Launched(t)' => Launched(t)
    BY <1>0, <2>1, <2>2, <2>3, <2>4 DEF Launched, Types
  <2>6. pc'[w] \in {"wake", "loop"} /\ UNCHANGED <<unpushed, refcount, readyQ, gift>>
    BY <1>0, <1>10 DEF EndAssembly
  <2>7. \A t \in Tasks, a \in Where, u \in Worker, k \in Nat :
          At(t, a, u, k)' => At(t, a, u, k)
    BY <1>0, <2>3, <2>5, <2>6 DEF At, Where
  <2> QED
    BY <1>0, <2>7, Stay
<1>11. ASSUME NEW s \in Tasks, Release(w, s) PROVE OnePlace'
  <2>1. refcount[s] \in Nat \ {0}
    BY <1>11, ReleasePositive
  <2>2. /\ pc[w] = "wake" /\ refcount' = [refcount EXCEPT ![s] = @ - 1]
        /\ UNCHANGED <<unpushed, readyQ, assemblyQ, st, ran, completed>>
    BY <1>11 DEF Release, Visit
  <2>3. CASE refcount[s] = 1
    <3>1. gift' = [gift EXCEPT ![w] = s] /\ pc' = [pc EXCEPT ![w] = "give"]
      BY <1>11, <2>3 DEF Release, Visit
    <3>2. \A t \in Tasks : Launched(t)' => Launched(t)
      BY <1>0, <2>2, <3>1 DEF Launched
    <3>3. \A t \in Tasks \ {s} : refcount'[t] = refcount[t]
      BY <1>0, <2>2 DEF Types
    <3>4. refcount'[s] = 0
      BY <1>0, <2>2, <2>3 DEF Types
    <3>5. ASSUME NEW t \in Tasks, NEW a \in Where, NEW u \in Worker, NEW k \in Nat,
                 At(t, a, u, k)'
          PROVE  \/ At(t, a, u, k) /\ ~ (t = s /\ a = "waiting" /\ u = 0 /\ k = 0)
                 \/ t = s /\ a = "gift" /\ u = w /\ k = 0
      BY <1>0, <2>2, <3>1, <3>2, <3>3, <3>4, <3>5 DEF At, Where
    <3>6. At(s, "waiting", 0, 0)
      BY <2>1 DEF At
    <3>7. Moves(s, "waiting", 0, 0, "gift", w, 0)
      BY <3>5, <3>6 DEF Moves
    <3> QED
      BY <1>0, <3>7, Moved
  <2>4. CASE refcount[s] # 1
    <3>1. UNCHANGED <<gift, pc>>
      BY <1>11, <2>4 DEF Release, Visit
    <3>2. \A t \in Tasks : refcount'[t] # 0 => refcount[t] # 0
      BY <1>0, <2>1, <2>2 DEF Types
    <3>3. \A t \in Tasks : Launched(t)' => Launched(t)
      BY <2>2, <3>1 DEF Launched
    <3>4. \A t \in Tasks, a \in Where, u \in Worker, k \in Nat :
            At(t, a, u, k)' => At(t, a, u, k)
      BY <1>0, <2>2, <3>1, <3>2, <3>3 DEF At, Where
    <3> QED
      BY <1>0, <3>4, Stay
  <2> QED
    BY <2>3, <2>4
<1>12. CASE GiveReady(w)
  <2> DEFINE x == gift[w]
             q == IF Affinity[x] = NoAffinity THEN w ELSE Affinity[x]
  <2>1. x \in Tasks
    BY <1>0, <1>12 DEF GiveReady, HandOf
  <2>2. q \in Worker
    BY <2>1, AffinityAssumption
  <2>3. /\ readyQ' = [readyQ EXCEPT ![q] = Append(readyQ[q], x)]
        /\ gift' = [gift EXCEPT ![w] = NoTask] /\ pc[w] = "give"
        /\ pc' = [pc EXCEPT ![w] = "wake"]
        /\ UNCHANGED <<unpushed, refcount, assemblyQ, st, ran, completed>>
    BY <1>12 DEF GiveReady
  <2> HIDE DEF x, q
  <2>4. \A u \in Worker : \A k \in 1 .. Len(readyQ'[u]) :
          \/ u = q /\ k = Len(readyQ[q]) + 1 /\ readyQ'[u][k] = x
          \/ k \in 1 .. Len(readyQ[u]) /\ readyQ'[u][k] = readyQ[u][k]
    BY <1>0, <2>1, <2>2, <2>3, AppendedReady
  <2>5. \A t \in Tasks : Launched(t)' => Launched(t)
    BY <1>0, <2>3 DEF Launched
  <2>6. ASSUME NEW t \in Tasks, NEW a \in Where, NEW u \in Worker, NEW k \in Nat,
               At(t, a, u, k)'
        PROVE  \/ At(t, a, u, k) /\ ~ (t = x /\ a = "gift" /\ u = w /\ k = 0)
               \/ t = x /\ a = "queue" /\ u = q /\ k = Len(readyQ[q]) + 1
    BY <1>0, <2>1, <2>3, <2>4, <2>5, <2>6 DEF At, Where
  <2>7. At(x, "gift", w, 0)
    BY DEF At, x
  <2>8. Moves(x, "gift", w, 0, "queue", q, Len(readyQ[q]) + 1)
    BY <2>6, <2>7 DEF Moves
  <2> QED
    BY <1>0, <2>1, <2>8, Moved
<1>13. CASE GiveCritical(w)
  <2>1. gift[w] \in Tasks
    BY <1>0, <1>13 DEF GiveCritical, HandOf
  <2>2. \A u \in Worker : \A k \in 1 .. Len(assemblyQ'[u]) :
          \/ assemblyQ'[u][k] = gift[w]
          \/ k \in 1 .. Len(assemblyQ[u]) /\ assemblyQ'[u][k] = assemblyQ[u][k]
    <3>1. PICK p \in Places : assemblyQ' = Inserted(gift[w], p)
      BY <1>13 DEF GiveCritical
    <3>2. p \in [leader : Nat, width : Nat]
      BY PlaceType
    <3>3. \A u \in Worker : \A k \in 1 .. Len(Inserted(gift[w], p)[u]) :
            \/ Inserted(gift[w], p)[u][k] = gift[w]
            \/ /\ k \in 1 .. Len(assemblyQ[u])
               /\ Inserted(gift[w], p)[u][k] = assemblyQ[u][k]
      BY <1>0, <2>1, <3>2, InsertedType
    <3> QED
      BY <3>1, <3>3
  <2>3. \A t \in Tasks \ {gift[w]} : Launched(t)' => Launched(t)
    BY <1>0, <1>13, <2>2 DEF GiveCritical, Launched
  <2>4. ASSUME NEW t \in Tasks, NEW a \in Where, NEW u \in Worker, NEW k \in Nat,
               At(t, a, u, k)'
        PROVE  \/ At(t, a, u, k) /\ ~ (t = gift[w] /\ a = "gift" /\ u = w /\ k = 0)
               \/ t = gift[w] /\ a = "launched" /\ u = 0 /\ k = 0
    BY <1>0, <1>13, <2>1, <2>3, <2>4 DEF GiveCritical, At, Where
  <2>5. At(gift[w], "gift", w, 0)
    BY <1>13 DEF GiveCritical, At
  <2>6. Moves(gift[w], "gift", w, 0, "launched", 0, 0)
    BY <2>4, <2>5 DEF Moves
  <2> QED
    BY <1>0, <2>1, <2>6, Moved
<1>14. CASE Complete(w)
  <2>1. \A t \in Tasks : Launched(t)' => Launched(t)
    BY <1>0, <1>14 DEF Complete, Launched
  <2>2. \A t \in Tasks, a \in Where, u \in Worker, k \in Nat :
          At(t, a, u, k)' => At(t, a, u, k)
    BY <1>0, <1>14, <2>1 DEF Complete, At, Where
  <2> QED
    BY <1>0, <2>2, Stay
<1> QED
  BY <1>1, <1>2, <1>3, <1>4, <1>5, <1>6, <1>7, <1>8, <1>9, <1>10, <1>11, <1>12,
     <1>13, <1>14, StealAssumption DEF Step, Search, Run, Wakeup, TakeOwn, Steal

-----------------------------------------------------------------------------
(* What has run.                                                             *)

(* Until a task is launched nobody has run it, and it waits for nobody. *)
LEMMA NotYetLaunched ==
  ASSUME Inv, NEW t \in Tasks, NEW a \in {"program", "queue", "hand", "gift"},
         NEW w \in Worker, NEW k \in Nat, At(t, a, w, k)
  PROVE  refcount[t] = 0 /\ ~ Launched(t) /\ ran[t] = <<>> /\ t \notin Finished
<1>1. 0 \in Worker /\ "waiting" \in Where /\ "launched" \in Where /\ a \in Where
  BY ZeroIsWorker DEF Where
<1>2. a # "waiting" /\ a # "launched" /\ OnePlace
  BY DEF Inv
<1>3. ~ At(t, "waiting", 0, 0) /\ ~ At(t, "launched", 0, 0)
  BY <1>1, <1>2 DEF OnePlace
<1>4. refcount[t] = 0 /\ ~ Launched(t)
  BY <1>3 DEF At
<1>5. ran[t] = <<>>
  BY <1>4 DEF Launched
<1>6. Len(ran[t]) = 0
  BY <1>5
<1> QED
  BY <1>4, <1>5, <1>6 DEF Finished

(* A launched task waits for nobody. *)
LEMMA LaunchedIsReady ==
  ASSUME Inv, NEW t \in Tasks, Launched(t) PROVE refcount[t] = 0
<1>1. 0 \in Worker /\ "waiting" \in Where /\ "launched" \in Where /\ OnePlace
  BY ZeroIsWorker DEF Where, Inv
<1>2. At(t, "launched", 0, 0) /\ "waiting" # "launched"
  BY DEF At
<1>3. ~ At(t, "waiting", 0, 0)
  BY <1>1, <1>2 DEF OnePlace
<1> QED
  BY <1>3 DEF At

(* When the refcount is zero, all predecessors have ended on all workers. *)
LEMMA ReadyAfterPreds ==
  ASSUME Inv, NEW t \in Tasks, refcount[t] = 0 PROVE Preds(t) \subseteq Finished
<1> DEFINE S == {u \in Preds(t) : Unreleased(u, t)}
<1>1. S \subseteq Tasks /\ IsFiniteSet(Tasks)
  BY TasksAssumption DEF Preds
<1>2. IsFiniteSet(S)
  BY <1>1, FS_Subset
<1>3. Cardinality(S) = 0
  BY DEF Inv, RefcountExact
<1>4. S = {}
  BY <1>2, <1>3, FS_EmptySet
<1>5. ASSUME NEW u \in Preds(t) PROVE u \in Finished
  <2>1. ~ Unreleased(u, t)
    BY <1>4
  <2>2. u \in completed \/ \E w \in Worker : st[w] = u /\ pc[w] \in {"wake", "give"}
    BY <2>1 DEF Unreleased
  <2> QED
    BY <2>2 DEF Inv, Commits, Committing
<1> QED
  BY <1>5

(* A new place for a task that has not run changes nothing. *)
LEMMA PlaceChanges ==
  ASSUME Inv, NEW x \in Tasks, ran[x] = <<>>, ran' = ran,
         \A t \in Tasks \ {x} : place'[t] = place[t]
  PROVE  Finished' = Finished
<1>1. Len(ran[x]) = 0
  OBVIOUS
<1> QED
  BY <1>1 DEF Finished, Size

(* One more worker has run x. *)
LEMMA RunAdded ==
  ASSUME Inv, NEW w \in Worker, NEW x \in Tasks, ran' = [ran EXCEPT ![x] = Append(@, w)],
         place' = place
  PROVE  /\ Finished \subseteq Finished' /\ Finished' \subseteq Finished \union {x}
         /\ Len(ran'[x]) = Len(ran[x]) + 1 /\ Len(ran[x]) \in Nat
         /\ \A t \in Tasks \ {x} : ran'[t] = ran[t]
<1>1. ran \in [Tasks -> Seq(Worker)] /\ place \in [Tasks -> [leader : Nat, width : Nat]]
  BY DEF Inv, Types
<1>2. \A t \in Tasks \ {x} : ran'[t] = ran[t]
  BY <1>1
<1>3. ran'[x] = Append(ran[x], w) /\ ran[x] \in Seq(Worker)
  BY <1>1
<1>4. Len(ran'[x]) = Len(ran[x]) + 1 /\ Len(ran[x]) \in Nat
  BY <1>3, AppendProperties, LenProperties
<1>5. Size(x)' = Size(x) /\ Size(x) \in Nat
  BY <1>1 DEF Size
<1>6. \A t \in Tasks : Size(t)' = Size(t)
  BY DEF Size
<1>7. Finished \subseteq Finished'
  BY <1>2, <1>4, <1>5, <1>6 DEF Finished
<1>8. Finished' \subseteq Finished \union {x}
  BY <1>2, <1>6 DEF Finished
<1> QED
  BY <1>2, <1>4, <1>7, <1>8

(* the steps by which a worker ends its part of a task *)
Ends(w) == EndSimple(w) \/ EndAssembly(w)

(* No other step changes what has run. *)
LEMMA StepFinished ==
  ASSUME Inv, NEW w \in Worker, Step(w), ~ Ends(w)
  PROVE  Finished' = Finished /\ UNCHANGED <<ran, threadsOut>>
<1> USE DEF gangVars, wakeVars, histVars
<1>0. Types /\ HandOf(w)
  BY DEF Inv, Hands
<1>1. ASSUME NEW v \in Worker, TakeFrom(w, v) PROVE Finished' = Finished
  <2>1. PICK x \in Tasks :
           /\ Len(readyQ[v]) \in Nat \ {0} /\ x = readyQ[v][Len(readyQ[v])]
           /\ \A t \in Tasks \ {x} : place'[t] = place[t]
    BY <1>0, <1>1, TakeFacts
  <2>2. At(x, "queue", v, Len(readyQ[v])) /\ Len(readyQ[v]) \in Nat
    BY <2>1 DEF At
  <2>3. ran[x] = <<>>
    BY <2>2, NotYetLaunched
  <2>4. ran' = ran
    BY <1>1 DEF TakeFrom
  <2> QED
    BY <2>1, <2>3, <2>4, PlaceChanges
<1>2. CASE GiveCritical(w)
  <2>1. gift[w] \in Tasks
    BY <1>0, <1>2 DEF GiveCritical, HandOf
  <2>2. At(gift[w], "gift", w, 0)
    BY DEF At
  <2>3. ran[gift[w]] = <<>>
    BY <2>1, <2>2, NotYetLaunched
  <2>4. ran' = ran /\ \A t \in Tasks \ {gift[w]} : place'[t] = place[t]
    BY <1>0, <1>2 DEF GiveCritical, Types
  <2> QED
    BY <1>2, <2>1, <2>3, <2>4, PlaceChanges DEF GiveCritical
<1>3. ran' = ran /\ place' = place => Finished' = Finished
  BY DEF Finished, Size
<1>4. UNCHANGED <<ran, threadsOut>>
  BY DEF Step, Search, Run, Wakeup, Ends, PopAssembly, FindNoAssembly, TakeOwn, Steal,
     TakeFrom, FindNoReady, GiveUp, Distribute, BeginSimple, BeginAssembly, Release,
     Visit, GiveReady, GiveCritical, Complete
<1>5. \/ place' = place \/ GiveCritical(w) \/ \E v \in Worker : TakeFrom(w, v)
  BY StealAssumption
  DEF Step, Search, Run, Wakeup, Ends, PopAssembly, FindNoAssembly, TakeOwn, Steal,
     FindNoReady, GiveUp, Distribute, BeginSimple, BeginAssembly, Release,
     Visit, GiveReady, Complete
<1> QED
  BY <1>1, <1>2, <1>3, <1>4, <1>5

-----------------------------------------------------------------------------
(* Refcounts and commits.                                                    *)

(* Nobody releases an edge. *)
LEMMA SameReleases ==
  ASSUME RefcountExact, UNCHANGED refcount,
         \A u, t \in Tasks : t \in Succ[u] => (Unreleased(u, t)' <=> Unreleased(u, t))
  PROVE  RefcountExact'
<1>1. ASSUME NEW t \in Tasks
      PROVE  {u \in Preds(t) : Unreleased(u, t)'} = {u \in Preds(t) : Unreleased(u, t)}
  BY DEF Preds
<1> QED
  BY <1>1 DEF RefcountExact

(* No commit begins or goes on. *)
LEMMA QuietCommit ==
  ASSUME Inv, UNCHANGED <<refcount, completed>>, Finished \subseteq Finished',
         \A u \in Worker : /\ Committing(u)' <=> Committing(u)
                           /\ Committing(u) => st'[u] = st[u] /\ todo'[u] = todo[u]
  PROVE  RefcountExact' /\ Commits'
<1>0. \A v \in Worker : /\ pc'[v] \in {"wake", "give"} <=> pc[v] \in {"wake", "give"}
                        /\ pc[v] \in {"wake", "give"} => st'[v] = st[v] /\ todo'[v] = todo[v]
  BY DEF Committing
<1>1. ASSUME NEW u \in Tasks, NEW t \in Tasks PROVE Unreleased(u, t)' <=> Unreleased(u, t)
  BY <1>0 DEF Unreleased
<1>2. RefcountExact /\ refcount' = refcount
  BY DEF Inv
<1>4. RefcountExact'
  BY <1>1, <1>2, SameReleases
<1>3. Commits'
  BY DEF Inv, Commits
<1> QED
  BY <1>3, <1>4

(* Worker w begins the commit of a task that nobody has committed. *)
LEMMA NewCommit ==
  ASSUME Inv, NEW w \in Worker, UNCHANGED <<refcount, completed>>,
         Finished \subseteq Finished', ~ Committing(w),
         st[w] \in Tasks, st[w] \in Finished', st[w] \notin Finished,
         st' = st, pc'[w] = "wake", todo'[w] = Succ[st[w]],
         \A u \in Worker \ {w} : pc'[u] = pc[u] /\ todo'[u] = todo[u]
  PROVE  RefcountExact' /\ Commits'
<1>1. st[w] \notin completed /\ \A u \in Worker : Committing(u) => st[u] # st[w]
  BY DEF Inv, Commits
<1>2. ASSUME NEW u \in Tasks, NEW t \in Tasks, t \in Succ[u]
      PROVE  Unreleased(u, t)' <=> Unreleased(u, t)
  BY <1>1, <1>2 DEF Unreleased, Committing
<1>3. RefcountExact'
  BY <1>2, SameReleases DEF Inv
<1>4. \A u \in Worker : Committing(u)' <=> u = w \/ Committing(u)
  BY DEF Committing
<1>5. Commits'
  BY <1>1, <1>4 DEF Inv, Commits
<1> QED
  BY <1>3, <1>5

(* A commit releases one edge: exactly one predecessor less is counted. *)
LEMMA ReleaseCommit ==
  ASSUME Inv, NEW w \in Worker, NEW s \in Tasks, Release(w, s)
  PROVE  RefcountExact' /\ Commits'
<1>0. PICK x \in Tasks : x = st[w]
  BY DEF Inv, Hands, HandOf, Release, Visit
<1>1. /\ pc[w] = "wake" /\ s \in todo[w] /\ todo' = [todo EXCEPT ![w] = @ \ {s}]
      /\ refcount' = [refcount EXCEPT ![s] = @ - 1]
      /\ UNCHANGED <<st, completed, ran, place>>
  BY DEF Release, Visit, queueVars, gangVars, histVars
<1>2. pc'[w] \in {"wake", "give"} /\ \A u \in Worker \ {w} : pc'[u] = pc[u]
  BY <1>1 DEF Release, Visit, Goto, Inv, Types
<1>3. \A u \in Worker : Committing(u)' <=> Committing(u)
  BY <1>1, <1>2 DEF Committing
<1>4. Finished' = Finished
  BY <1>1 DEF Finished, Size
<1>5. Commits'
  BY <1>1, <1>3, <1>4 DEF Inv, Commits
<1>6. /\ s \in Succ[x] /\ x \notin completed
      /\ \A v \in Worker : st[v] = x /\ pc[v] \in {"wake", "give"} => v = w
  BY <1>0, <1>1 DEF Inv, Hands, HandOf, Commits, Committing
<1>7. todo'[w] = todo[w] \ {s} /\ \A u \in Worker \ {w} : todo'[u] = todo[u]
  BY <1>1 DEF Inv, Types
<1>8. Unreleased(x, s) /\ ~ Unreleased(x, s)'
  BY <1>0, <1>1, <1>2, <1>6, <1>7 DEF Unreleased
<1>9. \A u, t \in Tasks : u # x \/ t # s => (Unreleased(u, t)' <=> Unreleased(u, t))
  BY <1>0, <1>1, <1>2, <1>3, <1>7 DEF Unreleased, Committing
<1>10. ASSUME NEW t \in Tasks
       PROVE  refcount'[t] = Cardinality({u \in Preds(t) : Unreleased(u, t)'})
  <2> DEFINE S == {u \in Preds(t) : Unreleased(u, t)}
             R == {u \in Preds(t) : Unreleased(u, t)'}
  <2>1. refcount[t] = Cardinality(S)
    BY DEF Inv, RefcountExact
  <2>2. CASE t = s
    <3>0. x \in Preds(t)
      BY <1>6, <2>2 DEF Preds
    <3>8. x \in S /\ x \notin R
      BY <1>8, <2>2, <3>0 DEF Unreleased
    <3>9. ASSUME NEW u \in Preds(t), u # x PROVE u \in R <=> u \in S
      <4>1. u \in Tasks /\ t \in Tasks
        BY DEF Preds
      <4>2. Unreleased(u, t)' <=> Unreleased(u, t)
        BY <1>9, <3>9, <4>1
      <4> QED
        BY <4>2
    <3>1. R = S \ {x} /\ x \in S
      BY <3>8, <3>9
    <3>2. S \subseteq Tasks /\ IsFiniteSet(Tasks)
      BY TasksAssumption DEF Preds
    <3>3. IsFiniteSet(S)
      BY <3>2, FS_Subset
    <3>4. Cardinality(R) = Cardinality(S) - 1
      BY <3>1, <3>3, FS_RemoveElement
    <3>5. refcount'[t] = refcount[t] - 1
      BY <1>1, <2>2 DEF Inv, Types
    <3> QED
      BY <2>1, <3>4, <3>5
  <2>3. CASE t # s
    <3>1. R = S
      BY <1>9, <2>3 DEF Preds
    <3>2. refcount'[t] = refcount[t]
      BY <1>1, <2>3 DEF Inv, Types
    <3> QED
      BY <2>1, <3>1, <3>2
  <2> QED
    BY <2>2, <2>3
<1>11. RefcountExact'
  BY <1>10 DEF RefcountExact
<1> QED
  BY <1>5, <1>11

(* A commit ends when all its edges are released. *)
LEMMA CompleteCommit ==
  ASSUME Inv, NEW w \in Worker, Complete(w) PROVE RefcountExact' /\ Commits'
<1>1. /\ pc[w] = "wake" /\ todo[w] = {} /\ completed' = completed \union {st[w]}
      /\ UNCHANGED <<refcount, ran, place, todo>>
      /\ pc'[w] = "loop" /\ \A u \in Worker \ {w} : pc'[u] = pc[u] /\ st'[u] = st[u]
  BY DEF Complete, Goto, Inv, Types, wakeVars, histVars
<1>2. /\ st[w] \in Finished
      /\ \A u \in Worker \ {w} : Committing(u) => st[u] # st[w]
  BY <1>1 DEF Inv, Commits, Committing
<1>3. \A u \in Worker : Committing(u)' <=> Committing(u) /\ u # w
  BY <1>1 DEF Committing
<1>4. Finished' = Finished
  BY <1>1 DEF Finished, Size
<1>5. Commits'
  BY <1>1, <1>2, <1>3, <1>4 DEF Inv, Commits
<1>6. ASSUME NEW u \in Tasks, NEW t \in Tasks
      PROVE  Unreleased(u, t)' <=> Unreleased(u, t)
  <2>1. CASE u = st[w]
    BY <1>1, <2>1 DEF Unreleased
  <2>2. CASE u # st[w]
    BY <1>1, <1>3, <2>2 DEF Unreleased, Committing
  <2> QED
    BY <2>1, <2>2
<1>7. RefcountExact'
  BY <1>1, <1>6, SameReleases DEF Inv
<1> QED
  BY <1>5, <1>7

(* What the end of a part changes. *)
LEMMA EndFacts ==
  ASSUME Inv, NEW w \in Worker, Ends(w)
  PROVE  /\ st[w] \in Tasks /\ ~ Committing(w)
         /\ pc[w] \in {"simple", "execute"}
         /\ Finished \subseteq Finished' /\ Finished' \subseteq Finished \union {st[w]}
         /\ Len(ran'[st[w]]) = Len(ran[st[w]]) + 1 /\ Len(ran[st[w]]) \in Nat
         /\ \A t \in Tasks \ {st[w]} : ran'[t] = ran[t]
         /\ UNCHANGED <<refcount, place, begun, completed>>
<1>1. /\ pc[w] \in {"simple", "execute"} /\ ran' = [ran EXCEPT ![st[w]] = Append(@, w)]
      /\ UNCHANGED <<refcount, place, begun, completed>>
  BY DEF Ends, EndSimple, EndAssembly
<1>2. st[w] \in Tasks /\ ~ Committing(w)
  BY <1>1 DEF Inv, Hands, HandOf, Committing
<1> QED
  BY <1>1, <1>2, RunAdded

(* The last part of a task begins its commit, no other does. *)
LEMMA EndCommit ==
  ASSUME Inv, NEW w \in Worker, Ends(w) PROVE RefcountExact' /\ Commits'
<1> DEFINE x == st[w]
<1>0. /\ x \in Tasks /\ ~ Committing(w) /\ Finished \subseteq Finished'
      /\ Len(ran'[x]) = Len(ran[x]) + 1 /\ Len(ran[x]) \in Nat
      /\ UNCHANGED <<refcount, place, completed>>
  BY EndFacts
<1>1. CASE EndSimple(w)
  <2>1. At(x, "hand", w, 0)
    BY <1>1 DEF EndSimple, At
  <2>2. x \notin Finished
    BY <1>0, <2>1, NotYetLaunched
  <2>3. x \in Simple
    BY <1>1 DEF EndSimple, Inv, Hands, HandOf
  <2>4. x \in Finished'
    BY <1>0, <2>3 DEF Finished, Size
  <2>5. /\ st' = st /\ pc'[w] = "wake" /\ todo'[w] = Succ[st[w]]
        /\ \A u \in Worker \ {w} : pc'[u] = pc[u] /\ todo'[u] = todo[u]
    BY <1>1 DEF EndSimple, Goto, Inv, Types
  <2> QED
    BY <1>0, <2>2, <2>4, <2>5, NewCommit
<1>2. CASE EndAssembly(w)
  <2>1. x \notin Simple /\ Len(ran[x]) = threadsOut[x] /\ place[x].width \in Nat
    BY <1>0, <1>2 DEF EndAssembly, Inv, Hands, HandOf, RanIsOut, Types
  <2>2. CASE threadsOut[x] + 1 = place[x].width
    <3>1. x \in Finished' /\ x \notin Finished
      BY <1>0, <2>1, <2>2 DEF Finished, Size
    <3>2. /\ st' = st /\ pc'[w] = "wake" /\ todo'[w] = Succ[st[w]]
          /\ \A u \in Worker \ {w} : pc'[u] = pc[u] /\ todo'[u] = todo[u]
      BY <1>2, <2>2 DEF EndAssembly, Goto, Inv, Types
    <3> QED
      BY <1>0, <3>1, <3>2, NewCommit
  <2>3. CASE threadsOut[x] + 1 # place[x].width
    <3>1. /\ todo' = todo /\ pc'[w] = "loop"
          /\ \A u \in Worker \ {w} : pc'[u] = pc[u] /\ st'[u] = st[u]
      BY <1>2, <2>3 DEF EndAssembly, Goto, Inv, Types
    <3>2. \A u \in Worker : /\ Committing(u)' <=> Committing(u)
                            /\ Committing(u) => st'[u] = st[u] /\ todo'[u] = todo[u]
      BY <1>0, <3>1 DEF Committing
    <3> QED
      BY <1>0, <3>2, QuietCommit
  <2> QED
    BY <2>2, <2>3
<1> QED
  BY <1>1, <1>2 DEF Ends

(* A step of a worker keeps refcounts and commits. *)
LEMMA StepCommit ==
  ASSUME Inv, NEW w \in Worker, Step(w) PROVE RefcountExact' /\ Commits'
<1> USE DEF Goto, queueVars, gangVars, wakeVars, histVars
<1>0. /\ pc \in [Worker -> Label] /\ st \in [Worker -> Tasks \union {NoTask}]
      /\ todo \in [Worker -> SUBSET Tasks]
  BY DEF Inv, Types
<1>1. CASE Ends(w)
  BY <1>1, EndCommit
<1>2. CASE Complete(w)
  BY <1>2, CompleteCommit
<1>3. ASSUME NEW s \in Tasks, Release(w, s) PROVE RefcountExact' /\ Commits'
  BY <1>3, ReleaseCommit
<1>4. CASE GiveReady(w) \/ GiveCritical(w)
  <2>1. /\ UNCHANGED <<refcount, completed, st, todo>> /\ pc[w] = "give" /\ ~ Ends(w)
        /\ pc' = [pc EXCEPT ![w] = "wake"]
    BY <1>4 DEF GiveReady, GiveCritical, Ends, EndSimple, EndAssembly
  <2>2. Finished' = Finished
    BY <2>1, StepFinished
  <2>3. \A u \in Worker : Committing(u)' <=> Committing(u)
    BY <1>0, <2>1 DEF Committing
  <2> QED
    BY <2>1, <2>2, <2>3, QuietCommit
<1>5. CASE \/ Search(w) \/ Distribute(w) \/ BeginSimple(w) \/ BeginAssembly(w)
  <2>1. /\ UNCHANGED <<refcount, completed, todo>> /\ ~ Committing(w)
        /\ pc[w] \in {"loop", "ready", "steal", "have", "spin"}
    BY <1>5 DEF Search, TakeOwn, Steal, TakeFrom, PopAssembly, FindNoAssembly, FindNoReady,
       GiveUp, Distribute, BeginSimple, BeginAssembly, Committing
  <2>2. ~ Ends(w)
    BY <2>1 DEF Ends, EndSimple, EndAssembly
  <2>3. Finished' = Finished
    BY <2>2, StepFinished
  <2>4. PICK label \in {"spin", "ready", "have", "steal", "loop", "simple", "execute"} :
          pc' = [pc EXCEPT ![w] = label]
    BY <1>5 DEF Search, TakeOwn, Steal, TakeFrom, PopAssembly, FindNoAssembly, FindNoReady,
       GiveUp, Distribute, BeginSimple, BeginAssembly
  <2>5. \A u \in Worker \ {w} : st'[u] = st[u]
    BY <1>0, <1>5 DEF Search, TakeOwn, Steal, TakeFrom, PopAssembly, FindNoAssembly, FindNoReady,
       GiveUp, Distribute, BeginSimple, BeginAssembly
  <2>6. \A u \in Worker : /\ Committing(u)' <=> Committing(u)
                          /\ Committing(u) => st'[u] = st[u] /\ todo'[u] = todo[u]
    BY <1>0, <2>1, <2>4, <2>5 DEF Committing
  <2> QED
    BY <2>1, <2>3, <2>6, QuietCommit
<1> QED
  BY <1>1, <1>2, <1>3, <1>4, <1>5 DEF Step, Run, Wakeup, Ends

-----------------------------------------------------------------------------
(* The other parts of the invariant.                                         *)

(* Each member counts itself out when it has run. *)
LEMMA StepRanIsOut ==
  ASSUME Inv, NEW w \in Worker, Step(w) PROVE RanIsOut'
<1>0. RanIsOut /\ Types
  BY DEF Inv
<1>1. CASE ~ Ends(w)
  <2>1. UNCHANGED <<ran, threadsOut>>
    BY <1>1, StepFinished
  <2> QED
    BY <1>0, <2>1 DEF RanIsOut
<1>2. CASE EndSimple(w)
  <2>1. st[w] \in Simple /\ threadsOut' = threadsOut
    BY <1>2 DEF EndSimple, Inv, Hands, HandOf, gangVars
  <2>2. \A t \in Tasks \ {st[w]} : ran'[t] = ran[t]
    BY <1>2, EndFacts DEF Ends
  <2> QED
    BY <1>0, <2>1, <2>2 DEF RanIsOut
<1>3. CASE EndAssembly(w)
  <2>1. /\ st[w] \in Tasks /\ Len(ran'[st[w]]) = Len(ran[st[w]]) + 1
        /\ \A t \in Tasks \ {st[w]} : ran'[t] = ran[t]
    BY <1>3, EndFacts DEF Ends
  <2>2. threadsOut' = [threadsOut EXCEPT ![st[w]] = @ + 1]
    BY <1>3 DEF EndAssembly
  <2>3. /\ threadsOut'[st[w]] = threadsOut[st[w]] + 1
        /\ \A t \in Tasks \ {st[w]} : threadsOut'[t] = threadsOut[t]
    BY <1>0, <2>1, <2>2 DEF Types
  <2> QED
    BY <1>0, <2>1, <2>3 DEF RanIsOut
<1> QED
  BY <1>1, <1>2, <1>3 DEF Ends

(* the steps by which a worker begins to run a task *)
Begins(w) == BeginSimple(w) \/ BeginAssembly(w)

(* What begins waits for nobody. *)
LEMMA BeginFacts ==
  ASSUME Inv, NEW w \in Worker, Begins(w)
  PROVE  /\ st[w] \in Tasks /\ refcount[st[w]] = 0 /\ refcount' = refcount
         /\ begun' = begun \union {st[w]} /\ st' = st
         /\ \A u \in Worker \ {w} : pc'[u] = pc[u]
<1>1. /\ pc[w] \in {"have", "spin"} /\ refcount' = refcount
      /\ begun' = begun \union {st[w]} /\ st' = st
      /\ \A u \in Worker \ {w} : pc'[u] = pc[u]
  BY DEF Begins, BeginSimple, BeginAssembly, Goto, Inv, Types
<1>2. st[w] \in Tasks
  BY <1>1 DEF Inv, Hands, HandOf
<1>3. CASE pc[w] = "have"
  <2>1. At(st[w], "hand", w, 0)
    BY <1>3 DEF At
  <2> QED
    BY <1>1, <1>2, <2>1, NotYetLaunched
<1>4. CASE pc[w] = "spin"
  <2>1. Launched(st[w])
    BY <1>4 DEF Launched
  <2> QED
    BY <1>1, <1>2, <2>1, LaunchedIsReady
<1> QED
  BY <1>1, <1>3, <1>4

(* A step of a worker begins only what waits for nobody. *)
LEMMA StepBegun ==
  ASSUME Inv, NEW w \in Worker, Step(w) PROVE BegunIsReady'
<1>0. /\ BegunIsReady /\ Types
      /\ pc \in [Worker -> Label] /\ st \in [Worker -> Tasks \union {NoTask}]
  BY DEF Inv, Types
<1>1. CASE Begins(w)
  <2>1. ~ Ends(w)
    BY <1>1 DEF Begins, BeginSimple, BeginAssembly, Ends, EndSimple, EndAssembly
  <2>2. Finished' = Finished
    BY <2>1, StepFinished
  <2>3. /\ refcount[st[w]] = 0 /\ refcount' = refcount
        /\ begun' = begun \union {st[w]} /\ st' = st
        /\ \A u \in Worker \ {w} : pc'[u] = pc[u]
    BY <1>1, BeginFacts
  <2> QED
    BY <1>0, <2>2, <2>3 DEF BegunIsReady
<1>2. CASE Ends(w)
  <2>1. /\ st[w] \in begun /\ Finished' \subseteq Finished \union {st[w]}
        /\ begun' = begun /\ refcount' = refcount
    BY <1>0, <1>2, EndFacts DEF BegunIsReady
  <2>2. /\ pc'[w] \notin {"simple", "execute"}
        /\ \A u \in Worker \ {w} : pc'[u] = pc[u] /\ st'[u] = st[u]
    BY <1>0, <1>2 DEF Ends, EndSimple, EndAssembly, Goto
  <2> QED
    BY <1>0, <2>1, <2>2 DEF BegunIsReady
<1>3. CASE ~ Begins(w) /\ ~ Ends(w)
  <2>1. Finished' = Finished
    BY <1>3, StepFinished
  <2>2. begun' = begun
    BY <1>3 DEF Step, Search, Run, Wakeup, Begins, Ends, TakeOwn, Steal, TakeFrom,
       PopAssembly, FindNoAssembly, FindNoReady, GiveUp, Distribute, Release, Visit,
       GiveReady, GiveCritical, Complete, histVars
  <2>3. \A u \in Worker : pc'[u] \in {"simple", "execute"}
          => pc[u] \in {"simple", "execute"} /\ st'[u] = st[u]
    BY <1>0, <1>3 DEF Step, Search, Run, Wakeup, Begins, Ends, TakeOwn, Steal, TakeFrom,
       PopAssembly, FindNoAssembly, FindNoReady, GiveUp, Distribute, Release, Visit,
       GiveReady, GiveCritical, Complete, Goto
  <2>4. \A t \in Tasks : refcount[t] = 0 => refcount'[t] = 0
    <3>1. CASE refcount' = refcount
      BY <3>1
    <3>2. ASSUME NEW s \in Tasks, Release(w, s)
          PROVE  \A t \in Tasks : refcount[t] = 0 => refcount'[t] = 0
      <4>1. refcount[s] # 0
        BY <3>2, ReleasePositive
      <4>2. refcount' = [refcount EXCEPT ![s] = @ - 1]
        BY <3>2 DEF Release, Visit
      <4> QED
        BY <1>0, <4>1, <4>2 DEF Types
    <3>3. refcount' = refcount \/ \E s \in Tasks : Release(w, s)
      BY <1>3 DEF Step, Search, Run, Wakeup, Begins, Ends, TakeOwn, Steal, TakeFrom,
         PopAssembly, FindNoAssembly, FindNoReady, GiveUp, Distribute,
         GiveReady, GiveCritical, Complete
    <3> QED
      BY <3>1, <3>2, <3>3
  <2> QED
    BY <1>0, <2>1, <2>2, <2>3, <2>4 DEF BegunIsReady, Types
<1> QED
  BY <1>1, <1>2, <1>3

-----------------------------------------------------------------------------
(* The theorems.                                                             *)

(* Before the first step, only the refcounts keep tasks waiting. *)
LEMMA InitInv == Init => Inv
<1> SUFFICES ASSUME Init PROVE Inv
  OBVIOUS
<1> USE DEF Init
<1>1. \A t \in Tasks : /\ IsFiniteSet(Preds(t)) /\ Cardinality(Preds(t)) \in Nat
                       /\ Preds(t) = {} <=> Cardinality(Preds(t)) = 0
  <2> SUFFICES ASSUME NEW t \in Tasks
               PROVE  /\ IsFiniteSet(Preds(t)) /\ Cardinality(Preds(t)) \in Nat
                      /\ Preds(t) = {} <=> Cardinality(Preds(t)) = 0
    OBVIOUS
  <2>1. Preds(t) \subseteq Tasks /\ IsFiniteSet(Tasks)
    BY TasksAssumption DEF Preds
  <2>2. IsFiniteSet(Preds(t))
    BY <2>1, FS_Subset
  <2> QED
    BY <2>2, FS_CardinalityType, FS_EmptySet
<1>2. /\ \A t \in Tasks : ran[t] = <<>> /\ Len(ran[t]) = 0 /\ threadsOut[t] = 0
      /\ \A w \in Worker : /\ readyQ[w] = <<>> /\ Len(readyQ[w]) = 0
                           /\ assemblyQ[w] = <<>> /\ Len(assemblyQ[w]) = 0
                           /\ pc[w] \in {"off", "loop"} /\ gift[w] = NoTask
  OBVIOUS
<1>3. Finished = {}
  BY <1>2 DEF Finished
<1>4. Types
  <2>1. NoPlace \in [leader : Nat, width : Nat]
    BY DEF NoPlace
  <2>2. refcount \in [Tasks -> Int]
    BY <1>1
  <2> QED
    BY <2>1, <2>2 DEF Types, Label
<1>5. Hands
  BY <1>2 DEF Hands, HandOf, OnlyAssemblies
<1>6. OnePlace
  <2>1. \A t \in Tasks : ~ Launched(t) /\ (t \in unpushed => refcount[t] = 0)
    BY <1>1, <1>2 DEF Launched
  <2>2. \A t \in Tasks, a \in Where, w \in Worker, k \in Nat :
          At(t, a, w, k) => w = 0 /\ k = 0 /\ a = IF t \in unpushed THEN "program" ELSE "waiting"
    BY <1>2, <2>1, TasksAssumption DEF At, Where
  <2> QED
    BY <2>2 DEF OnePlace
<1>7. RefcountExact
  <2>1. \A u, t \in Tasks : Unreleased(u, t)
    BY <1>2 DEF Unreleased
  <2>2. \A t \in Tasks : {u \in Preds(t) : Unreleased(u, t)} = Preds(t)
    BY <2>1 DEF Preds
  <2> QED
    BY <2>2 DEF RefcountExact
<1>8. Commits /\ RanIsOut /\ BegunIsReady
  BY <1>2, <1>3 DEF Commits, Committing, RanIsOut, BegunIsReady
<1> QED
  BY <1>4, <1>5, <1>6, <1>7, <1>8 DEF Inv

(* A push by the program. *)
LEMMA PushInv == ASSUME Inv, NEW t \in Tasks, NEW q \in Worker, Push(t, q) PROVE Inv'
<1>1. /\ unpushed' = unpushed \ {t} /\ readyQ' = [readyQ EXCEPT ![q] = Append(readyQ[q], t)]
      /\ UNCHANGED <<refcount, assemblyQ, place, st, pc, todo, gift, threadsIn, threadsOut,
                     ran, begun, completed>>
  BY DEF Push, wakeVars, gangVars, histVars
<1>2. readyQ' \in [Worker -> Seq(Tasks)]
  BY <1>1, AppendedReady DEF Inv
<1>3. Types'
  BY <1>1, <1>2 DEF Inv, Types
<1>4. Hands'
  BY <1>1 DEF Inv, Hands, HandOf, OnlyAssemblies
<1>5. OnePlace'
  BY PushOnePlace
<1>6. Finished' = Finished
  BY <1>1 DEF Finished, Size
<1>7. RefcountExact' /\ Commits'
  BY <1>1, <1>6, QuietCommit DEF Committing
<1>8. RanIsOut' /\ BegunIsReady'
  BY <1>1, <1>6 DEF Inv, RanIsOut, BegunIsReady
<1> QED
  BY <1>3, <1>4, <1>5, <1>7, <1>8 DEF Inv

(* Every step. *)
LEMMA NextInv == Inv /\ [Next]_vars => Inv'
<1> SUFFICES ASSUME Inv, [Next]_vars PROVE Inv'
  OBVIOUS
<1>1. CASE UNCHANGED vars
  <2> USE <1>1 DEF vars, queueVars, gangVars, wakeVars, histVars
  <2>1. Types' /\ Hands'
    BY DEF Inv, Types, Hands, HandOf, OnlyAssemblies
  <2>2. \A t \in Tasks : Launched(t)' <=> Launched(t)
    BY DEF Launched
  <2>3. \A t \in Tasks, a \in Where, w \in Worker, k \in Nat :
          At(t, a, w, k)' => At(t, a, w, k)
    BY <2>2 DEF At
  <2>4. OnePlace'
    BY <2>3, Stay DEF Inv
  <2>5. Finished' = Finished
    BY DEF Finished, Size
  <2>6. RefcountExact' /\ Commits'
    BY <2>5, QuietCommit DEF Committing
  <2>7. RanIsOut' /\ BegunIsReady'
    BY <2>5 DEF Inv, RanIsOut, BegunIsReady
  <2> QED
    BY <2>1, <2>4, <2>6, <2>7 DEF Inv
<1>2. CASE PushRoot
  BY <1>2, PushInv DEF PushRoot
<1>3. ASSUME NEW w \in Worker, Step(w) PROVE Inv'
  BY <1>3, StepTypes, StepHands, StepOnePlace, StepCommit, StepRanIsOut, StepBegun DEF Inv
<1> QED
  BY <1>1, <1>2, <1>3 DEF Next

(* A task that has begun waits for nobody, so its predecessors have ended. *)
LEMMA InvImplies == Inv => DependenciesHold
<1> SUFFICES ASSUME Inv, NEW t \in begun PROVE Preds(t) \subseteq Finished
  BY DEF DependenciesHold
<1>1. t \in Tasks /\ refcount[t] = 0
  BY DEF Inv, Types, BegunIsReady
<1> QED
  BY <1>1, ReadyAfterPreds

(* The invariant holds in every execution: queues, thieves, gangs and commits
   hand a task on without losing track of it. *)
THEOREM InvHolds == Spec => []Inv
  BY InitInv, NextInv, PTL DEF Spec

(* The refcount of a task is the number of predecessors that have not released
   it, with several workers in commit_and_wakeup at once. *)
THEOREM RefcountsAreExact == Spec => []RefcountExact
<1>1. Inv => RefcountExact
  BY DEF Inv
<1> QED
  BY <1>1, InvHolds, PTL

(* make_edge: a task begins on no worker before its predecessors have ended on
   all of theirs. *)
THEOREM DependenciesAreKept == Spec => []DependenciesHold
  BY InvImplies, InvHolds, PTL

(* What begins or ends on the workers is a step of the task graph or none. *)
LEMMA StepExecutes ==
  ASSUME Inv, NEW w \in Worker, Step(w) PROVE [DE!Next]_(DE!vars)
<1>1. CASE Begins(w)
  <2>1. ~ Ends(w)
    BY <1>1 DEF Begins, BeginSimple, BeginAssembly, Ends, EndSimple, EndAssembly
  <2>2. Finished' = Finished
    BY <2>1, StepFinished
  <2>3. st[w] \in Tasks /\ refcount[st[w]] = 0 /\ begun' = begun \union {st[w]}
    BY <1>1, BeginFacts
  <2>4. DE!Preds(st[w]) \subseteq Finished
    BY <2>3, ReadyAfterPreds DEF DE!Preds, Preds
  <2> QED
    BY <2>2, <2>3, <2>4 DEF DE!Next, DE!Start, DE!vars
<1>2. CASE Ends(w)
  <2>1. /\ st[w] \in Tasks /\ begun' = begun
        /\ Finished \subseteq Finished' /\ Finished' \subseteq Finished \union {st[w]}
        /\ pc[w] \in {"simple", "execute"}
    BY <1>2, EndFacts
  <2>2. st[w] \in begun
    BY <2>1 DEF Inv, BegunIsReady
  <2>3. Finished' = Finished \/ (st[w] \notin Finished /\ Finished' = Finished \union {st[w]})
    BY <2>1
  <2> QED
    BY <2>1, <2>2, <2>3 DEF DE!Next, DE!Finish, DE!vars
<1>3. CASE ~ Begins(w) /\ ~ Ends(w)
  <2>1. Finished' = Finished
    BY <1>3, StepFinished
  <2>2. begun' = begun
    BY <1>3 DEF Step, Search, Run, Wakeup, Begins, Ends, TakeOwn, Steal, TakeFrom,
       PopAssembly, FindNoAssembly, FindNoReady, GiveUp, Distribute, Release, Visit,
       GiveReady, GiveCritical, Complete, histVars
  <2> QED
    BY <2>1, <2>2 DEF DE!vars
<1> QED
  BY <1>1, <1>2, <1>3

(* The safety part of ImplementsDagExecution: tasks start at most once and after
   their predecessors, and end once, after they started. *)
THEOREM ExecutesTheGraph == Spec => DE!Init /\ [][DE!Next]_(DE!vars)
<1>1. Init => DE!Init
  <2> SUFFICES ASSUME Init PROVE Finished = {}
    BY DEF Init, DE!Init
  <2>1. \A t \in Tasks : ran[t] = <<>> /\ Len(ran[t]) = 0
    BY DEF Init
  <2> QED
    BY <2>1 DEF Finished
<1>2. Inv /\ [Next]_vars => [DE!Next]_(DE!vars)
  <2> SUFFICES ASSUME Inv, [Next]_vars PROVE [DE!Next]_(DE!vars)
    OBVIOUS
  <2>1. CASE UNCHANGED vars
    BY <2>1 DEF vars, histVars, DE!vars, Finished, Size
  <2>2. CASE PushRoot
    BY <2>2 DEF PushRoot, Push, histVars, DE!vars, Finished, Size
  <2>3. ASSUME NEW w \in Worker, Step(w) PROVE [DE!Next]_(DE!vars)
    BY <2>3, StepExecutes
  <2> QED
    BY <2>1, <2>2, <2>3 DEF Next
<1> QED
  BY <1>1, <1>2, InvHolds, PTL DEF Spec

-----------------------------------------------------------------------------
(* Nothing is lost: custody of ready tasks, and shares of gangs.             *)

(* w has popped the assembly t and has not ended its part *)
InGang(w, t) == st[w] = t /\ pc[w] \in {"spin", "execute"}

(* t is at some place of its way. *)
Somewhere(t) ==
  \/ refcount[t] # 0
  \/ t \in unpushed
  \/ \E w \in Worker : \E k \in 1 .. Len(readyQ[w]) : readyQ[w][k] = t
  \/ \E w \in Worker : st[w] = t /\ pc[w] \in {"have", "simple"}
  \/ \E w \in Worker : gift[w] = t
  \/ Launched(t)

(* Every task is at some place. *)
Present == \A t \in Tasks : Somewhere(t)

(* An assembly that a worker is about to distribute has a place. *)
Placed ==
  \A w \in Worker : pc[w] = "have" /\ st[w] \notin Simple => place[st[w]] \in Places

(* threads_in_tao counts workers that are in the gang or have run. *)
Entered ==
  \A t \in Tasks :
    /\ \A w \in Worker : InGang(w, t) => threadsIn[t] > 0
    /\ threadsIn[t] > 0 => ran[t] # <<>> \/ \E w \in Worker : InGang(w, t)

(* The invariant that nothing is lost. *)
Kept == Inv /\ Present /\ Placed /\ Entered /\ EachMemberOnce

-----------------------------------------------------------------------------
(* Positions in a sequence.                                                  *)

(* Counting gives a number, and it is zero when there is nothing to count. *)
LEMMA CountType ==
  ASSUME NEW S, NEW q \in Seq(S), NEW t
  PROVE  /\ IsFiniteSet({k \in 1 .. Len(q) : q[k] = t})
         /\ Count(q, t) \in Nat
         /\ Count(q, t) = 0 <=> \A k \in 1 .. Len(q) : q[k] # t
<1> DEFINE P == {k \in 1 .. Len(q) : q[k] = t}
<1>1. Len(q) \in Int /\ 1 \in Int
  BY LenProperties
<1>2. IsFiniteSet(1 .. Len(q)) /\ P \in SUBSET (1 .. Len(q))
  BY <1>1, FS_Interval
<1>3. IsFiniteSet(P)
  BY <1>2, FS_Subset
<1>4. Cardinality(P) \in Nat /\ (Cardinality(P) = 0 <=> P = {})
  BY <1>3, FS_CardinalityType, FS_EmptySet
<1>5. P = {} <=> \A k \in 1 .. Len(q) : q[k] # t
  OBVIOUS
<1> QED
  BY <1>3, <1>4, <1>5 DEF Count

(* One more at the end. *)
LEMMA CountAppend ==
  ASSUME NEW S, NEW q \in Seq(S), NEW e \in S, NEW t
  PROVE  Count(Append(q, e), t) = IF e = t THEN Count(q, t) + 1 ELSE Count(q, t)
<1> DEFINE r == Append(q, e)
           P == {k \in 1 .. Len(q) : q[k] = t}
           R == {k \in 1 .. Len(r) : r[k] = t}
           n == Len(q) + 1
<1>1. /\ Len(q) \in Nat /\ Len(r) = n /\ r[n] = e
      /\ \A k \in 1 .. Len(q) : r[k] = q[k]
  BY LenProperties, AppendProperties
<1> HIDE DEF r
<1>2. n \notin P /\ \A k \in 1 .. n : k \in 1 .. Len(q) \/ k = n
  BY <1>1
<1>3. n \in 1 .. n /\ \A k \in 1 .. Len(q) : k \in 1 .. n
  BY <1>1
<1>4. IsFiniteSet(P)
  BY CountType
<1> HIDE DEF n
<1>5. CASE e = t
  <2>1. R = P \cup {n}
    BY <1>1, <1>2, <1>3, <1>5
  <2>2. Cardinality(R) = Cardinality(P) + 1
    BY <1>2, <1>4, <2>1, FS_AddElement
  <2> QED
    BY <1>5, <2>2 DEF Count, r
<1>6. CASE e # t
  <2>1. R = P
    BY <1>1, <1>2, <1>3, <1>6
  <2> QED
    BY <1>6, <2>1 DEF Count, r
<1> QED
  BY <1>5, <1>6

(* One less at the front. *)
LEMMA CountTail ==
  ASSUME NEW S, NEW q \in Seq(S), q # <<>>, NEW t
  PROVE  Count(Tail(q), t) = IF Head(q) = t THEN Count(q, t) - 1 ELSE Count(q, t)
<1> DEFINE r == Tail(q)
           P == {k \in 1 .. Len(q) : q[k] = t}
           R == {k \in 1 .. Len(r) : r[k] = t}
           f == [k \in R |-> k + 1]
<1>1. /\ Len(q) \in Nat \ {0} /\ Len(r) = Len(q) - 1 /\ Head(q) = q[1] /\ r \in Seq(S)
      /\ \A k \in 1 .. Len(r) : r[k] = q[k + 1]
  <2>1. Len(q) \in Nat \ {0}
    BY EmptySeq, LenProperties
  <2> QED
    BY <2>1, HeadTailProperties
<1> HIDE DEF r
<1>2. \A k \in R : k \in Int /\ k + 1 \in P \ {1}
  BY <1>1
<1>3. ASSUME NEW k \in P \ {1} PROVE k - 1 \in R /\ k = (k - 1) + 1
  <2>1. k \in 2 .. Len(q) /\ k - 1 \in 1 .. Len(r) /\ k = (k - 1) + 1
    BY <1>1
  <2> QED
    BY <1>1, <2>1
<1>4. f \in [R -> P \ {1}] /\ (\A a, b \in R : f[a] = f[b] => a = b)
  BY <1>2
<1>5. \A k \in P \ {1} : \E j \in R : f[j] = k
  <2> SUFFICES ASSUME NEW k \in P \ {1} PROVE \E j \in R : f[j] = k
    OBVIOUS
  <2>1. k - 1 \in R /\ f[k - 1] = k
    BY <1>3
  <2> QED
    BY <2>1
<1>6. IsFiniteSet(P) /\ IsFiniteSet(R)
  <2>1. IsFiniteSet(P)
    BY CountType
  <2>2. Len(r) \in Int /\ 1 \in Int /\ R \in SUBSET (1 .. Len(r))
    BY <1>1
  <2>3. IsFiniteSet(1 .. Len(r))
    BY <2>2, FS_Interval
  <2>4. IsFiniteSet(R)
    BY <2>2, <2>3, FS_Subset
  <2> QED
    BY <2>1, <2>4
<1>7. f \in Bijection(R, P \ {1})
  BY <1>4, <1>5, Fun_IsBij
<1>8. Cardinality(P \ {1}) = Cardinality(R)
  BY <1>6, <1>7, FS_Bijection DEF ExistsBijection
<1>9. Cardinality(P \ {1}) = IF 1 \in P THEN Cardinality(P) - 1 ELSE Cardinality(P)
  BY <1>6, FS_RemoveElement
<1>10. 1 \in P <=> Head(q) = t
  BY <1>1
<1> QED
  BY <1>8, <1>9, <1>10 DEF Count, r

-----------------------------------------------------------------------------
(* Every task stays somewhere.                                               *)

(* What is launched stays launched. *)
LEMMA LaunchedStays ==
  ASSUME Inv, NEW w \in Worker, Step(w), NEW t \in Tasks, Launched(t)
  PROVE  Launched(t)'
<1> USE DEF Goto, queueVars, gangVars, wakeVars, histVars
<1>0. /\ Types /\ HandOf(w) /\ pc \in [Worker -> Label]
      /\ st \in [Worker -> Tasks \union {NoTask}] /\ ran \in [Tasks -> Seq(Worker)]
      /\ assemblyQ \in [Worker -> Seq(Tasks)]
  BY DEF Inv, Hands, Types
<1>1. CASE PopAssembly(w)
  <2> DEFINE q == assemblyQ[w]
  <2>1. q \in Seq(Tasks) /\ q # <<>>
    BY <1>0, <1>1 DEF PopAssembly
  <2>2. /\ Len(q) \in Nat \ {0} /\ Head(q) = q[1] /\ Len(Tail(q)) = Len(q) - 1
        /\ \A k \in 1 .. Len(Tail(q)) : Tail(q)[k] = q[k + 1]
    BY <2>1, EmptySeq, HeadTailProperties
  <2>3. /\ assemblyQ' = [assemblyQ EXCEPT ![w] = Tail(q)] /\ st' = [st EXCEPT ![w] = Head(q)]
        /\ pc[w] = "loop" /\ pc' = [pc EXCEPT ![w] = "spin"] /\ UNCHANGED <<ran, completed>>
    BY <1>1 DEF PopAssembly
  <2>4. ASSUME NEW k \in 1 .. Len(q), q[k] = t, k # 1 PROVE Launched(t)'
    <3>1. k - 1 \in 1 .. Len(Tail(q)) /\ (k - 1) + 1 = k
      BY <2>2, <2>4
    <3>2. Tail(q)[k - 1] = t /\ assemblyQ'[w] = Tail(q)
      BY <1>0, <2>2, <2>3, <2>4, <3>1
    <3> QED
      BY <3>1, <3>2 DEF Launched
  <2>5. CASE q[1] = t
    BY <1>0, <2>2, <2>3, <2>5 DEF Launched
  <2>6. \A u \in Worker \ {w} : /\ assemblyQ'[u] = assemblyQ[u] /\ st'[u] = st[u]
                                /\ pc'[u] = pc[u]
    BY <1>0, <2>3
  <2>7. ASSUME NEW u \in Worker, NEW k \in 1 .. Len(assemblyQ[u]), assemblyQ[u][k] = t
        PROVE  Launched(t)'
    <3>1. CASE u = w
      BY <2>4, <2>5, <2>7, <3>1
    <3>2. CASE u # w
      BY <2>6, <2>7, <3>2 DEF Launched
    <3> QED
      BY <3>1, <3>2
  <2>8. ASSUME NEW u \in Worker, st[u] = t, pc[u] \in {"spin", "execute", "wake", "give"}
        PROVE  Launched(t)'
    BY <2>3, <2>6, <2>8 DEF Launched
  <2>9. ran[t] # <<>> \/ t \in completed => Launched(t)'
    BY <2>3 DEF Launched
  <2> QED
    BY <2>7, <2>8, <2>9 DEF Launched
<1>2. ASSUME NEW x \in Tasks, NEW p \in [leader : Nat, width : Nat],
             assemblyQ' = Inserted(x, p), UNCHANGED <<ran, completed>>,
             pc[w] # "give" => ~ Committing(w) /\ pc[w] \notin {"spin", "execute"},
             pc[w] = "give" => pc'[w] = "wake" /\ st'[w] = st[w],
             \A u \in Worker \ {w} : pc'[u] = pc[u] /\ st'[u] = st[u]
      PROVE  Launched(t)'
  <2>1. ASSUME NEW u \in Worker, NEW k \in 1 .. Len(assemblyQ[u]), assemblyQ[u][k] = t
        PROVE  k \in 1 .. Len(assemblyQ'[u]) /\ assemblyQ'[u][k] = t
    <3>1. assemblyQ[u] \in Seq(Tasks)
      BY <1>0
    <3>2. /\ Len(assemblyQ[u]) \in Nat
          /\ Len(Append(assemblyQ[u], x)) = Len(assemblyQ[u]) + 1
          /\ Append(assemblyQ[u], x)[k] = assemblyQ[u][k]
      BY <3>1, LenProperties, AppendProperties
    <3>3. k \in 1 .. Len(assemblyQ[u]) + 1
      BY <3>2
    <3>4. assemblyQ'[u] \in {assemblyQ[u], Append(assemblyQ[u], x)}
      BY <1>2 DEF Inserted
    <3> QED
      BY <2>1, <3>2, <3>3, <3>4
  <2>2. \A u \in Worker : pc[u] \in {"spin", "execute", "wake", "give"} =>
          pc'[u] \in {"spin", "execute", "wake", "give"} /\ st'[u] = st[u]
    BY <1>2 DEF Committing
  <2> QED
    BY <1>2, <2>1, <2>2 DEF Launched
<1>3. CASE Distribute(w)
  <2>1. st[w] \in Tasks /\ place[st[w]] \in [leader : Nat, width : Nat]
    BY <1>0, <1>3 DEF Distribute, HandOf, Types
  <2>2. /\ assemblyQ' = Inserted(st[w], place[st[w]]) /\ pc[w] = "have"
        /\ UNCHANGED <<ran, completed>>
        /\ \A u \in Worker \ {w} : pc'[u] = pc[u] /\ st'[u] = st[u]
    BY <1>0, <1>3 DEF Distribute
  <2> QED
    BY <1>2, <2>1, <2>2 DEF Committing
<1>4. CASE GiveCritical(w)
  <2>1. gift[w] \in Tasks
    BY <1>0, <1>4 DEF GiveCritical, HandOf
  <2>2. PICK p \in Places : assemblyQ' = Inserted(gift[w], p)
    BY <1>4 DEF GiveCritical
  <2>3. /\ pc[w] = "give" /\ pc'[w] = "wake" /\ UNCHANGED <<ran, completed, st>>
        /\ \A u \in Worker \ {w} : pc'[u] = pc[u]
    BY <1>0, <1>4 DEF GiveCritical
  <2> QED
    BY <1>2, <2>1, <2>2, <2>3, PlaceType
<1>5. CASE Ends(w)
  <2>1. st[w] \in Tasks /\ ran' = [ran EXCEPT ![st[w]] = Append(@, w)]
    BY <1>5, EndFacts DEF Ends, EndSimple, EndAssembly
  <2>2. ran'[st[w]] = Append(ran[st[w]], w) /\ ran[st[w]] \in Seq(Worker)
    BY <1>0, <2>1
  <2>3. ran'[st[w]] # <<>>
    BY <2>2, AppendProperties
  <2>4. \A x \in Tasks \ {st[w]} : ran'[x] = ran[x]
    BY <1>0, <2>1
  <2>5. /\ UNCHANGED <<completed, assemblyQ>>
        /\ \A u \in Worker \ {w} : pc'[u] = pc[u] /\ st'[u] = st[u]
    BY <1>0, <1>5 DEF Ends, EndSimple, EndAssembly
  <2>6. CASE t = st[w]
    BY <2>3, <2>6 DEF Launched
  <2>7. CASE t # st[w]
    BY <2>4, <2>5, <2>7 DEF Launched
  <2> QED
    BY <2>6, <2>7
<1>6. CASE Complete(w)
  BY <1>0, <1>6 DEF Complete, Launched
<1>7. CASE \/ FindNoAssembly(w) \/ FindNoReady(w) \/ GiveUp(w) \/ TakeOwn(w) \/ Steal(w)
           \/ BeginSimple(w) \/ BeginAssembly(w) \/ GiveReady(w)
           \/ \E s \in Tasks : Release(w, s)
  <2>1. UNCHANGED <<ran, completed, assemblyQ>>
    BY <1>7 DEF FindNoAssembly, FindNoReady, GiveUp, TakeOwn, Steal, TakeFrom, BeginSimple,
       BeginAssembly, GiveReady, Release, Visit
  <2>2. \A u \in Worker \ {w} : pc'[u] = pc[u] /\ st'[u] = st[u]
    BY <1>0, <1>7 DEF FindNoAssembly, FindNoReady, GiveUp, TakeOwn, Steal, TakeFrom,
       BeginSimple, BeginAssembly, GiveReady, Release, Visit
  <2>3. pc[w] \in {"spin", "execute", "wake", "give"} =>
          pc'[w] \in {"spin", "execute", "wake", "give"} /\ st'[w] = st[w]
    BY <1>0, <1>7 DEF FindNoAssembly, FindNoReady, GiveUp, TakeOwn, Steal, TakeFrom,
       BeginSimple, BeginAssembly, GiveReady, Release, Visit
  <2> QED
    BY <2>1, <2>2, <2>3 DEF Launched
<1> QED
  BY <1>1, <1>3, <1>4, <1>5, <1>6, <1>7 DEF Step, Search, Run, Wakeup, Ends

(* A task in a ready queue stays there when another one is pushed. *)
LEMMA AppendKeeps ==
  ASSUME Types, NEW x \in Tasks, NEW q \in Worker,
         readyQ' = [readyQ EXCEPT ![q] = Append(readyQ[q], x)]
  PROVE  /\ \A u \in Worker : \A k \in 1 .. Len(readyQ[u]) :
              k \in 1 .. Len(readyQ'[u]) /\ readyQ'[u][k] = readyQ[u][k]
         /\ \E k \in 1 .. Len(readyQ'[q]) : readyQ'[q][k] = x
<1>1. readyQ \in [Worker -> Seq(Tasks)] /\ readyQ[q] \in Seq(Tasks)
  BY DEF Types
<1> DEFINE r == Append(readyQ[q], x)
<1>2. /\ Len(readyQ[q]) \in Nat /\ Len(r) = Len(readyQ[q]) + 1 /\ r[Len(readyQ[q]) + 1] = x
      /\ \A k \in 1 .. Len(readyQ[q]) : r[k] = readyQ[q][k]
  BY <1>1, LenProperties, AppendProperties
<1>3. readyQ'[q] = r /\ \A u \in Worker \ {q} : readyQ'[u] = readyQ[u]
  BY <1>1
<1> HIDE DEF r
<1>4. Len(readyQ[q]) + 1 \in 1 .. Len(r) /\ \A k \in 1 .. Len(readyQ[q]) : k \in 1 .. Len(r)
  BY <1>2
<1> QED
  BY <1>2, <1>3, <1>4

(* Taking the youngest task leaves the others in their queues. *)
LEMMA TakeKeeps ==
  ASSUME Types, NEW w \in Worker, NEW v \in Worker, TakeFrom(w, v)
  PROVE  \A u \in Worker : \A k \in 1 .. Len(readyQ[u]) :
           \/ u = v /\ k = Len(readyQ[v])
           \/ k \in 1 .. Len(readyQ'[u]) /\ readyQ'[u][k] = readyQ[u][k]
<1> DEFINE front == SubSeq(readyQ[v], 1, Len(readyQ[v]) - 1)
<1>1. readyQ[v] \in Seq(Tasks) /\ readyQ[v] # <<>> /\ readyQ \in [Worker -> Seq(Tasks)]
  BY DEF Types, TakeFrom
<1>2. /\ Len(readyQ[v]) \in Nat \ {0} /\ Len(front) = Len(readyQ[v]) - 1
      /\ \A k \in 1 .. Len(readyQ[v]) - 1 : front[k] = readyQ[v][k]
  BY <1>1, FrontProperties
<1>3. readyQ' = [readyQ EXCEPT ![v] = front]
  BY DEF TakeFrom
<1> HIDE DEF front
<1>4. readyQ'[v] = front /\ \A u \in Worker \ {v} : readyQ'[u] = readyQ[u]
  BY <1>1, <1>3
<1>5. \A k \in 1 .. Len(readyQ[v]) : k = Len(readyQ[v]) \/ k \in 1 .. Len(front)
  BY <1>2
<1> QED
  BY <1>2, <1>4, <1>5

(* A place has a member, and its members are workers. *)
LEMMA PlaceMembers ==
  ASSUME NEW p \in Places PROVE p.leader \in Members(p) /\ Members(p) \subseteq Worker
<1>1. /\ p.leader \in Nat /\ p.width \in Nat \ {0}
      /\ Members(p) \subseteq Active /\ Active \subseteq Worker
  BY PlacesAssumption, ActiveAssumption
<1>2. p.leader \in Members(p)
  BY <1>1 DEF Members
<1> QED
  BY <1>1, <1>2

(* An insertion adds the task once to the queue of each member. *)
LEMMA InsertedCounts ==
  ASSUME Types, NEW x \in Tasks, NEW p, NEW t, NEW u \in Worker
  PROVE  /\ assemblyQ[u] \in Seq(Tasks) /\ Inserted(x, p)[u] \in Seq(Tasks)
         /\ Count(Inserted(x, p)[u], t) =
              IF t = x /\ u \in Members(p) THEN Count(assemblyQ[u], t) + 1
                                           ELSE Count(assemblyQ[u], t)
<1>1. assemblyQ[u] \in Seq(Tasks)
  BY DEF Types
<1>2. Inserted(x, p)[u] = IF u \in Members(p) THEN Append(assemblyQ[u], x)
                                              ELSE assemblyQ[u]
  BY DEF Inserted
<1>3. Append(assemblyQ[u], x) \in Seq(Tasks)
  BY <1>1, AppendProperties
<1>4. Count(Append(assemblyQ[u], x), t) =
        IF x = t THEN Count(assemblyQ[u], t) + 1 ELSE Count(assemblyQ[u], t)
  BY <1>1, CountAppend
<1> QED
  BY <1>1, <1>2, <1>3, <1>4

(* It adds nothing else. *)
LEMMA CountOthers ==
  ASSUME Types, NEW x \in Tasks, NEW p, NEW t, t # x
  PROVE  \A u \in Worker : Count(Inserted(x, p)[u], t) = Count(assemblyQ[u], t)
<1> SUFFICES ASSUME NEW u \in Worker
             PROVE  Count(Inserted(x, p)[u], t) = Count(assemblyQ[u], t)
  OBVIOUS
<1>1. Count(Inserted(x, p)[u], t) = IF t = x /\ u \in Members(p)
                                      THEN Count(assemblyQ[u], t) + 1
                                      ELSE Count(assemblyQ[u], t)
  BY InsertedCounts
<1> QED
  BY <1>1

(* An insertion launches the task. *)
LEMMA InsertedLaunches ==
  ASSUME Types, NEW x \in Tasks, NEW p \in Places, assemblyQ' = Inserted(x, p)
  PROVE  Launched(x)'
<1> DEFINE u == p.leader
           q == Inserted(x, p)[u]
<1>1. u \in Worker /\ u \in Members(p)
  BY PlaceMembers
<1>2. q \in Seq(Tasks) /\ assemblyQ[u] \in Seq(Tasks) /\ Count(q, x) = Count(assemblyQ[u], x) + 1
  BY <1>1, InsertedCounts
<1>3. Count(assemblyQ[u], x) \in Nat
  BY <1>2, CountType
<1>4. Count(q, x) # 0
  BY <1>2, <1>3
<1>5. \E k \in 1 .. Len(q) : q[k] = x
  BY <1>2, <1>4, CountType
<1> QED
  BY <1>1, <1>5 DEF Launched

(* A step of a worker loses no task. *)
LEMMA StepPresent ==
  ASSUME Inv, Present, Placed, NEW w \in Worker, Step(w) PROVE Present'
<1> USE DEF Goto, queueVars, gangVars, wakeVars, histVars
<1> SUFFICES ASSUME NEW t \in Tasks PROVE Somewhere(t)'
  BY DEF Present
<1>0. /\ Types /\ HandOf(w) /\ pc \in [Worker -> Label]
      /\ st \in [Worker -> Tasks \union {NoTask}] /\ gift \in [Worker -> Tasks \union {NoTask}]
      /\ Somewhere(t) /\ NoTask \notin Tasks
  BY TasksAssumption DEF Inv, Hands, Types, Present
<1>1. CASE Launched(t)
  BY <1>1, LaunchedStays DEF Somewhere
<1>2. ASSUME NEW v \in Worker, TakeFrom(w, v), pc[w] \in {"ready", "steal"} PROVE Somewhere(t)'
  <2>1. /\ st' = [st EXCEPT ![w] = readyQ[v][Len(readyQ[v])]]
        /\ pc' = [pc EXCEPT ![w] = "have"] /\ UNCHANGED <<unpushed, refcount, gift>>
    BY <1>2 DEF TakeFrom
  <2>2. st'[w] = readyQ[v][Len(readyQ[v])] /\ pc'[w] = "have"
    BY <1>0, <2>1
  <2>3. \A u \in Worker \ {w} : st'[u] = st[u] /\ pc'[u] = pc[u]
    BY <1>0, <2>1
  <2>4. ASSUME NEW u \in Worker, NEW k \in 1 .. Len(readyQ[u]), readyQ[u][k] = t
        PROVE  Somewhere(t)'
    <3>1. CASE u = v /\ k = Len(readyQ[v])
      BY <2>2, <2>4, <3>1 DEF Somewhere
    <3>2. CASE k \in 1 .. Len(readyQ'[u]) /\ readyQ'[u][k] = readyQ[u][k]
      BY <2>4, <3>2 DEF Somewhere
    <3> QED
      BY <1>0, <1>2, <3>1, <3>2, TakeKeeps
  <2> QED
    BY <1>0, <1>1, <1>2, <2>1, <2>3, <2>4 DEF Somewhere
<1>3. CASE GiveReady(w)
  <2> DEFINE x == gift[w]
             q == IF Affinity[x] = NoAffinity THEN w ELSE Affinity[x]
  <2>1. x \in Tasks
    BY <1>0, <1>3 DEF GiveReady, HandOf
  <2>2. q \in Worker
    BY <2>1, AffinityAssumption
  <2>3. /\ readyQ' = [readyQ EXCEPT ![q] = Append(readyQ[q], x)]
        /\ gift' = [gift EXCEPT ![w] = NoTask] /\ pc[w] = "give"
        /\ pc' = [pc EXCEPT ![w] = "wake"] /\ UNCHANGED <<unpushed, refcount, st>>
    BY <1>3 DEF GiveReady
  <2> HIDE DEF x, q
  <2>4. /\ \A u \in Worker : \A k \in 1 .. Len(readyQ[u]) :
             k \in 1 .. Len(readyQ'[u]) /\ readyQ'[u][k] = readyQ[u][k]
        /\ \E k \in 1 .. Len(readyQ'[q]) : readyQ'[q][k] = x
    BY <1>0, <2>1, <2>2, <2>3, AppendKeeps
  <2>5. t = x => Somewhere(t)'
    BY <2>2, <2>4 DEF Somewhere
  <2>6. \A u \in Worker : gift[u] = t => gift'[u] = t \/ t = x
    BY <1>0, <2>3 DEF x
  <2>7. \A u \in Worker : pc[u] \in {"have", "simple"} => pc'[u] = pc[u]
    BY <1>0, <2>3
  <2> QED
    BY <1>0, <1>1, <2>3, <2>4, <2>5, <2>6, <2>7 DEF Somewhere
<1>4. CASE GiveCritical(w)
  <2>1. gift[w] \in Tasks
    BY <1>0, <1>4 DEF GiveCritical, HandOf
  <2>2. PICK p \in Places : assemblyQ' = Inserted(gift[w], p)
    BY <1>4 DEF GiveCritical
  <2>3. /\ gift' = [gift EXCEPT ![w] = NoTask] /\ pc[w] = "give"
        /\ pc' = [pc EXCEPT ![w] = "wake"] /\ UNCHANGED <<unpushed, refcount, readyQ, st>>
    BY <1>4 DEF GiveCritical
  <2>4. t = gift[w] => Launched(t)'
    BY <1>0, <2>1, <2>2, InsertedLaunches
  <2>5. \A u \in Worker : gift[u] = t => gift'[u] = t \/ t = gift[w]
    BY <1>0, <2>3
  <2>6. \A u \in Worker : pc[u] \in {"have", "simple"} => pc'[u] = pc[u]
    BY <1>0, <2>3
  <2> QED
    BY <1>0, <1>1, <2>3, <2>4, <2>5, <2>6 DEF Somewhere
<1>5. CASE Distribute(w)
  <2>1. st[w] \in Tasks \ Simple /\ place[st[w]] \in Places
    BY <1>0, <1>5 DEF Distribute, HandOf, Placed
  <2>2. /\ assemblyQ' = Inserted(st[w], place[st[w]])
        /\ st' = [st EXCEPT ![w] = NoTask] /\ pc[w] = "have"
        /\ pc' = [pc EXCEPT ![w] = "loop"] /\ UNCHANGED <<unpushed, refcount, readyQ, gift>>
    BY <1>5 DEF Distribute
  <2>3. t = st[w] => Launched(t)'
    BY <1>0, <2>1, <2>2, InsertedLaunches
  <2>4. \A u \in Worker : st[u] = t => u # w \/ t = st[w]
    OBVIOUS
  <2>5. \A u \in Worker \ {w} : pc'[u] = pc[u] /\ st'[u] = st[u]
    BY <1>0, <2>2
  <2> QED
    BY <1>0, <1>1, <2>2, <2>3, <2>4, <2>5 DEF Somewhere
<1>6. CASE Ends(w)
  <2>1. st[w] \in Tasks /\ ran' = [ran EXCEPT ![st[w]] = Append(@, w)]
    BY <1>6, EndFacts DEF Ends, EndSimple, EndAssembly
  <2>2. ran'[st[w]] = Append(ran[st[w]], w) /\ ran[st[w]] \in Seq(Worker)
    BY <1>0, <2>1 DEF Types
  <2>3. t = st[w] => Launched(t)'
    BY <2>2, AppendProperties DEF Launched
  <2>4. /\ UNCHANGED <<unpushed, refcount, readyQ, gift>>
        /\ \A u \in Worker \ {w} : pc'[u] = pc[u] /\ st'[u] = st[u]
    BY <1>0, <1>6 DEF Ends, EndSimple, EndAssembly
  <2> QED
    BY <1>0, <1>1, <2>3, <2>4 DEF Somewhere
<1>7. ASSUME NEW s \in Tasks, Release(w, s) PROVE Somewhere(t)'
  <2>1. refcount[s] \in Nat \ {0}
    BY <1>7, ReleasePositive
  <2>2. /\ pc[w] = "wake" /\ refcount' = [refcount EXCEPT ![s] = @ - 1]
        /\ UNCHANGED <<unpushed, readyQ, st>>
    BY <1>7 DEF Release, Visit
  <2>3. pc'[w] \in {"wake", "give"} /\ \A u \in Worker \ {w} : pc'[u] = pc[u]
    BY <1>0, <1>7 DEF Release, Visit
  <2>4. \A u \in Worker : gift[u] = t => gift'[u] = t
    BY <1>0, <1>7, <2>2 DEF Release, Visit, HandOf
  <2>5. refcount[t] # 0 => refcount'[t] # 0 \/ gift'[w] = t
    <3>1. CASE t # s
      BY <1>0, <2>2, <3>1 DEF Types
    <3>2. CASE t = s /\ refcount[s] = 1
      BY <1>0, <1>7, <3>2 DEF Release, Visit
    <3>3. CASE t = s /\ refcount[s] # 1
      BY <1>0, <2>1, <2>2, <3>3 DEF Types
    <3> QED
      BY <3>1, <3>2, <3>3
  <2> QED
    BY <1>0, <1>1, <2>2, <2>3, <2>4, <2>5 DEF Somewhere
<1>8. CASE \/ PopAssembly(w) \/ FindNoAssembly(w) \/ FindNoReady(w) \/ GiveUp(w)
           \/ BeginSimple(w) \/ BeginAssembly(w) \/ Complete(w)
  <2>1. UNCHANGED <<unpushed, refcount, readyQ, gift>>
    BY <1>8 DEF PopAssembly, FindNoAssembly, FindNoReady, GiveUp, BeginSimple,
       BeginAssembly, Complete
  <2>2. \A u \in Worker \ {w} : pc'[u] = pc[u] /\ st'[u] = st[u]
    BY <1>0, <1>8 DEF PopAssembly, FindNoAssembly, FindNoReady, GiveUp, BeginSimple,
       BeginAssembly, Complete
  <2>3. pc[w] \in {"have", "simple"} => pc'[w] \in {"have", "simple"} /\ st'[w] = st[w]
    BY <1>0, <1>8 DEF PopAssembly, FindNoAssembly, FindNoReady, GiveUp, BeginSimple,
       BeginAssembly, Complete
  <2> QED
    BY <1>0, <1>1, <2>1, <2>2, <2>3 DEF Somewhere
<1>9. \A v \in Worker : TakeFrom(w, v) /\ pc[w] \in {"ready", "steal"} => Somewhere(t)'
  BY <1>2
<1> QED
  BY <1>3, <1>4, <1>5, <1>6, <1>7, <1>8, <1>9, StealAssumption
  DEF Step, Search, Run, Wakeup, TakeOwn, Steal, Ends

-----------------------------------------------------------------------------
(* Places and gangs.                                                         *)

(* A task in the hands of a worker keeps its place. *)
LEMMA HandKeepsPlace ==
  ASSUME Inv, NEW w \in Worker, Step(w), NEW u \in Worker, NEW t \in Tasks,
         st[u] = t, pc[u] = "have"
  PROVE  place'[t] = place[t]
<1> USE DEF queueVars, gangVars, wakeVars, histVars
<1>0. Types /\ HandOf(w) /\ OnePlace /\ At(t, "hand", u, 0)
  BY DEF Inv, Hands, At
<1>1. {"queue", "hand", "gift"} \subseteq Where
  BY DEF Where
<1>2. ASSUME NEW v \in Worker, TakeFrom(w, v) PROVE place'[t] = place[t]
  <2>1. PICK x \in Tasks :
           /\ Len(readyQ[v]) \in Nat \ {0} /\ x = readyQ[v][Len(readyQ[v])]
           /\ \A y \in Tasks \ {x} : place'[y] = place[y]
    BY <1>0, <1>2, TakeFacts
  <2>2. At(x, "queue", v, Len(readyQ[v]))
    BY <2>1 DEF At
  <2>3. x # t
    BY <1>0, <1>1, <2>1, <2>2 DEF OnePlace
  <2> QED
    BY <2>1, <2>3
<1>3. CASE GiveCritical(w)
  <2>1. At(gift[w], "gift", w, 0) /\ gift[w] \in Tasks
    BY <1>0, <1>3 DEF At, GiveCritical, HandOf
  <2>2. gift[w] # t
    BY <1>0, <1>1, <2>1 DEF OnePlace
  <2> QED
    BY <1>0, <1>3, <2>2 DEF GiveCritical, Types
<1>4. \/ place' = place \/ GiveCritical(w) \/ \E v \in Worker : TakeFrom(w, v)
  BY StealAssumption
  DEF Step, Search, Run, Wakeup, PopAssembly, FindNoAssembly, TakeOwn, Steal, FindNoReady,
     GiveUp, Distribute, BeginSimple, EndSimple, BeginAssembly, EndAssembly, Release,
     Visit, GiveReady, Complete
<1> QED
  BY <1>2, <1>3, <1>4

(* Whoever takes an assembly from a ready queue gives it a place. *)
LEMMA StepPlaced ==
  ASSUME Inv, Placed, NEW w \in Worker, Step(w) PROVE Placed'
<1>0. /\ Types /\ pc \in [Worker -> Label] /\ st \in [Worker -> Tasks \union {NoTask}]
      /\ place \in [Tasks -> [leader : Nat, width : Nat]]
  BY DEF Inv, Types
<1>1. ASSUME NEW u \in Worker, pc[u] = "have", st[u] \notin Simple, st'[u] = st[u]
      PROVE  place'[st[u]] \in Places
  <2>1. st[u] \in Tasks
    BY <1>1 DEF Inv, Hands, HandOf
  <2>2. place'[st[u]] = place[st[u]]
    BY <1>1, <2>1, HandKeepsPlace
  <2> QED
    BY <1>1, <2>2 DEF Placed
<1>2. ASSUME NEW v \in Worker, TakeFrom(w, v) PROVE Placed'
  <2>1. PICK x \in Tasks : x = readyQ[v][Len(readyQ[v])] /\ st' = [st EXCEPT ![w] = x]
    BY <1>0, <1>2, TakeFacts
  <2>2. Mold(w, x) /\ pc' = [pc EXCEPT ![w] = "have"]
    BY <1>2, <2>1 DEF TakeFrom, Goto
  <2>3. x \notin Simple => place'[x] \in Places
    BY <1>0, <2>2 DEF Mold
  <2>4. st'[w] = x /\ \A u \in Worker \ {w} : st'[u] = st[u] /\ pc'[u] = pc[u]
    BY <1>0, <2>1, <2>2
  <2> QED
    BY <1>1, <2>3, <2>4 DEF Placed
<1>3. CASE ~ \E v \in Worker : TakeFrom(w, v)
  <2>1. \A u \in Worker : pc'[u] = "have" => pc[u] = "have" /\ st'[u] = st[u]
    BY <1>0, <1>3, StealAssumption
    DEF Step, Search, Run, Wakeup, PopAssembly, FindNoAssembly, TakeOwn, Steal, FindNoReady,
       GiveUp, Distribute, BeginSimple, EndSimple, BeginAssembly, EndAssembly, Release,
       Visit, GiveReady, GiveCritical, Complete, Goto
  <2> QED
    BY <1>1, <2>1 DEF Placed
<1> QED
  BY <1>2, <1>3

(* A worker that pops an assembly counts itself in. *)
LEMMA StepEntered ==
  ASSUME Inv, Entered, NEW w \in Worker, Step(w) PROVE Entered'
<1> USE DEF Goto, queueVars, gangVars, wakeVars, histVars
<1>0. /\ Types /\ HandOf(w) /\ pc \in [Worker -> Label]
      /\ st \in [Worker -> Tasks \union {NoTask}] /\ threadsIn \in [Tasks -> Nat]
      /\ ran \in [Tasks -> Seq(Worker)]
  BY DEF Inv, Hands, Types
<1>1. CASE PopAssembly(w)
  <2>1. PICK x \in Tasks : /\ st' = [st EXCEPT ![w] = x]
                           /\ threadsIn' = [threadsIn EXCEPT ![x] = @ + 1]
    BY <1>0, <1>1, PopFacts
  <2>2. pc[w] = "loop" /\ pc' = [pc EXCEPT ![w] = "spin"] /\ ran' = ran
    BY <1>1 DEF PopAssembly
  <2>3. \A u \in Worker, t \in Tasks : InGang(u, t)' <=> InGang(u, t) \/ (u = w /\ t = x)
    BY <1>0, <2>1, <2>2 DEF InGang
  <2>4. threadsIn'[x] > 0 /\ \A t \in Tasks \ {x} : threadsIn'[t] = threadsIn[t]
    BY <1>0, <2>1
  <2> QED
    BY <2>2, <2>3, <2>4 DEF Entered
<1>2. CASE EndAssembly(w)
  <2>1. st[w] \in Tasks /\ ran' = [ran EXCEPT ![st[w]] = Append(@, w)]
    BY <1>0, <1>2 DEF EndAssembly, HandOf
  <2>2. ran'[st[w]] = Append(ran[st[w]], w) /\ ran[st[w]] \in Seq(Worker)
    BY <1>0, <2>1
  <2>3. ran'[st[w]] # <<>> /\ \A t \in Tasks \ {st[w]} : ran'[t] = ran[t]
    BY <1>0, <2>1, <2>2, AppendProperties
  <2>4. /\ threadsIn' = threadsIn /\ pc'[w] \in {"wake", "loop"}
        /\ \A u \in Worker \ {w} : pc'[u] = pc[u] /\ st'[u] = st[u]
    BY <1>0, <1>2 DEF EndAssembly
  <2>5. \A u \in Worker, t \in Tasks : InGang(u, t)' <=> InGang(u, t) /\ u # w
    BY <2>4 DEF InGang
  <2>6. \A t \in Tasks \ {st[w]} : ~ InGang(w, t)
    BY DEF InGang
  <2> QED
    BY <2>3, <2>4, <2>5, <2>6 DEF Entered
<1>3. CASE ~ PopAssembly(w) /\ ~ EndAssembly(w)
  <2>1. threadsIn' = threadsIn
    BY <1>3 DEF Step, Search, Run, Wakeup, FindNoAssembly, TakeOwn, Steal, TakeFrom,
       FindNoReady, GiveUp, Distribute, BeginSimple, EndSimple, BeginAssembly, Release,
       Visit, GiveReady, GiveCritical, Complete
  <2>2. \A u \in Worker, t \in Tasks : InGang(u, t)' <=> InGang(u, t)
    BY <1>0, <1>3 DEF InGang, Step, Search, Run, Wakeup, FindNoAssembly, TakeOwn, Steal,
       TakeFrom, FindNoReady, GiveUp, Distribute, BeginSimple, EndSimple, BeginAssembly,
       Release, Visit, GiveReady, GiveCritical, Complete
  <2>3. \A t \in Tasks : ran[t] # <<>> => ran'[t] # <<>>
    <3>1. CASE EndSimple(w)
      <4>1. st[w] \in Tasks /\ ran' = [ran EXCEPT ![st[w]] = Append(@, w)]
        BY <1>0, <3>1 DEF EndSimple, HandOf
      <4>2. Append(ran[st[w]], w) # <<>>
        BY <1>0, <4>1, AppendProperties
      <4> QED
        BY <1>0, <4>1, <4>2
    <3>2. CASE ~ EndSimple(w)
      BY <1>3, <3>2, StepFinished DEF Ends
    <3> QED
      BY <3>1, <3>2
  <2> QED
    BY <2>1, <2>2, <2>3 DEF Entered
<1> QED
  BY <1>1, <1>2, <1>3

(* The parts of the gang t that worker u still has to do, does, or has done. *)
Share(t, u) ==
  Count(assemblyQ[u], t) + Count(ran[t], u) + IF InGang(u, t) THEN 1 ELSE 0

(* u has exactly the share of t it should have. *)
ShareRight(t, u) ==
  Share(t, u) = IF Distributed(t) /\ u \in Members(place[t]) THEN 1 ELSE 0

(* One worker, if a condition holds, or none. *)
LEMMA OneOrNone ==
  ASSUME NEW u, NEW H, NEW b \in BOOLEAN, H = IF b THEN {u} ELSE {}
  PROVE  Cardinality(H) = IF b THEN 1 ELSE 0
<1>1. Cardinality({u}) = 1 /\ Cardinality({}) = 0
  BY FS_Singleton, FS_EmptySet
<1> QED
  BY <1>1

(* The property, with the hands of a worker as a condition, now and next. *)
LEMMA MemberOnceIsShare ==
  /\ EachMemberOnce <=> \A t \in Tasks \ Simple, u \in Worker : ShareRight(t, u)
  /\ EachMemberOnce' <=> \A t \in Tasks \ Simple, u \in Worker : ShareRight(t, u)'
<1>1. ASSUME NEW t, NEW u
      PROVE  Cardinality({x \in {u} : st[x] = t /\ pc[x] \in {"spin", "execute"}})
               = IF InGang(u, t) THEN 1 ELSE 0
  <2> DEFINE H == {x \in {u} : st[x] = t /\ pc[x] \in {"spin", "execute"}}
  <2>1. H = IF InGang(u, t) THEN {u} ELSE {}
    BY DEF InGang
  <2>2. InGang(u, t) \in BOOLEAN
    BY DEF InGang
  <2> HIDE DEF H
  <2>3. Cardinality(H) = IF InGang(u, t) THEN 1 ELSE 0
    BY <2>1, <2>2, OneOrNone
  <2> QED
    BY <2>3 DEF H
<1>2. ASSUME NEW t, NEW u
      PROVE  Cardinality({x \in {u} : st'[x] = t /\ pc'[x] \in {"spin", "execute"}})
               = IF InGang(u, t)' THEN 1 ELSE 0
  <2> DEFINE H == {x \in {u} : st'[x] = t /\ pc'[x] \in {"spin", "execute"}}
  <2>1. H = IF InGang(u, t)' THEN {u} ELSE {}
    BY DEF InGang
  <2>2. InGang(u, t)' \in BOOLEAN
    BY DEF InGang
  <2> HIDE DEF H
  <2>3. Cardinality(H) = IF InGang(u, t)' THEN 1 ELSE 0
    BY <2>1, <2>2, OneOrNone
  <2> QED
    BY <2>3 DEF H
<1>3. ASSUME NEW t, NEW u
      PROVE  ShareRight(t, u) <=>
               Count(assemblyQ[u], t) + Count(ran[t], u)
                 + Cardinality({x \in {u} : st[x] = t /\ pc[x] \in {"spin", "execute"}})
               = IF Distributed(t) /\ u \in Members(place[t]) THEN 1 ELSE 0
  BY <1>1 DEF ShareRight, Share
<1>4. ASSUME NEW t, NEW u
      PROVE  ShareRight(t, u)' <=>
               Count(assemblyQ'[u], t) + Count(ran'[t], u)
                 + Cardinality({x \in {u} : st'[x] = t /\ pc'[x] \in {"spin", "execute"}})
               = IF Distributed(t)' /\ u \in Members(place'[t]) THEN 1 ELSE 0
  BY <1>2 DEF ShareRight, Share
<1>5. EachMemberOnce <=> \A t \in Tasks \ Simple, u \in Worker : ShareRight(t, u)
  BY <1>3 DEF EachMemberOnce
<1>6. EachMemberOnce' <=> \A t \in Tasks \ Simple, u \in Worker : ShareRight(t, u)'
  BY <1>4 DEF EachMemberOnce
<1> QED
  BY <1>5, <1>6

(* The counts are numbers. *)
LEMMA ShareType ==
  ASSUME Types, NEW t \in Tasks, NEW u \in Worker
  PROVE  /\ assemblyQ[u] \in Seq(Tasks) /\ ran[t] \in Seq(Worker)
         /\ Count(assemblyQ[u], t) \in Nat /\ Count(ran[t], u) \in Nat
<1>1. assemblyQ[u] \in Seq(Tasks) /\ ran[t] \in Seq(Worker)
  BY DEF Types
<1> QED
  BY <1>1, CountType

(* What is not launched has no share anywhere, what is distributed is launched. *)
LEMMA NotLaunchedShare ==
  ASSUME Types, Entered, NEW t \in Tasks, ~ Launched(t)
  PROVE  /\ ~ Distributed(t)
         /\ \A u \in Worker : /\ Count(assemblyQ[u], t) = 0 /\ Count(ran[t], u) = 0
                              /\ ~ InGang(u, t)
<1>1. \A u \in Worker : ~ InGang(u, t)
  BY DEF Launched, InGang
<1>2. ran[t] = <<>>
  BY DEF Launched
<1>3. ASSUME NEW u \in Worker PROVE Count(assemblyQ[u], t) = 0
  <2>1. assemblyQ[u] \in Seq(Tasks)
    BY DEF Types
  <2>2. \A k \in 1 .. Len(assemblyQ[u]) : assemblyQ[u][k] # t
    BY DEF Launched
  <2> QED
    BY <2>1, <2>2, CountType
<1>4. ASSUME NEW u \in Worker PROVE Count(ran[t], u) = 0
  <2>1. ran[t] \in Seq(Worker) /\ Len(ran[t]) = 0
    BY <1>2 DEF Types
  <2>2. \A k \in 1 .. Len(ran[t]) : ran[t][k] # u
    BY <2>1
  <2> QED
    BY <2>1, <2>2, CountType
<1>5. ~ (threadsIn[t] > 0)
  BY <1>1, <1>2 DEF Entered
<1> QED
  BY <1>1, <1>3, <1>4, <1>5 DEF Distributed

(* A step that does not touch the shares of t. *)
LEMMA SameShares ==
  ASSUME NEW t \in Tasks, \A u \in Worker : ShareRight(t, u),
         threadsIn'[t] = threadsIn[t],
         \A u \in Worker : /\ Count(assemblyQ'[u], t) = Count(assemblyQ[u], t)
                           /\ Count(ran'[t], u) = Count(ran[t], u)
                           /\ InGang(u, t)' <=> InGang(u, t),
         place'[t] = place[t] \/ ~ Distributed(t)
  PROVE  \A u \in Worker : ShareRight(t, u)'
<1>1. Distributed(t)' <=> Distributed(t)
  BY DEF Distributed
<1>2. ASSUME NEW u \in Worker PROVE Share(t, u)' = Share(t, u)
  BY DEF Share
<1> QED
  BY <1>1, <1>2 DEF ShareRight

(* The insertion of x gives each member of its place one share. *)
LEMMA InsertedShares ==
  ASSUME Types, Entered, NEW x \in Tasks, ~ Launched(x), NEW p \in Places,
         assemblyQ' = Inserted(x, p), place'[x] = p, UNCHANGED <<ran, threadsIn>>,
         \A u \in Worker : InGang(u, x)' <=> InGang(u, x)
  PROVE  \A u \in Worker : ShareRight(x, u)'
<1>1. \A u \in Worker : /\ Count(assemblyQ[u], x) = 0 /\ Count(ran[x], u) = 0
                        /\ ~ InGang(u, x)
  BY NotLaunchedShare
<1>2. \A u \in Worker : Count(assemblyQ'[u], x) = IF u \in Members(p) THEN 1 ELSE 0
  BY <1>1, InsertedCounts
<1>3. p.leader \in Worker /\ Count(assemblyQ'[p.leader], x) > 0
  BY <1>2, PlaceMembers
<1>4. Distributed(x)'
  BY <1>3 DEF Distributed
<1>5. ASSUME NEW u \in Worker
      PROVE  Share(x, u)' = IF u \in Members(p) THEN 1 ELSE 0
  <2>1. Count(ran'[x], u) = 0 /\ ~ InGang(u, x)'
    BY <1>1
  <2> QED
    BY <1>2, <2>1 DEF Share
<1> QED
  BY <1>4, <1>5 DEF ShareRight

(* The insertion of x leaves the shares of the other tasks. *)
LEMMA InsertedOthers ==
  ASSUME Types, NEW x \in Tasks, NEW p, assemblyQ' = Inserted(x, p),
         UNCHANGED <<ran, threadsIn>>, \A t \in Tasks \ {x} : place'[t] = place[t],
         \A u \in Worker, y \in Tasks : InGang(u, y)' <=> InGang(u, y),
         NEW t \in Tasks, t # x, \A u \in Worker : ShareRight(t, u)
  PROVE  \A u \in Worker : ShareRight(t, u)'
<1>1. \A u \in Worker : Count(Inserted(x, p)[u], t) = Count(assemblyQ[u], t)
  BY CountOthers
<1>2. \A u \in Worker : Count(assemblyQ'[u], t) = Count(assemblyQ[u], t)
  BY <1>1
<1> QED
  BY <1>2, SameShares

(* A worker pops its share of the gang x. *)
LEMMA PopShares ==
  ASSUME Inv, NEW w \in Worker, PopAssembly(w), NEW t \in Tasks,
         \A u \in Worker : ShareRight(t, u)
  PROVE  \A u \in Worker : ShareRight(t, u)'
<1> DEFINE q == assemblyQ[w]
<1> PICK x : x = Head(q)
  OBVIOUS
<1>0. Types /\ pc \in [Worker -> Label] /\ st \in [Worker -> Tasks \union {NoTask}]
  BY DEF Inv, Types
<1>1. /\ pc[w] = "loop" /\ q # <<>> /\ assemblyQ' = [assemblyQ EXCEPT ![w] = Tail(q)]
      /\ st' = [st EXCEPT ![w] = x] /\ threadsIn' = [threadsIn EXCEPT ![x] = @ + 1]
      /\ pc' = [pc EXCEPT ![w] = "spin"] /\ UNCHANGED <<ran, place>>
  BY DEF PopAssembly, Goto, histVars
<1>2. q \in Seq(Tasks) /\ x \in Tasks
  BY <1>0, <1>1, HeadTailProperties DEF Types
<1>5. Count(Tail(q), t) = IF x = t THEN Count(q, t) - 1 ELSE Count(q, t)
  BY <1>1, <1>2, CountTail
<1>9. Len(q) \in Nat \ {0} /\ q[1] = x
  BY <1>1, <1>2, EmptySeq
<1>3. /\ assemblyQ'[w] = Tail(q) /\ threadsIn'[x] > 0
      /\ \A u \in Worker \ {w} : assemblyQ'[u] = assemblyQ[u]
      /\ \A y \in Tasks \ {x} : threadsIn'[y] = threadsIn[y]
  <2>1. /\ threadsIn \in [Tasks -> Nat] /\ threadsIn[x] \in Nat
        /\ assemblyQ \in [Worker -> Seq(Tasks)]
    BY <1>0, <1>2 DEF Types
  <2>2. threadsIn'[x] = threadsIn[x] + 1
    BY <1>1, <1>2, <2>1
  <2>3. threadsIn'[x] > 0
    BY <2>1, <2>2
  <2> QED
    BY <1>1, <2>1, <2>3
<1>4. /\ InGang(w, x)' /\ ~ InGang(w, t)
      /\ t # x => ~ InGang(w, t)'
      /\ \A u \in Worker \ {w} : InGang(u, t)' <=> InGang(u, t)
  BY <1>0, <1>1 DEF InGang
<1>6. \A u \in Worker : Count(assemblyQ[u], t) \in Nat /\ Count(ran[t], u) \in Nat
  BY <1>0, ShareType
<1>7. CASE t = x
  <2>1. Count(q, t) # 0
    <3>1. 1 \in 1 .. Len(q) /\ q[1] = t
      BY <1>7, <1>9
    <3> QED
      BY <1>2, <3>1, CountType
  <2>2. Distributed(t)
    BY <1>6, <2>1 DEF Distributed
  <2>3. Distributed(t)'
    BY <1>3, <1>7 DEF Distributed
  <2>4. ASSUME NEW u \in Worker PROVE Share(t, u)' = Share(t, u)
    <3>1. CASE u = w
      <4>1. Count(assemblyQ'[w], t) = Count(assemblyQ[w], t) - 1
        BY <1>3, <1>5, <1>7
      <4> QED
        BY <1>1, <1>4, <1>6, <1>7, <3>1, <4>1 DEF Share
    <3>2. CASE u # w
      BY <1>1, <1>3, <1>4, <3>2 DEF Share
    <3> QED
      BY <3>1, <3>2
  <2> QED
    BY <1>1, <2>2, <2>3, <2>4 DEF ShareRight
<1>8. CASE t # x
  <2>1. \A u \in Worker : Count(assemblyQ'[u], t) = Count(assemblyQ[u], t)
    BY <1>3, <1>5, <1>8
  <2>2. \A u \in Worker : InGang(u, t)' <=> InGang(u, t)
    BY <1>4, <1>8
  <2> QED
    BY <1>1, <1>3, <1>8, <2>1, <2>2, SameShares
<1> QED
  BY <1>7, <1>8

(* A worker that has run its share has done it. *)
LEMMA EndShares ==
  ASSUME Inv, NEW w \in Worker, EndAssembly(w), NEW t \in Tasks,
         \A u \in Worker : ShareRight(t, u)
  PROVE  \A u \in Worker : ShareRight(t, u)'
<1> PICK x : x = st[w]
  OBVIOUS
<1>0. Types /\ pc \in [Worker -> Label] /\ st \in [Worker -> Tasks \union {NoTask}]
  BY DEF Inv, Types
<1>1. /\ pc[w] = "execute" /\ ran' = [ran EXCEPT ![x] = Append(@, w)]
      /\ UNCHANGED <<assemblyQ, threadsIn, place>> /\ pc'[w] \in {"wake", "loop"}
      /\ \A u \in Worker \ {w} : pc'[u] = pc[u] /\ st'[u] = st[u]
  BY <1>0 DEF EndAssembly, Goto, queueVars
<1>2. x \in Tasks
  BY <1>1 DEF Inv, Hands, HandOf
<1>3. ran[x] \in Seq(Worker) /\ ran'[x] = Append(ran[x], w)
  BY <1>0, <1>1, <1>2 DEF Types
<1>4. \A y \in Tasks \ {x} : ran'[y] = ran[y]
  BY <1>0, <1>1 DEF Types
<1>5. /\ InGang(w, x) /\ ~ InGang(w, t)' /\ (t # x => ~ InGang(w, t))
      /\ \A u \in Worker \ {w} : InGang(u, t)' <=> InGang(u, t)
  BY <1>1 DEF InGang
<1>6. \A u \in Worker : Count(assemblyQ[u], t) \in Nat /\ Count(ran[t], u) \in Nat
  BY <1>0, ShareType
<1>7. CASE t = x
  <2>1. ASSUME NEW u \in Worker
        PROVE  Count(Append(ran[x], w), u) = IF w = u THEN Count(ran[x], u) + 1
                                                      ELSE Count(ran[x], u)
    BY <1>3, CountAppend
  <2>2. Distributed(t)' <=> Distributed(t)
    BY <1>1 DEF Distributed
  <2>3. ASSUME NEW u \in Worker PROVE Share(t, u)' = Share(t, u)
    <3>1. /\ Count(ran'[t], u) = IF w = u THEN Count(ran[t], u) + 1 ELSE Count(ran[t], u)
          /\ assemblyQ'[u] = assemblyQ[u]
      BY <1>1, <1>3, <1>7, <2>1
    <3>2. InGang(u, t)' <=> InGang(u, t) /\ u # w
      BY <1>5
    <3>3. u = w => InGang(u, t)
      BY <1>5, <1>7
    <3>4. Count(assemblyQ[u], t) \in Nat /\ Count(ran[t], u) \in Nat
      BY <1>6
    <3> QED
      BY <3>1, <3>2, <3>3, <3>4 DEF Share
  <2> QED
    BY <1>1, <2>2, <2>3 DEF ShareRight
<1>8. CASE t # x
  BY <1>1, <1>4, <1>5, <1>8, SameShares
<1> QED
  BY <1>7, <1>8

(* A step of a worker keeps the shares of all gangs. *)
LEMMA StepShares ==
  ASSUME Inv, Placed, Entered, EachMemberOnce, NEW w \in Worker, Step(w)
  PROVE  EachMemberOnce'
<1> USE DEF Goto, queueVars, gangVars, wakeVars, histVars
<1> SUFFICES ASSUME NEW t \in Tasks \ Simple PROVE \A u \in Worker : ShareRight(t, u)'
  BY MemberOnceIsShare
<1>0. /\ Types /\ HandOf(w) /\ pc \in [Worker -> Label]
      /\ st \in [Worker -> Tasks \union {NoTask}]
      /\ \A u \in Worker : ShareRight(t, u)
  BY MemberOnceIsShare DEF Inv, Hands, Types
<1>1. CASE PopAssembly(w)
  BY <1>0, <1>1, PopShares
<1>2. CASE EndAssembly(w)
  BY <1>0, <1>2, EndShares
<1>3. CASE Distribute(w)
  <2>1. /\ st[w] \in Tasks \ Simple /\ place[st[w]] \in Places /\ At(st[w], "hand", w, 0)
        /\ assemblyQ' = Inserted(st[w], place[st[w]]) /\ UNCHANGED <<ran, threadsIn, place>>
    BY <1>0, <1>3 DEF Distribute, HandOf, Placed, At
  <2>2. \A u \in Worker, y \in Tasks : InGang(u, y)' <=> InGang(u, y)
    BY <1>0, <1>3 DEF InGang, Distribute
  <2>3. ~ Launched(st[w])
    BY <2>1, NotYetLaunched
  <2>4. CASE t = st[w]
    BY <1>0, <2>1, <2>2, <2>3, <2>4, InsertedShares
  <2>5. CASE t # st[w]
    BY <1>0, <2>1, <2>2, <2>5, InsertedOthers
  <2> QED
    BY <2>4, <2>5
<1>4. CASE GiveCritical(w)
  <2>1. gift[w] \in Tasks /\ At(gift[w], "gift", w, 0)
    BY <1>0, <1>4 DEF GiveCritical, HandOf, At
  <2>2. PICK p \in Places : /\ place' = [place EXCEPT ![gift[w]] = p]
                            /\ assemblyQ' = Inserted(gift[w], p)
    BY <1>4 DEF GiveCritical
  <2>3. UNCHANGED <<ran, threadsIn>>
    BY <1>4 DEF GiveCritical
  <2>4. \A u \in Worker, y \in Tasks : InGang(u, y)' <=> InGang(u, y)
    BY <1>0, <1>4 DEF InGang, GiveCritical
  <2>5. ~ Launched(gift[w])
    BY <2>1, NotYetLaunched
  <2>6. place'[gift[w]] = p /\ \A y \in Tasks \ {gift[w]} : place'[y] = place[y]
    BY <1>0, <2>1, <2>2 DEF Types
  <2>7. CASE t = gift[w]
    BY <1>0, <2>1, <2>2, <2>3, <2>4, <2>5, <2>6, <2>7, InsertedShares
  <2>8. CASE t # gift[w]
    BY <1>0, <2>1, <2>2, <2>3, <2>4, <2>6, <2>8, InsertedOthers
  <2> QED
    BY <2>7, <2>8
<1>5. ASSUME UNCHANGED <<assemblyQ, threadsIn>>, ran'[t] = ran[t],
             \A u \in Worker : InGang(u, t)' <=> InGang(u, t),
             place'[t] = place[t] \/ ~ Launched(t)
      PROVE  \A u \in Worker : ShareRight(t, u)'
  <2>1. place'[t] = place[t] \/ ~ Distributed(t)
    BY <1>0, <1>5, NotLaunchedShare
  <2> QED
    BY <1>0, <1>5, <2>1, SameShares
<1>6. ASSUME NEW v \in Worker, TakeFrom(w, v), pc[w] \in {"ready", "steal"}
      PROVE  \A u \in Worker : ShareRight(t, u)'
  <2>1. PICK x \in Tasks :
           /\ Len(readyQ[v]) \in Nat \ {0} /\ x = readyQ[v][Len(readyQ[v])]
           /\ st' = [st EXCEPT ![w] = x]
           /\ \A y \in Tasks \ {x} : place'[y] = place[y]
    BY <1>0, <1>6, TakeFacts
  <2>2. At(x, "queue", v, Len(readyQ[v])) /\ Len(readyQ[v]) \in Nat
    BY <2>1 DEF At
  <2>3. ~ Launched(x)
    BY <2>2, NotYetLaunched
  <2>4. UNCHANGED <<assemblyQ, threadsIn, ran>> /\ pc' = [pc EXCEPT ![w] = "have"]
    BY <1>6 DEF TakeFrom
  <2>5. \A u \in Worker : InGang(u, t)' <=> InGang(u, t)
    BY <1>0, <1>6, <2>1, <2>4 DEF InGang
  <2> QED
    BY <1>5, <2>1, <2>3, <2>4, <2>5
<1>7. CASE EndSimple(w)
  <2>1. st[w] \in Simple /\ ran' = [ran EXCEPT ![st[w]] = Append(@, w)]
    BY <1>0, <1>7 DEF EndSimple, HandOf
  <2>2. ran'[t] = ran[t]
    BY <1>0, <2>1 DEF Types
  <2>3. \A u \in Worker : InGang(u, t)' <=> InGang(u, t)
    BY <1>0, <1>7 DEF InGang, EndSimple
  <2> QED
    BY <1>5, <1>7, <2>2, <2>3 DEF EndSimple
<1>8. CASE \/ FindNoAssembly(w) \/ FindNoReady(w) \/ GiveUp(w) \/ BeginSimple(w)
           \/ BeginAssembly(w) \/ GiveReady(w) \/ Complete(w)
           \/ \E s \in Tasks : Release(w, s)
  <2>1. UNCHANGED <<assemblyQ, threadsIn, ran, place>>
    BY <1>8 DEF FindNoAssembly, FindNoReady, GiveUp, BeginSimple, BeginAssembly, GiveReady,
       Complete, Release, Visit
  <2>2. \A u \in Worker : InGang(u, t)' <=> InGang(u, t)
    BY <1>0, <1>8 DEF InGang, FindNoAssembly, FindNoReady, GiveUp, BeginSimple,
       BeginAssembly, GiveReady, Complete, Release, Visit
  <2> QED
    BY <1>5, <2>1, <2>2
<1>9. \A v \in Worker : TakeFrom(w, v) /\ pc[w] \in {"ready", "steal"}
        => \A u \in Worker : ShareRight(t, u)'
  BY <1>6
<1> QED
  BY <1>1, <1>2, <1>3, <1>4, <1>7, <1>8, <1>9, StealAssumption
  DEF Step, Search, Run, Wakeup, TakeOwn, Steal

-----------------------------------------------------------------------------
(* The invariant that nothing is lost, and what follows.                     *)

(* Launched, in the words of the property. *)
LEMMA LaunchedMeans ==
  ASSUME Inv, Entered, NEW t \in Tasks
  PROVE  Launched(t) <=> Distributed(t) \/ ran[t] # <<>>
<1>0. Types /\ Commits
  BY DEF Inv
<1>1. ASSUME t \in Finished PROVE ran[t] # <<>>
  <2>1. Len(ran[t]) > 0
    BY <1>1 DEF Finished
  <2>2. ran[t] = <<>> => Len(ran[t]) = 0
    OBVIOUS
  <2> QED
    BY <2>1, <2>2
<1>2. ASSUME Launched(t), ran[t] = <<>> PROVE Distributed(t)
  <2>1. t \notin Finished
    BY <1>1, <1>2
  <2>2. t \notin completed /\ \A w \in Worker : st[w] = t => pc[w] \notin {"wake", "give"}
    BY <1>0, <2>1 DEF Commits, Committing
  <2>3. ASSUME NEW w \in Worker, InGang(w, t) PROVE Distributed(t)
    BY <2>3 DEF Entered, Distributed
  <2>4. ASSUME NEW w \in Worker, NEW k \in 1 .. Len(assemblyQ[w]), assemblyQ[w][k] = t
        PROVE  Distributed(t)
    <3>1. assemblyQ[w] \in Seq(Tasks)
      BY <1>0 DEF Types
    <3>2. Count(assemblyQ[w], t) \in Nat /\ Count(assemblyQ[w], t) # 0
      BY <2>4, <3>1, CountType
    <3>3. Count(assemblyQ[w], t) > 0
      BY <3>2
    <3> QED
      BY <3>3 DEF Distributed
  <2> QED
    BY <1>2, <2>2, <2>3, <2>4 DEF Launched, InGang
<1>3. ASSUME ~ Launched(t) PROVE ~ Distributed(t) /\ ran[t] = <<>>
  BY <1>0, <1>3, NotLaunchedShare DEF Launched
<1> QED
  BY <1>2, <1>3

(* A set with at most one element. *)
LEMMA AtMostOne ==
  ASSUME NEW S, \A x, y \in S : x = y
  PROVE  Cardinality(S) = IF S = {} THEN 0 ELSE 1
<1>1. CASE S = {}
  BY <1>1, FS_EmptySet
<1>2. CASE S # {}
  <2>1. PICK x \in S : TRUE
    BY <1>2
  <2>2. S = {x}
    BY <2>1
  <2>3. Cardinality({x}) = 1
    BY FS_Singleton
  <2> QED
    BY <1>2, <2>2, <2>3
<1> QED
  BY <1>1, <1>2

(* One place at a time, and some place: exactly one custodian until a task is
   launched. *)
LEMMA KeptImplies == Kept => Custody
<1> SUFFICES ASSUME Kept, NEW t \in Tasks
             PROVE  Custodians(t) = IF refcount[t] = 0 /\ ~ Distributed(t) /\ ran[t] = <<>>
                                      THEN 1 ELSE 0
  BY DEF Custody
<1> DEFINE A == {t} \intersect unpushed
           B == Queued(t)
           C == {w \in Worker : st[w] = t /\ pc[w] \in {"have", "simple"}}
           D == {w \in Worker : gift[w] = t}
<1>0. /\ Inv /\ Types /\ OnePlace /\ Somewhere(t) /\ Entered
      /\ Where = {"waiting", "program", "queue", "hand", "gift", "launched"} /\ 0 \in Worker
  BY ZeroIsWorker DEF Kept, Inv, Present, Where
<1>1. ASSUME NEW w \in Worker
      PROVE  Len(readyQ[w]) \in Nat /\ \A k \in 1 .. Len(readyQ[w]) : k \in Nat
  BY <1>0, LenProperties DEF Types
<1>2. \A x \in B : \E w \in Worker, k \in Nat :
        x = <<w, k>> /\ k \in 1 .. Len(readyQ[w]) /\ readyQ[w][k] = t
  BY <1>1 DEF Queued
<1>3. ASSUME NEW w \in Worker, NEW k \in 1 .. Len(readyQ[w]), readyQ[w][k] = t
      PROVE  B # {}
  <2>1. <<w, k>> \in {w} \X {l \in 1 .. Len(readyQ[w]) : readyQ[w][l] = t}
    BY <1>3
  <2>2. <<w, k>> \in B
    BY <2>1 DEF Queued
  <2> QED
    BY <2>2
<1>4. \A x \in B : \E w \in Worker, k \in Nat : x = <<w, k>> /\ At(t, "queue", w, k)
  BY <1>2 DEF At
<1>5. A # {} => At(t, "program", 0, 0)
  BY DEF At
<1>6. (\A w \in C : At(t, "hand", w, 0)) /\ \A w \in D : At(t, "gift", w, 0)
  BY DEF At
<1> HIDE DEF B
<1>7. \A x, y \in B : x = y
  BY <1>0, <1>4 DEF OnePlace
<1>8. (\A x, y \in A : x = y) /\ (\A x, y \in C : x = y) /\ (\A x, y \in D : x = y)
  BY <1>0, <1>6 DEF OnePlace
<1>9. /\ Cardinality(A) = IF A = {} THEN 0 ELSE 1
      /\ Cardinality(B) = IF B = {} THEN 0 ELSE 1
      /\ Cardinality(C) = IF C = {} THEN 0 ELSE 1
      /\ Cardinality(D) = IF D = {} THEN 0 ELSE 1
  BY <1>7, <1>8, AtMostOne
<1>10. Custodians(t) = Cardinality(A) + Cardinality(B) + Cardinality(C) + Cardinality(D)
  BY DEF Custodians, B
<1>11. /\ A # {} => B = {} /\ C = {} /\ D = {}
       /\ B # {} => C = {} /\ D = {}
       /\ C # {} => D = {}
  <2>1. A # {} => B = {} /\ C = {} /\ D = {}
    BY <1>0, <1>4, <1>5, <1>6 DEF OnePlace
  <2>2. B # {} => C = {} /\ D = {}
    BY <1>0, <1>4, <1>6 DEF OnePlace
  <2>3. C # {} => D = {}
    BY <1>0, <1>6 DEF OnePlace
  <2> QED
    BY <2>1, <2>2, <2>3
<1>12. A # {} \/ B # {} \/ C # {} \/ D # {} => refcount[t] = 0 /\ ~ Launched(t)
  BY <1>0, <1>4, <1>5, <1>6, NotYetLaunched
<1>13. A = {} /\ B = {} /\ C = {} /\ D = {} => refcount[t] # 0 \/ Launched(t)
  BY <1>0, <1>3 DEF Somewhere
<1>14. Launched(t) <=> Distributed(t) \/ ran[t] # <<>>
  BY <1>0, LaunchedMeans
<1> HIDE DEF A, C, D
<1>15. CASE refcount[t] = 0 /\ ~ Launched(t)
  BY <1>9, <1>10, <1>11, <1>13, <1>14, <1>15
<1>16. CASE ~ (refcount[t] = 0 /\ ~ Launched(t))
  BY <1>9, <1>10, <1>12, <1>14, <1>16
<1> QED
  BY <1>15, <1>16

(* Before the first step, a task without predecessors is with the program. *)
LEMMA InitKept == Init => Kept
<1> SUFFICES ASSUME Init PROVE Kept
  OBVIOUS
<1>1. Inv
  BY InitInv
<1>2. /\ refcount = [t \in Tasks |-> Cardinality(Preds(t))]
      /\ unpushed = {t \in Tasks : Preds(t) = {}}
      /\ \A w \in Worker : /\ st[w] = NoTask /\ pc[w] \in {"loop", "off"}
                           /\ assemblyQ[w] = <<>>
      /\ \A t \in Tasks : ran[t] = <<>> /\ threadsIn[t] = 0
      /\ completed = {}
  BY DEF Init
<1>3. Present
  <2> SUFFICES ASSUME NEW t \in Tasks PROVE refcount[t] # 0 \/ t \in unpushed
    BY DEF Present, Somewhere
  <2>1. Preds(t) \subseteq Tasks /\ IsFiniteSet(Tasks)
    BY TasksAssumption DEF Preds
  <2>2. IsFiniteSet(Preds(t))
    BY <2>1, FS_Subset
  <2> QED
    BY <1>2, <2>2, FS_EmptySet
<1>4. Placed /\ Entered
  BY <1>2 DEF Placed, Entered, InGang
<1>5. EachMemberOnce
  <2> SUFFICES ASSUME NEW t \in Tasks, NEW u \in Worker PROVE ShareRight(t, u)
    BY MemberOnceIsShare
  <2>1. ~ Launched(t)
    BY <1>2 DEF Launched
  <2>2. Types
    BY <1>1 DEF Inv
  <2>3. /\ ~ Distributed(t) /\ Count(assemblyQ[u], t) = 0 /\ Count(ran[t], u) = 0
        /\ ~ InGang(u, t)
    BY <1>4, <2>1, <2>2, NotLaunchedShare
  <2> QED
    BY <2>3 DEF ShareRight, Share
<1> QED
  BY <1>1, <1>3, <1>4, <1>5 DEF Kept

(* Every step loses nothing. *)
LEMMA NextKept == Kept /\ [Next]_vars => Kept'
<1> SUFFICES ASSUME Kept, [Next]_vars PROVE Kept'
  OBVIOUS
<1>1. Inv' /\ Inv /\ Present /\ Placed /\ Entered /\ EachMemberOnce
  BY NextInv DEF Kept
<1>2. CASE UNCHANGED vars
  <2> USE <1>2 DEF vars, queueVars, gangVars, wakeVars, histVars
  <2>1. Present'
    BY <1>1 DEF Present, Somewhere, Launched
  <2>2. Placed' /\ Entered'
    BY <1>1 DEF Placed, Entered, InGang
  <2>3. EachMemberOnce'
    BY <1>1 DEF EachMemberOnce, Distributed
  <2> QED
    BY <1>1, <2>1, <2>2, <2>3 DEF Kept
<1>3. ASSUME NEW t \in Tasks, NEW q \in Worker, Push(t, q) PROVE Kept'
  <2>1. /\ unpushed' = unpushed \ {t} /\ readyQ' = [readyQ EXCEPT ![q] = Append(readyQ[q], t)]
        /\ UNCHANGED <<refcount, assemblyQ, place, st, pc, gift, threadsIn, ran, completed>>
    BY <1>3 DEF Push, wakeVars, gangVars, histVars
  <2>2. Types
    BY <1>1 DEF Inv
  <2>3. Present'
    <3> SUFFICES ASSUME NEW x \in Tasks PROVE Somewhere(x)'
      BY DEF Present
    <3>1. /\ \A u \in Worker : \A k \in 1 .. Len(readyQ[u]) :
               k \in 1 .. Len(readyQ'[u]) /\ readyQ'[u][k] = readyQ[u][k]
          /\ \E k \in 1 .. Len(readyQ'[q]) : readyQ'[q][k] = t
      BY <2>1, <2>2, AppendKeeps
    <3>2. Launched(x)' <=> Launched(x)
      BY <2>1 DEF Launched
    <3>3. Somewhere(x)
      BY <1>1 DEF Present
    <3> QED
      BY <2>1, <3>1, <3>2, <3>3 DEF Somewhere
  <2>4. Placed' /\ Entered'
    BY <1>1, <2>1 DEF Placed, Entered, InGang
  <2>5. EachMemberOnce'
    BY <1>1, <2>1 DEF EachMemberOnce, Distributed
  <2> QED
    BY <1>1, <2>3, <2>4, <2>5 DEF Kept
<1>4. ASSUME NEW w \in Worker, Step(w) PROVE Kept'
  BY <1>1, <1>4, StepPresent, StepPlaced, StepEntered, StepShares DEF Kept
<1> QED
  BY <1>2, <1>3, <1>4 DEF Next, PushRoot

(* Ready queues, thieves, commits and distribution hold a ready task exactly once:
   none is lost or duplicated on its way from the last release to its launch. *)
THEOREM CustodyIsKept == Spec => []Custody
  BY InitKept, NextKept, KeptImplies, PTL DEF Spec

(* A distributed assembly is once, and no more, in the queue or the hands of each
   member of its place, or run by it, whatever the other gangs do. *)
THEOREM MembersRunOnce == Spec => []EachMemberOnce
<1>1. Kept => EachMemberOnce
  BY DEF Kept
<1> QED
  BY <1>1, InitKept, NextKept, PTL DEF Spec
=============================================================================
