----------------------- MODULE AssemblyQueues_proofs -----------------------
(***************************************************************************)
(* Proofs about AssemblyQueues, for any number of workers and any tasks and *)
(* places.  The theorems about the order of the queues assume that executed *)
(* tasks are not deleted: with deletion the release loop of an insertion    *)
(* may read the leader and width of a task that is gone.  The second half   *)
(* is about what the gangs do with the queues.                              *)
(***************************************************************************)
EXTENDS AssemblyQueues, TLAPS, FiniteSetTheorems, WellFoundedInduction

(* A place, also the empty one of a task not molded yet, is a pair of
   naturals. *)
LEMMA PlaceType ==
  \A p \in Places \union {NoPlace} : p.leader \in Nat /\ p.width \in Nat
  BY PlacesAssumption DEF NoPlace

LEMMA ReadType ==
  ASSUME TypeOK, NEW t \in Tasks
  PROVE  PlaceRead(t) \subseteq Places \union {NoPlace}
  BY DEF TypeOK, PlaceRead

(* A worker is a number, and never the number that stands for a free lock. *)
LEMMA WorkerType ==
  /\ Worker \subseteq Nat
  /\ Free \notin Worker
  /\ 0 \in Worker
  BY NThreadsAssumption DEF Worker, Free

LEMMA InitType == Init => TypeOK
  BY WorkerType, NoTaskAssumption DEF Init, TypeOK, Label, NoPlace, Free

LEMMA PushType ==
  ASSUME TypeOK, NEW w \in Worker, cur[w] \in Tasks,
         log' = [log EXCEPT ![pos[w]] = Append(@, cur[w])]
  PROVE  log' \in [Worker -> Seq(Tasks)]
<1> DEFINE longer == Append(log[pos[w]], cur[w])
<1>1. pos[w] \in Worker => longer \in Seq(Tasks)
  BY DEF TypeOK
<1>2. log' = [log EXCEPT ![pos[w]] = longer] /\ log \in [Worker -> Seq(Tasks)]
  BY DEF TypeOK
<1> HIDE DEF longer
<1>3. QED
  BY <1>1, <1>2

(* What a worker pops from its assembly queue is a task. *)
LEMMA PopType ==
  ASSUME TypeOK, NEW w \in Worker, head[w] < Len(log[w])
  PROVE  log[w][head[w] + 1] \in Tasks
<1>1. log[w] \in Seq(Tasks) /\ head[w] \in Nat
  BY DEF TypeOK
<1>2. QED
  BY <1>1

LEMMA StepType == TypeOK /\ [Next]_vars => TypeOK'
<1> SUFFICES ASSUME TypeOK, [Next]_vars PROVE TypeOK'
  OBVIOUS
<1>0. ASSUME NEW w \in Worker, PopAssembly(w)
      PROVE  /\ log[w][head[w] + 1] \in Tasks
             /\ head' \in [Worker -> Nat]
  <2>1. head \in [Worker -> Nat] /\ head' = [head EXCEPT ![w] = @ + 1]
    BY <1>0 DEF TypeOK, PopAssembly
  <2>2. head' \in [Worker -> Nat]
    BY <2>1
  <2>3. QED
    BY <1>0, <2>2, PopType DEF PopAssembly
<1> USE DEF TypeOK, Label, Goto, queueVars, gangVars, histVars
<1>1. ASSUME NEW w \in Worker, Step(w) PROVE TypeOK'
  <2>0. pc[w] \notin {"loop", "ready"} => cur[w] \in Tasks
    OBVIOUS
  <2>1. CASE PopAssembly(w)
    <3>1. log[w][head[w] + 1] \in Tasks
      BY <1>0, <2>1
    <3>2. head' \in [Worker -> Nat]
      BY <1>0, <2>1
    <3>3. cur' \in [Worker -> Tasks \union {NoTask}]
      BY <2>1, <3>1 DEF PopAssembly
    <3>4. \A x \in Worker : cur'[x] = NoTask <=> pc'[x] \in {"loop", "ready"}
      BY <2>1, <3>1, NoTaskAssumption DEF PopAssembly
    <3>5. pc' \in [Worker -> Label]
      BY <2>1 DEF PopAssembly
    <3>6. QED
      BY <2>1, <3>2, <3>3, <3>4, <3>5 DEF PopAssembly
  <2>2. ASSUME NEW v \in Worker, TakeReady(w, v) PROVE TypeOK'
    <3>1. PICK t \in ready[v], p \in Places :
            /\ ready' = [ready EXCEPT ![v] = @ \ {t}]
            /\ place' = [place EXCEPT ![t] = p]
            /\ cur' = [cur EXCEPT ![w] = t]
            /\ pos' = [pos EXCEPT ![w] = p.leader]
      BY <2>2 DEF TakeReady
    <3>2. t \in Tasks /\ p.leader \in Nat
      BY PlaceType
    <3>3. QED
      BY <2>2, <3>1, <3>2, NoTaskAssumption DEF TakeReady
  <2>3. CASE Rewind(w)
    <3>1. PICK p \in Places \union {NoPlace} :
            pos' = [pos EXCEPT ![w] = p.leader]
      BY <2>3, <2>0, ReadType DEF Rewind
    <3>2. p.leader \in Nat
      BY PlaceType
    <3>3. QED
      BY <2>3, <3>1, <3>2 DEF Rewind
  <2>4. CASE FindNoAssembly(w)
    BY <2>4, <2>0 DEF FindNoAssembly
  <2>5. CASE FindNothing(w)
    BY <2>5, <2>0 DEF FindNothing
  <2>6. CASE Acquire(w)
    BY <2>6, <2>0, WorkerType DEF Acquire
  <2>7. CASE PushMore(w)
    <3>1. log' \in [Worker -> Seq(Tasks)]
      BY <2>7, <2>0, PushType DEF PushMore
    <3>2. pos' \in [Worker -> Nat]
      BY <2>7, <2>0 DEF PushMore
    <3>3. QED
      BY <2>7, <2>0, <3>1, <3>2 DEF PushMore
  <2>8. CASE PushLast(w)
    <3>1. log' \in [Worker -> Seq(Tasks)]
      BY <2>8, <2>0, PushType DEF PushLast
    <3>2. stamp' \in [Tasks -> Nat]
      BY <2>8, <2>0 DEF PushLast
    <3>3. QED
      BY <2>8, <2>0, <3>1, <3>2 DEF PushLast
  <2>9. CASE ReleaseOne(w)
    <3>1. pos' \in [Worker -> Nat]
      BY <2>9, <2>0 DEF ReleaseOne
    <3>2. alock' \in [Worker -> Worker \union {Free}]
      BY <2>9, <2>0 DEF ReleaseOne
    <3>3. QED
      BY <2>9, <2>0, <3>1, <3>2 DEF ReleaseOne
  <2>10. CASE ReleaseDone(w)
    BY <2>10, <2>0 DEF ReleaseDone
  <2>11. CASE Enter(w)
    BY <2>11, <2>0 DEF Enter
  <2>12. CASE LeaveSpin(w)
    BY <2>12, <2>0 DEF LeaveSpin
  <2>13. CASE Execute(w)
    BY <2>13, <2>0 DEF Execute
  <2>14. CASE Leave(w)
    BY <2>14, <2>0 DEF Leave
  <2>15. CASE TestFinal(w)
    BY <2>15, <2>0 DEF TestFinal
  <2>16. CASE TestNotFinal(w)
    BY <2>16, <2>0 DEF TestNotFinal
  <2>17. CASE Commit(w)
    BY <2>17, <2>0 DEF Commit
  <2>18. QED
    BY <1>1, <2>1, <2>2, <2>3, <2>4, <2>5, <2>6, <2>7, <2>8, <2>9,
       <2>10, <2>11, <2>12, <2>13, <2>14, <2>15, <2>16, <2>17
    DEF Step, Insert, Gang
<1>2. CASE UNCHANGED vars
  BY <1>2 DEF vars
<1>3. QED
  BY <1>1, <1>2 DEF Next

(* Every counter, queue and label keeps its type, in all runs of
   worker_loop, whatever is deleted. *)
THEOREM TypeCorrect == Spec => []TypeOK
<1>1. QED
  BY InitType, StepType, PTL DEF Spec

-----------------------------------------------------------------------------
(* The insertion under two-phase locking. *)

(* What InsertInv says of one worker's insertion. *)
LEMMA MembersType ==
  ASSUME NEW p \in Places
  PROVE  /\ Members(p) \subseteq Worker
         /\ p.leader \in Nat /\ p.width \in Nat \ {0}
         /\ p.leader \in Members(p)
         /\ p.leader + p.width - 1 \in Members(p)
  BY PlacesAssumption, NThreadsAssumption DEF Members, Worker

LEMMA InsertInit == Init => InsertInv
  BY WorkerType
  DEF Init, InsertInv, LoopBounds, LocksHeld, OneInserter, OpenEntries,
      PushedSoFar, SerialOrder, Inserting, Pushing, Holds, Free

(* A step that pushes nothing and starts no insertion keeps what is pushed. *)
LEMMA PushedKept ==
  ASSUME InsertInv, UNCHANGED <<log, stamp, place>>,
         \A x \in Worker :
           Pushing(x)' => Pushing(x) /\ cur'[x] = cur[x] /\ pos'[x] = pos[x]
  PROVE  PushedSoFar'
<1>1. PushedSoFar
  BY DEF InsertInv
<1>2. ASSUME NEW i PROVE Entries(i)' = Entries(i)
  BY DEF Entries
<1>3. ASSUME NEW u \in Tasks, stamp'[u] > 0
      PROVE  /\ place'[u] \in Places
             /\ \A i \in Members(place'[u]) : u \in Entries(i)'
  <2>1. stamp[u] > 0 /\ place'[u] = place[u]
    BY <1>3
  <2>2. place[u] \in Places /\ \A i \in Members(place[u]) : u \in Entries(i)
    BY <1>1, <2>1 DEF PushedSoFar
  <2>3. QED
    BY <1>2, <2>1, <2>2
<1>4. ASSUME NEW x \in Worker, NEW i \in Worker, Pushing(x)',
             place'[cur'[x]].leader <= i, i < pos'[x]
      PROVE  cur'[x] \in Entries(i)'
  <2>1. /\ Pushing(x) /\ cur'[x] = cur[x] /\ pos'[x] = pos[x]
        /\ place' = place
    BY <1>4
  <2>2. place[cur[x]].leader <= i /\ i < pos[x]
    BY <1>4, <2>1
  <2>3. cur[x] \in Entries(i)
    BY <1>1, <2>1, <2>2 DEF PushedSoFar
  <2>4. QED
    BY <1>2, <2>1, <2>3
<1>5. QED
  BY <1>3, <1>4 DEF PushedSoFar

(* A step of a worker that is not inserting disturbs nothing. *)
LEMMA QuietStep ==
  ASSUME TypeOK, InsertInv, NEW w \in Worker,
         ~Inserting(w), ~Inserting(w)',
         \A x \in Worker : x # w => pc'[x] = pc[x] /\ cur'[x] = cur[x],
         UNCHANGED <<ready, place, pos, alock, log, stamp, clock, deleted>>
  PROVE  InsertInv'
<1>1. \A x \in Worker : /\ Inserting(x)' <=> Inserting(x)
                        /\ Pushing(x)' <=> Pushing(x)
                        /\ Inserting(x) => cur'[x] = cur[x] /\ pc'[x] = pc[x]
  BY DEF Inserting, Pushing
<1>2. \A x \in Worker : Pushing(x) => Inserting(x)
  BY DEF Inserting, Pushing
<1>3. LoopBounds'
  BY <1>1, <1>2 DEF InsertInv, LoopBounds, Inserting, Pushing, LastMember
<1>4. LocksHeld'
  <2>1. \A x, i \in Worker : Holds(x, i)' <=> Holds(x, i)
    BY <1>1 DEF Holds, Inserting
  <2>2. QED
    BY <2>1 DEF InsertInv, LocksHeld
<1>5. OneInserter'
  BY <1>1 DEF InsertInv, OneInserter
<1>6. OpenEntries'
  BY <1>1, <1>2 DEF InsertInv, OpenEntries
<1>7. PushedSoFar'
  BY <1>1, <1>2, PushedKept
<1>8. SerialOrder'
  BY DEF InsertInv, SerialOrder
<1>9. QED
  BY <1>3, <1>4, <1>5, <1>6, <1>7, <1>8 DEF InsertInv

LEMMA TakeInsert ==
  ASSUME TypeOK, InsertInv, NEW w \in Worker, NEW v \in Worker, TakeReady(w, v)
  PROVE  InsertInv'
<1> USE DEF queueVars, gangVars, histVars, Goto
<1>1. PICK t \in ready[v], p \in Places :
        /\ ready' = [ready EXCEPT ![v] = @ \ {t}]
        /\ place' = [place EXCEPT ![t] = p]
        /\ cur' = [cur EXCEPT ![w] = t]
        /\ pos' = [pos EXCEPT ![w] = p.leader]
  BY DEF TakeReady
<1>2. /\ pc[w] = "ready" /\ pc' = [pc EXCEPT ![w] = "acquire"]
      /\ UNCHANGED <<alock, log, stamp, clock, deleted>>
  BY DEF TakeReady
<1>3. /\ t \in Tasks /\ stamp[t] = 0
      /\ \A x \in Worker : Inserting(x) => cur[x] # t
  BY DEF TypeOK, InsertInv, OneInserter
<1>4. \A x \in Worker : x # w =>
        /\ Inserting(x)' <=> Inserting(x)
        /\ Pushing(x)' <=> Pushing(x)
        /\ cur'[x] = cur[x] /\ pos'[x] = pos[x] /\ pc'[x] = pc[x]
        /\ Inserting(x) => place'[cur[x]] = place[cur[x]]
  BY <1>1, <1>2, <1>3 DEF Inserting, Pushing, TypeOK
<1>5. /\ cur'[w] = t /\ pos'[w] = p.leader /\ pc'[w] = "acquire"
      /\ place'[t] = p
      /\ Inserting(w)' /\ Pushing(w)' /\ ~Inserting(w) /\ ~Pushing(w)
  BY <1>1, <1>2, <1>3 DEF Inserting, Pushing, TypeOK
<1>6. LoopBounds'
  BY <1>2, <1>3, <1>4, <1>5, MembersType
  DEF InsertInv, LoopBounds, LastMember, Inserting, Pushing
<1>7. LocksHeld'
  <2>1. ASSUME NEW i \in Worker PROVE ~Holds(w, i) /\ ~Holds(w, i)'
    BY <1>2, <1>5, MembersType, WorkerType DEF Holds
  <2>2. ASSUME NEW i \in Worker, NEW x \in Worker, x # w
        PROVE  Holds(x, i)' <=> Holds(x, i)
    BY <2>2, <1>4 DEF Holds, Inserting
  <2>3. QED
    BY <1>2, <2>1, <2>2 DEF InsertInv, LocksHeld
<1>8. OneInserter'
  <2>1. \A x, y \in Worker : x # y => ready'[x] \intersect ready'[y] = {}
    BY <1>1 DEF InsertInv, OneInserter, TypeOK
  <2>2. \A x \in Worker : t \notin ready'[x] /\ ready'[x] \subseteq ready[x]
    BY <1>1 DEF InsertInv, OneInserter, TypeOK
  <2>3. QED
    BY <2>1, <2>2, <1>2, <1>3, <1>4, <1>5 DEF InsertInv, OneInserter
<1>9. OpenEntries'
  BY <1>2, <1>4, <1>5 DEF InsertInv, OpenEntries, Inserting, Pushing
<1>10. PushedSoFar'
  <2>1. \A u \in Tasks : stamp[u] > 0 => place'[u] = place[u]
    BY <1>1, <1>3 DEF TypeOK
  <2>2. \A i \in Worker : ~(p.leader <= i /\ i < pos'[w])
    BY <1>5, MembersType, WorkerType
  <2>3. QED
    BY <2>1, <2>2, <1>2, <1>4, <1>5
    DEF InsertInv, PushedSoFar, Entries, Inserting, Pushing
<1>11. SerialOrder'
  BY <1>2 DEF InsertInv, SerialOrder
<1>12. QED
  BY <1>2, <1>6, <1>7, <1>8, <1>9, <1>10, <1>11 DEF InsertInv
(* What a step of an insertion leaves alone: the other workers. *)
LEMMA OthersUntouched ==
  ASSUME TypeOK, NEW w \in Worker, NEW x \in Worker, x # w,
         UNCHANGED cur \/ \E c : cur' = [cur EXCEPT ![w] = c],
         UNCHANGED pos \/ \E k : pos' = [pos EXCEPT ![w] = k],
         UNCHANGED pc \/ \E l : pc' = [pc EXCEPT ![w] = l],
         UNCHANGED place
  PROVE  /\ Inserting(x)' <=> Inserting(x)
         /\ Pushing(x)' <=> Pushing(x)
         /\ cur'[x] = cur[x] /\ pos'[x] = pos[x] /\ pc'[x] = pc[x]
         /\ \A i \in Worker : Holds(x, i)' <=> Holds(x, i)
  BY DEF Inserting, Pushing, Holds, TypeOK

LEMMA AcquireInsert ==
  ASSUME TypeOK, InsertInv, NEW w \in Worker, Acquire(w)
  PROVE  InsertInv'
<1> USE DEF queueVars, gangVars, histVars, Goto
<1> DEFINE t == cur[w]
           p == place[cur[w]]
           i == pos[w]
<1>1. /\ pc[w] = "acquire" /\ alock[i] = Free
      /\ alock' = [alock EXCEPT ![i] = w] /\ pc' = [pc EXCEPT ![w] = "push"]
      /\ UNCHANGED <<ready, place, cur, pos, log, stamp, clock, deleted>>
  BY DEF Acquire
<1>2. /\ t \in Tasks /\ p \in Places /\ i \in Members(p) /\ i \in Worker
      /\ p.leader \in Nat
  BY <1>1, MembersType DEF InsertInv, LoopBounds, Inserting, Pushing
<1>3. \A x \in Worker : x # w =>
        /\ Inserting(x)' <=> Inserting(x)
        /\ Pushing(x)' <=> Pushing(x)
        /\ cur'[x] = cur[x] /\ pos'[x] = pos[x] /\ pc'[x] = pc[x]
        /\ \A j \in Worker : Holds(x, j)' <=> Holds(x, j)
  BY <1>1, OthersUntouched
<1>4. pc'[w] = "push" /\ Inserting(w) /\ Inserting(w)' /\ Pushing(w) /\ Pushing(w)'
  BY <1>1 DEF TypeOK, Inserting, Pushing
<1>5. LoopBounds'
  BY <1>1, <1>3, <1>4 DEF InsertInv, LoopBounds, LastMember
<1>6. LocksHeld'
  <2>1. ASSUME NEW j \in Worker
        PROVE  Holds(w, j)' <=> Holds(w, j) \/ j = i
    BY <1>1, <1>2, <1>4, WorkerType DEF Holds, Members
  <2>2. ASSUME NEW x \in Worker PROVE ~Holds(x, i)
    BY <1>1, <1>2, WorkerType DEF InsertInv, LocksHeld
  <2>3. ASSUME NEW x \in Worker, NEW j \in Worker
        PROVE  alock'[j] = x <=> Holds(x, j)'
    <3>1. alock[j] = x <=> Holds(x, j)
      BY DEF InsertInv, LocksHeld
    <3>2. alock'[j] = IF j = i THEN w ELSE alock[j]
      BY <1>1 DEF TypeOK
    <3>3. QED
      BY <1>3, <2>1, <2>2, <3>1, <3>2
  <2>4. QED
    BY <2>3 DEF LocksHeld
<1>7. OneInserter'
  BY <1>1, <1>3, <1>4 DEF InsertInv, OneInserter
<1>8. OpenEntries'
  BY <1>1, <1>3, <1>4 DEF InsertInv, OpenEntries
<1>9. PushedSoFar'
  BY <1>1, <1>3, <1>4, PushedKept
<1>10. SerialOrder'
  BY <1>1 DEF InsertInv, SerialOrder
<1>11. QED
  BY <1>1, <1>5, <1>6, <1>7, <1>8, <1>9, <1>10 DEF InsertInv

(* Pushing cur[w] to the queue of worker i: the entries before the new one
   are complete, because w holds the lock. *)
LEMMA PushOne ==
  ASSUME TypeOK, InsertInv, NEW w \in Worker, pc[w] = "push",
         log' = [log EXCEPT ![pos[w]] = Append(@, cur[w])]
  PROVE  /\ cur[w] \in Tasks /\ stamp[cur[w]] = 0
         /\ place[cur[w]] \in Places
         /\ pos[w] \in Members(place[cur[w]]) /\ pos[w] \in Worker
         /\ \A k \in 1 .. Len(log[pos[w]]) : stamp[log[pos[w]][k]] > 0
         /\ Len(log'[pos[w]]) = Len(log[pos[w]]) + 1
         /\ log'[pos[w]][Len(log[pos[w]]) + 1] = cur[w]
         /\ \A k \in 1 .. Len(log[pos[w]]) : log'[pos[w]][k] = log[pos[w]][k]
         /\ \A j \in Worker : j # pos[w] => log'[j] = log[j]
         /\ \A j \in Worker :
              j = pos[w] => Entries(j)' = Entries(j) \union {cur[w]}
         /\ \A j \in Worker : Entries(j) \subseteq Entries(j)'
<1> DEFINE i == pos[w]
<1>1. /\ cur[w] \in Tasks /\ stamp[cur[w]] = 0
      /\ place[cur[w]] \in Places
      /\ i \in Members(place[cur[w]])
  BY DEF InsertInv, LoopBounds, Inserting, Pushing
<1>2. i \in Worker
  BY <1>1, MembersType
<1>3. Holds(w, i)
  BY <1>1, <1>2, WorkerType DEF Holds, Members
<1>4. ASSUME NEW k \in 1 .. Len(log[i]) PROVE stamp[log[i][k]] > 0
  <2>0. log[i] \in Seq(Tasks) /\ stamp \in [Tasks -> Nat]
    BY <1>2 DEF TypeOK
  <2>1. log[i][k] \in Tasks /\ stamp[log[i][k]] \in Nat
    BY <2>0
  <2>2. SUFFICES ASSUME stamp[log[i][k]] = 0 PROVE FALSE
    BY <2>1
  <2>3. PICK x \in Worker : /\ Pushing(x) /\ cur[x] = log[i][k]
                            /\ place[cur[x]].leader <= i /\ i < pos[x]
    BY <2>2, <1>2 DEF InsertInv, OpenEntries
  <2>4. Holds(x, i)
    <3>1. i \in Nat /\ pos[x] \in Nat
      BY <1>2, WorkerType DEF TypeOK
    <3>2. pc[x] = "acquire" \/ pc[x] = "push"
      BY <2>3 DEF Pushing
    <3>3. QED
      BY <2>3, <3>1, <3>2 DEF Holds
  <2>5. x = w
    BY <2>4, <1>2, <1>3 DEF InsertInv, LocksHeld
  <2>6. QED
    <3>1. i \in Nat
      BY <1>2, WorkerType
    <3>2. QED
      BY <2>3, <2>5, <3>1
<1>5. log[i] \in Seq(Tasks) /\ log'[i] = Append(log[i], cur[w])
  BY <1>2 DEF TypeOK
<1>6. /\ Len(log'[i]) = Len(log[i]) + 1
      /\ log'[i][Len(log[i]) + 1] = cur[w]
      /\ \A k \in 1 .. Len(log[i]) : log'[i][k] = log[i][k]
      /\ Len(log[i]) \in Nat
  BY <1>5, <1>1
<1>7. \A j \in Worker : j # i => log'[j] = log[j]
  BY DEF TypeOK
<1>8. ASSUME NEW j \in Worker, j = i
      PROVE  Entries(j)' = Entries(j) \union {cur[w]}
  <2>1. 1 .. Len(log'[j]) = (1 .. Len(log[j])) \union {Len(log[j]) + 1}
    BY <1>6, <1>8
  <2>2. Entries(j)' = {log'[j][k] : k \in 1 .. Len(log'[j])}
    BY DEF Entries
  <2>3. QED
    BY <1>6, <1>8, <2>1, <2>2 DEF Entries
<1>9. \A j \in Worker : Entries(j) \subseteq Entries(j)'
  BY <1>7, <1>8 DEF Entries
<1>10. QED
  BY <1>1, <1>2, <1>4, <1>6, <1>7, <1>8, <1>9
LEMMA PushMoreInsert ==
  ASSUME TypeOK, InsertInv, NEW w \in Worker, PushMore(w)
  PROVE  InsertInv'
<1> USE DEF queueVars, gangVars, histVars, Goto
<1> DEFINE t == cur[w]
           p == place[cur[w]]
           i == pos[w]
<1>1. /\ pc[w] = "push" /\ i < LastMember(t)
      /\ log' = [log EXCEPT ![i] = Append(@, t)]
      /\ pos' = [pos EXCEPT ![w] = @ + 1] /\ pc' = [pc EXCEPT ![w] = "acquire"]
      /\ UNCHANGED <<ready, place, cur, alock, stamp, clock, deleted>>
  BY DEF PushMore
<1>2. /\ t \in Tasks /\ stamp[t] = 0 /\ p \in Places
      /\ i \in Members(p) /\ i \in Worker
      /\ \A k \in 1 .. Len(log[i]) : stamp[log[i][k]] > 0
      /\ Len(log'[i]) = Len(log[i]) + 1
      /\ log'[i][Len(log[i]) + 1] = t
      /\ \A k \in 1 .. Len(log[i]) : log'[i][k] = log[i][k]
      /\ \A j \in Worker : j # i => log'[j] = log[j]
      /\ \A j \in Worker : j = i => Entries(j)' = Entries(j) \union {t}
      /\ \A j \in Worker : Entries(j) \subseteq Entries(j)'
  BY <1>1, PushOne
<1>3. i \in Nat /\ p.leader \in Nat /\ p.width \in Nat /\ Len(log[i]) \in Nat
  <2>1. log[i] \in Seq(Tasks)
    BY <1>2 DEF TypeOK
  <2>2. i \in Nat
    BY <1>2, WorkerType
  <2>3. p.leader \in Nat /\ p.width \in Nat
    BY <1>2, MembersType
  <2>4. QED
    BY <2>1, <2>2, <2>3
<1>4. \A x \in Worker : x # w =>
        /\ Inserting(x)' <=> Inserting(x)
        /\ Pushing(x)' <=> Pushing(x)
        /\ cur'[x] = cur[x] /\ pos'[x] = pos[x] /\ pc'[x] = pc[x]
        /\ \A j \in Worker : Holds(x, j)' <=> Holds(x, j)
  BY <1>1, OthersUntouched
<1>5. /\ pc'[w] = "acquire" /\ pos'[w] = i + 1 /\ cur'[w] = t
      /\ Inserting(w) /\ Inserting(w)' /\ Pushing(w) /\ Pushing(w)'
  BY <1>1 DEF TypeOK, Inserting, Pushing
<1>6. LoopBounds'
  <2>1. i + 1 \in Members(p)
    <3>1. i < p.leader + p.width - 1
      BY <1>1 DEF LastMember
    <3>2. p.leader <= i
      BY <1>2, <1>3 DEF Members
    <3>3. QED
      BY <1>3, <3>1, <3>2 DEF Members
  <2>2. t \in Tasks /\ p \in Places /\ stamp[t] = 0
    BY <1>2, <1>5 DEF InsertInv, LoopBounds
  <2>3. SUFFICES ASSUME NEW x \in Worker, Inserting(x)'
        PROVE  /\ cur'[x] \in Tasks /\ place'[cur'[x]] \in Places
               /\ Pushing(x)' => pos'[x] \in Members(place'[cur'[x]])
               /\ pc'[x] = "release" => /\ pos'[x] >= place'[cur'[x]].leader
                                       /\ pos'[x] <= LastMember(cur[x])' + 1
               /\ Pushing(x)' <=> stamp'[cur'[x]] = 0
    BY DEF LoopBounds
  <2>4. CASE x = w
    BY <1>1, <1>5, <2>1, <2>2, <2>4
  <2>5. CASE x # w
    <3>1. /\ Inserting(x) /\ cur'[x] = cur[x] /\ pos'[x] = pos[x]
          /\ pc'[x] = pc[x] /\ (Pushing(x)' <=> Pushing(x))
      BY <1>4, <2>3, <2>5
    <3>2. QED
      BY <1>1, <3>1 DEF InsertInv, LoopBounds, LastMember
  <2>6. QED
    BY <2>4, <2>5
<1>7. LocksHeld'
  <2>1. ASSUME NEW j \in Worker PROVE Holds(w, j)' <=> Holds(w, j)
    BY <1>1, <1>3, <1>5, WorkerType DEF Holds
  <2>2. QED
    BY <1>1, <1>4, <2>1 DEF InsertInv, LocksHeld
<1>8. OneInserter'
  BY <1>1, <1>4, <1>5 DEF InsertInv, OneInserter
<1>9. OpenEntries'
  <2>1. SUFFICES ASSUME NEW j \in Worker, NEW k \in 1 .. Len(log'[j]),
                        stamp[log'[j][k]] = 0
                 PROVE  /\ k = Len(log'[j])
                        /\ \E x \in Worker :
                             /\ Pushing(x)' /\ cur'[x] = log'[j][k]
                             /\ place[cur'[x]].leader <= j /\ j < pos'[x]
    BY <1>1 DEF OpenEntries
  <2>2. CASE j = i
    <3>1. k = Len(log[i]) + 1
      <4>1. k \in 1 .. Len(log[i]) + 1
        BY <1>2, <2>1, <2>2
      <4>2. ~(k \in 1 .. Len(log[i]))
        BY <1>2, <2>1, <2>2
      <4>3. QED
        BY <1>2, <4>1, <4>2
    <3>2. p.leader <= j /\ j < pos'[w]
      BY <1>2, <1>3, <1>5, <2>2 DEF Members
    <3>3. QED
      BY <1>2, <1>5, <2>2, <3>1, <3>2
  <2>3. CASE j # i
    <3>1. log'[j] = log[j]
      BY <1>2, <2>3
    <3>2. PICK x \in Worker : /\ Pushing(x) /\ cur[x] = log[j][k]
                              /\ place[cur[x]].leader <= j /\ j < pos[x]
      BY <2>1, <3>1 DEF InsertInv, OpenEntries
    <3>3. j < pos'[x]
      BY <1>3, <1>4, <1>5, <3>2, WorkerType
    <3>4. k = Len(log[j])
      BY <2>1, <3>1 DEF InsertInv, OpenEntries
    <3>5. QED
      BY <1>4, <1>5, <3>1, <3>2, <3>3, <3>4
  <2>4. QED
    BY <2>2, <2>3
<1>10. PushedSoFar'
  <2>1. ASSUME NEW j \in Worker, p.leader <= j, j < pos'[w]
        PROVE  t \in Entries(j)'
    <3>1. CASE j = i
      BY <1>2, <3>1
    <3>2. CASE j # i
      <4>1. j < pos[w]
        BY <1>3, <1>5, <2>1, <3>2, WorkerType
      <4>2. t \in Entries(j)
        BY <1>5, <2>1, <4>1 DEF InsertInv, PushedSoFar
      <4>3. QED
        BY <1>2, <4>2
    <3>3. QED
      BY <3>1, <3>2
  <2>2. ASSUME NEW u \in Tasks, stamp[u] > 0
        PROVE  /\ place[u] \in Places
               /\ \A j \in Members(place[u]) : u \in Entries(j)'
    BY <1>2, <2>2, MembersType DEF InsertInv, PushedSoFar
  <2>3. ASSUME NEW x \in Worker, NEW j \in Worker, x # w, Pushing(x),
               place[cur[x]].leader <= j, j < pos[x]
        PROVE  cur[x] \in Entries(j)'
    BY <1>2, <2>3 DEF InsertInv, PushedSoFar
  <2>4. QED
    BY <1>1, <1>4, <1>5, <2>1, <2>2, <2>3 DEF PushedSoFar
<1>11. SerialOrder'
  <2>1. SUFFICES ASSUME NEW j \in Worker, NEW a \in 1 .. Len(log'[j]),
                        NEW b \in 1 .. Len(log'[j]), a < b
                 PROVE  /\ stamp[log'[j][a]] > 0
                        /\ stamp[log'[j][b]] > 0 =>
                             stamp[log'[j][a]] < stamp[log'[j][b]]
    BY <1>1 DEF SerialOrder
  <2>2. CASE j # i
    BY <1>2, <2>1, <2>2 DEF InsertInv, SerialOrder
  <2>3. CASE j = i /\ b = Len(log[i]) + 1
    <3>1. a \in 1 .. Len(log[i])
      BY <1>3, <2>1, <2>3
    <3>2. QED
      BY <1>2, <2>3, <3>1
  <2>4. CASE j = i /\ b # Len(log[i]) + 1
    <3>1. a \in 1 .. Len(log[i]) /\ b \in 1 .. Len(log[i])
      BY <1>2, <1>3, <2>1, <2>4
    <3>2. QED
      BY <1>2, <2>1, <2>4, <3>1 DEF InsertInv, SerialOrder
  <2>5. QED
    BY <2>2, <2>3, <2>4
<1>12. QED
  BY <1>1, <1>6, <1>7, <1>8, <1>9, <1>10, <1>11 DEF InsertInv

LEMMA PushLastInsert ==
  ASSUME TypeOK, InsertInv, NEW w \in Worker, PushLast(w)
  PROVE  InsertInv'
<1> USE DEF queueVars, gangVars, histVars, Goto
<1> DEFINE t == cur[w]
           p == place[cur[w]]
           i == pos[w]
<1>1. /\ pc[w] = "push" /\ i = LastMember(t)
      /\ log' = [log EXCEPT ![i] = Append(@, t)]
      /\ clock' = clock + 1 /\ stamp' = [stamp EXCEPT ![t] = clock + 1]
      /\ pc' = [pc EXCEPT ![w] = "rewind"]
      /\ UNCHANGED <<ready, place, cur, pos, alock, deleted>>
  BY DEF PushLast
<1>2. /\ t \in Tasks /\ stamp[t] = 0 /\ p \in Places
      /\ i \in Members(p) /\ i \in Worker
      /\ \A k \in 1 .. Len(log[i]) : stamp[log[i][k]] > 0
      /\ Len(log'[i]) = Len(log[i]) + 1
      /\ log'[i][Len(log[i]) + 1] = t
      /\ \A k \in 1 .. Len(log[i]) : log'[i][k] = log[i][k]
      /\ \A j \in Worker : j # i => log'[j] = log[j]
      /\ \A j \in Worker : j = i => Entries(j)' = Entries(j) \union {t}
      /\ \A j \in Worker : Entries(j) \subseteq Entries(j)'
  BY <1>1, PushOne
<1>3. /\ i \in Nat /\ p.leader \in Nat /\ p.width \in Nat
      /\ Len(log[i]) \in Nat /\ clock \in Nat
  <2>1. log[i] \in Seq(Tasks) /\ clock \in Nat
    BY <1>2 DEF TypeOK
  <2>2. i \in Nat
    BY <1>2, WorkerType
  <2>3. p.leader \in Nat /\ p.width \in Nat
    BY <1>2, MembersType
  <2>4. QED
    BY <2>1, <2>2, <2>3
<1>4. \A x \in Worker : x # w =>
        /\ Inserting(x)' <=> Inserting(x)
        /\ Pushing(x)' <=> Pushing(x)
        /\ cur'[x] = cur[x] /\ pos'[x] = pos[x] /\ pc'[x] = pc[x]
        /\ \A j \in Worker : Holds(x, j)' <=> Holds(x, j)
  BY <1>1, OthersUntouched
<1>5. /\ pc'[w] = "rewind" /\ pos'[w] = i /\ cur'[w] = t
      /\ Inserting(w) /\ Inserting(w)' /\ Pushing(w) /\ ~Pushing(w)'
  BY <1>1 DEF TypeOK, Inserting, Pushing
<1>6. /\ stamp'[t] = clock + 1
      /\ \A u \in Tasks : u # t => stamp'[u] = stamp[u]
      /\ \A u \in Tasks : stamp[u] \in Nat /\ stamp[u] <= clock
      /\ \A u \in Tasks : stamp'[u] \in Nat /\ stamp'[u] <= clock'
      /\ \A u \in Tasks : stamp[u] > 0 => stamp'[u] = stamp[u]
  <2>1. stamp \in [Tasks -> Nat]
    BY DEF TypeOK
  <2>2. \A u \in Tasks : stamp[u] <= clock
    BY DEF InsertInv
  <2>3. /\ stamp'[t] = clock + 1
        /\ \A u \in Tasks : u # t => stamp'[u] = stamp[u]
    BY <1>1, <1>2, <2>1
  <2>4. ASSUME NEW u \in Tasks
        PROVE  /\ stamp[u] \in Nat /\ stamp[u] <= clock
               /\ stamp'[u] \in Nat /\ stamp'[u] <= clock'
               /\ stamp[u] > 0 => stamp'[u] = stamp[u]
    BY <1>1, <1>2, <1>3, <2>1, <2>2, <2>3
  <2>5. QED
    BY <2>3, <2>4
<1>7. LoopBounds'
  <2>1. \A x \in Worker : Inserting(x) => cur[x] \in Tasks
    BY DEF InsertInv, LoopBounds
  <2>2. \A x \in Worker : x # w /\ Inserting(x) => stamp'[cur[x]] = stamp[cur[x]]
    BY <1>5, <1>6, <2>1 DEF InsertInv, OneInserter
  <2>3. stamp'[t] # 0
    BY <1>3, <1>6
  <2>4. ASSUME NEW x \in Worker, Inserting(x)', x # w
        PROVE  /\ Inserting(x) /\ cur'[x] = cur[x] /\ pos'[x] = pos[x]
               /\ pc'[x] = pc[x] /\ (Pushing(x)' <=> Pushing(x))
               /\ stamp'[cur[x]] = stamp[cur[x]]
    BY <1>4, <2>2, <2>4
  <2>5. ASSUME NEW x \in Worker, Inserting(x)', x # w
        PROVE  /\ cur[x] \in Tasks /\ place[cur[x]] \in Places
               /\ Pushing(x) => pos[x] \in Members(place[cur[x]])
               /\ pc[x] = "release" => /\ pos[x] >= place[cur[x]].leader
                                      /\ pos[x] <= LastMember(cur[x]) + 1
               /\ Pushing(x) <=> stamp[cur[x]] = 0
    BY <2>4, <2>5 DEF InsertInv, LoopBounds
  <2>6. SUFFICES ASSUME NEW x \in Worker, Inserting(x)'
        PROVE  /\ cur'[x] \in Tasks /\ place'[cur'[x]] \in Places
               /\ Pushing(x)' => pos'[x] \in Members(place'[cur'[x]])
               /\ pc'[x] = "release" => /\ pos'[x] >= place'[cur'[x]].leader
                                       /\ pos'[x] <= LastMember(cur[x])' + 1
               /\ Pushing(x)' <=> stamp'[cur'[x]] = 0
    BY DEF LoopBounds
  <2>7. CASE x = w
    BY <1>1, <1>2, <1>5, <2>3, <2>7
  <2>8. CASE x # w
    BY <1>1, <2>4, <2>5, <2>6, <2>8 DEF LastMember
  <2>9. QED
    BY <2>7, <2>8
<1>8. LocksHeld'
  <2>1. ASSUME NEW j \in Worker PROVE Holds(w, j)' <=> Holds(w, j)
    BY <1>1, <1>3, <1>5, WorkerType DEF Holds, Members, LastMember
  <2>2. QED
    BY <1>1, <1>4, <2>1 DEF InsertInv, LocksHeld
<1>9. OneInserter'
  <2>1. \A v \in Worker : t \notin ready[v] /\ ready[v] \subseteq Tasks
    BY <1>5 DEF InsertInv, OneInserter, TypeOK
  <2>2. \A v \in Worker : \A u \in ready[v] : stamp'[u] = 0
    BY <1>6, <2>1 DEF InsertInv, OneInserter
  <2>3. QED
    BY <1>1, <1>4, <1>5, <2>2 DEF InsertInv, OneInserter
<1>10. \A j \in Worker : \A k \in 1 .. Len(log'[j]) : log'[j][k] \in Tasks
  <2>1. log' \in [Worker -> Seq(Tasks)]
    BY <1>1, <1>2, PushType
  <2>2. QED
    BY <2>1
<1>11. OpenEntries'
  <2>1. SUFFICES ASSUME NEW j \in Worker, NEW k \in 1 .. Len(log'[j]),
                        stamp'[log'[j][k]] = 0
                 PROVE  /\ k = Len(log'[j])
                        /\ \E x \in Worker :
                             /\ Pushing(x)' /\ cur'[x] = log'[j][k]
                             /\ place[cur'[x]].leader <= j /\ j < pos'[x]
    BY <1>1 DEF OpenEntries
  <2>2. log'[j][k] # t /\ stamp[log'[j][k]] = 0
    <3>1. log'[j][k] \in Tasks
      BY <1>10, <2>1
    <3>2. clock + 1 # 0
      BY <1>3
    <3>3. log'[j][k] # t
      BY <1>6, <2>1, <3>2
    <3>4. QED
      BY <1>6, <2>1, <3>1, <3>3
  <2>3. j # i
    <3>1. SUFFICES ASSUME j = i PROVE FALSE
      OBVIOUS
    <3>2. k \in 1 .. Len(log[i]) + 1
      BY <1>2, <2>1, <3>1
    <3>3. k # Len(log[i]) + 1
      BY <1>2, <2>2, <3>1
    <3>4. k \in 1 .. Len(log[i])
      BY <1>3, <3>2, <3>3
    <3>5. QED
      BY <1>2, <2>2, <3>1, <3>4
  <2>4. log'[j] = log[j]
    BY <1>2, <2>3
  <2>5. PICK x \in Worker : /\ Pushing(x) /\ cur[x] = log[j][k]
                            /\ place[cur[x]].leader <= j /\ j < pos[x]
    BY <2>1, <2>2, <2>4 DEF InsertInv, OpenEntries
  <2>6. x # w
    BY <2>2, <2>4, <2>5
  <2>7. k = Len(log[j])
    BY <2>1, <2>2, <2>4 DEF InsertInv, OpenEntries
  <2>8. QED
    BY <1>4, <2>4, <2>5, <2>6, <2>7
<1>12. PushedSoFar'
  <2>1. ASSUME NEW j \in Members(p) PROVE t \in Entries(j)'
    <3>1. j \in Worker
      BY <1>2, MembersType
    <3>2. CASE j = i
      BY <1>2, <3>1, <3>2
    <3>3. CASE j # i
      <4>1. p.leader <= j /\ j < i
        BY <1>1, <1>3, <3>1, <3>3, WorkerType DEF Members, LastMember
      <4>2. t \in Entries(j)
        BY <1>5, <3>1, <4>1 DEF InsertInv, PushedSoFar
      <4>3. QED
        BY <1>2, <3>1, <4>2
    <3>4. QED
      BY <3>2, <3>3
  <2>2. ASSUME NEW u \in Tasks, u # t, stamp'[u] > 0
        PROVE  /\ place[u] \in Places
               /\ \A j \in Members(place[u]) : u \in Entries(j)'
    BY <1>2, <1>6, <2>2, MembersType DEF InsertInv, PushedSoFar
  <2>3. ASSUME NEW x \in Worker, NEW j \in Worker, x # w, Pushing(x),
               place[cur[x]].leader <= j, j < pos[x]
        PROVE  cur[x] \in Entries(j)'
    BY <1>2, <2>3 DEF InsertInv, PushedSoFar
  <2>4. QED
    BY <1>1, <1>2, <1>4, <1>5, <2>1, <2>2, <2>3 DEF PushedSoFar
<1>13. SerialOrder'
  <2>1. SUFFICES ASSUME NEW j \in Worker, NEW a \in 1 .. Len(log'[j]),
                        NEW b \in 1 .. Len(log'[j]), a < b
                 PROVE  /\ stamp'[log'[j][a]] > 0
                        /\ stamp'[log'[j][b]] > 0 =>
                             stamp'[log'[j][a]] < stamp'[log'[j][b]]
    BY DEF SerialOrder
  <2>2. log'[j][a] \in Tasks /\ log'[j][b] \in Tasks
    BY <1>10
  <2>3. /\ stamp[log'[j][a]] > 0
        /\ stamp[log'[j][b]] > 0 => stamp[log'[j][a]] < stamp[log'[j][b]]
    <3>1. CASE j # i
      BY <1>2, <2>1, <3>1 DEF InsertInv, SerialOrder
    <3>2. CASE j = i /\ b = Len(log[i]) + 1
      <4>1. a \in 1 .. Len(log[i])
        BY <1>3, <2>1, <3>2
      <4>2. QED
        BY <1>2, <3>2, <4>1
    <3>3. CASE j = i /\ b # Len(log[i]) + 1
      <4>1. a \in 1 .. Len(log[i]) /\ b \in 1 .. Len(log[i])
        BY <1>2, <1>3, <2>1, <3>3
      <4>2. QED
        BY <1>2, <2>1, <3>3, <4>1 DEF InsertInv, SerialOrder
    <3>4. QED
      BY <3>1, <3>2, <3>3
  <2>4. stamp'[log'[j][a]] = stamp[log'[j][a]] /\ stamp[log'[j][a]] <= clock
    BY <1>6, <2>2, <2>3
  <2>5. CASE log'[j][b] = t
    BY <1>3, <1>6, <2>2, <2>3, <2>4, <2>5
  <2>6. CASE log'[j][b] # t
    BY <1>6, <2>2, <2>3, <2>4, <2>6
  <2>7. QED
    BY <2>5, <2>6
<1>14. QED
  BY <1>1, <1>6, <1>7, <1>8, <1>9, <1>11, <1>12, <1>13 DEF InsertInv
(* Without deletion the release loop reads the place the pushes used. *)
LEMMA ReleaseLoopInsert ==
  ASSUME TypeOK, InsertInv, NEW w \in Worker,
         Rewind(w) \/ ReleaseOne(w) \/ ReleaseDone(w)
  PROVE  InsertInv'
<1> USE DEF queueVars, gangVars, histVars, Goto
<1> DEFINE t == cur[w]
           p == place[cur[w]]
<1>1. /\ pc[w] \in {"rewind", "release"}
      /\ UNCHANGED <<ready, place, log, stamp, clock, deleted>>
  BY DEF Rewind, ReleaseOne, ReleaseDone
<1>2. /\ t \in Tasks /\ p \in Places /\ stamp[t] # 0
      /\ p.leader \in Nat /\ p.width \in Nat \ {0} /\ pos[w] \in Nat
      /\ Members(p) \subseteq Worker
      /\ Inserting(w) /\ ~Pushing(w)
      /\ pc[w] = "release" => p.leader <= pos[w] /\ pos[w] <= p.leader + p.width
  <2>1. /\ t \in Tasks /\ p \in Places /\ stamp[t] # 0
        /\ Inserting(w) /\ ~Pushing(w)
        /\ pc[w] = "release" =>
             p.leader <= pos[w] /\ pos[w] <= LastMember(t) + 1
    BY <1>1 DEF InsertInv, LoopBounds, Inserting, Pushing
  <2>2. /\ p.leader \in Nat /\ p.width \in Nat \ {0}
        /\ Members(p) \subseteq Worker
    BY <2>1, MembersType
  <2>3. pos[w] \in Nat
    BY DEF TypeOK
  <2>4. LastMember(t) + 1 = p.leader + p.width
    BY <2>2 DEF LastMember
  <2>5. QED
    BY <2>1, <2>2, <2>3, <2>4
<1>3. PlaceRead(t) = {p}
  BY DEF InsertInv, PlaceRead
<1>4. \A x \in Worker : x # w =>
        /\ Inserting(x)' <=> Inserting(x)
        /\ Pushing(x)' <=> Pushing(x)
        /\ cur'[x] = cur[x] /\ pos'[x] = pos[x] /\ pc'[x] = pc[x]
        /\ \A j \in Worker : Holds(x, j)' <=> Holds(x, j)
  <2>1. ASSUME NEW x \in Worker, x # w
        PROVE  /\ cur'[x] = cur[x] /\ pos'[x] = pos[x] /\ pc'[x] = pc[x]
    BY <2>1 DEF Rewind, ReleaseOne, ReleaseDone, TypeOK
  <2>2. QED
    BY <1>1, <2>1 DEF Inserting, Pushing, Holds
<1>5. ~Pushing(w)' /\ (Inserting(w)' => cur'[w] = t)
  BY <1>1 DEF Rewind, ReleaseOne, ReleaseDone, TypeOK, Inserting, Pushing
<1>6. LoopBounds'
  <2>1. pc'[w] = "release" =>
          pos'[w] >= p.leader /\ pos'[w] <= LastMember(t) + 1
    <3>1. CASE Rewind(w)
      <4>1. pos'[w] = p.leader
        BY <1>3, <3>1 DEF Rewind, TypeOK
      <4>2. QED
        BY <1>2, <4>1 DEF LastMember
    <3>2. CASE ReleaseOne(w)
      <4>1. pos'[w] = pos[w] + 1 /\ pos[w] < p.leader + p.width
            /\ pc[w] = "release"
        BY <1>3, <3>2 DEF ReleaseOne, TypeOK
      <4>2. QED
        BY <1>2, <4>1 DEF LastMember
    <3>3. CASE ReleaseDone(w)
      BY <3>3 DEF ReleaseDone, TypeOK
    <3>4. QED
      BY <3>1, <3>2, <3>3
  <2>2. QED
    BY <1>1, <1>2, <1>4, <1>5, <2>1
    DEF InsertInv, LoopBounds, LastMember
<1>7. LocksHeld'
  <2>1. CASE Rewind(w)
    <3>1. pc[w] = "rewind" /\ pc'[w] = "release" /\ pos'[w] = p.leader
          /\ cur'[w] = t /\ UNCHANGED alock
      BY <1>3, <2>1 DEF Rewind, TypeOK
    <3>2. ASSUME NEW j \in Worker PROVE Holds(w, j)' <=> Holds(w, j)
      BY <1>1, <1>2, <3>1, WorkerType DEF Holds, Members
    <3>3. QED
      BY <1>4, <3>1, <3>2 DEF InsertInv, LocksHeld
  <2>2. CASE ReleaseOne(w)
    <3>1. /\ pc[w] = "release" /\ pc'[w] = "release" /\ cur'[w] = t
          /\ pos'[w] = pos[w] + 1 /\ pos[w] < p.leader + p.width
          /\ alock' = [alock EXCEPT ![pos[w]] = Free]
      BY <1>3, <2>2 DEF ReleaseOne, TypeOK
    <3>2. pos[w] \in Members(p) /\ pos[w] \in Worker
      BY <1>2, <3>1 DEF Members
    <3>3. ASSUME NEW j \in Worker
          PROVE  Holds(w, j)' <=> Holds(w, j) /\ j # pos[w]
      BY <1>1, <1>2, <3>1, WorkerType DEF Holds, Members
    <3>4. ASSUME NEW x \in Worker, x # w PROVE ~Holds(x, pos[w])
      <4>1. Holds(w, pos[w])
        BY <1>2, <3>1, <3>2 DEF Holds
      <4>2. QED
        BY <3>2, <3>4, <4>1 DEF InsertInv, LocksHeld
    <3>5. ASSUME NEW x \in Worker, NEW j \in Worker
          PROVE  alock'[j] = x <=> Holds(x, j)'
      <4>1. alock'[j] = IF j = pos[w] THEN Free ELSE alock[j]
        BY <3>1 DEF TypeOK
      <4>2. alock[j] = x <=> Holds(x, j)
        BY DEF InsertInv, LocksHeld
      <4>3. QED
        BY <1>4, <3>3, <3>4, <4>1, <4>2, WorkerType
    <3>6. QED
      BY <3>5 DEF LocksHeld
  <2>3. CASE ReleaseDone(w)
    <3>1. /\ pc[w] = "release" /\ pc'[w] = "loop" /\ UNCHANGED alock
          /\ pos[w] >= p.leader + p.width
      BY <1>3, <2>3 DEF ReleaseDone, TypeOK
    <3>2. ASSUME NEW j \in Worker PROVE ~Holds(w, j) /\ ~Holds(w, j)'
      BY <1>2, <3>1, WorkerType DEF Holds, Members
    <3>3. QED
      BY <1>4, <3>1, <3>2 DEF InsertInv, LocksHeld
  <2>4. QED
    BY <2>1, <2>2, <2>3
<1>8. OneInserter'
  BY <1>1, <1>2, <1>4, <1>5 DEF InsertInv, OneInserter
<1>9. OpenEntries'
  BY <1>1, <1>2, <1>4 DEF InsertInv, OpenEntries
<1>10. PushedSoFar'
  BY <1>1, <1>4, <1>5, PushedKept
<1>11. SerialOrder'
  BY <1>1 DEF InsertInv, SerialOrder
<1>12. QED
  BY <1>1, <1>6, <1>7, <1>8, <1>9, <1>10, <1>11 DEF InsertInv

LEMMA InsertStep ==
  ASSUME DeleteExecuted = FALSE
  PROVE  TypeOK /\ InsertInv /\ [Next]_vars => InsertInv'
<1> SUFFICES ASSUME TypeOK, InsertInv, [Next]_vars PROVE InsertInv'
  OBVIOUS
<1>1. ASSUME NEW w \in Worker, Step(w) PROVE InsertInv'
  <2>1. CASE Acquire(w)
    BY <2>1, AcquireInsert
  <2>2. CASE PushMore(w)
    BY <2>2, PushMoreInsert
  <2>3. CASE PushLast(w)
    BY <2>3, PushLastInsert
  <2>4. CASE Rewind(w) \/ ReleaseOne(w) \/ ReleaseDone(w)
    BY <2>4, ReleaseLoopInsert
  <2>5. CASE \E v \in Worker : TakeReady(w, v)
    BY <2>5, TakeInsert
  <2>6. CASE PopAssembly(w) \/ FindNoAssembly(w) \/ FindNothing(w)
    <3>1. /\ ~Inserting(w) /\ ~Inserting(w)'
          /\ UNCHANGED <<ready, place, pos, alock, log, stamp, clock, deleted>>
      BY <2>6
      DEF PopAssembly, FindNoAssembly, FindNothing, queueVars, gangVars,
          histVars, Goto, TypeOK, Inserting
    <3>2. \A x \in Worker : x # w => pc'[x] = pc[x] /\ cur'[x] = cur[x]
      BY <2>6 DEF PopAssembly, FindNoAssembly, FindNothing, Goto, TypeOK
    <3>3. QED
      BY <3>1, <3>2, QuietStep
  <2>7. CASE Gang(w)
    <3>1. /\ ~Inserting(w) /\ ~Inserting(w)'
          /\ UNCHANGED <<ready, place, pos, alock, log, stamp, clock, deleted>>
      BY <2>7
      DEF Gang, Enter, LeaveSpin, Execute, Leave, TestFinal, TestNotFinal,
          Commit, queueVars, gangVars, histVars, Goto, TypeOK, Inserting
    <3>2. \A x \in Worker : x # w => pc'[x] = pc[x] /\ cur'[x] = cur[x]
      BY <2>7
      DEF Gang, Enter, LeaveSpin, Execute, Leave, TestFinal, TestNotFinal,
          Commit, queueVars, gangVars, Goto, TypeOK
    <3>3. QED
      BY <3>1, <3>2, QuietStep
  <2>8. QED
    BY <1>1, <2>1, <2>2, <2>3, <2>4, <2>5, <2>6, <2>7 DEF Step, Insert
<1>2. CASE UNCHANGED vars
  BY <1>2
  DEF vars, queueVars, gangVars, histVars, InsertInv, LoopBounds, LocksHeld,
      OneInserter, OpenEntries, PushedSoFar, SerialOrder, Inserting, Pushing,
      Holds, LastMember, Entries
<1>3. QED
  BY <1>1, <1>2 DEF Next

(* When executed tasks are not deleted, an insertion in progress holds the
   lock of every queue it has pushed to, and its entry is the newest there. *)
THEOREM InsertionsAreTwoPhase ==
  ASSUME DeleteExecuted = FALSE
  PROVE  Spec => []InsertInv
<1>1. QED
  BY InitType, StepType, InsertInit, InsertStep, PTL DEF Spec

(* All assembly queues list their tasks in one global order. *)
THEOREM QueuesAreSerial ==
  ASSUME DeleteExecuted = FALSE
  PROVE  Spec => []SerialOrder
<1>1. InsertInv => SerialOrder
  BY DEF InsertInv
<1>2. QED
  BY <1>1, InsertionsAreTwoPhase, PTL

LEMMA SerialImpliesCommon ==
  ASSUME TypeOK, InsertInv
  PROVE  CommonOrder
<1> SUFFICES ASSUME NEW i \in Worker, NEW j \in Worker,
                    NEW t \in Tasks, NEW u \in Tasks,
                    Before(i, t, u), u \in Entries(j), j \in Members(place[t])
             PROVE  Before(j, t, u)
  BY DEF CommonOrder
<1>1. PICK a \in 1 .. Len(log[i]), b \in 1 .. Len(log[i]) :
        a < b /\ log[i][a] = t /\ log[i][b] = u
  BY DEF Before
<1>2. stamp[t] > 0 /\ (stamp[u] > 0 => stamp[t] < stamp[u])
  BY <1>1 DEF InsertInv, SerialOrder
<1>3. PICK c \in 1 .. Len(log[j]) : log[j][c] = t
  BY <1>2 DEF InsertInv, PushedSoFar, Entries
<1>4. PICK d \in 1 .. Len(log[j]) : log[j][d] = u
  BY DEF Entries
<1>5. stamp[t] \in Nat /\ stamp[u] \in Nat
  BY DEF TypeOK
<1>6. CASE c < d
  BY <1>3, <1>4, <1>6 DEF Before
<1>7. CASE d < c
  <2>1. stamp[u] > 0 /\ (stamp[t] > 0 => stamp[u] < stamp[t])
    BY <1>3, <1>4, <1>7 DEF InsertInv, SerialOrder
  <2>2. QED
    BY <1>2, <1>5, <2>1
<1>8. CASE c = d
  BY <1>2, <1>3, <1>4, <1>5, <1>8
<1>9. QED
  BY <1>6, <1>7, <1>8

(* Any two tasks reach all the workers they share in the same order. *)
THEOREM OrderIsCommon ==
  ASSUME DeleteExecuted = FALSE
  PROVE  Spec => []CommonOrder
<1>1. TypeOK /\ InsertInv => CommonOrder
  BY SerialImpliesCommon
<1>2. QED
  BY <1>1, TypeCorrect, InsertionsAreTwoPhase, PTL

(* The queue locks give every assembly queue one producer at a time. *)
THEOREM ProducersAreSingle ==
  ASSUME DeleteExecuted = FALSE
  PROVE  Spec => []SingleProducer
<1>1. ASSUME TypeOK, InsertInv, NEW v \in Worker, NEW w \in Worker, v # w,
             pc[v] = "push", pc[w] = "push"
      PROVE  pos[v] # pos[w]
  <2>1. ASSUME NEW x \in Worker, pc[x] = "push"
        PROVE  pos[x] \in Worker /\ alock[pos[x]] = x
    <3>1. /\ place[cur[x]] \in Places
          /\ pos[x] \in Members(place[cur[x]])
      BY <1>1, <2>1 DEF InsertInv, LoopBounds, Inserting, Pushing
    <3>2. pos[x] \in Worker /\ place[cur[x]].leader <= pos[x] /\ pos[x] \in Nat
      BY <3>1, MembersType, WorkerType DEF Members
    <3>3. Holds(x, pos[x])
      BY <2>1, <3>2 DEF Holds
    <3>4. QED
      BY <1>1, <3>2, <3>3 DEF InsertInv, LocksHeld
  <2>2. QED
    BY <1>1, <2>1
<1>2. TypeOK /\ InsertInv => SingleProducer
  BY <1>1 DEF SingleProducer
<1>3. QED
  BY <1>2, TypeCorrect, InsertionsAreTwoPhase, PTL
-----------------------------------------------------------------------------
(***************************************************************************)
(* What the members of a place do between the two barriers of               *)
(* an assembly: none runs execute() before all have come, and one commits   *)
(* the task after all have left it.  For any number of workers, any tasks   *)
(* and places; executed tasks are not deleted, for with deletion the test   *)
(* of the exit counter may read the width of a task that is gone (the run   *)
(* assembly_deleted).                                                       *)
(*                                                                          *)
(* The inductive invariant (GangInv) ties the counters of a task to the     *)
(* workers that stand for them.  It rests on the queues: a task is in the   *)
(* queue of every member of its place once and in no other (Logs), so that  *)
(* no worker meets a task twice (Met).                                      *)
(*                                                                          *)
(* With the order of the queues, and with the fact that a worker has run    *)
(* all it has popped but the last (Worked), this gives that no workers wait *)
(* for each other in a circle, and that every step is a step of the serial  *)
(* schedule of module GangSchedule.                                         *)
(***************************************************************************)

(* w has popped t from its assembly queue *)
Popped(w, t) == \E k \in 1 .. head[w] : log[w][k] = t

(* w is somewhere between the pop and the commit of an assembly *)
Ganging(w) == pc[w] \in {"entry", "spin", "execute", "leave", "test", "commit"}

(* the members that have counted themselves out *)
Outside(t) == {w \in Worker : w \in ran[t] /\ ~ (cur[w] = t /\ pc[w] = "leave")}

(* w commits its task, or will do so when it tests *)
Final(w) ==
  pc[w] = "commit" \/ (pc[w] = "test" /\ seen[w] = place[cur[w]].width)

(* A queue has a task once, and only tasks of places its worker is in. *)
Logs ==
  \A i \in Worker :
    /\ head[i] <= Len(log[i])
    /\ \A a, b \in 1 .. Len(log[i]) : log[i][a] = log[i][b] => a = b
    /\ \A k \in 1 .. Len(log[i]) : i \in Members(place[log[i][k]])

(* A worker has popped what it runs, and runs it once. *)
Met ==
  \A w \in Worker :
    /\ Ganging(w) => /\ Popped(w, cur[w])
                     /\ pc[w] \in {"leave", "test", "commit"} <=> w \in ran[cur[w]]
    /\ \A t \in Tasks : w \in ran[t] => Popped(w, t)

Counts ==
  \A t \in Tasks : /\ threadsIn[t] = Cardinality(Entered(t))
                   /\ threadsOut[t] = Cardinality(Outside(t))

(* Members have left with different numbers. *)
Exits ==
  \A w \in Worker :
    /\ pc[w] \in {"test", "commit"} =>
         /\ seen[w] \in 1 .. threadsOut[cur[w]]
         /\ \A v \in Worker \ {w} :
              pc[v] \in {"test", "commit"} /\ cur[v] = cur[w] => seen[v] # seen[w]
    /\ pc[w] = "commit" => seen[w] = place[cur[w]].width

(* Who commits is the last, and the only one. *)
Committed ==
  \A t \in Tasks : commits[t] # 0 =>
    /\ commits[t] = 1
    /\ ran[t] # {}
    /\ threadsOut[t] = place[t].width
    /\ \A w \in Worker : cur[w] = t => ~ Final(w)

GangInv == Logs /\ Met /\ Counts /\ GangEntry /\ Exits /\ Committed

-----------------------------------------------------------------------------
(* Sets of workers are finite. *)
LEMMA SomeWorkers ==
  ASSUME NEW S \in SUBSET Worker
  PROVE  /\ IsFiniteSet(S) /\ Cardinality(S) \in Nat
         /\ \A w : w \notin S => Cardinality(S \union {w}) = Cardinality(S) + 1
         /\ \A T : T \subseteq S /\ Cardinality(T) = Cardinality(S) => T = S
<1>1. IsFiniteSet(Worker)
  BY NThreadsAssumption, FS_Interval DEF Worker
<1>2. IsFiniteSet(S)
  BY <1>1, FS_Subset
<1> QED
  BY <1>2, FS_Subset, FS_CardinalityType, FS_AddElement

(* A place has as many members as it is wide. *)
LEMMA WidthOfMembers ==
  ASSUME NEW p \in Places \union {NoPlace}
  PROVE  Members(p) \subseteq Worker /\ Cardinality(Members(p)) = p.width
<1>1. p.leader \in Nat /\ p.width \in Nat
  BY PlaceType
<1>2. Cardinality(p.leader .. p.leader + p.width - 1) = p.width
  <2>1. p.leader \in Int /\ p.leader + p.width - 1 \in Int
    BY <1>1
  <2>2. Cardinality(p.leader .. p.leader + p.width - 1) =
          IF p.leader > p.leader + p.width - 1 THEN 0
          ELSE (p.leader + p.width - 1) - p.leader + 1
    BY <2>1, FS_Interval
  <2> QED
    BY <1>1, <2>2
<1>3. Members(p) \subseteq Worker
  <2>1. CASE p = NoPlace
    BY <2>1 DEF NoPlace, Members
  <2> QED
    BY <2>1, MembersType
<1> QED
  BY <1>2, <1>3 DEF Members

(* What is in no queue yet. *)
LEMMA NotPushed ==
  ASSUME TypeOK, InsertInv, NEW t \in Tasks, NEW i \in Worker,
         \/ \E v \in Worker : t \in ready[v]
         \/ \E w \in Worker : Pushing(w) /\ cur[w] = t /\ i = pos[w]
  PROVE  \A k \in 1 .. Len(log[i]) : log[i][k] # t
<1> SUFFICES ASSUME NEW k \in 1 .. Len(log[i]), log[i][k] = t PROVE FALSE
  OBVIOUS
<1>1. stamp[t] = 0
  BY DEF InsertInv, LoopBounds, OneInserter, Inserting, Pushing
<1>2. PICK w \in Worker : Pushing(w) /\ cur[w] = t /\ i < pos[w]
  BY <1>1 DEF InsertInv, OpenEntries
<1>3. ~ \E v \in Worker : t \in ready[v]
  BY <1>2 DEF InsertInv, OneInserter, Inserting, Pushing
<1>4. PICK v \in Worker : Pushing(v) /\ cur[v] = t /\ i = pos[v]
  BY <1>3
<1>5. v = w
  BY <1>2, <1>4 DEF InsertInv, OneInserter, Inserting, Pushing
<1> QED
  BY <1>2, <1>4, <1>5, WorkerType

(* Popped tasks are in the queue, and run by members of their places. *)
LEMMA PoppedMember ==
  ASSUME TypeOK, Logs, NEW w \in Worker, NEW t \in Tasks, Popped(w, t)
  PROVE  w \in Members(place[t]) /\ \E k \in 1 .. Len(log[w]) : log[w][k] = t
<1>1. PICK k \in 1 .. head[w] : log[w][k] = t
  BY DEF Popped
<1>2. head[w] \in Nat /\ Len(log[w]) \in Nat /\ head[w] <= Len(log[w])
  BY DEF TypeOK, Logs
<1>3. k \in 1 .. Len(log[w])
  BY <1>2
<1> QED
  BY <1>1, <1>3 DEF Logs

LEMMA EnteredMembers ==
  ASSUME TypeOK, GangInv, NEW t \in Tasks
  PROVE  /\ Entered(t) \subseteq Members(place[t])
         /\ Outside(t) \subseteq ran[t] /\ ran[t] \subseteq Entered(t)
         /\ Entered(t) \subseteq Worker
<1>1. ran[t] \subseteq Worker /\ place[t] \in Places \union {NoPlace}
  BY DEF TypeOK
<1>2. \A w \in Entered(t) : w \in Worker /\ Popped(w, t)
  BY <1>1 DEF Entered, GangInv, Met, Ganging
<1> QED
  BY <1>1, <1>2, PoppedMember DEF GangInv, Entered, Outside

(* When all members have counted themselves out, all have run the task and
   none is inside it any more. *)
LEMMA AllOut ==
  ASSUME TypeOK, GangInv, NEW t \in Tasks, threadsOut[t] = place[t].width
  PROVE  /\ ran[t] = Members(place[t]) /\ Outside(t) = ran[t]
         /\ \A w \in Worker : cur[w] = t /\ Ganging(w) => pc[w] \in {"test", "commit"}
<1>1. place[t] \in Places \union {NoPlace}
  BY DEF TypeOK
<1>2. Members(place[t]) \subseteq Worker /\ Cardinality(Members(place[t])) = place[t].width
  BY <1>1, WidthOfMembers
<1>3. Outside(t) \subseteq ran[t] /\ ran[t] \subseteq Members(place[t])
  BY EnteredMembers
<1>4. Outside(t) = Members(place[t])
  BY <1>2, <1>3, SomeWorkers DEF GangInv, Counts
<1>5. ASSUME NEW w \in Worker, cur[w] = t, Ganging(w)
      PROVE  pc[w] \in {"test", "commit"}
  <2>1. w \in Members(place[t])
    BY <1>5, PoppedMember DEF GangInv, Met
  <2>2. w \in ran[t] /\ ~ (cur[w] = t /\ pc[w] = "leave")
    BY <1>4, <2>1 DEF Outside
  <2> QED
    BY <1>5, <2>2 DEF GangInv, Met
<1> QED
  BY <1>3, <1>4, <1>5

(* Nothing has happened at first. *)
LEMMA GangInit == Init => GangInv
<1> SUFFICES ASSUME Init PROVE GangInv
  OBVIOUS
<1>1. \A w \in Worker : pc[w] = "loop" /\ head[w] = 0 /\ log[w] = <<>>
  BY DEF Init
<1>2. \A t \in Tasks : ran[t] = {} /\ Entered(t) = {} /\ Outside(t) = {}
  BY <1>1 DEF Init, Entered, Outside
<1>3. Logs
  BY <1>1 DEF Logs
<1>4. Met /\ Exits /\ GangEntry
  BY <1>1, <1>2 DEF Met, Exits, GangEntry, Ganging
<1>5. Counts
  BY <1>2, FS_EmptySet DEF Init, Counts
<1>6. Committed
  BY DEF Init, Committed
<1> QED
  BY <1>3, <1>4, <1>5, <1>6 DEF GangInv

-----------------------------------------------------------------------------
(* Steps outside of the gangs. *)

(* A step that moves nobody who is in an assembly, and changes neither the
   counters nor the place of a task that anybody has popped. *)
Apart ==
  /\ \A w \in Worker : /\ Ganging(w)' <=> Ganging(w)
                       /\ Ganging(w) => pc'[w] = pc[w] /\ cur'[w] = cur[w]
                       /\ \A t \in Tasks : Popped(w, t)' <=> Popped(w, t)
  /\ \A w \in Worker : \A t \in Tasks : Popped(w, t) => place'[t] = place[t]
  /\ UNCHANGED <<threadsIn, threadsOut, seen, ran, commits>>

LEMMA ApartGang ==
  ASSUME TypeOK, GangInv, Apart, Logs'
  PROVE  GangInv'
<1> USE DEF Apart
<1>1. ASSUME NEW w \in Worker, Ganging(w)
      PROVE  cur[w] \in Tasks /\ place'[cur[w]] = place[cur[w]]
  <2>1. cur[w] \in Tasks
    BY <1>1, NoTaskAssumption DEF TypeOK, Ganging
  <2> QED
    BY <1>1, <2>1 DEF GangInv, Met
<1>2. \A w \in Worker : \A l \in {"entry", "spin", "execute", "leave", "test", "commit"} :
        pc'[w] = l <=> pc[w] = l
  BY DEF Ganging
<1>3. \A t \in Tasks : Entered(t)' = Entered(t) /\ Outside(t)' = Outside(t)
  <2> SUFFICES ASSUME NEW t \in Tasks
               PROVE  Entered(t)' = Entered(t) /\ Outside(t)' = Outside(t)
    OBVIOUS
  <2>1. \A w \in Worker : cur'[w] = t /\ pc'[w] \in {"spin", "execute"}
                            <=> cur[w] = t /\ pc[w] \in {"spin", "execute"}
    BY <1>2 DEF Ganging
  <2>2. \A w \in Worker : cur'[w] = t /\ pc'[w] = "leave" <=> cur[w] = t /\ pc[w] = "leave"
    BY <1>2 DEF Ganging
  <2> QED
    BY <2>1, <2>2 DEF Entered, Outside
<1>4. Met'
  BY <1>1, <1>2 DEF GangInv, Met
<1>5. Counts'
  BY <1>3 DEF GangInv, Counts
<1>6. GangEntry'
  BY <1>1, <1>2, <1>3 DEF GangInv, GangEntry, Ganging
<1>7. Exits'
  <2>1. \A w \in Worker : pc[w] \in {"test", "commit"} =>
          cur'[w] = cur[w] /\ place'[cur[w]] = place[cur[w]]
    BY <1>1 DEF Ganging
  <2> QED
    BY <1>2, <2>1 DEF GangInv, Exits
<1>8. Committed'
  <2> SUFFICES ASSUME NEW t \in Tasks, commits[t] # 0
               PROVE  /\ commits'[t] = 1 /\ ran'[t] # {}
                      /\ threadsOut'[t] = place'[t].width
                      /\ \A w \in Worker : cur'[w] = t => ~ Final(w)'
    BY DEF Committed
  <2>1. /\ commits[t] = 1 /\ ran[t] # {} /\ threadsOut[t] = place[t].width
        /\ \A w \in Worker : cur[w] = t => ~ Final(w)
    BY DEF GangInv, Committed
  <2>2. PICK w \in Worker : w \in ran[t]
    BY <2>1 DEF TypeOK
  <2>3. place'[t] = place[t]
    BY <2>2 DEF GangInv, Met
  <2>4. ASSUME NEW v \in Worker, cur'[v] = t PROVE ~ Final(v)'
    <3>1. CASE Ganging(v)
      BY <1>2, <2>1, <2>3, <2>4, <3>1 DEF Final
    <3>2. CASE ~ Ganging(v)
      BY <1>2, <3>2 DEF Final, Ganging
    <3> QED
      BY <3>1, <3>2
  <2> QED
    BY <2>1, <2>3, <2>4
<1> QED
  BY <1>4, <1>5, <1>6, <1>7, <1>8 DEF GangInv, Logs

(* Looking for work, taking locks and giving them back. *)
LEMMA SearchGang ==
  ASSUME TypeOK, GangInv, NEW w \in Worker,
         FindNoAssembly(w) \/ FindNothing(w) \/ Acquire(w) \/ Rewind(w)
           \/ ReleaseOne(w) \/ ReleaseDone(w)
  PROVE  GangInv'
<1> USE DEF queueVars, gangVars, Goto
<1>1. UNCHANGED <<place, log, head, threadsIn, threadsOut, seen, ran, commits>>
  BY DEF FindNoAssembly, FindNothing, Acquire, Rewind, ReleaseOne, ReleaseDone
<1>2. /\ ~ Ganging(w) /\ ~ Ganging(w)'
      /\ \A x \in Worker : x # w => pc'[x] = pc[x] /\ cur'[x] = cur[x]
  <2>1. CASE FindNoAssembly(w) \/ FindNothing(w) \/ Acquire(w)
    BY <2>1 DEF FindNoAssembly, FindNothing, Acquire, Ganging, TypeOK
  <2>2. CASE Rewind(w) \/ ReleaseOne(w) \/ ReleaseDone(w)
    BY <2>2 DEF Rewind, ReleaseOne, ReleaseDone, Ganging, TypeOK
  <2> QED
    BY <2>1, <2>2
<1>3. Apart
  BY <1>1, <1>2 DEF Apart, Ganging, Popped
<1>4. Logs'
  BY <1>1 DEF GangInv, Logs
<1> QED
  BY <1>3, <1>4, ApartGang

(* A task is molded before it is in any queue. *)
LEMMA TakeGang ==
  ASSUME TypeOK, InsertInv, GangInv, NEW w \in Worker, NEW v \in Worker, TakeReady(w, v)
  PROVE  GangInv'
<1> USE DEF queueVars, gangVars, Goto
<1>1. PICK t \in ready[v], p \in Places :
        place' = [place EXCEPT ![t] = p] /\ cur' = [cur EXCEPT ![w] = t]
  BY DEF TakeReady
<1>2. /\ pc[w] = "ready" /\ pc' = [pc EXCEPT ![w] = "acquire"]
      /\ UNCHANGED <<log, head, threadsIn, threadsOut, seen, ran, commits>>
  BY DEF TakeReady
<1>3. t \in Tasks
  BY DEF TypeOK
<1>4. \A i \in Worker : \A k \in 1 .. Len(log[i]) : log[i][k] # t
  BY <1>3, NotPushed
<1>5. \A u \in Tasks : u # t => place'[u] = place[u]
  BY <1>1 DEF TypeOK
<1>6. \A i \in Worker : ~ Popped(i, t)
  BY <1>3, <1>4, PoppedMember DEF GangInv
<1>7. /\ ~ Ganging(w) /\ ~ Ganging(w)'
      /\ \A x \in Worker : x # w => pc'[x] = pc[x] /\ cur'[x] = cur[x]
  BY <1>1, <1>2 DEF Ganging, TypeOK
<1>8. Apart
  BY <1>2, <1>5, <1>6, <1>7 DEF Apart, Ganging, Popped
<1>9. Logs'
  <2>1. \A i \in Worker : log[i] \in Seq(Tasks)
    BY DEF TypeOK
  <2>2. \A i \in Worker : \A k \in 1 .. Len(log[i]) : log[i][k] \in Tasks
    BY <2>1
  <2>3. \A i \in Worker : \A k \in 1 .. Len(log[i]) : place'[log[i][k]] = place[log[i][k]]
    BY <1>4, <1>5, <2>2
  <2> QED
    BY <1>2, <2>3 DEF GangInv, Logs
<1> QED
  BY <1>8, <1>9, ApartGang

(* A push adds a task to a queue of its place that does not have it. *)
LEMMA PushGang ==
  ASSUME TypeOK, InsertInv, GangInv, NEW w \in Worker, PushMore(w) \/ PushLast(w)
  PROVE  GangInv'
<1> USE DEF queueVars, gangVars, Goto
<1> DEFINE i == pos[w]
           t == cur[w]
<1>1. /\ pc[w] = "push"
      /\ log' = [log EXCEPT ![pos[w]] = Append(@, cur[w])]
      /\ pc' = [pc EXCEPT ![w] = "acquire"] \/ pc' = [pc EXCEPT ![w] = "rewind"]
      /\ UNCHANGED <<place, cur, head, threadsIn, threadsOut, seen, ran, commits>>
  <2>1. CASE PushMore(w)
    BY <2>1 DEF PushMore
  <2>2. CASE PushLast(w)
    BY <2>2 DEF PushLast
  <2> QED
    BY <2>1, <2>2
<1>2. /\ t \in Tasks /\ place[t] \in Places /\ i \in Members(place[t])
      /\ Pushing(w)
  BY <1>1 DEF InsertInv, LoopBounds, Inserting, Pushing
<1>3. i \in Worker
  BY <1>2, MembersType
<1>4. \A k \in 1 .. Len(log[i]) : log[i][k] # t
  BY <1>2, <1>3, NotPushed
<1>5. log[i] \in Seq(Tasks) /\ Len(log[i]) \in Nat
  BY <1>3 DEF TypeOK
<1>6. /\ Len(log'[i]) = Len(log[i]) + 1 /\ log'[i][Len(log[i]) + 1] = t
      /\ \A k \in 1 .. Len(log[i]) : log'[i][k] = log[i][k]
  <2>1. log'[i] = Append(log[i], t)
    BY <1>1, <1>3 DEF TypeOK
  <2> HIDE DEF i, t
  <2> QED
    BY <1>2, <1>5, <2>1
<1>7. \A j \in Worker : j # i => log'[j] = log[j]
  BY <1>1 DEF TypeOK
<1>8. \A j \in Worker : head[j] \in Nat /\ Len(log[j]) \in Nat /\ head[j] <= Len(log[j])
  BY DEF TypeOK, GangInv, Logs
<1>9. \A j \in Worker : \A k \in 1 .. head[j] : log'[j][k] = log[j][k]
  BY <1>3, <1>6, <1>7, <1>8
<1>10. /\ ~ Ganging(w) /\ ~ Ganging(w)'
       /\ \A x \in Worker : x # w => pc'[x] = pc[x]
  BY <1>1 DEF Ganging, TypeOK
<1>11. Apart
  BY <1>1, <1>9, <1>10 DEF Apart, Ganging, Popped
<1>12. Logs'
  <2> SUFFICES ASSUME NEW j \in Worker
               PROVE  /\ head'[j] <= Len(log'[j])
                      /\ \A a, b \in 1 .. Len(log'[j]) : log'[j][a] = log'[j][b] => a = b
                      /\ \A k \in 1 .. Len(log'[j]) : j \in Members(place'[log'[j][k]])
    BY DEF Logs
  <2>1. CASE j = i
    <3>1. \A k \in 1 .. Len(log'[i]) : k \in 1 .. Len(log[i]) \/ k = Len(log[i]) + 1
      BY <1>5, <1>6
    <3>2. \A a, b \in 1 .. Len(log[i]) : log[i][a] = log[i][b] => a = b
      BY <1>3 DEF GangInv, Logs
    <3>3. \A k \in 1 .. Len(log[i]) : i \in Members(place[log[i][k]])
      BY <1>3 DEF GangInv, Logs
    <3> HIDE DEF i, t
    <3>4. \A a, b \in 1 .. Len(log'[i]) : log'[i][a] = log'[i][b] => a = b
      BY <1>4, <1>6, <3>1, <3>2
    <3>5. \A k \in 1 .. Len(log'[i]) : i \in Members(place[log'[i][k]])
      BY <1>2, <1>6, <3>1, <3>3
    <3>6. head'[i] <= Len(log'[i])
      BY <1>1, <1>3, <1>6, <1>8
    <3>7. place' = place
      BY <1>1
    <3> QED
      BY ONLY <2>1, <3>4, <3>5, <3>6, <3>7
  <2>2. CASE j # i
    BY <1>1, <1>7, <2>2 DEF GangInv, Logs
  <2> QED
    BY <2>1, <2>2
<1> QED
  BY <1>11, <1>12, ApartGang

-----------------------------------------------------------------------------
(* Steps of the members. *)

(* What has to be shown after a step. *)
LEMMA MetNext ==
  ASSUME TypeOK',
         \A x \in Worker : \A u \in Tasks : x \in ran'[u] => Popped(x, u)',
         \A x \in Worker : \A u \in Tasks : Ganging(x)' /\ cur'[x] = u =>
           /\ Popped(x, u)'
           /\ pc'[x] \in {"leave", "test", "commit"} <=> x \in ran'[u]
  PROVE  Met'
<1>1. ASSUME NEW x \in Worker, Ganging(x)'
      PROVE  /\ \E k \in 1 .. head'[x] : log'[x][k] = cur'[x]
             /\ pc'[x] \in {"leave", "test", "commit"} <=> x \in ran'[cur'[x]]
  <2>1. PICK u \in Tasks : cur'[x] = u
    <3>1. pc'[x] \notin {"loop", "ready"}
      BY <1>1 DEF Ganging
    <3>2. cur'[x] \in Tasks \union {NoTask} /\ cur'[x] # NoTask
      BY <3>1 DEF TypeOK
    <3> QED
      BY <3>2
  <2>2. \E k \in 1 .. head'[x] : log'[x][k] = u
    BY <1>1, <2>1 DEF Popped
  <2> QED
    BY <1>1, <2>1, <2>2
<1>2. \A x \in Worker : \A u \in Tasks :
        x \in ran'[u] => \E k \in 1 .. head'[x] : log'[x][k] = u
  BY DEF Popped
<1> QED
  BY <1>1, <1>2 DEF Met, Popped

LEMMA EntryNext ==
  ASSUME TypeOK',
         \A x \in Worker : \A u \in Tasks :
           pc'[x] \in {"execute", "leave", "test", "commit"} /\ cur'[x] = u
             => Members(place'[u]) = Entered(u)'
  PROVE  GangEntry'
<1>1. \A x \in Worker :
        pc'[x] \in {"execute", "leave", "test", "commit"} => cur'[x] \in Tasks
  BY NoTaskAssumption DEF TypeOK
<1> QED
  BY <1>1 DEF GangEntry, Entered

(* w pops its queue: a task it has not met before. *)
LEMMA PopGang ==
  ASSUME TypeOK, TypeOK', GangInv, NEW w \in Worker, PopAssembly(w)
  PROVE  GangInv'
<1> USE DEF queueVars, gangVars, Goto
<1>1. /\ pc[w] = "loop" /\ head[w] < Len(log[w])
      /\ cur' = [cur EXCEPT ![w] = log[w][head[w] + 1]]
      /\ head' = [head EXCEPT ![w] = @ + 1]
      /\ pc' = [pc EXCEPT ![w] = "entry"]
      /\ UNCHANGED <<place, log, threadsIn, threadsOut, seen, ran, commits>>
  BY DEF PopAssembly
<1>0. PICK t \in Tasks : t = log[w][head[w] + 1]
  BY <1>1, PopType
<1>2. head[w] \in Nat /\ Len(log[w]) \in Nat
  BY DEF TypeOK
<1>3. /\ cur'[w] = t /\ pc'[w] = "entry" /\ head'[w] = head[w] + 1
      /\ \A x \in Worker : x # w => pc'[x] = pc[x] /\ cur'[x] = cur[x] /\ head'[x] = head[x]
  BY <1>0, <1>1 DEF TypeOK
<1>4. ~ Popped(w, t)
  <2> SUFFICES ASSUME NEW k \in 1 .. head[w], log[w][k] = t PROVE FALSE
    BY DEF Popped
  <2>1. k \in 1 .. Len(log[w]) /\ head[w] + 1 \in 1 .. Len(log[w]) /\ k # head[w] + 1
    BY <1>1, <1>2
  <2> QED
    BY <1>0, <2>1 DEF GangInv, Logs
<1>5. \A x \in Worker : \A u \in Tasks : Popped(x, u) => Popped(x, u)'
  <2> SUFFICES ASSUME NEW x \in Worker, NEW u \in Tasks, Popped(x, u) PROVE Popped(x, u)'
    OBVIOUS
  <2>1. PICK k \in 1 .. head[x] : log[x][k] = u
    BY DEF Popped
  <2>2. k \in 1 .. head'[x]
    BY <1>2, <1>3
  <2> QED
    BY <1>1, <2>1, <2>2 DEF Popped
<1>6. Popped(w, t)'
  <2>1. head[w] + 1 \in 1 .. head'[w]
    BY <1>2, <1>3
  <2> QED
    BY <1>0, <1>1, <2>1 DEF Popped
<1>7. w \notin ran[t]
  BY <1>2, <1>4 DEF GangInv, Met
<1>8. cur[w] = NoTask
  BY <1>1 DEF TypeOK
<1>9. ~ Ganging(w) /\ \A x \in Worker : x # w => (Ganging(x)' <=> Ganging(x))
  BY <1>1, <1>3 DEF Ganging
<1>10. \A u \in Tasks : Entered(u)' = Entered(u) /\ Outside(u)' = Outside(u)
  BY <1>1, <1>3 DEF Entered, Outside
<1>11. Logs'
  BY <1>1, <1>2, <1>3 DEF GangInv, Logs
<1>12. Met'
  <2>1. \A x \in Worker : \A u \in Tasks : x \in ran'[u] => Popped(x, u)'
    BY <1>1, <1>5 DEF GangInv, Met
  <2>2. ASSUME NEW x \in Worker, Ganging(x)', NEW u \in Tasks, cur'[x] = u
        PROVE  /\ Popped(x, u)'
               /\ pc'[x] \in {"leave", "test", "commit"} <=> x \in ran'[u]
    <3>1. CASE x = w
      BY <1>1, <1>3, <1>6, <1>7, <2>2, <3>1
    <3>2. CASE x # w
      BY <1>1, <1>3, <1>5, <1>9, <2>2, <3>2 DEF GangInv, Met
    <3> QED
      BY <3>1, <3>2
  <2> QED
    BY <2>1, <2>2, MetNext
<1>13. Counts'
  BY <1>1, <1>10 DEF GangInv, Counts
<1>14. GangEntry'
  <2>1. ASSUME NEW x \in Worker, pc'[x] \in {"execute", "leave", "test", "commit"},
               NEW u \in Tasks, cur'[x] = u
        PROVE  Members(place'[u]) = Entered(u)'
    BY <1>1, <1>3, <1>10, <2>1 DEF GangInv, GangEntry
  <2> QED
    BY <2>1, EntryNext
<1>15. Exits'
  BY <1>1, <1>3 DEF GangInv, Exits
<1>16. Committed'
  BY <1>1, <1>3 DEF GangInv, Committed, Final
<1> QED
  BY <1>11, <1>12, <1>13, <1>14, <1>15, <1>16 DEF GangInv

(* All other steps of a gang leave the queues alone. *)
Inside(w) ==
  /\ UNCHANGED <<place, log, head>>
  /\ \A x \in Worker : x # w => pc'[x] = pc[x] /\ cur'[x] = cur[x] /\ seen'[x] = seen[x]

LEMMA InsideFacts ==
  ASSUME TypeOK, GangInv, NEW w \in Worker, Ganging(w), Inside(w)
  PROVE  /\ Logs'
         /\ \A x \in Worker : \A u \in Tasks : Popped(x, u)' <=> Popped(x, u)
         /\ \E t \in Tasks : /\ t = cur[w] /\ Popped(w, t) /\ w \in Members(place[t])
                             /\ w \in ran[t] <=> pc[w] \in {"leave", "test", "commit"}
<1>1. cur[w] \in Tasks
  BY NoTaskAssumption DEF TypeOK, Ganging
<1>2. Popped(w, cur[w]) /\ (w \in ran[cur[w]] <=> pc[w] \in {"leave", "test", "commit"})
  BY DEF GangInv, Met
<1>3. w \in Members(place[cur[w]])
  BY <1>1, <1>2, PoppedMember DEF GangInv
<1>4. Logs'
  BY DEF Inside, GangInv, Logs
<1>5. \A x \in Worker : \A u \in Tasks : Popped(x, u)' <=> Popped(x, u)
  BY DEF Inside, Popped
<1> QED
  BY <1>1, <1>2, <1>3, <1>4, <1>5

(* A member counts itself in, before anybody is past the barrier. *)
LEMMA EnterGang ==
  ASSUME TypeOK, TypeOK', GangInv, NEW w \in Worker, Enter(w)
  PROVE  GangInv'
<1> USE DEF queueVars, gangVars, Goto
<1>1. /\ pc[w] = "entry" /\ pc' = [pc EXCEPT ![w] = "spin"]
      /\ threadsIn' = [threadsIn EXCEPT ![cur[w]] = @ + 1]
      /\ UNCHANGED <<place, log, head, cur, threadsOut, seen, ran, commits>>
  BY DEF Enter
<1>2. /\ Inside(w) /\ Ganging(w) /\ pc'[w] = "spin"
      /\ \A x \in Worker : x # w => pc'[x] = pc[x]
  BY <1>1 DEF Inside, Ganging, TypeOK
<1>3. /\ Logs'
      /\ \A x \in Worker : \A u \in Tasks : Popped(x, u)' <=> Popped(x, u)
  BY <1>2, InsideFacts
<1>4. PICK t \in Tasks : t = cur[w] /\ Popped(w, t) /\ w \in Members(place[t]) /\ w \notin ran[t]
  BY <1>1, <1>2, InsideFacts
<1>5. w \notin Entered(t)
  BY <1>1, <1>4 DEF Entered
<1>6. Entered(t)' = Entered(t) \union {w} /\ \A u \in Tasks : u # t => Entered(u)' = Entered(u)
  BY <1>1, <1>2, <1>4 DEF Entered
<1>7. \A u \in Tasks : Outside(u)' = Outside(u)
  BY <1>1, <1>2 DEF Outside
<1>8. Met'
  <2>1. \A x \in Worker : \A u \in Tasks : x \in ran'[u] => Popped(x, u)'
    BY <1>1, <1>3 DEF GangInv, Met
  <2>2. ASSUME NEW x \in Worker, NEW u \in Tasks, Ganging(x)', cur'[x] = u
        PROVE  /\ Popped(x, u)'
               /\ pc'[x] \in {"leave", "test", "commit"} <=> x \in ran'[u]
    <3>1. CASE x = w
      BY <1>1, <1>2, <1>3, <1>4, <2>2, <3>1
    <3>2. CASE x # w
      BY <1>1, <1>2, <1>3, <2>2, <3>2 DEF GangInv, Met, Ganging
    <3> QED
      BY <3>1, <3>2
  <2> QED
    BY <2>1, <2>2, MetNext
<1>9. Counts'
  <2>1. Cardinality(Entered(t) \union {w}) = Cardinality(Entered(t)) + 1
    BY <1>5, SomeWorkers, EnteredMembers
  <2>2. ASSUME NEW u \in Tasks PROVE threadsIn'[u] = Cardinality(Entered(u)')
    <3>1. CASE u = t
      BY <1>1, <1>4, <1>6, <2>1, <3>1 DEF GangInv, Counts, TypeOK
    <3>2. CASE u # t
      BY <1>1, <1>4, <1>6, <3>2 DEF GangInv, Counts, TypeOK
    <3> QED
      BY <3>1, <3>2
  <2>3. \A u \in Tasks : threadsOut'[u] = Cardinality(Outside(u)')
    BY <1>1, <1>7 DEF GangInv, Counts
  <2> QED
    BY <2>2, <2>3 DEF Counts
<1>10. GangEntry'
  <2>1. ASSUME NEW x \in Worker, NEW u \in Tasks, cur'[x] = u,
               pc'[x] \in {"execute", "leave", "test", "commit"}
        PROVE  Members(place'[u]) = Entered(u)'
    <3>1. x # w /\ Members(place[u]) = Entered(u)
      BY <1>1, <1>2, <2>1 DEF GangInv, GangEntry
    <3>2. u # t
      BY <1>4, <1>5, <3>1
    <3> QED
      BY <1>1, <1>6, <3>1, <3>2
  <2> QED
    BY <2>1, EntryNext
<1>11. Exits'
  BY <1>1, <1>2 DEF GangInv, Exits
<1>12. Committed'
  BY <1>1, <1>2 DEF GangInv, Committed, Final
<1> QED
  BY <1>3, <1>8, <1>9, <1>10, <1>11, <1>12 DEF GangInv

(* The barrier opens when as many have come as the place is wide: all of it. *)
LEMMA LeaveSpinGang ==
  ASSUME TypeOK, TypeOK', GangInv, NEW w \in Worker, LeaveSpin(w)
  PROVE  GangInv'
<1> USE DEF queueVars, gangVars, Goto
<1>1. /\ pc[w] = "spin" /\ pc' = [pc EXCEPT ![w] = "execute"]
      /\ threadsIn[cur[w]] >= place[cur[w]].width
      /\ UNCHANGED <<place, log, head, cur, threadsIn, threadsOut, seen, ran, commits>>
  BY DEF LeaveSpin
<1>2. /\ Inside(w) /\ Ganging(w) /\ pc'[w] = "execute"
      /\ \A x \in Worker : x # w => pc'[x] = pc[x]
  BY <1>1 DEF Inside, Ganging, TypeOK
<1>3. /\ Logs'
      /\ \A x \in Worker : \A u \in Tasks : Popped(x, u)' <=> Popped(x, u)
  BY <1>2, InsideFacts
<1>4. PICK t \in Tasks : t = cur[w] /\ Popped(w, t) /\ w \notin ran[t]
  BY <1>1, <1>2, InsideFacts
<1>5. \A u \in Tasks : Entered(u)' = Entered(u) /\ Outside(u)' = Outside(u)
  BY <1>1, <1>2 DEF Entered, Outside
<1>6. Members(place[t]) = Entered(t)
  <2>1. place[t] \in Places \union {NoPlace}
    BY DEF TypeOK
  <2>2. /\ Members(place[t]) \subseteq Worker
        /\ Cardinality(Members(place[t])) = place[t].width /\ place[t].width \in Nat
    BY <2>1, WidthOfMembers, PlaceType
  <2>3. Entered(t) \subseteq Members(place[t])
    BY EnteredMembers
  <2>4. Cardinality(Entered(t)) >= place[t].width
    BY <1>1, <1>4 DEF GangInv, Counts
  <2>5. /\ IsFiniteSet(Members(place[t])) /\ Cardinality(Entered(t)) \in Nat
    BY <2>2, <2>3, SomeWorkers
  <2>6. Cardinality(Entered(t)) <= Cardinality(Members(place[t]))
    BY <2>3, <2>5, FS_Subset
  <2>7. Cardinality(Entered(t)) = Cardinality(Members(place[t]))
    BY <2>2, <2>4, <2>5, <2>6
  <2> QED
    BY <2>2, <2>3, <2>7, SomeWorkers
<1>7. Met'
  <2>1. \A x \in Worker : \A u \in Tasks : x \in ran'[u] => Popped(x, u)'
    BY <1>1, <1>3 DEF GangInv, Met
  <2>2. ASSUME NEW x \in Worker, NEW u \in Tasks, Ganging(x)', cur'[x] = u
        PROVE  /\ Popped(x, u)'
               /\ pc'[x] \in {"leave", "test", "commit"} <=> x \in ran'[u]
    <3>1. CASE x = w
      BY <1>1, <1>2, <1>3, <1>4, <2>2, <3>1
    <3>2. CASE x # w
      BY <1>1, <1>2, <1>3, <2>2, <3>2 DEF GangInv, Met, Ganging
    <3> QED
      BY <3>1, <3>2
  <2> QED
    BY <2>1, <2>2, MetNext
<1>8. Counts'
  BY <1>1, <1>5 DEF GangInv, Counts
<1>9. GangEntry'
  <2>1. ASSUME NEW x \in Worker, NEW u \in Tasks, cur'[x] = u,
               pc'[x] \in {"execute", "leave", "test", "commit"}
        PROVE  Members(place'[u]) = Entered(u)'
    <3>1. Members(place[u]) = Entered(u)
      BY <1>1, <1>2, <1>4, <1>6, <2>1 DEF GangInv, GangEntry
    <3> QED
      BY <1>1, <1>5, <3>1
  <2> QED
    BY <2>1, EntryNext
<1>10. Exits'
  BY <1>1, <1>2 DEF GangInv, Exits
<1>11. Committed'
  BY <1>1, <1>2 DEF GangInv, Committed, Final
<1> QED
  BY <1>3, <1>7, <1>8, <1>9, <1>10, <1>11 DEF GangInv

(* Running the task moves a member from the present to the past. *)
LEMMA ExecuteGang ==
  ASSUME TypeOK, TypeOK', GangInv, NEW w \in Worker, Execute(w)
  PROVE  GangInv'
<1> USE DEF queueVars, gangVars, Goto
<1>1. /\ pc[w] = "execute" /\ pc' = [pc EXCEPT ![w] = "leave"]
      /\ ran' = [ran EXCEPT ![cur[w]] = @ \union {w}]
      /\ UNCHANGED <<place, log, head, cur, threadsIn, threadsOut, seen, commits>>
  BY DEF Execute
<1>2. /\ Inside(w) /\ Ganging(w) /\ pc'[w] = "leave"
      /\ \A x \in Worker : x # w => pc'[x] = pc[x]
  BY <1>1 DEF Inside, Ganging, TypeOK
<1>3. /\ Logs'
      /\ \A x \in Worker : \A u \in Tasks : Popped(x, u)' <=> Popped(x, u)
  BY <1>2, InsideFacts
<1>4. PICK t \in Tasks : t = cur[w] /\ Popped(w, t) /\ w \notin ran[t]
  BY <1>1, <1>2, InsideFacts
<1>5. ran'[t] = ran[t] \union {w} /\ \A u \in Tasks : u # t => ran'[u] = ran[u]
  BY <1>1, <1>4 DEF TypeOK
<1>6. \A u \in Tasks : Entered(u)' = Entered(u)
  <2>1. Entered(t)' = Entered(t)
    BY <1>1, <1>2, <1>4, <1>5 DEF Entered
  <2>2. ASSUME NEW u \in Tasks, u # t PROVE Entered(u)' = Entered(u)
    BY <1>1, <1>2, <1>4, <1>5, <2>2 DEF Entered
  <2> QED
    BY <2>1, <2>2
<1>7. \A u \in Tasks : Outside(u)' = Outside(u)
  <2>1. Outside(t)' = Outside(t)
    BY <1>1, <1>2, <1>4, <1>5 DEF Outside
  <2>2. ASSUME NEW u \in Tasks, u # t PROVE Outside(u)' = Outside(u)
    BY <1>1, <1>2, <1>4, <1>5, <2>2 DEF Outside
  <2> QED
    BY <2>1, <2>2
<1>8. Met'
  <2>1. ASSUME NEW x \in Worker, NEW u \in Tasks, x \in ran'[u] PROVE Popped(x, u)'
    <3>1. x \in ran[u] \/ (x = w /\ u = t)
      BY <1>5, <2>1
    <3> QED
      BY <1>3, <1>4, <3>1 DEF GangInv, Met
  <2>2. ASSUME NEW x \in Worker, NEW u \in Tasks, Ganging(x)', cur'[x] = u
        PROVE  /\ Popped(x, u)'
               /\ pc'[x] \in {"leave", "test", "commit"} <=> x \in ran'[u]
    <3>1. CASE x = w
      BY <1>1, <1>2, <1>3, <1>4, <1>5, <2>2, <3>1
    <3>2. CASE x # w
      <4>1. x \in ran'[u] <=> x \in ran[u]
        BY <1>5, <3>2
      <4> QED
        BY <1>1, <1>2, <1>3, <2>2, <3>2, <4>1 DEF GangInv, Met, Ganging
    <3> QED
      BY <3>1, <3>2
  <2> QED
    BY <2>1, <2>2, MetNext
<1>9. Counts'
  BY <1>1, <1>6, <1>7 DEF GangInv, Counts
<1>10. GangEntry'
  <2>1. ASSUME NEW x \in Worker, NEW u \in Tasks, cur'[x] = u,
               pc'[x] \in {"execute", "leave", "test", "commit"}
        PROVE  Members(place'[u]) = Entered(u)'
    <3>1. Members(place[u]) = Entered(u)
      BY <1>1, <1>2, <2>1 DEF GangInv, GangEntry
    <3> QED
      BY <1>1, <1>6, <3>1
  <2> QED
    BY <2>1, EntryNext
<1>11. Exits'
  BY <1>1, <1>2 DEF GangInv, Exits
<1>12. Committed'
  <2>1. \A u \in Tasks : ran[u] # {} => ran'[u] # {}
    BY <1>5
  <2> QED
    BY <1>1, <1>2, <2>1 DEF GangInv, Committed, Final
<1> QED
  BY <1>3, <1>8, <1>9, <1>10, <1>11, <1>12 DEF GangInv

(* A member counts itself out: it is not the last unless it sees the width,
   and nobody who left before saw as much. *)
LEMMA LeaveGang ==
  ASSUME TypeOK, TypeOK', GangInv, NEW w \in Worker, Leave(w)
  PROVE  GangInv'
<1> USE DEF queueVars, gangVars, Goto
<1>1. /\ pc[w] = "leave" /\ pc' = [pc EXCEPT ![w] = "test"]
      /\ threadsOut' = [threadsOut EXCEPT ![cur[w]] = @ + 1]
      /\ seen' = [seen EXCEPT ![w] = threadsOut[cur[w]] + 1]
      /\ UNCHANGED <<place, log, head, cur, threadsIn, ran, commits>>
  BY DEF Leave
<1>2. /\ Inside(w) /\ Ganging(w) /\ pc'[w] = "test"
      /\ \A x \in Worker : x # w => pc'[x] = pc[x] /\ seen'[x] = seen[x]
  BY <1>1 DEF Inside, Ganging, TypeOK
<1>3. /\ Logs'
      /\ \A x \in Worker : \A u \in Tasks : Popped(x, u)' <=> Popped(x, u)
  BY <1>2, InsideFacts
<1>4. PICK t \in Tasks : t = cur[w] /\ Popped(w, t) /\ w \in ran[t]
  BY <1>1, <1>2, InsideFacts
<1>5. /\ threadsOut'[t] = threadsOut[t] + 1 /\ seen'[w] = threadsOut[t] + 1
      /\ threadsOut[t] \in Nat
      /\ \A u \in Tasks : u # t => threadsOut'[u] = threadsOut[u]
  BY <1>1, <1>4 DEF TypeOK
<1>6. \A u \in Tasks : Entered(u)' = Entered(u)
  BY <1>1, <1>2 DEF Entered
<1>7. /\ Outside(t)' = Outside(t) \union {w} /\ w \notin Outside(t)
      /\ \A u \in Tasks : u # t => Outside(u)' = Outside(u)
  BY <1>1, <1>2, <1>4 DEF Outside
<1>8. commits[t] = 0
  BY <1>1, <1>2, <1>4, AllOut DEF GangInv, Committed
<1>9. Met'
  <2>1. \A x \in Worker : \A u \in Tasks : x \in ran'[u] => Popped(x, u)'
    BY <1>1, <1>3 DEF GangInv, Met
  <2>2. ASSUME NEW x \in Worker, NEW u \in Tasks, Ganging(x)', cur'[x] = u
        PROVE  /\ Popped(x, u)'
               /\ pc'[x] \in {"leave", "test", "commit"} <=> x \in ran'[u]
    <3>1. CASE x = w
      BY <1>1, <1>2, <1>3, <1>4, <2>2, <3>1
    <3>2. CASE x # w
      BY <1>1, <1>2, <1>3, <2>2, <3>2 DEF GangInv, Met, Ganging
    <3> QED
      BY <3>1, <3>2
  <2> QED
    BY <2>1, <2>2, MetNext
<1>10. Counts'
  <2>1. Cardinality(Outside(t) \union {w}) = Cardinality(Outside(t)) + 1
    <3>1. Outside(t) \subseteq Worker
      BY DEF Outside
    <3> QED
      BY <1>7, <3>1, SomeWorkers
  <2>2. ASSUME NEW u \in Tasks PROVE threadsOut'[u] = Cardinality(Outside(u)')
    <3>1. CASE u = t
      BY <1>5, <1>7, <2>1, <3>1 DEF GangInv, Counts
    <3>2. CASE u # t
      BY <1>5, <1>7, <3>2 DEF GangInv, Counts
    <3> QED
      BY <3>1, <3>2
  <2>3. \A u \in Tasks : threadsIn'[u] = Cardinality(Entered(u)')
    BY <1>1, <1>6 DEF GangInv, Counts
  <2> QED
    BY <2>2, <2>3 DEF Counts
<1>11. GangEntry'
  <2>1. ASSUME NEW x \in Worker, NEW u \in Tasks, cur'[x] = u,
               pc'[x] \in {"execute", "leave", "test", "commit"}
        PROVE  Members(place'[u]) = Entered(u)'
    <3>1. Members(place[u]) = Entered(u)
      BY <1>1, <1>2, <2>1 DEF GangInv, GangEntry
    <3> QED
      BY <1>1, <1>6, <3>1
  <2> QED
    BY <2>1, EntryNext
<1>12. Exits'
  <2>1. ASSUME NEW x \in Worker, NEW u \in Tasks, cur[x] = u, pc'[x] \in {"test", "commit"}
        PROVE  /\ seen'[x] \in 1 .. threadsOut'[u]
               /\ x # w => seen[x] \in 1 .. threadsOut[u]
    <3>1. CASE x = w
      BY <1>4, <1>5, <2>1, <3>1
    <3>2. CASE x # w
      <4>1. seen[x] \in 1 .. threadsOut[u] /\ seen'[x] = seen[x]
        BY <1>2, <2>1, <3>2 DEF GangInv, Exits
      <4>2. threadsOut[u] \in Nat /\ threadsOut'[u] \in {threadsOut[u], threadsOut[u] + 1}
        BY <1>5 DEF TypeOK
      <4> QED
        BY <4>1, <4>2
    <3> QED
      BY <3>1, <3>2
  <2>2. ASSUME NEW x \in Worker, NEW v \in Worker, x # v, cur[v] = cur[x],
               pc'[x] \in {"test", "commit"}, pc'[v] \in {"test", "commit"}
        PROVE  seen'[v] # seen'[x]
    <3>1. CASE x # w /\ v # w
      BY <1>2, <2>2, <3>1 DEF GangInv, Exits
    <3>2. CASE x = w
      <4>1. seen[v] \in 1 .. threadsOut[t] /\ seen'[v] = seen[v]
        BY <1>2, <1>4, <2>1, <2>2, <3>2
      <4> QED
        BY <1>5, <3>2, <4>1
    <3>3. CASE v = w
      <4>1. seen[x] \in 1 .. threadsOut[t] /\ seen'[x] = seen[x]
        BY <1>2, <1>4, <2>1, <2>2, <3>3
      <4> QED
        BY <1>5, <3>3, <4>1
    <3> QED
      BY <3>1, <3>2, <3>3
  <2>3. \A x \in Worker : pc'[x] = "commit" => seen'[x] = place[cur[x]].width
    BY <1>2 DEF GangInv, Exits
  <2>4. ASSUME NEW x \in Worker, pc'[x] \in {"test", "commit"}
        PROVE  cur[x] \in Tasks
    <3>1. pc[x] \notin {"loop", "ready"}
      BY <1>1, <1>2, <2>4
    <3>2. cur[x] \in Tasks \union {NoTask} /\ cur[x] # NoTask
      BY <3>1 DEF TypeOK
    <3> QED
      BY <3>2
  <2>5. \A x \in Worker : pc'[x] \in {"test", "commit"} =>
          seen'[x] \in 1 .. threadsOut'[cur[x]]
    BY <2>1, <2>4
  <2>6. \A x \in Worker : \A v \in Worker \ {x} :
          pc'[x] \in {"test", "commit"} /\ pc'[v] \in {"test", "commit"} /\ cur[v] = cur[x]
            => seen'[v] # seen'[x]
    BY <2>2
  <2> SUFFICES ASSUME NEW x \in Worker
               PROVE  /\ pc'[x] \in {"test", "commit"} =>
                           /\ seen'[x] \in 1 .. threadsOut'[cur'[x]]
                           /\ \A v \in Worker \ {x} :
                                pc'[v] \in {"test", "commit"} /\ cur'[v] = cur'[x]
                                  => seen'[v] # seen'[x]
                      /\ pc'[x] = "commit" => seen'[x] = place'[cur'[x]].width
    BY DEF Exits
  <2>7. place' = place /\ cur' = cur
    BY <1>1
  <2>8. pc'[x] \in {"test", "commit"} => seen'[x] \in 1 .. threadsOut'[cur'[x]]
    BY <2>5, <2>7
  <2>9. pc'[x] \in {"test", "commit"} =>
          \A v \in Worker \ {x} : pc'[v] \in {"test", "commit"} /\ cur'[v] = cur'[x]
                                    => seen'[v] # seen'[x]
    BY <2>6, <2>7
  <2>10. pc'[x] = "commit" => seen'[x] = place'[cur'[x]].width
    BY <2>3, <2>7
  <2> QED
    BY <2>8, <2>9, <2>10
<1>13. Committed'
  <2> SUFFICES ASSUME NEW u \in Tasks, commits[u] # 0
               PROVE  /\ commits[u] = 1 /\ ran[u] # {} /\ threadsOut'[u] = place[u].width
                      /\ \A x \in Worker : cur[x] = u => ~ Final(x)'
    BY <1>1 DEF Committed
  <2>1. u # t
    BY <1>8
  <2> QED
    BY <1>1, <1>2, <1>4, <1>5, <2>1 DEF GangInv, Committed, Final
<1> QED
  BY <1>3, <1>9, <1>10, <1>11, <1>12, <1>13 DEF GangInv

(* Who has seen the width goes to commit. *)
LEMMA TestFinalGang ==
  ASSUME TypeOK, TypeOK', InsertInv, GangInv, NEW w \in Worker, TestFinal(w)
  PROVE  GangInv'
<1> USE DEF queueVars, gangVars, Goto
<1>1. /\ pc[w] = "test" /\ pc' = [pc EXCEPT ![w] = "commit"]
      /\ seen[w] = place[cur[w]].width
      /\ UNCHANGED <<place, log, head, cur, threadsIn, threadsOut, seen, ran, commits>>
  BY DEF TestFinal, InsertInv, WidthRead
<1>2. /\ Inside(w) /\ Ganging(w) /\ pc'[w] = "commit"
      /\ \A x \in Worker : x # w => pc'[x] = pc[x]
  BY <1>1 DEF Inside, Ganging, TypeOK
<1>3. /\ Logs'
      /\ \A x \in Worker : \A u \in Tasks : Popped(x, u)' <=> Popped(x, u)
  BY <1>2, InsideFacts
<1>4. \A u \in Tasks : Entered(u)' = Entered(u) /\ Outside(u)' = Outside(u)
  BY <1>1, <1>2 DEF Entered, Outside
<1>5. \A x \in Worker :
        /\ Ganging(x)' <=> Ganging(x)
        /\ pc'[x] \in {"leave", "test", "commit"} <=> pc[x] \in {"leave", "test", "commit"}
        /\ pc'[x] \in {"test", "commit"} <=> pc[x] \in {"test", "commit"}
        /\ pc'[x] \in {"execute", "leave", "test", "commit"}
             <=> pc[x] \in {"execute", "leave", "test", "commit"}
  BY <1>1, <1>2 DEF Ganging
<1>6. Met'
  <2>1. \A x \in Worker : \A u \in Tasks : x \in ran'[u] => Popped(x, u)'
    BY <1>1, <1>3 DEF GangInv, Met
  <2>2. ASSUME NEW x \in Worker, NEW u \in Tasks, Ganging(x)', cur'[x] = u
        PROVE  /\ Popped(x, u)'
               /\ pc'[x] \in {"leave", "test", "commit"} <=> x \in ran'[u]
    BY <1>1, <1>3, <1>5, <2>2 DEF GangInv, Met
  <2> QED
    BY <2>1, <2>2, MetNext
<1>7. Counts'
  BY <1>1, <1>4 DEF GangInv, Counts
<1>8. GangEntry'
  <2>1. ASSUME NEW x \in Worker, NEW u \in Tasks, cur'[x] = u,
               pc'[x] \in {"execute", "leave", "test", "commit"}
        PROVE  Members(place'[u]) = Entered(u)'
    BY <1>1, <1>4, <1>5, <2>1 DEF GangInv, GangEntry
  <2> QED
    BY <2>1, EntryNext
<1>9. Exits'
  BY <1>1, <1>2, <1>5 DEF GangInv, Exits
<1>10. Committed'
  <2>1. \A x \in Worker : Final(x)' <=> Final(x)
    BY <1>1, <1>2 DEF Final
  <2> QED
    BY <1>1, <2>1 DEF GangInv, Committed
<1> QED
  BY <1>3, <1>6, <1>7, <1>8, <1>9, <1>10 DEF GangInv

(* Who leaves the task behind is known as one who ran it and is out. *)
LEMMA ForgetGang ==
  ASSUME TypeOK, GangInv, NEW w \in Worker, pc[w] \in {"test", "commit"},
         pc' = [pc EXCEPT ![w] = "loop"], cur' = [cur EXCEPT ![w] = NoTask],
         UNCHANGED <<place, log, head, threadsIn, threadsOut, seen, ran>>
  PROVE  /\ Logs' /\ Counts' /\ Exits'
         /\ TypeOK' => Met' /\ GangEntry'
<1>1. /\ pc'[w] = "loop" /\ cur'[w] = NoTask
      /\ \A x \in Worker : x # w => pc'[x] = pc[x] /\ cur'[x] = cur[x] /\ seen'[x] = seen[x]
  BY DEF TypeOK
<1>2. Inside(w) /\ Ganging(w)
  BY <1>1 DEF Inside, Ganging
<1>3. /\ Logs'
      /\ \A x \in Worker : \A u \in Tasks : Popped(x, u)' <=> Popped(x, u)
  BY <1>2, InsideFacts
<1>4. \A u \in Tasks : Entered(u)' = Entered(u) /\ Outside(u)' = Outside(u)
  BY <1>1 DEF Entered, Outside
<1>5. Counts'
  BY <1>4 DEF GangInv, Counts
<1>6. Exits'
  BY <1>1 DEF GangInv, Exits
<1>7. ASSUME TypeOK' PROVE Met'
  <2>1. \A x \in Worker : \A u \in Tasks : x \in ran'[u] => Popped(x, u)'
    BY <1>3 DEF GangInv, Met
  <2>2. ASSUME NEW x \in Worker, NEW u \in Tasks, Ganging(x)', cur'[x] = u
        PROVE  /\ Popped(x, u)'
               /\ pc'[x] \in {"leave", "test", "commit"} <=> x \in ran'[u]
    <3>1. x # w
      BY <1>1, <2>2, NoTaskAssumption
    <3> QED
      BY <1>1, <1>3, <2>2, <3>1 DEF GangInv, Met, Ganging
  <2> QED
    BY <1>7, <2>1, <2>2, MetNext
<1>8. ASSUME TypeOK' PROVE GangEntry'
  <2>1. ASSUME NEW x \in Worker, NEW u \in Tasks, cur'[x] = u,
               pc'[x] \in {"execute", "leave", "test", "commit"}
        PROVE  Members(place'[u]) = Entered(u)'
    <3>1. x # w
      BY <1>1, <2>1
    <3> QED
      BY <1>1, <1>4, <2>1, <3>1 DEF GangInv, GangEntry
  <2> QED
    BY <1>8, <2>1, EntryNext
<1> QED
  BY <1>3, <1>5, <1>6, <1>7, <1>8

LEMMA TestNotFinalGang ==
  ASSUME TypeOK, TypeOK', GangInv, NEW w \in Worker, TestNotFinal(w)
  PROVE  GangInv'
<1> USE DEF queueVars, gangVars, Goto
<1>1. /\ pc[w] = "test" /\ pc' = [pc EXCEPT ![w] = "loop"]
      /\ cur' = [cur EXCEPT ![w] = NoTask]
      /\ UNCHANGED <<place, log, head, threadsIn, threadsOut, seen, ran, commits>>
  BY DEF TestNotFinal
<1>2. Logs' /\ Counts' /\ Exits' /\ Met' /\ GangEntry'
  BY <1>1, ForgetGang
<1>3. Committed'
  <2>1. /\ pc'[w] = "loop"
        /\ \A x \in Worker : x # w => pc'[x] = pc[x] /\ cur'[x] = cur[x]
    BY <1>1 DEF TypeOK
  <2> QED
    BY <1>1, <2>1 DEF GangInv, Committed, Final
<1> QED
  BY <1>2, <1>3 DEF GangInv

(* Who commits has seen the width: everybody is out, and nobody else has seen
   it. *)
LEMMA CommitGang ==
  ASSUME TypeOK, TypeOK', GangInv, NEW w \in Worker, Commit(w)
  PROVE  GangInv'
<1> USE DEF queueVars, gangVars, Goto
<1>1. /\ pc[w] = "commit" /\ pc' = [pc EXCEPT ![w] = "loop"]
      /\ commits' = [commits EXCEPT ![cur[w]] = @ + 1]
      /\ cur' = [cur EXCEPT ![w] = NoTask]
      /\ UNCHANGED <<place, log, head, threadsIn, threadsOut, seen, ran>>
  BY DEF Commit
<1>2. Logs' /\ Counts' /\ Exits' /\ Met' /\ GangEntry'
  BY <1>1, ForgetGang
<1>3. PICK t \in Tasks : t = cur[w] /\ w \in ran[t]
  <2>1. cur[w] \in Tasks
    BY <1>1, NoTaskAssumption DEF TypeOK
  <2> QED
    BY <1>1, <2>1 DEF GangInv, Met, Ganging
<1>4. /\ pc'[w] = "loop"
      /\ \A x \in Worker : x # w => pc'[x] = pc[x] /\ cur'[x] = cur[x]
      /\ commits'[t] = commits[t] + 1 /\ commits[t] \in Nat
      /\ \A u \in Tasks : u # t => commits'[u] = commits[u]
  BY <1>1, <1>3 DEF TypeOK
<1>5. commits[t] = 0
  BY <1>1, <1>3 DEF GangInv, Committed, Final
<1>6. seen[w] = place[t].width /\ seen[w] \in 1 .. threadsOut[t]
  BY <1>1, <1>3 DEF GangInv, Exits
<1>7. threadsOut[t] = place[t].width
  <2>1. place[t] \in Places \union {NoPlace} /\ threadsOut[t] \in Nat
    BY DEF TypeOK
  <2>2. /\ Members(place[t]) \subseteq Worker
        /\ Cardinality(Members(place[t])) = place[t].width /\ place[t].width \in Nat
    BY <2>1, WidthOfMembers, PlaceType
  <2>3. Outside(t) \subseteq Members(place[t])
    BY EnteredMembers
  <2>4. IsFiniteSet(Members(place[t]))
    BY <2>2, SomeWorkers
  <2>5. Cardinality(Outside(t)) <= Cardinality(Members(place[t]))
    BY <2>3, <2>4, FS_Subset
  <2>6. threadsOut[t] <= place[t].width
    BY <2>2, <2>5 DEF GangInv, Counts
  <2> QED
    BY <1>6, <2>1, <2>2, <2>6
<1>8. ASSUME NEW v \in Worker, cur'[v] = t PROVE ~ Final(v)'
  <2>1. v # w
    BY <1>1, <1>8, NoTaskAssumption DEF TypeOK
  <2>2. cur[v] = t /\ pc'[v] = pc[v]
    BY <1>4, <1>8, <2>1
  <2>3. pc[v] \in {"test", "commit"} => seen[v] # seen[w]
    BY <1>1, <1>3, <2>1, <2>2 DEF GangInv, Exits
  <2>4. pc[v] = "commit" => seen[v] = place[t].width
    BY <2>2 DEF GangInv, Exits
  <2> QED
    BY <1>1, <1>6, <1>8, <2>2, <2>3, <2>4 DEF Final
<1>9. Committed'
  <2> SUFFICES ASSUME NEW u \in Tasks, commits'[u] # 0
               PROVE  /\ commits'[u] = 1 /\ ran[u] # {} /\ threadsOut[u] = place[u].width
                      /\ \A x \in Worker : cur'[x] = u => ~ Final(x)'
    BY <1>1 DEF Committed
  <2>1. CASE u = t
    BY <1>3, <1>4, <1>5, <1>7, <1>8, <2>1
  <2>2. CASE u # t
    <3>1. /\ commits[u] = 1 /\ ran[u] # {} /\ threadsOut[u] = place[u].width
          /\ \A x \in Worker : cur[x] = u => ~ Final(x)
      BY <1>4, <2>2 DEF GangInv, Committed
    <3>2. ASSUME NEW x \in Worker, cur'[x] = u PROVE ~ Final(x)'
      BY <1>1, <1>4, <3>1, <3>2 DEF Final
    <3> QED
      BY <1>4, <2>2, <3>1, <3>2
  <2> QED
    BY <2>1, <2>2
<1> QED
  BY <1>2, <1>9 DEF GangInv

-----------------------------------------------------------------------------
LEMMA GangStep ==
  ASSUME TypeOK, TypeOK', InsertInv, GangInv, [Next]_vars
  PROVE  GangInv'
<1>1. ASSUME NEW w \in Worker, Step(w) PROVE GangInv'
  <2>1. CASE PopAssembly(w)
    BY <2>1, PopGang
  <2>2. CASE FindNoAssembly(w) \/ FindNothing(w) \/ Acquire(w) \/ Rewind(w)
               \/ ReleaseOne(w) \/ ReleaseDone(w)
    BY <2>2, SearchGang
  <2>3. CASE \E v \in Worker : TakeReady(w, v)
    BY <2>3, TakeGang
  <2>4. CASE PushMore(w) \/ PushLast(w)
    BY <2>4, PushGang
  <2>5. CASE Enter(w)
    BY <2>5, EnterGang
  <2>6. CASE LeaveSpin(w)
    BY <2>6, LeaveSpinGang
  <2>7. CASE Execute(w)
    BY <2>7, ExecuteGang
  <2>8. CASE Leave(w)
    BY <2>8, LeaveGang
  <2>9. CASE TestFinal(w)
    BY <2>9, TestFinalGang
  <2>10. CASE TestNotFinal(w)
    BY <2>10, TestNotFinalGang
  <2>11. CASE Commit(w)
    BY <2>11, CommitGang
  <2> QED
    BY <1>1, <2>1, <2>2, <2>3, <2>4, <2>5, <2>6, <2>7, <2>8, <2>9, <2>10, <2>11
    DEF Step, Insert, Gang
<1>2. CASE UNCHANGED vars
  <2>1. UNCHANGED <<place, pc, cur, log, head, threadsIn, threadsOut, seen, ran, commits>>
    BY <1>2 DEF vars, queueVars, gangVars
  <2>2. Apart /\ Logs'
    BY <2>1 DEF Apart, Ganging, Popped, GangInv, Logs
  <2> QED
    BY <2>2, ApartGang
<1> QED
  BY <1>1, <1>2 DEF Next

(* A committed task was run by its place, and whoever still has it is either
   about to see that it was not the last, or gives back the locks. *)
LEMMA CommittedIsLast ==
  ASSUME TypeOK, InsertInv, GangInv
  PROVE  LastExit
<1> SUFFICES ASSUME NEW t \in Tasks, commits[t] # 0
             PROVE  /\ commits[t] = 1 /\ ran[t] = Members(place[t])
                    /\ \A w \in Worker : cur[w] = t => pc[w] \in {"rewind", "release", "test"}
  BY DEF LastExit, TypeOK
<1>1. /\ commits[t] = 1 /\ ran[t] # {} /\ threadsOut[t] = place[t].width
      /\ \A w \in Worker : cur[w] = t => ~ Final(w)
  BY DEF GangInv, Committed
<1>2. /\ ran[t] = Members(place[t])
      /\ \A w \in Worker : cur[w] = t /\ Ganging(w) => pc[w] \in {"test", "commit"}
  BY <1>1, AllOut
<1>3. ASSUME NEW w \in Worker, cur[w] = t
      PROVE  pc[w] \in {"rewind", "release", "test"}
  <2>1. ~ Pushing(w)
    <3> SUFFICES ASSUME Pushing(w) PROVE FALSE
      OBVIOUS
    <3>1. pos[w] \in Members(place[t])
      BY <1>3 DEF InsertInv, LoopBounds, Pushing, Inserting
    <3>2. pos[w] \in Worker /\ Popped(pos[w], t)
      BY <1>2, <3>1 DEF GangInv, Met, TypeOK
    <3> QED
      BY <1>3, <3>2, NotPushed, PoppedMember DEF GangInv
  <2>2. pc[w] \in Label /\ pc[w] \notin {"loop", "ready"}
    BY <1>3, NoTaskAssumption DEF TypeOK
  <2>3. pc[w] # "commit"
    BY <1>1, <1>3 DEF Final
  <2> QED
    BY <1>2, <1>3, <2>1, <2>2, <2>3 DEF Label, Pushing, Ganging
<1> QED
  BY <1>1, <1>2, <1>3

LEMMA GangsAreCounted ==
  ASSUME DeleteExecuted = FALSE
  PROVE  Spec => []GangInv
<1>1. TypeOK /\ TypeOK' /\ InsertInv /\ GangInv /\ [Next]_vars => GangInv'
  BY GangStep
<1> QED
  BY <1>1, GangInit, TypeCorrect, InsertionsAreTwoPhase, PTL DEF Spec

(* No member of a place runs execute() before all members have arrived. *)
THEOREM GangsEnterTogether ==
  ASSUME DeleteExecuted = FALSE
  PROVE  Spec => []GangEntry
<1>1. GangInv => GangEntry
  BY DEF GangInv
<1> QED
  BY <1>1, GangsAreCounted, PTL

(* One member commits a task, after every member has run it, and when nobody
   is inside it any more. *)
THEOREM LastMemberCommits ==
  ASSUME DeleteExecuted = FALSE
  PROVE  Spec => []LastExit
<1>1. TypeOK /\ InsertInv /\ GangInv => LastExit
  BY CommittedIsLast
<1> QED
  BY <1>1, GangsAreCounted, TypeCorrect, InsertionsAreTwoPhase, PTL

-----------------------------------------------------------------------------
(* A nonempty set of natural numbers has a least element, and one that is
   bounded a greatest. *)
LEMMA Least ==
  ASSUME NEW S, S \subseteq Nat, S # {}
  PROVE  \E m \in S : \A k \in S : m <= k
<1>1. PICK R : IsWellFoundedOn(R, Nat) /\ \A x, y \in Nat : x < y => <<x, y>> \in R
  BY NatLessThanWellFounded DEF OpToRel
<1>2. PICK x \in S : \A y \in S : ~ (<<y, x>> \in R)
  <2>1. IsWellFoundedOn(R, Nat)
    BY <1>1
  <2> QED
    BY ONLY <2>1, S \subseteq Nat, S # {}, WFMin
<1>3. \A y \in S : y \in Nat /\ x \in Nat /\ ~ (y < x)
  BY <1>1, <1>2
<1> QED
  BY <1>3

LEMMA Greatest ==
  ASSUME NEW S, S \subseteq Worker, S # {}
  PROVE  \E m \in S : \A k \in S : k <= m
<1> DEFINE D == {n \in Nat : \E x \in S : n = NThreads - x}
<1>1. \A x \in S : x \in Nat /\ NThreads - x \in Nat
  BY NThreadsAssumption DEF Worker
<1>2. D \subseteq Nat /\ D # {}
  BY <1>1
<1>3. PICK d \in D : \A e \in D : d <= e
  BY <1>2, Least
<1>4. PICK m \in S : d = NThreads - m
  OBVIOUS
<1>5. ASSUME NEW k \in S PROVE k <= m
  <2>1. NThreads - k \in D
    BY <1>1
  <2>2. NThreads - m <= NThreads - k
    BY <1>3, <1>4, <2>1
  <2> QED
    BY <1>1, <2>2, NThreadsAssumption
<1> QED
  BY <1>5

-----------------------------------------------------------------------------
(* The order of the queues and the order in which workers run tasks. *)

(* What a worker has popped it has run, but for the last. *)
Worked ==
  \A w \in Worker : \A k \in 1 .. head[w] :
    \/ w \in ran[log[w][k]]
    \/ /\ k = head[w] /\ cur[w] = log[w][k]
       /\ pc[w] \in {"entry", "spin", "execute"}

LEMMA WorkedInit == Init => Worked
  BY DEF Init, Worked

(* Steps that pop and run nothing. *)
LEMMA WorkedKept ==
  ASSUME TypeOK, GangInv, Worked, UNCHANGED <<head, ran>>,
         \A w \in Worker : \A k \in 1 .. head[w] : log'[w][k] = log[w][k],
         \A w \in Worker : pc[w] \in {"entry", "spin", "execute"} =>
           cur'[w] = cur[w] /\ pc'[w] \in {"entry", "spin", "execute"}
  PROVE  Worked'
<1> SUFFICES ASSUME NEW w \in Worker, NEW k \in 1 .. head[w]
             PROVE  \/ w \in ran[log[w][k]]
                    \/ /\ k = head[w] /\ cur'[w] = log[w][k]
                       /\ pc'[w] \in {"entry", "spin", "execute"}
  BY DEF Worked
<1> QED
  BY DEF Worked

LEMMA WorkedStep ==
  ASSUME TypeOK, InsertInv, GangInv, Worked, [Next]_vars
  PROVE  Worked'
<1> USE DEF queueVars, gangVars, Goto
<1>1. ASSUME NEW w \in Worker, PopAssembly(w) PROVE Worked'
  <2>1. /\ pc[w] = "loop" /\ pc'[w] = "entry" /\ head'[w] = head[w] + 1
        /\ head[w] \in Nat /\ cur'[w] = log[w][head[w] + 1]
        /\ \A x \in Worker : x # w => pc'[x] = pc[x] /\ cur'[x] = cur[x] /\ head'[x] = head[x]
        /\ log' = log /\ ran' = ran
    BY <1>1 DEF PopAssembly, TypeOK
  <2> SUFFICES ASSUME NEW x \in Worker, NEW k \in 1 .. head'[x]
               PROVE  \/ x \in ran[log[x][k]]
                      \/ /\ k = head'[x] /\ cur'[x] = log[x][k]
                         /\ pc'[x] \in {"entry", "spin", "execute"}
    BY <2>1 DEF Worked
  <2>2. CASE x # w
    BY <2>1, <2>2 DEF Worked
  <2>3. CASE x = w
    <3>1. k \in 1 .. head[w] \/ k = head[w] + 1
      BY <2>1, <2>3
    <3>2. CASE k \in 1 .. head[w]
      BY <2>1, <2>3, <3>2 DEF Worked
    <3> QED
      BY <2>1, <2>3, <3>1, <3>2
  <2> QED
    BY <2>2, <2>3
<1>2. ASSUME NEW w \in Worker, Execute(w) PROVE Worked'
  <2>1. /\ pc[w] = "execute"
        /\ \A x \in Worker : x # w => pc'[x] = pc[x]
        /\ log' = log /\ head' = head /\ cur' = cur
        /\ ran' = [ran EXCEPT ![cur[w]] = @ \union {w}] /\ cur[w] \in Tasks
    BY <1>2, NoTaskAssumption DEF Execute, TypeOK
  <2>2. w \in ran'[cur[w]] /\ \A t \in Tasks : ran[t] \subseteq ran'[t]
    BY <2>1 DEF TypeOK
  <2> SUFFICES ASSUME NEW x \in Worker, NEW k \in 1 .. head[x]
               PROVE  \/ x \in ran'[log[x][k]]
                      \/ /\ k = head[x] /\ cur[x] = log[x][k]
                         /\ pc'[x] \in {"entry", "spin", "execute"}
    BY <2>1 DEF Worked
  <2>3. log[x][k] \in Tasks
    <3>1. log[x] \in Seq(Tasks) /\ head[x] <= Len(log[x]) /\ head[x] \in Nat /\ Len(log[x]) \in Nat
      BY DEF TypeOK, GangInv, Logs
    <3>2. k \in 1 .. Len(log[x])
      BY <3>1
    <3> QED
      BY <3>1, <3>2
  <2> QED
    BY <2>1, <2>2, <2>3 DEF Worked
<1>3. ASSUME NEW w \in Worker, PushMore(w) \/ PushLast(w) PROVE Worked'
  <2>1. /\ log' = [log EXCEPT ![pos[w]] = Append(@, cur[w])]
        /\ UNCHANGED <<cur, head, ran>>
        /\ pc[w] = "push" /\ \A x \in Worker : x # w => pc'[x] = pc[x]
    BY <1>3 DEF PushMore, PushLast, TypeOK
  <2>2. \A x \in Worker : \A k \in 1 .. head[x] : log'[x][k] = log[x][k]
    <3> SUFFICES ASSUME NEW x \in Worker, NEW k \in 1 .. head[x]
                 PROVE  log'[x][k] = log[x][k]
      OBVIOUS
    <3>1. log[x] \in Seq(Tasks) /\ head[x] <= Len(log[x]) /\ head[x] \in Nat /\ Len(log[x]) \in Nat
      BY DEF TypeOK, GangInv, Logs
    <3>2. k \in 1 .. Len(log[x])
      BY <3>1
    <3>3. log'[x] = log[x] \/ log'[x] = Append(log[x], cur[w])
      BY <2>1 DEF TypeOK
    <3>4. cur[w] \in Tasks
      BY <2>1, NoTaskAssumption DEF TypeOK
    <3> QED
      BY <3>1, <3>2, <3>3, <3>4
  <2>3. \A x \in Worker : pc[x] \in {"entry", "spin", "execute"} =>
          cur'[x] = cur[x] /\ pc'[x] \in {"entry", "spin", "execute"}
    BY <2>1
  <2> QED
    BY <2>1, <2>2, <2>3, WorkedKept
<1>4. ASSUME NEW w \in Worker,
             FindNoAssembly(w) \/ FindNothing(w) \/ Acquire(w) \/ Rewind(w) \/ ReleaseOne(w)
               \/ ReleaseDone(w) \/ \E v \in Worker : TakeReady(w, v)
      PROVE  Worked'
  <2>1. UNCHANGED <<log, head, ran>>
    BY <1>4 DEF FindNoAssembly, FindNothing, Acquire, Rewind, ReleaseOne, ReleaseDone, TakeReady
  <2>2. /\ pc[w] \notin {"entry", "spin", "execute"}
        /\ \A x \in Worker : x # w => pc'[x] = pc[x] /\ cur'[x] = cur[x]
    <3>1. CASE FindNoAssembly(w) \/ FindNothing(w) \/ Acquire(w)
      BY <3>1 DEF FindNoAssembly, FindNothing, Acquire, TypeOK
    <3>2. CASE Rewind(w) \/ ReleaseOne(w) \/ ReleaseDone(w)
      BY <3>2 DEF Rewind, ReleaseOne, ReleaseDone, TypeOK
    <3>3. CASE \E v \in Worker : TakeReady(w, v)
      BY <3>3 DEF TakeReady, TypeOK
    <3> QED
      BY <1>4, <3>1, <3>2, <3>3
  <2> QED
    BY <2>1, <2>2, WorkedKept
<1>5. ASSUME NEW w \in Worker,
             Enter(w) \/ LeaveSpin(w) \/ Leave(w) \/ TestFinal(w) \/ TestNotFinal(w) \/ Commit(w)
      PROVE  Worked'
  <2>1. UNCHANGED <<log, head, ran>>
    BY <1>5 DEF Enter, LeaveSpin, Leave, TestFinal, TestNotFinal, Commit
  <2>2. \A x \in Worker : pc[x] \in {"entry", "spin", "execute"} =>
          cur'[x] = cur[x] /\ pc'[x] \in {"entry", "spin", "execute"}
    <3>1. CASE Enter(w) \/ LeaveSpin(w)
      BY <3>1 DEF Enter, LeaveSpin, TypeOK
    <3>2. CASE Leave(w) \/ TestFinal(w)
      BY <3>2 DEF Leave, TestFinal, TypeOK
    <3>3. CASE TestNotFinal(w) \/ Commit(w)
      BY <3>3 DEF TestNotFinal, Commit, TypeOK
    <3> QED
      BY <1>5, <3>1, <3>2, <3>3
  <2> QED
    BY <2>1, <2>2, WorkedKept
<1>6. CASE UNCHANGED vars
  <2>1. UNCHANGED <<log, head, ran, pc, cur>>
    BY <1>6 DEF vars
  <2> QED
    BY <2>1, WorkedKept
<1> QED
  BY <1>1, <1>2, <1>3, <1>4, <1>5, <1>6 DEF Next, Step, Insert, Gang

(* The task a worker waits in is the last it has popped. *)
LEMMA SpinsLast ==
  ASSUME TypeOK, GangInv, Worked, NEW w \in Worker, pc[w] \in {"entry", "spin", "execute"}
  PROVE  /\ cur[w] \in Tasks /\ head[w] \in 1 .. Len(log[w]) /\ log[w][head[w]] = cur[w]
         /\ w \in Members(place[cur[w]])
<1>1. cur[w] \in Tasks
  BY NoTaskAssumption DEF TypeOK
<1>2. Popped(w, cur[w]) /\ w \notin ran[cur[w]]
  BY DEF GangInv, Met, Ganging
<1>3. PICK k \in 1 .. head[w] : log[w][k] = cur[w]
  BY <1>2 DEF Popped
<1>4. k = head[w]
  BY <1>2, <1>3 DEF Worked
<1>5. head[w] \in Nat /\ Len(log[w]) \in Nat /\ head[w] <= Len(log[w])
  BY DEF TypeOK, GangInv, Logs
<1>6. w \in Members(place[cur[w]])
  BY <1>1, <1>2, PoppedMember DEF GangInv
<1> QED
  BY <1>1, <1>3, <1>4, <1>5, <1>6

-----------------------------------------------------------------------------
(* Who waits for a worker in another gang waits for an earlier task, *)
LEMMA WaitsEarlier ==
  ASSUME TypeOK, InsertInv, GangInv, Worked,
         NEW w \in Worker, pc[w] = "spin", NEW u \in Worker, pc[u] = "spin",
         u \in Members(place[cur[w]]) \ Entered(cur[w]), stamp[cur[w]] > 0
  PROVE  stamp[cur[u]] > 0 /\ stamp[cur[u]] < stamp[cur[w]]
<1>1. PICK t \in Tasks : t = cur[w]
  BY SpinsLast
<1>2. PICK s \in Tasks : s = cur[u] /\ head[u] \in 1 .. Len(log[u]) /\ log[u][head[u]] = s
  BY SpinsLast
<1>3. PICK b \in 1 .. Len(log[u]) : log[u][b] = t
  BY <1>1 DEF InsertInv, PushedSoFar, Entries
<1>4. u \notin ran[t] /\ s # t
  BY <1>1, <1>2 DEF Entered
<1>5. head[u] < b
  <2>1. ~ (b \in 1 .. head[u])
    BY <1>2, <1>3, <1>4 DEF Worked
  <2> QED
    BY <1>2, <1>3, <2>1
<1> QED
  BY <1>1, <1>2, <1>3, <1>5 DEF InsertInv, SerialOrder

(* or, while the pushes of both tasks go on, for a worker further right. *)
LEMMA WaitsRight ==
  ASSUME TypeOK, InsertInv, GangInv, Worked,
         NEW w \in Worker, pc[w] = "spin", NEW u \in Worker, pc[u] = "spin",
         u \in Members(place[cur[w]]) \ Entered(cur[w]),
         stamp[cur[w]] = 0, stamp[cur[u]] = 0
  PROVE  w < u
<1>1. PICK t \in Tasks : t = cur[w] /\ head[w] \in 1 .. Len(log[w]) /\ log[w][head[w]] = t
  BY SpinsLast
<1>2. PICK s \in Tasks : s = cur[u] /\ head[u] \in 1 .. Len(log[u]) /\ log[u][head[u]] = s
  BY SpinsLast
<1>3. s # t
  BY <1>1, <1>2 DEF Entered
<1>4. PICK x \in Worker : Pushing(x) /\ cur[x] = t /\ place[t].leader <= w /\ w < pos[x]
  BY <1>1 DEF InsertInv, OpenEntries
<1>5. PICK y \in Worker : Pushing(y) /\ cur[y] = s /\ place[s].leader <= u /\ u < pos[y]
  BY <1>2 DEF InsertInv, OpenEntries
<1>6. place[t] \in Places /\ place[t].leader \in Nat /\ pos[x] \in Nat /\ pos[y] \in Nat
  BY <1>1, <1>4, PlaceType DEF InsertInv, LoopBounds, Inserting, Pushing, TypeOK
<1>7. place[t].leader <= u
  BY <1>1, <1>6 DEF Members
<1> SUFFICES ASSUME u <= w PROVE FALSE
  BY WorkerType
<1>8. u < pos[x]
  BY <1>4, <1>6, WorkerType
<1>9. Holds(x, u) /\ Holds(y, u)
  BY <1>4, <1>5, <1>6, <1>7, <1>8, WorkerType DEF Holds, Pushing
<1>10. x = y
  BY <1>9 DEF InsertInv, LocksHeld
<1> QED
  BY <1>3, <1>4, <1>5, <1>10

(* Who waits for a lock waits for an inserter that is further right. *)
LEMMA WaitsForHolder ==
  ASSUME TypeOK, InsertInv, NEW w \in Worker, pc[w] = "acquire", Blocked(w),
         NEW v \in Worker, v \in WaitsFor(w), Blocked(v)
  PROVE  pc[v] = "acquire" /\ pos[w] \in Worker /\ pos[v] \in Worker /\ pos[w] < pos[v]
<1>1. alock[pos[w]] = v
  BY DEF WaitsFor
<1>2. pos[w] \in Worker
  BY MembersType DEF InsertInv, LoopBounds, Inserting, Pushing
<1>3. Holds(v, pos[w])
  BY <1>1, <1>2 DEF InsertInv, LocksHeld
<1>4. pc[v] = "acquire" /\ pos[w] < pos[v]
  BY <1>3 DEF Holds, Blocked
<1>5. pos[v] \in Worker
  BY <1>4, MembersType DEF InsertInv, LoopBounds, Inserting, Pushing
<1> QED
  BY <1>2, <1>4, <1>5

LEMMA NoCycle ==
  ASSUME TypeOK, InsertInv, GangInv, Worked
  PROVE  NoWaitCycle
<1> SUFFICES ASSUME NEW S, S \subseteq Worker, S # {},
                    \A w \in S : Blocked(w) /\ WaitsFor(w) \intersect S # {}
             PROVE  FALSE
  <2>1. \A S \in SUBSET Worker : S # {} =>
          \E w \in S : Blocked(w) => WaitsFor(w) \intersect S = {}
    OBVIOUS
  <2> QED
    BY <2>1 DEF NoWaitCycle
<1>1. \A w \in S : pc[w] # "acquire"
  <2> DEFINE A == {i \in Worker : \E w \in S : pc[w] = "acquire" /\ i = pos[w]}
  <2> SUFFICES ASSUME NEW w0 \in S, pc[w0] = "acquire" PROVE FALSE
    OBVIOUS
  <2>1. \A w \in S : pc[w] = "acquire" =>
          \E v \in S : /\ pc[v] = "acquire" /\ pos[v] \in Worker
                       /\ pos[w] \in Worker /\ pos[w] < pos[v]
    BY WaitsForHolder
  <2>2. A # {} /\ A \subseteq Worker
    BY <2>1
  <2>3. PICK m \in A : \A k \in A : k <= m
    BY <2>2, Greatest
  <2>4. PICK v \in S : pc[v] = "acquire" /\ pos[v] \in Worker /\ m < pos[v]
    BY <2>1
  <2>5. pos[v] \in A
    BY <2>4
  <2>6. pos[v] <= m /\ m \in Nat /\ pos[v] \in Nat
    BY <2>3, <2>4, <2>5, WorkerType
  <2> QED
    BY <2>4, <2>6
<1>2. \A w \in S : pc[w] = "spin"
  BY <1>1 DEF Blocked
<1>3. \A w \in S : \E u \in S : u \in Members(place[cur[w]]) \ Entered(cur[w])
  BY <1>2 DEF WaitsFor
<1>4. \A w \in S : stamp[cur[w]] \in Nat
  BY <1>2, SpinsLast DEF TypeOK
<1>5. \A w \in S : stamp[cur[w]] = 0
  <2> DEFINE A == {n \in Nat : \E w \in S : n = stamp[cur[w]] /\ n > 0}
  <2> SUFFICES ASSUME NEW w0 \in S, stamp[cur[w0]] > 0 PROVE FALSE
    BY <1>4
  <2>1. A # {} /\ A \subseteq Nat
    BY <1>4
  <2>2. PICK m \in A : \A k \in A : m <= k
    BY <2>1, Least
  <2>3. PICK w \in S : m = stamp[cur[w]] /\ m > 0
    OBVIOUS
  <2>4. PICK u \in S : u \in Members(place[cur[w]]) \ Entered(cur[w])
    BY <1>3
  <2>5. stamp[cur[u]] > 0 /\ stamp[cur[u]] < stamp[cur[w]]
    BY <1>2, <2>3, <2>4, WaitsEarlier
  <2>6. stamp[cur[u]] \in A
    BY <1>4, <2>5
  <2> QED
    BY <1>4, <2>2, <2>3, <2>5, <2>6
<1>6. PICK w \in S : \A k \in S : k <= w
  BY Greatest
<1>7. PICK u \in S : u \in Members(place[cur[w]]) \ Entered(cur[w])
  BY <1>3
<1>8. w < u
  BY <1>2, <1>5, <1>7, WaitsRight
<1> QED
  BY <1>6, <1>7, <1>8, WorkerType

LEMMA WorkedInOrder ==
  ASSUME DeleteExecuted = FALSE
  PROVE  Spec => []Worked
<1>1. TypeOK /\ InsertInv /\ GangInv /\ Worked /\ [Next]_vars => Worked'
  BY WorkedStep
<1> QED
  BY <1>1, WorkedInit, TypeCorrect, InsertionsAreTwoPhase, GangsAreCounted, PTL DEF Spec

(* Workers never wait for each other in a circle, in the entry barriers of
   assemblies, for queue locks, or in a mixture of both. *)
THEOREM NobodyWaitsInCircles ==
  ASSUME DeleteExecuted = FALSE
  PROVE  Spec => []NoWaitCycle
<1>1. TypeOK /\ InsertInv /\ GangInv /\ Worked => NoWaitCycle
  BY NoCycle
<1> QED
  BY <1>1, TypeCorrect, InsertionsAreTwoPhase, GangsAreCounted, WorkedInOrder, PTL

-----------------------------------------------------------------------------
(* The queues and the serial schedule.                                      *)

(* The clock counts the tasks whose insertion is complete. *)
Stamped ==
  /\ IsFiniteSet(GS!Scheduled)
  /\ clock = Cardinality(GS!Scheduled)

ScheduleInv == TypeOK /\ InsertInv /\ GangInv /\ Worked /\ Stamped

(* the task that has been inserted and that all its members have entered *)
Started(t) == stamp[t] > 0 /\ threadsIn[t] = place[t].width

LEMMA SameMembers == \A p : GS!Members(p) = Members(p) /\ GS!NoPlace = NoPlace
  BY DEF GS!Members, Members, GS!NoPlace, NoPlace

LEMMA SameCardinality == \A S : GS!Cardinality(S) = Cardinality(S)
  BY DEF GS!Cardinality, Cardinality

LEMMA SameWorkers == GS!Worker = Worker
  BY DEF GS!Worker, Worker

(* What is past the entry barrier has been inserted completely. *)
LEMMA FullIsStamped ==
  ASSUME TypeOK, InsertInv, GangInv, NEW t \in Tasks, Members(place[t]) = Entered(t),
         Entered(t) # {}
  PROVE  Started(t)
<1>1. place[t] \in Places \union {NoPlace} /\ stamp[t] \in Nat
  BY DEF TypeOK
<1>2. threadsIn[t] = place[t].width
  BY <1>1, WidthOfMembers DEF GangInv, Counts
<1>3. ASSUME stamp[t] = 0 PROVE FALSE
  <2>1. PICK w \in Entered(t) : w \in Worker /\ Popped(w, t)
    BY EnteredMembers DEF Entered, GangInv, Met, Ganging
  <2>2. PICK k \in 1 .. Len(log[w]) : log[w][k] = t
    BY <2>1, PoppedMember DEF GangInv
  <2>3. PICK x \in Worker : Pushing(x) /\ cur[x] = t
    BY <1>3, <2>1, <2>2 DEF InsertInv, OpenEntries
  <2>4. pos[x] \in Members(place[t])
    BY <2>3 DEF InsertInv, LoopBounds, Pushing, Inserting
  <2>5. pos[x] \in Worker /\ Popped(pos[x], t)
    BY <2>4, EnteredMembers DEF Entered, GangInv, Met, Ganging
  <2> QED
    BY <2>3, <2>5, NotPushed, PoppedMember DEF GangInv
<1> QED
  BY <1>1, <1>2, <1>3 DEF Started

(* Nobody counts himself in twice: the counter stays within the width. *)
LEMMA RoomLeft ==
  ASSUME TypeOK, GangInv, NEW t \in Tasks, NEW w \in Members(place[t]), w \notin Entered(t)
  PROVE  threadsIn[t] < place[t].width
<1>1. place[t] \in Places \union {NoPlace}
  BY DEF TypeOK
<1>2. /\ Members(place[t]) \subseteq Worker
      /\ Cardinality(Members(place[t])) = place[t].width /\ place[t].width \in Nat
  BY <1>1, WidthOfMembers, PlaceType
<1>3. Entered(t) \subseteq Members(place[t]) /\ IsFiniteSet(Members(place[t]))
  BY <1>2, EnteredMembers, SomeWorkers
<1>4. /\ Cardinality(Entered(t)) <= Cardinality(Members(place[t]))
      /\ Cardinality(Entered(t)) \in Nat
  BY <1>3, FS_Subset, FS_CardinalityType
<1>5. Cardinality(Entered(t)) # Cardinality(Members(place[t]))
  BY <1>2, <1>3, SomeWorkers
<1> QED
  BY <1>2, <1>4, <1>5 DEF GangInv, Counts

(* When the members of a task have come, they have run what is earlier. *)
LEMMA EarlierIsRun ==
  ASSUME TypeOK, InsertInv, GangInv, Worked, NEW t \in Tasks, stamp[t] > 0,
         NEW u \in Tasks, stamp[u] > 0, stamp[u] < stamp[t],
         NEW x \in Members(place[u]), Popped(x, t), x \in Worker
  PROVE  x \in ran[u]
<1>1. PICK b \in 1 .. head[x] : log[x][b] = t
  BY DEF Popped
<1>2. PICK a \in 1 .. Len(log[x]) : log[x][a] = u
  BY DEF InsertInv, PushedSoFar, Entries
<1>3. head[x] \in Nat /\ Len(log[x]) \in Nat /\ head[x] <= Len(log[x]) /\ b \in 1 .. Len(log[x])
  <2>1. head[x] \in Nat /\ log[x] \in Seq(Tasks) /\ head[x] <= Len(log[x])
    BY DEF TypeOK, GangInv, Logs
  <2>2. Len(log[x]) \in Nat
    BY <2>1
  <2> QED
    BY <2>1, <2>2
<1>4. stamp[u] \in Nat /\ stamp[t] \in Nat
  BY DEF TypeOK
<1>5. ~ (b < a)
  <2> SUFFICES ASSUME b < a PROVE FALSE
    OBVIOUS
  <2>1. stamp[t] < stamp[u]
    BY <1>1, <1>2, <1>3 DEF InsertInv, SerialOrder
  <2> QED
    BY <1>4, <2>1
<1>6. a # b
  BY <1>1, <1>2, <1>4
<1>7. a \in 1 .. head[x] /\ a # head[x]
  BY <1>3, <1>5, <1>6
<1> QED
  BY <1>2, <1>7 DEF Worked

-----------------------------------------------------------------------------
(* The step that completes an insertion schedules the task. *)
LEMMA PushSchedules ==
  ASSUME ScheduleInv, NEW w \in Worker, PushLast(w)
  PROVE  Stamped' /\ GS!Next
<1> USE DEF ScheduleInv, queueVars, gangVars, Goto
<1>1. /\ pc[w] = "push" /\ clock' = clock + 1
      /\ stamp' = [stamp EXCEPT ![cur[w]] = clock + 1]
      /\ UNCHANGED <<place, threadsIn, ran, commits>>
  BY DEF PushLast
<1>2. PICK t \in Tasks : /\ t = cur[w] /\ place[t] \in Places
                         /\ pos[w] \in Members(place[t]) /\ stamp[t] = 0 /\ Pushing(w)
  BY <1>1 DEF InsertInv, LoopBounds, Inserting, Pushing
<1>3. clock \in Nat /\ \A u \in Tasks : stamp[u] \in Nat
  BY DEF TypeOK
<1>4. stamp'[t] = clock + 1 /\ \A u \in Tasks : u # t => stamp'[u] = stamp[u]
  BY <1>1, <1>2 DEF TypeOK
<1>5. GS!Scheduled' = GS!Scheduled \union {t} /\ t \notin GS!Scheduled
  BY <1>2, <1>3, <1>4 DEF GS!Scheduled
<1>6. Stamped'
  BY <1>1, <1>3, <1>5, FS_AddElement DEF Stamped
<1>7. pos[w] \in Worker /\ ~ Popped(pos[w], t)
  BY <1>2, MembersType, NotPushed, PoppedMember DEF GangInv
<1>8. pos[w] \notin Entered(t)
  BY <1>7 DEF Entered, GangInv, Met, Ganging
<1>9. ~ Started(t)'
  BY <1>1, <1>2, <1>8, RoomLeft DEF Started, TypeOK
<1>10. \A u \in Tasks : u # t => (Started(u)' <=> Started(u))
  BY <1>1, <1>4 DEF Started
<1>11. ~ Started(t)
  BY <1>2 DEF Started
<1>12. GS!Schedule(t)
  <2>1. [u \in Tasks |-> IF stamp[u] > 0 THEN place[u] ELSE NoPlace]' =
          [[u \in Tasks |-> IF stamp[u] > 0 THEN place[u] ELSE NoPlace] EXCEPT ![t] = place[t]]
    <3>1. (IF stamp'[t] > 0 THEN place'[t] ELSE NoPlace) = place[t]
      BY <1>1, <1>3, <1>4
    <3>2. \A u \in Tasks : u # t =>
            (IF stamp'[u] > 0 THEN place'[u] ELSE NoPlace) =
              (IF stamp[u] > 0 THEN place[u] ELSE NoPlace)
      BY <1>1, <1>4
    <3> QED
      BY <3>1, <3>2
  <2>2. stamp' = [stamp EXCEPT ![t] = Cardinality(GS!Scheduled) + 1]
    BY <1>1, <1>2 DEF Stamped
  <2>3. {u \in Tasks : stamp[u] > 0 /\ threadsIn[u] = place[u].width}' =
          {u \in Tasks : stamp[u] > 0 /\ threadsIn[u] = place[u].width}
    BY <1>9, <1>10, <1>11 DEF Started
  <2>4. {u \in Tasks : commits[u] > 0}' = {u \in Tasks : commits[u] > 0}
    BY <1>1
  <2>5. stamp[t] = 0 /\ place[t] \in Places /\ ran' = ran
    BY <1>1, <1>2
  <2> QED
    BY <2>1, <2>2, <2>3, <2>4, <2>5, SameCardinality DEF GS!Schedule
<1> QED
  BY <1>6, <1>12 DEF GS!Next

(* The last member to enter starts the task; the others do nothing that the
   schedule knows of. *)
LEMMA EnterStarts ==
  ASSUME ScheduleInv, NEW w \in Worker, Enter(w)
  PROVE  Stamped' /\ (GS!Next \/ UNCHANGED GS!vars)
<1> USE DEF ScheduleInv, queueVars, gangVars, Goto
<1>1. /\ pc[w] = "entry" /\ threadsIn' = [threadsIn EXCEPT ![cur[w]] = @ + 1]
      /\ UNCHANGED <<place, ran, commits, stamp, clock>>
  BY DEF Enter, histVars
<1>2. PICK t \in Tasks : t = cur[w] /\ w \in Members(place[t]) /\ Popped(w, t)
  BY <1>1, SpinsLast DEF GangInv, Met, Ganging
<1>3. w \notin Entered(t)
  BY <1>1, <1>2 DEF Entered, GangInv, Met, Ganging
<1>4. threadsIn[t] < place[t].width /\ threadsIn[t] \in Nat
  BY <1>2, <1>3, RoomLeft DEF TypeOK
<1>5. threadsIn'[t] = threadsIn[t] + 1 /\ \A u \in Tasks : u # t => threadsIn'[u] = threadsIn[u]
  BY <1>1, <1>2 DEF TypeOK
<1>6. Stamped'
  BY <1>1 DEF Stamped, GS!Scheduled
<1>7. ~ Started(t) /\ \A u \in Tasks : u # t => (Started(u)' <=> Started(u))
  BY <1>1, <1>4, <1>5 DEF Started
<1>8. CASE ~ Started(t)'
  <2>1. {u \in Tasks : stamp[u] > 0 /\ threadsIn[u] = place[u].width}' =
          {u \in Tasks : stamp[u] > 0 /\ threadsIn[u] = place[u].width}
    BY <1>7, <1>8 DEF Started
  <2> QED
    BY <1>1, <1>6, <2>1 DEF GS!vars
<1>9. CASE Started(t)'
  <2>1. stamp[t] > 0 /\ threadsIn[t] + 1 = place[t].width
    BY <1>1, <1>5, <1>9 DEF Started
  <2>2. {u \in Tasks : stamp[u] > 0 /\ threadsIn[u] = place[u].width}' =
          {u \in Tasks : stamp[u] > 0 /\ threadsIn[u] = place[u].width} \union {t}
    BY <1>7, <1>9 DEF Started
  <2>3. Members(place[t]) = Entered(t) \union {w}
    <3>1. place[t] \in Places \union {NoPlace}
      BY DEF TypeOK
    <3>2. /\ Members(place[t]) \subseteq Worker
          /\ Cardinality(Members(place[t])) = place[t].width
      BY <3>1, WidthOfMembers
    <3>3. Entered(t) \subseteq Members(place[t]) /\ Entered(t) \subseteq Worker
      BY EnteredMembers
    <3>4. Cardinality(Entered(t) \union {w}) = threadsIn[t] + 1
      BY <1>3, <3>3, SomeWorkers DEF GangInv, Counts
    <3> QED
      BY <1>2, <2>1, <3>2, <3>3, <3>4, SomeWorkers
  <2>4. \A x \in Members(place[t]) : x \in Worker /\ Popped(x, t)
    BY <1>2, <2>3, EnteredMembers DEF Entered, GangInv, Met, Ganging
  <2>5. \A u \in Tasks : stamp[u] > 0 /\ stamp[u] < stamp[t] =>
          Members(place[u]) \intersect Members(place[t]) \subseteq ran[u]
    BY <2>1, <2>4, EarlierIsRun
  <2>6. GS!MembersAreFree(t)
    BY <2>1, <2>5, SameMembers DEF GS!MembersAreFree, GS!Scheduled
  <2>7. t \notin {u \in Tasks : stamp[u] > 0 /\ threadsIn[u] = place[u].width}
    BY <1>7 DEF Started
  <2>8. GS!Start(t)
    BY <1>1, <2>1, <2>2, <2>6, <2>7 DEF GS!Start
  <2> QED
    BY <1>6, <2>8 DEF GS!Next
<1> QED
  BY <1>8, <1>9

(* execute() is a run of the schedule. *)
LEMMA ExecuteRuns ==
  ASSUME ScheduleInv, NEW w \in Worker, Execute(w)
  PROVE  Stamped' /\ GS!Next
<1> USE DEF ScheduleInv, queueVars, gangVars, Goto
<1>1. /\ pc[w] = "execute" /\ ran' = [ran EXCEPT ![cur[w]] = @ \union {w}]
      /\ UNCHANGED <<place, threadsIn, commits, stamp, clock>>
  BY DEF Execute, histVars
<1>2. PICK t \in Tasks : t = cur[w] /\ w \in Members(place[t]) /\ w \notin ran[t]
  BY <1>1, SpinsLast DEF GangInv, Met, Ganging
<1>3. Members(place[t]) = Entered(t)
  BY <1>1, <1>2 DEF GangInv, GangEntry
<1>4. Started(t)
  BY <1>2, <1>3, FullIsStamped
<1>5. Stamped'
  BY <1>1 DEF Stamped, GS!Scheduled
<1>6. GS!Run(w, t)
  BY <1>1, <1>2, <1>4, SameMembers DEF GS!Run, Started
<1> QED
  BY <1>5, <1>6, SameWorkers DEF GS!Next

(* The commit of the last member finishes the task. *)
LEMMA CommitFinishes ==
  ASSUME ScheduleInv, GangInv', TypeOK', NEW w \in Worker, Commit(w)
  PROVE  Stamped' /\ GS!Next
<1> USE DEF ScheduleInv, queueVars, gangVars, Goto
<1>1. /\ pc[w] = "commit" /\ commits' = [commits EXCEPT ![cur[w]] = @ + 1]
      /\ UNCHANGED <<place, threadsIn, threadsOut, ran, stamp, clock>>
  BY DEF Commit, histVars
<1>2. PICK t \in Tasks : t = cur[w] /\ w \in ran[t]
  <2>1. cur[w] \in Tasks
    BY <1>1, NoTaskAssumption DEF TypeOK
  <2> QED
    BY <1>1, <2>1 DEF GangInv, Met, Ganging
<1>3. Members(place[t]) = Entered(t) /\ w \in Entered(t)
  BY <1>1, <1>2 DEF GangInv, GangEntry, Entered
<1>4. Started(t)
  BY <1>2, <1>3, FullIsStamped
<1>5. /\ commits'[t] = commits[t] + 1 /\ commits[t] \in Nat
      /\ \A u \in Tasks : u # t => commits'[u] = commits[u]
  BY <1>1, <1>2 DEF TypeOK
<1>6. commits[t] = 0
  BY <1>1, <1>2 DEF GangInv, Committed, Final
<1>7. threadsOut[t] = place[t].width
  <2>1. threadsOut'[t] = place'[t].width
    BY <1>5, <1>6 DEF GangInv, Committed
  <2> QED
    BY <1>1, <2>1
<1>8. ran[t] = Members(place[t])
  BY <1>7, AllOut
<1>9. Stamped'
  BY <1>1 DEF Stamped, GS!Scheduled
<1>10. GS!Finish(t)
  <2>1. {u \in Tasks : commits[u] > 0}' = {u \in Tasks : commits[u] > 0} \union {t}
    BY <1>5, <1>6
  <2> QED
    BY <1>1, <1>4, <1>6, <1>8, <2>1, SameMembers DEF GS!Finish, Started
<1> QED
  BY <1>9, <1>10 DEF GS!Next

(* A place is chosen before the schedule knows of the task. *)
LEMMA TakeIsHidden ==
  ASSUME ScheduleInv, NEW w \in Worker, NEW v \in Worker, TakeReady(w, v)
  PROVE  Stamped' /\ UNCHANGED GS!vars
<1> USE DEF ScheduleInv, queueVars, gangVars, Goto
<1>1. PICK t \in ready[v], p \in Places : place' = [place EXCEPT ![t] = p]
  BY DEF TakeReady
<1>2. UNCHANGED <<threadsIn, ran, commits, stamp, clock>>
  BY DEF TakeReady, histVars
<1>3. t \in Tasks /\ stamp[t] = 0
  BY DEF TypeOK, InsertInv, OneInserter
<1>4. \A u \in Tasks : stamp[u] > 0 => place'[u] = place[u]
  BY <1>1, <1>3 DEF TypeOK
<1>5. [u \in Tasks |-> IF stamp[u] > 0 THEN place[u] ELSE NoPlace]' =
        [u \in Tasks |-> IF stamp[u] > 0 THEN place[u] ELSE NoPlace]
  BY <1>2, <1>4
<1>6. {u \in Tasks : stamp[u] > 0 /\ threadsIn[u] = place[u].width}' =
        {u \in Tasks : stamp[u] > 0 /\ threadsIn[u] = place[u].width}
  BY <1>2, <1>4
<1>7. Stamped'
  BY <1>2 DEF Stamped, GS!Scheduled
<1> QED
  BY <1>2, <1>5, <1>6, <1>7 DEF GS!vars

(* All other steps are inside the queues. *)
LEMMA RestIsHidden ==
  ASSUME ScheduleInv, UNCHANGED <<place, threadsIn, ran, commits, stamp, clock>>
  PROVE  Stamped' /\ UNCHANGED GS!vars
  BY DEF ScheduleInv, Stamped, GS!Scheduled, GS!vars

LEMMA StepSchedules ==
  ASSUME ScheduleInv, TypeOK', GangInv', [Next]_vars
  PROVE  Stamped' /\ (GS!Next \/ UNCHANGED GS!vars)
<1> USE DEF queueVars, gangVars, histVars, Goto
<1>1. ASSUME NEW w \in Worker, Step(w) PROVE Stamped' /\ (GS!Next \/ UNCHANGED GS!vars)
  <2>1. CASE PushLast(w)
    BY <2>1, PushSchedules
  <2>2. CASE Enter(w)
    BY <2>2, EnterStarts
  <2>3. CASE Execute(w)
    BY <2>3, ExecuteRuns
  <2>4. CASE Commit(w)
    BY <2>4, CommitFinishes
  <2>5. CASE \E v \in Worker : TakeReady(w, v)
    BY <2>5, TakeIsHidden
  <2>6. CASE PopAssembly(w) \/ FindNoAssembly(w) \/ FindNothing(w)
    BY <2>6, RestIsHidden DEF PopAssembly, FindNoAssembly, FindNothing
  <2>7. CASE Acquire(w) \/ PushMore(w) \/ Rewind(w) \/ ReleaseOne(w) \/ ReleaseDone(w)
    BY <2>7, RestIsHidden DEF Acquire, PushMore, Rewind, ReleaseOne, ReleaseDone
  <2>8. CASE LeaveSpin(w) \/ Leave(w) \/ TestFinal(w) \/ TestNotFinal(w)
    BY <2>8, RestIsHidden DEF LeaveSpin, Leave, TestFinal, TestNotFinal
  <2> QED
    BY <1>1, <2>1, <2>2, <2>3, <2>4, <2>5, <2>6, <2>7, <2>8 DEF Step, Insert, Gang
<1>2. CASE UNCHANGED vars
  BY <1>2, RestIsHidden DEF vars
<1> QED
  BY <1>1, <1>2 DEF Next

LEMMA ScheduleStart == Init => Stamped /\ GS!Init
<1> SUFFICES ASSUME Init PROVE Stamped /\ GS!Init
  OBVIOUS
<1>1. GS!Scheduled = {}
  BY DEF Init, GS!Scheduled
<1>2. Stamped
  BY <1>1, FS_EmptySet DEF Init, Stamped
<1>3. GS!Init
  BY SameMembers DEF Init, GS!Init
<1> QED
  BY <1>2, <1>3

(* Every step of the queues is a step of the serial gang schedule, or none. *)
THEOREM QueuesKeepSchedule ==
  ASSUME DeleteExecuted = FALSE
  PROVE  Spec => GS!Init /\ [][GS!Next]_(GS!vars)
<1>1. Init => Stamped /\ GS!Init
  BY ScheduleStart
<1>2. TypeOK /\ InsertInv /\ GangInv /\ Worked /\ Stamped /\ TypeOK' /\ GangInv' /\ [Next]_vars
        => Stamped' /\ [GS!Next]_(GS!vars)
  BY StepSchedules DEF ScheduleInv
<1> QED
  BY <1>1, <1>2, TypeCorrect, InsertionsAreTwoPhase, GangsAreCounted, WorkedInOrder, PTL DEF Spec

=============================================================================
