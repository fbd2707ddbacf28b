------------------------- MODULE Primitives_proofs -------------------------
(***************************************************************************)
(* Proofs about the queue, the barriers, the parallel loops and the          *)
(* recording of traces.                                                     *)
(*                                                                          *)
(* Queue.  HeapSound and Contents follow the pointers from first on by a    *)
(* recursive function.  The invariant (QueueInv) has a sequence s of        *)
(* addresses as a witness instead: the list from first on is s (Listed);    *)
(* who pushes has a node off the list or has just linked its last node      *)
(* (Pushers); who pops has seen a second node or holds one that has left    *)
(* (Popper); and nothing else is alive (Working).  A push appends to s, a   *)
(* pop takes off its head, and no other step changes what is queued.        *)
(*                                                                          *)
(* Spinning barrier (Rounds).  The counter is set back before the barrier   *)
(* opens, and threads come to the next round while others have not left the *)
(* last one: a thread that counts itself has seen the current step, one     *)
(* that spins is at most one step behind, and while the last one sets back  *)
(* the counter and opens, all others spin.                                  *)
(*                                                                          *)
(* Sleeping barrier (Books).  pending_threads is the number of threads that *)
(* are missing, except that zero also stands for a round that no one has    *)
(* come to.                                                                 *)
(*                                                                          *)
(* Parallel loops (ForInv).  Tasks, blocks and shares are the same division *)
(* of an interval (PartsFit); the body has been executed once for the       *)
(* pieces that are executed (Counts), which are those whose member is done, *)
(* or those that have been claimed and that nobody runs (Executed).         *)
(*                                                                          *)
(* Recording (RecInv).  For each thread, what it has run is what has been   *)
(* counted, and the accesses of that are what is in the trace of its core,  *)
(* as far as it has room, and what the thread has still to write            *)
(* (DealtWith).  Only the thread itself touches what this is about (Others).*)
(***************************************************************************)
EXTENDS Primitives, TLAPS, FiniteSetTheorems, SequenceTheorems, WellFoundedInduction

-----------------------------------------------------------------------------
(* Numbers. *)

(* A set of numbers has a least one. *)
LEMMA Least ==
  ASSUME NEW S, S \subseteq Nat, S # {}
  PROVE  \E m \in S : \A k \in S : m <= k
<1>1. PICK R : IsWellFoundedOn(R, Nat) /\ \A x, y \in Nat : x < y => <<x, y>> \in R
  BY NatLessThanWellFounded DEF OpToRel
<1>2. PICK x \in S : \A y \in S : ~ (<<y, x>> \in R)
  <2>1. IsWellFoundedOn(R, Nat)
    BY <1>1
  <2> QED
    BY ONLY <2>1, S \subseteq Nat, S # {}, WFMin
<1>3. \A y \in S : y \in Nat /\ x \in Nat /\ ~ (y < x)
  BY <1>1, <1>2
<1> QED
  BY <1>3

-----------------------------------------------------------------------------
(* The list. *)

(* the list from first on is s *)
Listed(s) ==
  /\ s \in Seq(Addresses) /\ s # <<>>
  /\ \A a, b \in 1 .. Len(s) : s[a] = s[b] => a = b
  /\ s[1] = first
  /\ \A k \in 1 .. Len(s) - 1 : heap[s[k]].next = s[k + 1]
  /\ heap[s[Len(s)]].next = Null

(* The instance has a name of its own for what it takes from FiniteSets. *)
LEMMA SameSizes ==
  \A S : Queue!Cardinality(S) = Cardinality(S) /\ Queue!IsFiniteSet(S) = IsFiniteSet(S)
  BY DEF Queue!Cardinality, Cardinality, Queue!IsFiniteSet, IsFiniteSet

Steps == 0 .. Cardinality(Addresses)

(* An injective sequence is not longer than what it is taken from. *)
LEMMA NotLonger ==
  ASSUME NEW s \in Seq(Addresses), \A a, b \in 1 .. Len(s) : s[a] = s[b] => a = b
  PROVE  Len(s) <= Cardinality(Addresses) /\ Cardinality(Addresses) \in Nat
<1>1. IsFiniteSet(Addresses) /\ Cardinality(Addresses) \in Nat
  BY QueueAssumption, SameSizes, FS_CardinalityType DEF Queue!ConstantsOK
<1>2. s \in Injection(1 .. Len(s), Addresses)
  BY DEF Injection, IsInjective
<1>3. Cardinality(1 .. Len(s)) = Len(s)
  BY FS_Interval
<1> QED
  BY <1>1, <1>2, <1>3, FS_Injection

(* What the nodes behind first are. *)
LEMMA NthOfList ==
  ASSUME NEW s, Listed(s)
  PROVE  Queue!Nth = [k \in Steps |-> IF k < Len(s) THEN s[k + 1] ELSE Null]
<1> DEFINE G(f) == [k \in Steps |->
              IF k = 0 THEN first
              ELSE IF f[k - 1] = Null THEN Null ELSE heap[f[k - 1]].next]
           h == [k \in Steps |-> IF k < Len(s) THEN s[k + 1] ELSE Null]
<1>0. /\ s \in Seq(Addresses) /\ Len(s) \in Nat \ {0} /\ s[1] = first
      /\ \A k \in 1 .. Len(s) : s[k] \in Addresses /\ s[k] # Null
      /\ Steps \subseteq Nat /\ Cardinality(Addresses) \in Nat
  BY QueueAssumption, NotLonger DEF Queue!ConstantsOK, Listed, Steps
<1>1. h = G(h)
  <2>1. ASSUME NEW k \in Steps PROVE h[k] = G(h)[k]
    <3>1. CASE k = 0
      BY <1>0, <3>1
    <3>2. CASE k # 0 /\ k <= Len(s)
      <4>1. k \in Nat /\ k - 1 \in Steps /\ h[k - 1] = s[k] /\ s[k] # Null
        BY <1>0, <3>2 DEF Steps
      <4>2. h[k] = heap[s[k]].next
        BY <1>0, <3>2, <4>1 DEF Listed
      <4> QED
        BY <3>2, <4>1, <4>2
    <3>3. CASE k > Len(s)
      <4>1. k \in Nat /\ k - 1 \in Steps /\ h[k - 1] = Null /\ h[k] = Null /\ k # 0
        BY <1>0, <3>3 DEF Steps
      <4> QED
        BY <4>1
    <3> QED
      BY <1>0, <3>1, <3>2, <3>3
  <2> QED
    BY <2>1
<1>2. Queue!Nth = CHOOSE f : f = G(f)
  BY SameSizes DEF Queue!Nth, Steps
<1> HIDE DEF h
<1>3. Queue!Nth = G(Queue!Nth)
  <2> HIDE DEF G
  <2> QED
    BY <1>1, <1>2
<1>4. ASSUME NEW f, f = G(f) PROVE f = h
  <2> DEFINE D == {k \in Steps : f[k] # h[k]}
  <2>1. D = {}
    <3> SUFFICES ASSUME D # {} PROVE FALSE
      OBVIOUS
    <3>1. D \subseteq Nat
      BY <1>0
    <3> HIDE DEF D
    <3>2. PICK m \in D : \A k \in D : m <= k
      BY ONLY D # {}, <3>1, Least
    <3> USE DEF D
    <3>3. m \in Steps /\ m \in Nat /\ f[m] = G(f)[m] /\ h[m] = G(h)[m] /\ f[m] # h[m]
      BY <1>0, <1>1, <1>4
    <3>4. CASE m = 0
      BY <3>3, <3>4
    <3>5. CASE m > 0
      <4>1. m - 1 \in Steps /\ m - 1 \in Nat /\ m - 1 < m
        BY <1>0, <3>3, <3>5 DEF Steps
      <4>2. m - 1 \notin D
        BY <3>2, <4>1, <3>3
      <4>3. f[m - 1] = h[m - 1]
        BY <4>1, <4>2
      <4> QED
        BY <3>3, <3>5, <4>3
    <3> QED
      BY <3>3, <3>4, <3>5
  <2>2. DOMAIN f = Steps /\ DOMAIN h = Steps
    BY <1>1, <1>4
  <2>3. \A k \in Steps : f[k] = h[k]
    BY <2>1
  <2>4. f = [k \in Steps |-> f[k]] /\ h = [k \in Steps |-> h[k]]
    BY <1>1, <1>4
  <2> QED
    BY <2>3, <2>4
<1> QED
  BY <1>3, <1>4 DEF h

(* the nodes of the list *)
Nodes(s) == {s[k] : k \in 1 .. Len(s)}

(* what the list holds *)
Held(s) == [k \in 1 .. Len(s) - 1 |-> heap[s[k + 1]].value]

(* The chain and the contents of the queue, by its list. *)
LEMMA ListIsQueue ==
  \A s : Listed(s) => Queue!Chain = Nodes(s) /\ Queue!Contents = Held(s)
<1> SUFFICES ASSUME NEW s, Listed(s)
             PROVE  Queue!Chain = Nodes(s) /\ Queue!Contents = Held(s)
  OBVIOUS
<1>0. /\ s \in Seq(Addresses) /\ Len(s) \in Nat \ {0}
      /\ \A k \in 1 .. Len(s) : s[k] \in Addresses /\ s[k] # Null
      /\ Len(s) <= Cardinality(Addresses) /\ Cardinality(Addresses) \in Nat
  BY QueueAssumption, NotLonger DEF Queue!ConstantsOK, Listed
<1>1. Queue!Nth = [k \in Steps |-> IF k < Len(s) THEN s[k + 1] ELSE Null]
  BY NthOfList
<1>2. /\ DOMAIN Queue!Nth = Steps
      /\ \A k \in Steps : Queue!Nth[k] = IF k < Len(s) THEN s[k + 1] ELSE Null
  BY <1>1
<1>3. \A k \in 1 .. Len(s) : k - 1 \in Steps /\ Queue!Nth[k - 1] = s[k]
  BY <1>0, <1>2 DEF Steps
<1>4. Queue!Chain = Nodes(s)
  <2>1. \A k \in Steps : Queue!Nth[k] # Null => Queue!Nth[k] \in Nodes(s)
    BY <1>0, <1>2 DEF Nodes, Steps
  <2> QED
    BY <1>0, <1>2, <1>3, <2>1 DEF Queue!Chain, Nodes
<1>5. Queue!Length = Len(s) - 1
  <2>1. /\ Len(s) - 1 \in Steps /\ Queue!Nth[Len(s) - 1] = s[Len(s)]
    BY <1>0, <1>3
  <2>2. ASSUME NEW k \in Steps, Queue!Nth[k] # Null, heap[Queue!Nth[k]].next = Null
        PROVE  k = Len(s) - 1
    <3>1. k < Len(s) /\ Queue!Nth[k] = s[k + 1] /\ k \in Nat
      BY <1>0, <1>2, <2>2 DEF Steps
    <3>2. CASE k + 1 < Len(s)
      <4>1. k + 1 \in 1 .. Len(s) - 1 /\ k + 2 \in 1 .. Len(s) /\ (k + 1) + 1 = k + 2
        BY <1>0, <3>1, <3>2
      <4>2. heap[s[k + 1]].next = s[k + 2]
        BY <4>1 DEF Listed
      <4> QED
        BY <1>0, <2>2, <3>1, <4>1, <4>2
    <3> QED
      BY <1>0, <3>1, <3>2
  <2> DEFINE P(k) == Queue!Nth[k] # Null /\ heap[Queue!Nth[k]].next = Null
  <2>3. Len(s) - 1 \in Steps /\ P(Len(s) - 1)
    BY <1>0, <2>1 DEF Listed
  <2>4. Queue!Length = CHOOSE k \in Steps : P(k)
    BY <1>2 DEF Queue!Length
  <2>5. \A k \in Steps : P(k) => k = Len(s) - 1
    BY <2>2
  <2> HIDE DEF P
  <2> QED
    BY <2>3, <2>4, <2>5
<1>6. Queue!Contents = Held(s)
  <2>1. \A k \in 1 .. Len(s) - 1 : Queue!Nth[k] = s[k + 1]
    BY <1>0, <1>2 DEF Steps
  <2> QED
    BY <1>5, <2>1 DEF Queue!Contents, Held
<1> QED
  BY <1>4, <1>6

LEMMA ListIsQueueAfter ==
  \A s : Listed(s)' => Queue!Chain' = Nodes(s)' /\ Queue!Contents' = Held(s)'
<1>1. (\A s : Listed(s) => Queue!Chain = Nodes(s) /\ Queue!Contents = Held(s))'
  BY ListIsQueue, PTL
<1> QED
  BY <1>1

-----------------------------------------------------------------------------
(* The invariant of the queue. *)

QueueTypes ==
  /\ heap \in [Addresses -> [value : Values \union {Null}, next : Addresses \union {Null}]]
  /\ alive \subseteq Addresses /\ first \in Addresses /\ last \in Addresses
  /\ tmp \in [Producers -> Addresses \union {Null}]
  /\ ppc \in [Producers -> {"idle", "new", "publish", "last", "unlock"}]
  /\ cpc \in {"idle", "front", "pop", "clear", "delete"}
  /\ oldFirst \in Addresses \union {Null}

(* who pushes holds the lock *)
OnePusher == \A p \in Producers : ppc[p] # "idle" <=> lock = p

(* A producer has a node off the list, or its node is the end of the list and
   last is still to follow. *)
Pushers(s) ==
  /\ \A p \in Producers :
       /\ ppc[p] = "publish" =>
            /\ tmp[p] \in Addresses \ Nodes(s) /\ tmp[p] # oldFirst
            /\ heap[tmp[p]].next = Null /\ heap[tmp[p]].value \in Values
       /\ ppc[p] = "last" => tmp[p] = s[Len(s)]
  /\ (\A p \in Producers : ppc[p] # "last") => last = s[Len(s)]

(* The consumer has seen a second node; what it deletes has left the list. *)
Popper(s) ==
  /\ cpc \in {"front", "pop"} => Len(s) > 1
  /\ cpc = "pop" => got = heap[s[2]].value
  /\ cpc \in {"clear", "delete"} <=> oldFirst # Null
  /\ oldFirst \notin Nodes(s)

Unpublished == {tmp[p] : p \in {q \in Producers : ppc[q] = "publish"}}

(* the list s and those who work on it *)
Working(s) ==
  /\ Listed(s) /\ Pushers(s) /\ Popper(s)
  /\ alive = Nodes(s) \union ({oldFirst} \ {Null}) \union Unpublished

QueueInv == QueueTypes /\ OnePusher /\ \E s : Working(s)

(* At first the list is the dummy node. *)
LEMMA QueueInit == Queue!Init => QueueInv
<1> SUFFICES ASSUME Queue!Init PROVE QueueInv
  OBVIOUS
<1>0. Null \notin Addresses /\ Queue!Free \notin Producers
  BY QueueAssumption DEF Queue!ConstantsOK
<1>1. PICK a \in Addresses : first = a /\ last = a /\ alive = {a}
  BY DEF Queue!Init
<1>2. /\ heap = [b \in Addresses |-> [value |-> Null, next |-> Null]]
      /\ tmp = [p \in Producers |-> Null] /\ ppc = [p \in Producers |-> "idle"]
      /\ cpc = "idle" /\ oldFirst = Null /\ lock = Queue!Free
  BY DEF Queue!Init, Queue!EmptyNode
<1>3. QueueTypes
  BY <1>1, <1>2 DEF QueueTypes
<1>4. OnePusher
  BY <1>0, <1>2 DEF OnePusher
<1>5. PICK s : s = <<a>>
  OBVIOUS
<1>6. s \in Seq(Addresses) /\ Len(s) = 1 /\ s[1] = a /\ Nodes(s) = {a}
  <2>1. s \in Seq(Addresses) /\ Len(s) = 1 /\ s[1] = a
    BY <1>5
  <2>2. \A k : k \in 1 .. Len(s) <=> k = 1
    BY <2>1
  <2>3. \A b : b \in Nodes(s) <=> b = a
    BY <2>1, <2>2 DEF Nodes
  <2>4. Nodes(s) = {a}
    BY <2>3
  <2> QED
    BY <2>1, <2>4
<1>7. Listed(s)
  <2>1. s # <<>> /\ (\A k : k \in 1 .. Len(s) => k = 1) /\ ~ \E k : k \in 1 .. Len(s) - 1
    BY <1>5, <1>6
  <2>2. heap[a].next = Null
    BY <1>2
  <2> QED
    BY <1>1, <1>6, <2>1, <2>2 DEF Listed
<1>8. Pushers(s) /\ Popper(s)
  BY <1>0, <1>1, <1>2, <1>6 DEF Pushers, Popper
<1>9. Unpublished = {}
  BY <1>2 DEF Unpublished
<1>10. Working(s)
  BY <1>0, <1>1, <1>2, <1>6, <1>7, <1>8, <1>9 DEF Working
<1> QED
  BY <1>3, <1>4, <1>10 DEF QueueInv

(* What follows from a list. *)
LEMMA ListFacts ==
  ASSUME QueueTypes, NEW s, Listed(s)
  PROVE  /\ s \in Seq(Addresses) /\ Len(s) \in Nat \ {0} /\ Null \notin Addresses
         /\ \A k \in 1 .. Len(s) : s[k] \in Addresses /\ s[k] \in Nodes(s)
         /\ Nodes(s) \subseteq Addresses
  BY QueueAssumption DEF Queue!ConstantsOK, Listed, Nodes

(* Steps that leave the nodes of the list alone. *)
LEMMA ListStays ==
  ASSUME QueueTypes, NEW s, Listed(s), first' = first,
         \A a \in Nodes(s) : heap'[a].next = heap[a].next
  PROVE  Listed(s)'
  BY ListFacts DEF Listed

LEMMA HeldStays ==
  ASSUME QueueTypes, NEW s, Listed(s),
         \A a \in Nodes(s) \ {first} : heap'[a].value = heap[a].value
  PROVE  Held(s)' = Held(s)
<1>1. ASSUME NEW k \in 1 .. Len(s) - 1 PROVE heap'[s[k + 1]].value = heap[s[k + 1]].value
  <2>1. k + 1 \in 1 .. Len(s) /\ 1 \in 1 .. Len(s) /\ k + 1 # 1
    BY ListFacts
  <2>2. s[k + 1] \in Nodes(s) /\ s[k + 1] # first
    BY <2>1, ListFacts DEF Listed
  <2> QED
    BY <2>2
<1> QED
  BY <1>1 DEF Held

(* a step of the queue that does neither push nor pop *)
Quiet(s) == Working(s)' /\ Held(s)' = Held(s) /\ taken' = taken

(* A producer gets the lock. *)
LEMMA AcquireKeeps ==
  ASSUME QueueTypes, OnePusher, NEW s, Working(s), NEW p \in Producers, Queue!Acquire(p)
  PROVE  QueueTypes' /\ OnePusher' /\ Quiet(s)
<1>0. Queue!Free \notin Producers
  BY QueueAssumption DEF Queue!ConstantsOK
<1>1. /\ ppc[p] = "idle" /\ lock = Queue!Free /\ lock' = p
      /\ ppc' = [ppc EXCEPT ![p] = "new"]
      /\ UNCHANGED <<heap, alive, first, last, tmp, cpc, oldFirst, got, taken>>
  BY DEF Queue!Acquire, Queue!listVars, Queue!consVars
<1>2. QueueTypes'
  BY <1>1 DEF QueueTypes
<1>3. OnePusher'
  BY <1>0, <1>1 DEF OnePusher, QueueTypes
<1>4. /\ ppc'[p] = "new" /\ \A q \in Producers \ {p} : ppc'[q] = ppc[q]
  BY <1>1 DEF QueueTypes
<1>5. Listed(s)' /\ Held(s)' = Held(s)
  BY <1>1 DEF Working, Listed, Held
<1>6. Pushers(s)'
  BY <1>1, <1>4 DEF Working, Pushers
<1>7. Popper(s)'
  BY <1>1 DEF Working, Popper
<1>8. Unpublished' = Unpublished
  BY <1>1, <1>4 DEF Unpublished
<1> QED
  BY <1>1, <1>2, <1>3, <1>5, <1>6, <1>7, <1>8 DEF Working, Quiet

(* A node is allocated, off the list. *)
LEMMA NewNodeKeeps ==
  ASSUME QueueTypes, OnePusher, NEW s, Working(s), NEW p \in Producers, NEW v \in Values,
         Queue!NewNode(p, v)
  PROVE  QueueTypes' /\ OnePusher' /\ Quiet(s)
<1>1. /\ ppc[p] = "new" /\ ppc' = [ppc EXCEPT ![p] = "publish"]
      /\ UNCHANGED <<first, last, lock, cpc, oldFirst, got, taken>>
  BY DEF Queue!NewNode, Queue!consVars
<1>2. PICK a \in Addresses \ alive :
        /\ heap' = [heap EXCEPT ![a] = [value |-> v, next |-> Null]]
        /\ alive' = alive \union {a} /\ tmp' = [tmp EXCEPT ![p] = a]
  BY DEF Queue!NewNode
<1>3. /\ ppc'[p] = "publish" /\ tmp'[p] = a
      /\ \A q \in Producers \ {p} : ppc'[q] = ppc[q] /\ tmp'[q] = tmp[q]
      /\ heap'[a] = [value |-> v, next |-> Null]
      /\ \A b \in Addresses \ {a} : heap'[b] = heap[b]
  BY <1>1, <1>2 DEF QueueTypes
<1>4. QueueTypes'
  BY <1>1, <1>2 DEF QueueTypes
<1>5. OnePusher'
  BY <1>1, <1>3 DEF OnePusher
<1>6. /\ Nodes(s) \subseteq Addresses \ {a} /\ a # oldFirst
      /\ \A q \in Producers : ppc[q] = "publish" => tmp[q] # a
  <2>1. Nodes(s) \subseteq alive /\ Nodes(s) \subseteq Addresses /\ a \notin alive
    BY <1>2, ListFacts DEF Working
  <2>2. a # oldFirst
    BY <1>2, ListFacts DEF Working
  <2>3. \A q \in Producers : ppc[q] = "publish" => tmp[q] \in alive
    BY DEF Working, Unpublished
  <2> QED
    BY <2>1, <2>2, <2>3
<1>7. \A q \in Producers \ {p} : ppc[q] \notin {"publish", "last"}
  BY <1>1 DEF OnePusher
<1>8. Listed(s)' /\ Held(s)' = Held(s)
  BY <1>1, <1>3, <1>6, ListStays, HeldStays DEF Working
<1>9. Pushers(s)'
  BY <1>1, <1>2, <1>3, <1>6, <1>7 DEF Working, Pushers, Nodes
<1>10. Popper(s)'
  <2>1. cpc = "pop" => heap'[s[2]] = heap[s[2]]
    <3>1. cpc = "pop" => 2 \in 1 .. Len(s)
      BY ListFacts DEF Working, Popper
    <3> QED
      BY <3>1, <1>3, <1>6, ListFacts DEF Working
  <2> QED
    BY <1>1, <2>1 DEF Working, Popper, Nodes
<1>11. Unpublished' = Unpublished \union {a}
  BY <1>1, <1>3, <1>7 DEF Unpublished
<1>12. Nodes(s)' = Nodes(s)
  BY DEF Nodes
<1> QED
  BY <1>1, <1>2, <1>4, <1>5, <1>8, <1>9, <1>10, <1>11, <1>12 DEF Working, Quiet

(* The new node is linked behind the last one: the push. *)
LEMMA PublishKeeps ==
  ASSUME QueueTypes, OnePusher, NEW s, Working(s), NEW p \in Producers, Queue!Publish(p),
         NEW t, t = Append(s, tmp[p])
  PROVE  /\ QueueTypes' /\ OnePusher' /\ Working(t)'
         /\ \E v \in Values : Held(t)' = Append(Held(s), v)
         /\ taken' = taken
<1>1. /\ ppc[p] = "publish" /\ ppc' = [ppc EXCEPT ![p] = "last"]
      /\ heap' = [heap EXCEPT ![last].next = tmp[p]]
      /\ UNCHANGED <<alive, first, last, lock, tmp, cpc, oldFirst, got, taken>>
  BY DEF Queue!Publish, Queue!consVars
<1>2. \A q \in Producers \ {p} : ppc[q] \notin {"publish", "last"}
  BY <1>1 DEF OnePusher
<1>3. /\ s \in Seq(Addresses) /\ Len(s) \in Nat \ {0} /\ Null \notin Addresses
      /\ \A k \in 1 .. Len(s) : s[k] \in Addresses /\ s[k] \in Nodes(s)
  BY ListFacts DEF Working
<1>4. PICK x : x = tmp[p]
  OBVIOUS
<1>5. /\ x \in Addresses \ Nodes(s) /\ x # oldFirst /\ last = s[Len(s)]
      /\ heap[x].next = Null /\ heap[x].value \in Values
  BY <1>1, <1>2, <1>4 DEF Working, Pushers
<1>6. /\ t \in Seq(Addresses) /\ Len(t) = Len(s) + 1 /\ t[Len(t)] = x
      /\ \A k \in 1 .. Len(s) : t[k] = s[k]
  BY <1>3, <1>4, <1>5
<1>7. /\ heap'[last].next = x /\ x # last /\ heap'[x] = heap[x]
      /\ \A a \in Addresses : heap'[a].value = heap[a].value
      /\ \A a \in Addresses \ {last} : heap'[a] = heap[a]
  <2>1. heap' = [heap EXCEPT ![last] = [@ EXCEPT !.next = x]] /\ last \in Addresses
    BY <1>1, <1>4 DEF QueueTypes
  <2>2. \A a \in Addresses : heap'[a] = IF a = last THEN [heap[a] EXCEPT !.next = x] ELSE heap[a]
    BY <2>1 DEF QueueTypes
  <2>3. Len(s) \in 1 .. Len(s)
    BY <1>3
  <2>4. x # last
    BY <1>3, <1>5, <2>3
  <2>5. \A a \in Addresses : heap[a] \in [value : Values \union {Null}, next : Addresses \union {Null}]
    BY DEF QueueTypes
  <2> QED
    BY <1>5, <2>1, <2>2, <2>4, <2>5
<1>8. QueueTypes'
  BY <1>1, <1>4, <1>5 DEF QueueTypes
<1>9. /\ ppc'[p] = "last" /\ \A q \in Producers \ {p} : ppc'[q] = ppc[q]
  BY <1>1 DEF QueueTypes
<1>10. OnePusher'
  BY <1>1, <1>9 DEF OnePusher
<1>11. Nodes(t) = Nodes(s) \union {x}
  <2>1. \A k \in 1 .. Len(t) : k = Len(t) \/ k \in 1 .. Len(s)
    BY <1>3, <1>6
  <2>2. \A k \in 1 .. Len(s) : k \in 1 .. Len(t)
    BY <1>3, <1>6
  <2>3. Len(t) \in 1 .. Len(t)
    BY <1>3, <1>6
  <2> QED
    BY <1>6, <2>1, <2>2, <2>3 DEF Nodes
<1>12. Listed(t)'
  <2>1. \A a, b \in 1 .. Len(t) : t[a] = t[b] => a = b
    <3> SUFFICES ASSUME NEW a \in 1 .. Len(t), NEW b \in 1 .. Len(t), t[a] = t[b]
                 PROVE  a = b
      OBVIOUS
    <3>1. \A k \in 1 .. Len(t) : k = Len(t) \/ (k \in 1 .. Len(s) /\ t[k] \in Nodes(s))
      BY <1>3, <1>6
    <3>2. CASE a \in 1 .. Len(s) /\ b \in 1 .. Len(s)
      BY <1>6, <3>2 DEF Working, Listed
    <3> QED
      BY <1>5, <1>6, <3>1, <3>2
  <2>2. \A k \in 1 .. Len(t) - 1 : heap'[t[k]].next = t[k + 1]
    <3> SUFFICES ASSUME NEW k \in 1 .. Len(s) PROVE heap'[t[k]].next = t[k + 1]
      BY <1>3, <1>6
    <3>1. CASE k = Len(s)
      BY <1>5, <1>6, <1>7, <3>1
    <3>2. CASE k # Len(s)
      <4>1. k \in 1 .. Len(s) - 1 /\ k + 1 \in 1 .. Len(s) /\ Len(s) \in 1 .. Len(s)
        BY <1>3, <3>2
      <4>2. heap[s[k]].next = s[k + 1] /\ s[k] # last
        BY <1>5, <3>2, <4>1 DEF Working, Listed
      <4> QED
        BY <1>3, <1>6, <1>7, <4>1, <4>2
    <3> QED
      BY <3>1, <3>2
  <2>3. t # <<>> /\ t[1] = first' /\ heap'[t[Len(t)]].next = Null
    BY <1>1, <1>3, <1>5, <1>6, <1>7 DEF Working, Listed
  <2> QED
    BY <1>6, <2>1, <2>2, <2>3 DEF Listed
<1>13. Pushers(t)'
  BY <1>1, <1>2, <1>4, <1>6, <1>9 DEF Pushers
<1>14. Popper(t)'
  <2>1. cpc = "pop" => 2 \in 1 .. Len(s)
    BY <1>3 DEF Working, Popper
  <2>2. cpc = "pop" => heap'[t[2]].value = heap[s[2]].value
    BY <1>3, <1>6, <1>7, <2>1
  <2>3. Len(s) > 1 => Len(t) > 1
    BY <1>3, <1>6
  <2> QED
    BY <1>1, <1>5, <1>11, <2>2, <2>3 DEF Working, Popper, Nodes
<1>15. alive' = Nodes(t)' \union ({oldFirst'} \ {Null}) \union Unpublished'
  <2>1. Unpublished = {x}
    BY <1>1, <1>2, <1>4 DEF Unpublished
  <2>2. Unpublished' = {}
    BY <1>1, <1>2, <1>9 DEF Unpublished
  <2>3. Nodes(t)' = Nodes(t)
    BY DEF Nodes
  <2> QED
    BY <1>1, <1>11, <2>1, <2>2, <2>3 DEF Working
<1>16. Held(t)' = Append(Held(s), heap[x].value)
  <2> DEFINE H == [k \in 1 .. Len(s) - 1 |-> heap[s[k + 1]].value]
             I == [k \in 1 .. Len(s) |-> heap'[t[k + 1]].value]
  <2>1. Len(t) - 1 = Len(s)
    BY <1>3, <1>6
  <2>2. Held(s) = H /\ Held(t)' = I
    BY <2>1 DEF Held
  <2>3. I[Len(s)] = heap[x].value
    BY <1>3, <1>6, <1>7
  <2>4. ASSUME NEW k \in 1 .. Len(s) - 1 PROVE I[k] = H[k]
    <3>1. k + 1 \in 1 .. Len(s) /\ k \in 1 .. Len(s)
      BY <1>3
    <3> QED
      BY <1>3, <1>6, <1>7, <3>1
  <2>5. H \in Seq({heap[s[k + 1]].value : k \in 1 .. Len(s) - 1}) /\ Len(H) = Len(s) - 1
    BY <1>3
  <2>6. DOMAIN I = 1 .. Len(s) /\ I = [k \in 1 .. Len(s) |-> I[k]]
    OBVIOUS
  <2> HIDE DEF H, I
  <2>7. Append(H, heap[x].value) = [k \in 1 .. Len(H) + 1 |->
                                      IF k = Len(H) + 1 THEN heap[x].value ELSE H[k]]
    BY <2>5
  <2>8. \A k \in 1 .. Len(s) : I[k] = IF k = Len(s) THEN heap[x].value ELSE H[k]
    BY <1>3, <2>3, <2>4
  <2>9. Len(H) + 1 = Len(s)
    BY <1>3, <2>5
  <2>10. Append(H, heap[x].value) = [k \in 1 .. Len(s) |->
                                      IF k = Len(s) THEN heap[x].value ELSE H[k]]
    BY <2>7, <2>9
  <2>11. I = Append(H, heap[x].value)
    BY <2>6, <2>8, <2>10
  <2> QED
    BY <2>2, <2>11
<1> QED
  BY <1>1, <1>5, <1>8, <1>10, <1>12, <1>13, <1>14, <1>15, <1>16 DEF Working

(* last follows. *)
LEMMA MoveLastKeeps ==
  ASSUME QueueTypes, OnePusher, NEW s, Working(s), NEW p \in Producers, Queue!MoveLast(p)
  PROVE  QueueTypes' /\ OnePusher' /\ Quiet(s)
<1>1. /\ ppc[p] = "last" /\ ppc' = [ppc EXCEPT ![p] = "unlock"]
      /\ last' = tmp[p] /\ tmp' = [tmp EXCEPT ![p] = Null]
      /\ UNCHANGED <<heap, alive, first, lock, cpc, oldFirst, got, taken>>
  BY DEF Queue!MoveLast, Queue!consVars
<1>2. \A q \in Producers \ {p} : ppc[q] \notin {"publish", "last"}
  BY <1>1 DEF OnePusher
<1>3. /\ ppc'[p] = "unlock"
      /\ \A q \in Producers \ {p} : ppc'[q] = ppc[q] /\ tmp'[q] = tmp[q]
  BY <1>1 DEF QueueTypes
<1>4. tmp[p] = s[Len(s)] /\ s[Len(s)] \in Addresses
  BY <1>1, ListFacts DEF Working, Pushers
<1>5. QueueTypes'
  BY <1>1, <1>4 DEF QueueTypes
<1>6. OnePusher'
  BY <1>1, <1>3 DEF OnePusher
<1>7. Listed(s)' /\ Held(s)' = Held(s)
  BY <1>1 DEF Working, Listed, Held
<1>8. Pushers(s)'
  BY <1>1, <1>2, <1>3, <1>4 DEF Pushers
<1>9. Popper(s)' /\ Nodes(s)' = Nodes(s)
  BY <1>1 DEF Working, Popper, Nodes
<1>10. Unpublished' = {} /\ Unpublished = {}
  BY <1>1, <1>2, <1>3 DEF Unpublished
<1> QED
  BY <1>1, <1>5, <1>6, <1>7, <1>8, <1>9, <1>10 DEF Working, Quiet

(* The lock is released. *)
LEMMA ReleaseKeeps ==
  ASSUME QueueTypes, OnePusher, NEW s, Working(s), NEW p \in Producers, Queue!Release(p)
  PROVE  QueueTypes' /\ OnePusher' /\ Quiet(s)
<1>0. Queue!Free \notin Producers
  BY QueueAssumption DEF Queue!ConstantsOK
<1>1. /\ ppc[p] = "unlock" /\ lock' = Queue!Free
      /\ ppc' = [ppc EXCEPT ![p] = "idle"]
      /\ UNCHANGED <<heap, alive, first, last, tmp, cpc, oldFirst, got, taken>>
  BY DEF Queue!Release, Queue!listVars, Queue!consVars
<1>2. QueueTypes'
  BY <1>1 DEF QueueTypes
<1>3. /\ ppc'[p] = "idle" /\ \A q \in Producers \ {p} : ppc'[q] = ppc[q] /\ ppc[q] = "idle"
  BY <1>1 DEF QueueTypes, OnePusher
<1>4. OnePusher'
  BY <1>0, <1>1, <1>3 DEF OnePusher, QueueTypes
<1>5. Listed(s)' /\ Held(s)' = Held(s)
  BY <1>1 DEF Working, Listed, Held
<1>6. Pushers(s)'
  BY <1>1, <1>3 DEF Working, Pushers
<1>7. Popper(s)'
  BY <1>1 DEF Working, Popper
<1>8. Unpublished' = {} /\ Unpublished = {}
  BY <1>1, <1>3 DEF Unpublished
<1> QED
  BY <1>1, <1>2, <1>4, <1>5, <1>6, <1>7, <1>8 DEF Working, Quiet

(* The consumer looks for a second node and reads its value. *)
(* The consumer looks for a second node and reads its value. *)
LEMMA LookKeeps ==
  ASSUME QueueTypes, OnePusher, NEW s, Working(s), Queue!TestEmpty \/ Queue!Front
  PROVE  QueueTypes' /\ OnePusher' /\ Quiet(s)
<1>1. /\ UNCHANGED <<heap, alive, first, last, lock, tmp, ppc, oldFirst, taken>>
      /\ \/ cpc = "idle" /\ heap[first].next # Null /\ cpc' = "front"
         \/ /\ cpc = "front" /\ cpc' = "pop"
            /\ heap[first].next # Null => got' = heap[heap[first].next].value
  BY DEF Queue!TestEmpty, Queue!Front, Queue!listVars, Queue!prodVars
<1>2. /\ s \in Seq(Addresses) /\ Len(s) \in Nat \ {0} /\ Null \notin Addresses
      /\ \A k \in 1 .. Len(s) : s[k] \in Addresses
      /\ s[1] = first /\ heap[s[Len(s)]].next = Null
  BY ListFacts DEF Working, Listed
<1>3. heap[first].next # Null => Len(s) > 1
  BY <1>2
<1>4. Len(s) > 1 => heap[first].next = s[2] /\ s[2] # Null
  <2>1. Len(s) > 1 => 1 \in 1 .. Len(s) - 1 /\ 2 \in 1 .. Len(s)
    BY <1>2
  <2> QED
    BY <1>2, <2>1 DEF Working, Listed
<1>5. Popper(s)'
  BY <1>1, <1>3, <1>4 DEF Working, Popper, Nodes
<1>6. QueueTypes' /\ OnePusher'
  BY <1>1 DEF QueueTypes, OnePusher
<1>7. Listed(s)' /\ Held(s)' = Held(s) /\ Pushers(s)'
  BY <1>1 DEF Working, Listed, Held, Pushers, Nodes
<1>8. Unpublished' = Unpublished /\ Nodes(s)' = Nodes(s)
  BY <1>1 DEF Unpublished, Nodes
<1> QED
  BY <1>1, <1>5, <1>6, <1>7, <1>8 DEF Working, Quiet

(* first moves to the second node: the pop. *)
LEMMA AdvanceKeeps ==
  ASSUME QueueTypes, OnePusher, NEW s, Working(s), Queue!Advance, NEW t, t = Tail(s)
  PROVE  /\ QueueTypes' /\ OnePusher' /\ Working(t)'
         /\ Held(s) # <<>> /\ Held(t)' = Tail(Held(s))
         /\ taken' = Append(taken, Head(Held(s)))
<1>1. /\ cpc = "pop" /\ cpc' = "clear" /\ oldFirst' = first
      /\ first' = heap[first].next /\ taken' = Append(taken, got)
      /\ UNCHANGED <<heap, alive, last, lock, tmp, ppc>>
  BY DEF Queue!Advance, Queue!prodVars
<1>2. /\ s \in Seq(Addresses) /\ Len(s) \in Nat /\ Len(s) > 1 /\ Null \notin Addresses
      /\ \A k \in 1 .. Len(s) : s[k] \in Addresses /\ s[k] \in Nodes(s)
      /\ s[1] = first /\ got = heap[s[2]].value
  BY <1>1, ListFacts DEF Working, Listed, Popper
<1>3. /\ t \in Seq(Addresses) /\ Len(t) = Len(s) - 1 /\ t # <<>>
      /\ \A k \in 1 .. Len(t) : t[k] = s[k + 1]
  <2>1. s # <<>> /\ s \in Seq(Addresses)
    BY <1>2
  <2>2. /\ Tail(s) \in Seq(Addresses) /\ Len(Tail(s)) = Len(s) - 1
        /\ \A k \in 1 .. Len(Tail(s)) : Tail(s)[k] = s[k + 1]
    BY <2>1, HeadTailProperties
  <2>3. Len(t) > 0
    BY <1>2, <2>2
  <2>4. t # <<>>
    BY <2>3
  <2> QED
    BY <2>2, <2>4
<1>4. first' = s[2] /\ 1 \in 1 .. Len(s) /\ 2 \in 1 .. Len(s) /\ t[Len(t)] = s[Len(s)]
  <2>1. 1 \in 1 .. Len(s) - 1 /\ 2 \in 1 .. Len(s) /\ 1 \in 1 .. Len(s)
    BY <1>2
  <2>2. heap[s[1]].next = s[2]
    BY <2>1 DEF Working, Listed
  <2> QED
    BY <1>1, <1>2, <1>3, <2>1, <2>2
<1>5. \A k \in 1 .. Len(t) : k + 1 \in 1 .. Len(s) /\ k + 1 # 1
  BY <1>2, <1>3
<1>6. first \notin Nodes(t) /\ Nodes(s) = Nodes(t) \union {first}
  <2>1. \A k \in 1 .. Len(t) : t[k] # first /\ t[k] \in Nodes(s)
    BY <1>2, <1>3, <1>4, <1>5 DEF Working, Listed
  <2>2. \A k \in 1 .. Len(s) : s[k] = first \/ \E j \in 1 .. Len(t) : t[j] = s[k]
    <3> SUFFICES ASSUME NEW k \in 1 .. Len(s), k # 1 PROVE \E j \in 1 .. Len(t) : t[j] = s[k]
      BY <1>2
    <3>1. k - 1 \in 1 .. Len(t) /\ (k - 1) + 1 = k
      BY <1>2, <1>3
    <3> QED
      BY <1>3, <3>1
  <2>3. first \in Nodes(s)
    BY <1>2, <1>4
  <2> QED
    BY <2>1, <2>2, <2>3 DEF Nodes
<1>7. QueueTypes' /\ OnePusher'
  BY <1>1, <1>2, <1>4 DEF QueueTypes, OnePusher
<1>8. Listed(t)'
  <2>1. \A a, b \in 1 .. Len(t) : t[a] = t[b] => a = b
    <3> SUFFICES ASSUME NEW a \in 1 .. Len(t), NEW b \in 1 .. Len(t), t[a] = t[b]
                 PROVE  a = b
      OBVIOUS
    <3>1. a + 1 = b + 1
      BY <1>3, <1>5 DEF Working, Listed
    <3> QED
      BY <1>2, <1>3, <3>1
  <2>2. \A k \in 1 .. Len(t) - 1 : heap[t[k]].next = t[k + 1]
    <3> SUFFICES ASSUME NEW k \in 1 .. Len(t) - 1 PROVE heap[t[k]].next = t[k + 1]
      OBVIOUS
    <3>1. k \in 1 .. Len(t) /\ k + 1 \in 1 .. Len(t) /\ k + 1 \in 1 .. Len(s) - 1
      BY <1>2, <1>3
    <3>2. heap[s[k + 1]].next = s[(k + 1) + 1]
      BY <3>1 DEF Working, Listed
    <3> QED
      BY <1>3, <3>1, <3>2
  <2>3. t[1] = s[2]
    BY <1>2, <1>3
  <2>4. heap[s[Len(s)]].next = Null
    BY DEF Working, Listed
  <2> QED
    BY <1>1, <1>3, <1>4, <2>1, <2>2, <2>3, <2>4 DEF Listed
<1>9. Pushers(t)'
  <2>1. Unpublished \subseteq Addresses \ Nodes(s)
    BY DEF Working, Pushers, Unpublished
  <2>2. \A p \in Producers : ppc[p] = "publish" => tmp[p] # first
    BY <1>6 DEF Working, Pushers
  <2> QED
    BY <1>1, <1>4, <1>6, <2>2 DEF Working, Pushers, Nodes
<1>10. Popper(t)'
  BY <1>1, <1>2, <1>4, <1>6 DEF Popper, Nodes
<1>11. alive' = Nodes(t)' \union ({oldFirst'} \ {Null}) \union Unpublished'
  <2>1. Unpublished' = Unpublished /\ Nodes(t)' = Nodes(t)
    BY <1>1 DEF Unpublished, Nodes
  <2>2. oldFirst = Null /\ first # Null
    BY <1>1, <1>2, <1>4 DEF Working, Popper
  <2> QED
    BY <1>1, <1>6, <2>1, <2>2 DEF Working
<1>12. Held(s) # <<>> /\ Head(Held(s)) = got /\ Held(t)' = Tail(Held(s))
  <2> DEFINE V == {heap[s[k + 1]].value : k \in 1 .. Len(s) - 1}
             H == [k \in 1 .. Len(s) - 1 |-> heap[s[k + 1]].value]
             I == [k \in 1 .. Len(t) - 1 |-> heap[t[k + 1]].value]
  <2>1. Held(s) = H /\ Held(t)' = I
    BY <1>1 DEF Held
  <2>2. H \in Seq(V)
    <3>1. \A k \in 1 .. Len(s) - 1 : H[k] \in V
      OBVIOUS
    <3>2. Len(s) - 1 \in Nat
      BY <1>2
    <3> HIDE DEF V
    <3> QED
      BY <3>1, <3>2
  <2>3. Len(H) = Len(s) - 1 /\ H[1] = got
    BY <1>2
  <2>4. ASSUME NEW k \in 1 .. Len(t) - 1 PROVE I[k] = H[k + 1]
    <3>1. k + 1 \in 1 .. Len(t) /\ k + 1 \in 1 .. Len(s) - 1
      BY <1>2, <1>3
    <3> QED
      BY <1>3, <3>1
  <2>5. I = [k \in 1 .. Len(t) - 1 |-> I[k]] /\ Len(t) - 1 = Len(H) - 1
    BY <1>2, <1>3, <2>3
  <2> HIDE DEF V, H, I
  <2>6. H # <<>> /\ Head(H) = got
    BY <1>2, <2>2, <2>3
  <2>7. /\ Tail(H) \in Seq(V) /\ Len(Tail(H)) = Len(H) - 1
        /\ \A k \in 1 .. Len(Tail(H)) : Tail(H)[k] = H[k + 1]
    BY <2>2, <2>6, HeadTailProperties
  <2>8. PICK u : u = Tail(H)
    OBVIOUS
  <2>9. u \in Seq(V) /\ Len(u) = Len(t) - 1 /\ \A k \in 1 .. Len(t) - 1 : u[k] = I[k]
    BY <2>4, <2>5, <2>7, <2>8
  <2>10. u = [k \in 1 .. Len(u) |-> u[k]]
    BY <2>9
  <2>11. I = u
    BY <2>5, <2>9, <2>10
  <2> QED
    BY <2>1, <2>6, <2>8, <2>11
<1> QED
  BY <1>1, <1>7, <1>8, <1>9, <1>10, <1>11, <1>12 DEF Working

(* The value of the new first node is cleared. *)
LEMMA ClearKeeps ==
  ASSUME QueueTypes, OnePusher, NEW s, Working(s), Queue!Clear
  PROVE  QueueTypes' /\ OnePusher' /\ Quiet(s)
<1>1. /\ cpc = "clear" /\ cpc' = "delete" /\ heap' = [heap EXCEPT ![first].value = Null]
      /\ UNCHANGED <<alive, first, last, lock, tmp, ppc, oldFirst, got, taken>>
  BY DEF Queue!Clear, Queue!prodVars
<1>2. /\ \A a \in Addresses : heap'[a].next = heap[a].next
      /\ \A a \in Addresses \ {first} : heap'[a] = heap[a]
  BY <1>1 DEF QueueTypes
<1>3. QueueTypes' /\ OnePusher'
  BY <1>1 DEF QueueTypes, OnePusher
<1>4. Nodes(s) \subseteq Addresses /\ first \in Nodes(s)
  BY ListFacts DEF Working, Listed
<1>5. Listed(s)' /\ Held(s)' = Held(s)
  BY <1>1, <1>2, <1>4, ListStays, HeldStays DEF Working
<1>6. Pushers(s)'
  BY <1>1, <1>2, <1>4 DEF Working, Pushers, Nodes
<1>7. Popper(s)'
  BY <1>1 DEF Working, Popper, Nodes
<1>8. Unpublished' = Unpublished /\ Nodes(s)' = Nodes(s)
  BY <1>1 DEF Unpublished, Nodes
<1> QED
  BY <1>1, <1>3, <1>5, <1>6, <1>7, <1>8 DEF Working, Quiet

(* The old first node is deleted. *)
LEMMA DeleteKeeps ==
  ASSUME QueueTypes, OnePusher, NEW s, Working(s), Queue!Delete
  PROVE  QueueTypes' /\ OnePusher' /\ Quiet(s)
<1>1. /\ cpc = "delete" /\ cpc' = "idle" /\ oldFirst' = Null
      /\ alive' = alive \ {oldFirst}
      /\ heap' = [heap EXCEPT ![oldFirst] = [value |-> Null, next |-> Null]]
      /\ UNCHANGED <<first, last, lock, tmp, ppc, got, taken>>
  BY DEF Queue!Delete, Queue!prodVars, Queue!EmptyNode
<1>2. oldFirst # Null /\ oldFirst \in Addresses \ Nodes(s) /\ Null \notin Addresses
  BY <1>1, ListFacts DEF Working, Popper, QueueTypes
<1>3. \A a \in Addresses \ {oldFirst} : heap'[a] = heap[a]
  BY <1>1 DEF QueueTypes
<1>4. QueueTypes' /\ OnePusher'
  BY <1>1, <1>2 DEF QueueTypes, OnePusher
<1>5. Nodes(s) \subseteq Addresses
  BY ListFacts DEF Working
<1>6. Listed(s)' /\ Held(s)' = Held(s)
  BY <1>1, <1>2, <1>3, <1>5, ListStays, HeldStays DEF Working
<1>7. Pushers(s)'
  <2>1. \A p \in Producers : ppc[p] = "publish" => heap'[tmp[p]] = heap[tmp[p]] /\ tmp[p] # Null
    BY <1>2, <1>3 DEF Working, Pushers
  <2> QED
    BY <1>1, <2>1 DEF Working, Pushers, Nodes
<1>8. Popper(s)'
  BY <1>1, <1>2, <1>5 DEF Working, Popper, Nodes
<1>9. Unpublished' = Unpublished /\ Nodes(s)' = Nodes(s)
  BY <1>1 DEF Unpublished, Nodes
<1>10. oldFirst \notin Unpublished
  BY DEF Working, Pushers, Unpublished
<1> QED
  BY <1>1, <1>2, <1>4, <1>6, <1>7, <1>8, <1>9, <1>10 DEF Working, Quiet

(* A step of the queue is a step of a first-in first-out queue or none. *)
(* Every step of the queue keeps the invariant and is a step of Fifo or none. *)
LEMMA QueueStep ==
  ASSUME QueueInv, [Queue!Next]_queueVars
  PROVE  QueueInv' /\ [Queue!F!Next]_(Queue!F!vars)
<1> PICK s : Working(s)
  BY DEF QueueInv
<1>0. QueueTypes /\ OnePusher /\ Queue!Contents = Held(s)
  BY ListIsQueue DEF QueueInv, Working
<1>l. \A t : Listed(t)' => Queue!Chain' = Nodes(t)' /\ Queue!Contents' = Held(t)'
  BY ListIsQueueAfter
<1>q. ASSUME QueueTypes', OnePusher', Quiet(s) PROVE QueueInv' /\ UNCHANGED Queue!F!vars
  BY <1>0, <1>l, <1>q DEF QueueInv, Quiet, Working, Queue!F!vars
<1>1. CASE UNCHANGED queueVars
  <2>1. QueueTypes' /\ OnePusher'
    BY <1>0, <1>1 DEF queueVars, QueueTypes, OnePusher
  <2>2. Quiet(s)
    BY <1>1 DEF queueVars, Quiet, Working, Listed, Pushers, Popper, Nodes, Unpublished, Held
  <2> QED
    BY <1>q, <2>1, <2>2
<1>2. ASSUME NEW p \in Producers, Queue!Pushing(p)
      PROVE  QueueInv' /\ [Queue!F!Next]_(Queue!F!vars)
  <2>1. CASE Queue!Acquire(p)
    BY <1>0, <1>q, <2>1, AcquireKeeps
  <2>2. ASSUME NEW v \in Values, Queue!NewNode(p, v)
        PROVE  QueueInv' /\ [Queue!F!Next]_(Queue!F!vars)
    BY <1>0, <1>q, <2>2, NewNodeKeeps
  <2>3. CASE Queue!Publish(p)
    <3>1. PICK t : t = Append(s, tmp[p])
      OBVIOUS
    <3>2. PICK v \in Values : Held(t)' = Append(Held(s), v)
      BY <1>0, <2>3, <3>1, PublishKeeps
    <3>3. QueueTypes' /\ OnePusher' /\ Working(t)' /\ taken' = taken
      BY <1>0, <2>3, <3>1, PublishKeeps
    <3>4. Queue!Contents' = Held(t)'
      BY <1>l, <3>3 DEF Working
    <3>5. Queue!F!Push(v)
      BY <1>0, <3>2, <3>3, <3>4 DEF Queue!F!Push
    <3> QED
      BY <3>3, <3>5 DEF QueueInv, Queue!F!Next
  <2>4. CASE Queue!MoveLast(p)
    BY <1>0, <1>q, <2>4, MoveLastKeeps
  <2>5. CASE Queue!Release(p)
    BY <1>0, <1>q, <2>5, ReleaseKeeps
  <2> QED
    BY <1>2, <2>1, <2>2, <2>3, <2>4, <2>5 DEF Queue!Pushing
<1>3. CASE Queue!TestEmpty \/ Queue!Front
  BY <1>0, <1>q, <1>3, LookKeeps
<1>4. CASE Queue!Advance
  <2>1. PICK t : t = Tail(s)
    OBVIOUS
  <2>2. /\ QueueTypes' /\ OnePusher' /\ Working(t)'
        /\ Held(s) # <<>> /\ Held(t)' = Tail(Held(s))
        /\ taken' = Append(taken, Head(Held(s)))
    BY <1>0, <1>4, <2>1, AdvanceKeeps
  <2>3. Queue!Contents' = Held(t)'
    BY <1>l, <2>2 DEF Working
  <2>4. Queue!F!Pop
    BY <1>0, <2>2, <2>3 DEF Queue!F!Pop
  <2> QED
    BY <2>2, <2>4 DEF QueueInv, Queue!F!Next
<1>5. CASE Queue!Clear
  BY <1>0, <1>q, <1>5, ClearKeeps
<1>6. CASE Queue!Delete
  BY <1>0, <1>q, <1>6, DeleteKeeps
<1> QED
  BY <1>1, <1>2, <1>3, <1>4, <1>5, <1>6 DEF Queue!Next, Queue!Popping

(* What the consumer and the producers use is alive. *)
LEMMA QueueIsSound == QueueInv => HeapSound
<1> SUFFICES ASSUME QueueInv PROVE HeapSound
  OBVIOUS
<1> PICK s : Working(s)
  BY DEF QueueInv
<1>1. /\ QueueTypes /\ OnePusher /\ Queue!Chain = Nodes(s)
      /\ s[Len(s)] \in Nodes(s) /\ Queue!Free \notin Producers
      /\ alive = Nodes(s) \union ({oldFirst} \ {Null}) \union Unpublished
  <2>1. Len(s) \in 1 .. Len(s)
    BY ListFacts DEF QueueInv, Working
  <2> QED
    BY <2>1, ListIsQueue, ListFacts, QueueAssumption
       DEF QueueInv, Working, Queue!ConstantsOK
<1>2. ASSUME NEW p \in Producers,
             \/ ppc[p] = "publish"
             \/ ppc[p] \in {"idle", "new", "unlock"} /\ lock \in {p, Queue!Free}
      PROVE  last \in Nodes(s)
  <2>1. \A q \in Producers : ppc[q] # "last"
    BY <1>1, <1>2 DEF OnePusher
  <2> QED
    BY <1>1, <2>1 DEF Working, Pushers
<1>3. Queue!NoUseAfterDelete
  BY <1>1, <1>2 DEF Queue!NoUseAfterDelete
<1>4. Queue!NoLeak
  BY <1>1 DEF Queue!NoLeak, Unpublished
<1> QED
  BY <1>3, <1>4 DEF HeapSound, Queue!HeapSound

(* Every step of the composition is a step of the queue or leaves it alone. *)
LEMMA QueueSteps == [Next]_vars => [Queue!Next]_queueVars
  BY DEF Next, vars

(* Nobody follows a pointer to a node that has been deleted, and no node is lost,
   whatever producers and consumer do at once. *)
THEOREM QueueHeapIsSound == Spec => []HeapSound
<1>1. Init => QueueInv
  BY QueueInit DEF Init
<1>2. QueueInv /\ [Next]_vars => QueueInv'
  BY QueueSteps, QueueStep
<1> QED
  BY <1>1, <1>2, QueueIsSound, PTL DEF Spec

(* The linked list is a first-in first-out queue for any number of producers:
   what is published comes out once and in this order. *)
THEOREM QueueKeepsFifo == Spec => Queue!F!Init /\ [][Queue!F!Next]_(Queue!F!vars)
<1>1. Init => QueueInv
  BY QueueInit DEF Init
<1>2. QueueInv /\ [Next]_vars => QueueInv' /\ [Queue!F!Next]_(Queue!F!vars)
  BY QueueSteps, QueueStep
<1>3. Init => Queue!F!Init
  <2> SUFFICES ASSUME Init PROVE Queue!F!Init
    OBVIOUS
  <2> PICK s : Working(s)
    BY <1>1 DEF QueueInv
  <2>1. Queue!Contents = Held(s) /\ heap = [a \in Addresses |-> Queue!EmptyNode] /\ taken = <<>>
    BY ListIsQueue DEF Working, Init, Queue!Init
  <2>2. s \in Seq(Addresses) /\ Len(s) \in Nat \ {0} /\ Null \notin Addresses
    BY <1>1, ListFacts DEF QueueInv, Working
  <2>3. Len(s) = 1
    <3>1. ASSUME Len(s) > 1 PROVE FALSE
      <4>1. 1 \in 1 .. Len(s) - 1 /\ 1 \in 1 .. Len(s) /\ 2 \in 1 .. Len(s)
        BY <2>2, <3>1
      <4>2. heap[s[1]].next = s[2] /\ s[1] \in Addresses /\ s[2] \in Addresses
        BY <2>2, <4>1 DEF Working, Listed
      <4> QED
        BY <2>1, <2>2, <4>2 DEF Queue!EmptyNode
    <3>2. \A n \in Nat \ {0} : ~ (n > 1) => n = 1
      OBVIOUS
    <3> QED
      BY <2>2, <3>1, <3>2
  <2>4. Held(s) = <<>>
    BY <2>3 DEF Held
  <2> QED
    BY <2>1, <2>4 DEF Queue!F!Init
<1> QED
  BY <1>1, <1>2, <1>3, PTL DEF Spec


-----------------------------------------------------------------------------
(* The spinning barrier. *)

SpinLabel == {"outside", "count", "spin", "reset", "open", "leave"}

SpinTypes ==
  /\ nwait \in Nat
  /\ step \in 0 .. Modulus - 1
  /\ lstep \in [Threads -> 0 .. Modulus - 1]
  /\ spinPc \in [Threads -> SpinLabel]

(* t has come last and has not opened the barrier *)
ComesLast(t) == spinPc[t] \in {"reset", "open"}

(* Threads are at most one step apart. *)
SpinSteps ==
  \A t \in Threads :
    /\ spinPc[t] = "count" => lstep[t] = step
    /\ spinPc[t] = "spin" => lstep[t] = step \/ step = (lstep[t] + 1) % Modulus

(* Who comes last has found all others spinning. *)
OthersSpin ==
  \A t \in Threads : ComesLast(t) =>
    \A u \in Threads \ {t} : spinPc[u] = "spin" /\ lstep[u] = step

(* The counter counts the threads that wait, until it is set back. *)
Counted ==
  nwait = IF \E t \in Threads : spinPc[t] = "open" THEN 0 ELSE Cardinality(Spin!Waiting)

Rounds == SpinTypes /\ SpinSteps /\ OthersSpin /\ Counted

-----------------------------------------------------------------------------
(* The next step differs from this one. *)
LEMMA NextStep ==
  ASSUME Spin!ConstantsOK, NEW s \in 0 .. Modulus - 1
  PROVE  (s + 1) % Modulus \in 0 .. Modulus - 1 /\ (s + 1) % Modulus # s
<1>1. CASE s + 1 < Modulus
  <2>1. (s + 1) % Modulus = s + 1
    BY <1>1 DEF Spin!ConstantsOK
  <2> QED
    BY <1>1, <2>1 DEF Spin!ConstantsOK
<1>2. CASE s + 1 = Modulus
  <2>1. (s + 1) % Modulus = 0
    BY <1>2 DEF Spin!ConstantsOK
  <2> QED
    BY <1>2, <2>1 DEF Spin!ConstantsOK
<1> QED
  BY <1>1, <1>2 DEF Spin!ConstantsOK

(* The instance has names of its own for what it takes from FiniteSets. *)
LEMMA SpinSizes ==
  Spin!nthreads = Cardinality(Threads) /\ Spin!IsFiniteSet(Threads) = IsFiniteSet(Threads)
  BY DEF Spin!nthreads, Spin!Cardinality, Cardinality, Spin!IsFiniteSet, IsFiniteSet

(* Sets of threads are finite. *)
LEMMA SpinThreads ==
  ASSUME Spin!ConstantsOK, NEW S \in SUBSET Threads
  PROVE  /\ IsFiniteSet(S) /\ Cardinality(S) \in Nat
         /\ \A t : t \notin S => Cardinality(S \union {t}) = Cardinality(S) + 1
         /\ Cardinality(S) = Spin!nthreads => S = Threads
BY FS_Subset, FS_CardinalityType, FS_AddElement, SpinSizes DEF Spin!ConstantsOK

(* When nobody is about to open the barrier, who counts itself comes to the
   threads that wait; and the last one completes them. *)
LEMMA CountStep ==
  ASSUME Spin!ConstantsOK, Rounds, NEW t \in Threads, Spin!CountMe(t)
  PROVE  /\ t \notin Spin!Waiting \union Spin!Released
         /\ Spin!Waiting' = Spin!Waiting \union {t} /\ Spin!Released' = Spin!Released
         /\ nwait' = Cardinality(Spin!Waiting')
         /\ spinPc'[t] = "reset" => Spin!Waiting' = Threads
         /\ \A u \in Threads : ~ ComesLast(u)
<1>1. /\ spinPc[t] = "count" /\ nwait' = nwait + 1
      /\ spinPc' = [spinPc EXCEPT ![t] = IF nwait = Spin!nthreads - 1 THEN "reset" ELSE "spin"]
      /\ UNCHANGED <<step, lstep>>
  BY DEF Spin!CountMe, Spin!Goto
<1>2. lstep[t] = step
  BY <1>1 DEF Rounds, SpinSteps
<1>3. \A u \in Threads : ~ ComesLast(u)
  BY <1>1 DEF Rounds, OthersSpin, ComesLast
<1>4. t \notin Spin!Waiting \union Spin!Released
  BY <1>1 DEF Spin!Waiting, Spin!Released
<1>5. /\ spinPc'[t] \in {"spin", "reset"} /\ (spinPc'[t] = "reset" <=> nwait = Spin!nthreads - 1)
      /\ \A u \in Threads : u # t => spinPc'[u] = spinPc[u]
  BY <1>1 DEF Rounds, SpinTypes
<1>6. Spin!Waiting' = Spin!Waiting \union {t}
  BY <1>1, <1>2, <1>5 DEF Spin!Waiting
<1>7. Spin!Released' = Spin!Released
  BY <1>1, <1>2, <1>5 DEF Spin!Released
<1>8. nwait = Cardinality(Spin!Waiting)
  BY <1>3 DEF Rounds, Counted, ComesLast
<1>9. Spin!Waiting \subseteq Threads /\ Spin!Waiting' \subseteq Threads
  BY DEF Spin!Waiting
<1>10. nwait' = Cardinality(Spin!Waiting')
  BY <1>1, <1>4, <1>6, <1>8, <1>9, SpinThreads
<1>11. nwait = Spin!nthreads - 1 => Cardinality(Spin!Waiting') = Spin!nthreads
  <2>1. Spin!nthreads \in Nat
    BY FS_CardinalityType, SpinSizes DEF Spin!ConstantsOK
  <2> QED
    BY <1>1, <1>10, <2>1
<1> QED
  BY <1>3, <1>4, <1>5, <1>6, <1>7, <1>9, <1>10, <1>11, SpinThreads

LEMMA RoundsInit == Spin!ConstantsOK /\ Spin!Init => Rounds /\ Spin!BR!Init
<1> SUFFICES ASSUME Spin!ConstantsOK, Spin!Init PROVE Rounds /\ Spin!BR!Init
  OBVIOUS
<1>1. Spin!Waiting = {} /\ Spin!Released = {}
  BY DEF Spin!Init, Spin!Waiting, Spin!Released
<1>2. SpinTypes
  BY DEF Spin!Init, SpinTypes, SpinLabel, Spin!ConstantsOK
<1>3. SpinSteps /\ OthersSpin
  BY DEF Spin!Init, SpinSteps, OthersSpin, ComesLast
<1>4. Counted
  BY <1>1, FS_EmptySet DEF Spin!Init, Counted
<1> QED
  BY <1>1, <1>2, <1>3, <1>4 DEF Rounds, Spin!BR!Init

(* Every step keeps the invariant, and is a step of the rounds or none. *)
LEMMA RoundsNext ==
  ASSUME Spin!ConstantsOK, Rounds, Spin!Next
  PROVE  Rounds' /\ (Spin!BR!Next \/ UNCHANGED Spin!BR!vars)
<1> USE DEF Rounds
<1>1. ASSUME NEW t \in Threads, Spin!LoadStep(t)
      PROVE  Rounds' /\ UNCHANGED Spin!BR!vars
  <2>1. /\ spinPc[t] = "outside" /\ lstep' = [lstep EXCEPT ![t] = step]
        /\ spinPc' = [spinPc EXCEPT ![t] = "count"] /\ UNCHANGED <<nwait, step>>
    BY <1>1 DEF Spin!LoadStep, Spin!Goto
  <2>2. /\ spinPc'[t] = "count" /\ lstep'[t] = step
        /\ \A u \in Threads : u # t => spinPc'[u] = spinPc[u] /\ lstep'[u] = lstep[u]
    BY <2>1 DEF SpinTypes
  <2>3. SpinTypes'
    BY <2>1 DEF SpinTypes, SpinLabel
  <2>4. SpinSteps'
    BY <2>1, <2>2 DEF SpinSteps
  <2>5. \A u \in Threads : ~ ComesLast(u) /\ ~ ComesLast(u)'
    BY <2>1, <2>2 DEF OthersSpin, ComesLast
  <2>6. OthersSpin'
    BY <2>5 DEF OthersSpin
  <2>7. Spin!Waiting' = Spin!Waiting /\ Spin!Released' = Spin!Released
    BY <2>1, <2>2 DEF Spin!Waiting, Spin!Released
  <2>8. Counted'
    BY <2>1, <2>5, <2>7 DEF Counted, ComesLast
  <2> QED
    BY <2>3, <2>4, <2>6, <2>7, <2>8 DEF Spin!BR!vars
<1>2. ASSUME NEW t \in Threads, Spin!CountMe(t)
      PROVE  Rounds' /\ Spin!BR!Enter(t)
  <2>1. /\ spinPc[t] = "count" /\ nwait' = nwait + 1
        /\ spinPc' = [spinPc EXCEPT ![t] = IF nwait = Spin!nthreads - 1 THEN "reset" ELSE "spin"]
        /\ UNCHANGED <<step, lstep>>
    BY <1>2 DEF Spin!CountMe, Spin!Goto
  <2>2. /\ spinPc'[t] \in {"spin", "reset"}
        /\ \A u \in Threads : u # t => spinPc'[u] = spinPc[u]
    BY <2>1 DEF SpinTypes
  <2>3. SpinTypes'
    BY <2>1 DEF SpinTypes, SpinLabel
  <2>4. SpinSteps'
    BY <2>1, <2>2 DEF SpinSteps
  <2>5. \A u \in Threads : ComesLast(u)' => u = t /\ spinPc'[t] = "reset"
    BY <1>2, <2>2, CountStep DEF ComesLast
  <2>6. OthersSpin'
    <3> SUFFICES ASSUME NEW u \in Threads, ComesLast(u)', NEW v \in Threads, v # u
                 PROVE  spinPc'[v] = "spin" /\ lstep'[v] = step'
      BY DEF OthersSpin
    <3>1. v \in Spin!Waiting'
      BY <1>2, <2>5, CountStep
    <3>2. ~ ComesLast(v)'
      BY <2>5
    <3> QED
      BY <3>1, <3>2 DEF Spin!Waiting, ComesLast
  <2>7. Counted'
    <3>1. ~ \E u \in Threads : spinPc'[u] = "open"
      BY <2>5 DEF ComesLast
    <3> QED
      BY <1>2, <3>1, CountStep DEF Counted
  <2> QED
    BY <1>2, <2>3, <2>4, <2>6, <2>7, CountStep DEF Spin!BR!Enter
<1>3. ASSUME NEW t \in Threads, Spin!ResetCount(t)
      PROVE  Rounds' /\ UNCHANGED Spin!BR!vars
  <2>1. /\ spinPc[t] = "reset" /\ nwait' = 0
        /\ spinPc' = [spinPc EXCEPT ![t] = "open"] /\ UNCHANGED <<step, lstep>>
    BY <1>3 DEF Spin!ResetCount, Spin!Goto
  <2>2. spinPc'[t] = "open" /\ \A u \in Threads : u # t => spinPc'[u] = spinPc[u]
    BY <2>1 DEF SpinTypes
  <2>3. SpinTypes'
    BY <2>1 DEF SpinTypes, SpinLabel
  <2>4. SpinSteps'
    BY <2>1, <2>2 DEF SpinSteps
  <2>5. OthersSpin'
    BY <2>1, <2>2 DEF OthersSpin, ComesLast
  <2>6. Spin!Waiting' = Spin!Waiting /\ Spin!Released' = Spin!Released
    BY <2>1, <2>2 DEF Spin!Waiting, Spin!Released
  <2>7. Counted'
    BY <2>1, <2>2 DEF Counted
  <2> QED
    BY <2>3, <2>4, <2>5, <2>6, <2>7 DEF Spin!BR!vars
<1>4. ASSUME NEW t \in Threads, Spin!OpenBarrier(t)
      PROVE  Rounds' /\ Spin!BR!Open
  <2>1. /\ spinPc[t] = "open" /\ step' = (step + 1) % Modulus
        /\ spinPc' = [spinPc EXCEPT ![t] = "leave"] /\ UNCHANGED <<nwait, lstep>>
    BY <1>4 DEF Spin!OpenBarrier, Spin!Goto
  <2>2. spinPc'[t] = "leave" /\ \A u \in Threads : u # t => spinPc'[u] = spinPc[u]
    BY <2>1 DEF SpinTypes
  <2>3. step' \in 0 .. Modulus - 1 /\ step' # step
    BY <2>1, NextStep DEF SpinTypes
  <2>4. \A u \in Threads : u # t => spinPc[u] = "spin" /\ lstep[u] = step
    BY <2>1 DEF OthersSpin, ComesLast
  <2>5. SpinTypes'
    BY <2>1, <2>3 DEF SpinTypes, SpinLabel
  <2>6. SpinSteps'
    BY <2>1, <2>2, <2>4 DEF SpinSteps
  <2>7. OthersSpin'
    BY <2>2, <2>4 DEF OthersSpin, ComesLast
  <2>8. Spin!Waiting = Threads
    BY <2>1, <2>4 DEF Spin!Waiting
  <2>9. Spin!Waiting' = {} /\ Spin!Released' = Threads
    BY <2>1, <2>2, <2>3, <2>4 DEF Spin!Waiting, Spin!Released
  <2>10. Counted'
    <3>1. nwait = 0
      BY <2>1 DEF Counted
    <3>2. ~ \E u \in Threads : spinPc'[u] = "open"
      BY <2>2, <2>4
    <3> QED
      BY <2>1, <2>9, <3>1, <3>2, FS_EmptySet DEF Counted
  <2> QED
    BY <2>5, <2>6, <2>7, <2>8, <2>9, <2>10 DEF Spin!BR!Open
<1>5. ASSUME NEW t \in Threads, Spin!LeaveAsLast(t) \/ Spin!LeaveSpin(t)
      PROVE  Rounds' /\ Spin!BR!Leave(t)
  <2>1. /\ spinPc[t] = "leave" \/ (spinPc[t] = "spin" /\ step # lstep[t])
        /\ spinPc' = [spinPc EXCEPT ![t] = "outside"] /\ UNCHANGED <<nwait, step, lstep>>
    BY <1>5 DEF Spin!LeaveAsLast, Spin!LeaveSpin, Spin!Goto
  <2>2. spinPc'[t] = "outside" /\ \A u \in Threads : u # t => spinPc'[u] = spinPc[u]
    BY <2>1 DEF SpinTypes
  <2>3. SpinTypes'
    BY <2>1 DEF SpinTypes, SpinLabel
  <2>4. SpinSteps'
    BY <2>1, <2>2 DEF SpinSteps
  <2>5. \A u \in Threads : ~ ComesLast(u) /\ ~ ComesLast(u)'
    BY <2>1, <2>2 DEF OthersSpin, ComesLast
  <2>6. OthersSpin'
    BY <2>5 DEF OthersSpin
  <2>7. t \in Spin!Released /\ Spin!Waiting' = Spin!Waiting /\ Spin!Released' = Spin!Released \ {t}
    BY <2>1, <2>2 DEF Spin!Waiting, Spin!Released
  <2>8. Counted'
    BY <2>1, <2>5, <2>7 DEF Counted, ComesLast
  <2> QED
    BY <2>3, <2>4, <2>6, <2>7, <2>8 DEF Spin!BR!Leave
<1> QED
  BY <1>1, <1>2, <1>3, <1>4, <1>5 DEF Spin!Next, Spin!Inside, Spin!BR!Next

(* Every step of the composition is a step of the barrier or leaves it alone. *)
LEMMA StepOfSpin == [Next]_vars => [Spin!Next]_spinVars
  BY DEF Next, vars

(* Nobody leaves a round of spin_barrier before all have come to it, also when
   it is used again at once. *)
THEOREM SpinKeepsRounds == Spec => Spin!BR!Init /\ [][Spin!BR!Next]_(Spin!BR!vars)
<1>1. Init => Rounds /\ Spin!BR!Init
  BY RoundsInit, SpinAssumption DEF Init
<1>2. Rounds /\ [Next]_vars => Rounds' /\ [Spin!BR!Next]_(Spin!BR!vars)
  <2>1. CASE Spin!Next
    BY <2>1, RoundsNext, SpinAssumption
  <2>2. CASE UNCHANGED spinVars
    <3>1. Spin!Waiting' = Spin!Waiting /\ Spin!Released' = Spin!Released
      BY <2>2 DEF spinVars, Spin!Waiting, Spin!Released
    <3>2. Rounds => Rounds'
      BY <2>2, <3>1 DEF spinVars, Rounds, SpinTypes, SpinSteps, OthersSpin, ComesLast, Counted
    <3> QED
      BY <3>1, <3>2 DEF Spin!BR!vars
  <2> QED
    BY <2>1, <2>2, StepOfSpin
<1> QED
  BY <1>1, <1>2, PTL DEF Spec

-----------------------------------------------------------------------------
(* The sleeping barrier. *)

(* what the barrier is made for and what it relies on *)
Reliable == IsFiniteSet(Threads) /\ Threads # {} /\ ~ Spurious

Asleep  == {t \in Threads : cxxPc[t] \in {"asleep", "notify"}}
Woken == {t \in Threads : cxxPc[t] = "woken"}

CxxTypes ==
  /\ pending \in Nat
  /\ cxxPc \in [Threads -> {"outside", "enter", "asleep", "notify", "woken"}]

(* The last one holds the mutex, and all others sleep. *)
LastAlone ==
  \A t \in Threads : cxxPc[t] = "notify" =>
    pending = 0 /\ \A u \in Threads \ {t} : cxxPc[u] = "asleep"

Books ==
  /\ CxxTypes
  /\ LastAlone
  /\ Cxx!MutexFree => Cxx!Refilled + Cardinality(Asleep) = Cxx!nthreads

-----------------------------------------------------------------------------
LEMMA CxxSize == Cxx!nthreads = Cardinality(Threads)
  BY DEF Cxx!nthreads, Cxx!Cardinality, Cardinality

(* Sets of threads are finite. *)
LEMMA CxxThreads ==
  ASSUME Reliable, NEW S \in SUBSET Threads
  PROVE  /\ IsFiniteSet(S) /\ Cardinality(S) \in Nat
         /\ \A t : t \notin S => Cardinality(S \union {t}) = Cardinality(S) + 1
         /\ Cardinality(S) = Cxx!nthreads => S = Threads
         /\ Cardinality(S) =< Cxx!nthreads
         /\ Cxx!nthreads \in Nat \ {0}
<1>1. Cxx!nthreads \in Nat /\ Cxx!nthreads # 0
  BY FS_CardinalityType, FS_EmptySet, CxxSize DEF Reliable
<1> QED
  BY <1>1, FS_Subset, FS_CardinalityType, FS_AddElement, CxxSize DEF Reliable

(* At first no one has come. *)
LEMMA BooksInit == Reliable /\ Cxx!Init => Books /\ Asleep = {} /\ Woken = {}
<1> SUFFICES ASSUME Reliable, Cxx!Init PROVE Books /\ Asleep = {} /\ Woken = {}
  OBVIOUS
<1>1. Asleep = {} /\ Woken = {}
  BY DEF Cxx!Init, Asleep, Woken
<1>2. {} \subseteq Threads /\ Cxx!nthreads \in Nat \ {0}
  BY CxxThreads
<1>3. CxxTypes /\ LastAlone
  BY <1>2 DEF Cxx!Init, CxxTypes, LastAlone
<1>4. Cxx!Refilled + Cardinality(Asleep) = Cxx!nthreads
  BY <1>1, <1>2, FS_EmptySet DEF Cxx!Init, Cxx!Refilled
<1> QED
  BY <1>1, <1>3, <1>4 DEF Books

(* A thread arrives: it sleeps, or it is the last and all others sleep. *)
LEMMA ArriveStep ==
  ASSUME Reliable, Books, NEW t \in Threads, Cxx!Arrive(t)
  PROVE  Books' /\ Cxx!BR!Enter(t)
<1> USE DEF Books
<1>1. /\ cxxPc[t] = "enter" /\ Cxx!MutexFree /\ pending' = Cxx!Refilled - 1
      /\ cxxPc' = [cxxPc EXCEPT ![t] = IF pending' > 0 THEN "asleep" ELSE "notify"]
  BY DEF Cxx!Arrive
<1>2. /\ t \notin Asleep /\ t \notin Woken
      /\ Asleep \subseteq Threads /\ Asleep' \subseteq Threads
  BY <1>1 DEF Asleep, Woken
<1>3. /\ cxxPc'[t] = IF pending' > 0 THEN "asleep" ELSE "notify"
      /\ \A u \in Threads : u # t => cxxPc'[u] = cxxPc[u]
  BY <1>1 DEF CxxTypes
<1>4. Asleep' = Asleep \union {t} /\ Woken' = Woken
  BY <1>1, <1>3 DEF Asleep, Woken
<1>5. /\ Cardinality(Asleep) \in Nat /\ Cxx!nthreads \in Nat
      /\ Cardinality(Asleep') = Cardinality(Asleep) + 1
      /\ Cardinality(Asleep') =< Cxx!nthreads
      /\ Cardinality(Asleep') = Cxx!nthreads => Asleep' = Threads
  BY <1>2, <1>4, CxxThreads
<1>6. Cxx!Refilled + Cardinality(Asleep) = Cxx!nthreads /\ Cxx!Refilled \in Nat
  BY <1>1, <1>5 DEF CxxTypes, Cxx!Refilled
<1>7. pending' \in Nat /\ pending' + Cardinality(Asleep') = Cxx!nthreads
  BY <1>1, <1>5, <1>6
<1>8. CxxTypes'
  BY <1>1, <1>7 DEF CxxTypes
<1>9. \A u \in Threads : cxxPc'[u] = "notify" => u = t /\ pending' = 0
  <2>1. \A u \in Threads : u # t => cxxPc'[u] # "notify"
    BY <1>1, <1>3 DEF Cxx!MutexFree
  <2>2. cxxPc'[t] = "notify" => ~ pending' > 0
    BY <1>3
  <2> QED
    BY <1>7, <2>1, <2>2
<1>10. LastAlone'
  <2> SUFFICES ASSUME NEW u \in Threads, cxxPc'[u] = "notify", NEW v \in Threads, v # u
               PROVE  cxxPc'[v] = "asleep"
    BY <1>9 DEF LastAlone
  <2>1. u = t /\ Asleep' = Threads
    BY <1>5, <1>7, <1>9
  <2>2. cxxPc'[v] \in {"asleep", "notify"}
    BY <2>1 DEF Asleep
  <2> QED
    BY <1>9, <2>1, <2>2
<1>11. Cxx!MutexFree' => Cxx!Refilled' + Cardinality(Asleep') = Cxx!nthreads
  <2>1. Cxx!MutexFree' => pending' > 0
    BY <1>3 DEF Cxx!MutexFree
  <2>2. pending' > 0 => Cxx!Refilled' = pending'
    BY <1>7 DEF Cxx!Refilled
  <2> QED
    BY <1>7, <2>1, <2>2
<1>12. Cxx!BR!Enter(t)
  BY <1>2, <1>4 DEF Cxx!BR!Enter, Asleep, Woken
<1> QED
  BY <1>8, <1>10, <1>11, <1>12

(* The last one wakes all others, and the next round may begin. *)
LEMMA NotifyStep ==
  ASSUME Reliable, Books, NEW t \in Threads, Cxx!NotifyAll(t)
  PROVE  Books' /\ Cxx!BR!Open
<1> USE DEF Books
<1>1. /\ cxxPc[t] = "notify" /\ pending' = pending
      /\ cxxPc' = [u \in Threads |->
                  IF u = t \/ cxxPc[u] = "asleep" THEN "woken" ELSE cxxPc[u]]
  BY DEF Cxx!NotifyAll
<1>2. pending = 0 /\ \A u \in Threads : u # t => cxxPc[u] = "asleep"
  BY <1>1 DEF LastAlone
<1>3. \A u \in Threads : cxxPc'[u] = "woken"
  BY <1>1, <1>2
<1>4. Asleep = Threads /\ Asleep' = {} /\ Woken' = Threads
  BY <1>1, <1>2, <1>3 DEF Asleep, Woken
<1>5. CxxTypes' /\ LastAlone'
  BY <1>1, <1>2, <1>3 DEF CxxTypes, LastAlone
<1>6. {} \subseteq Threads /\ Cxx!nthreads \in Nat
  BY CxxThreads
<1>7. Cxx!Refilled' + Cardinality(Asleep') = Cxx!nthreads
  BY <1>1, <1>2, <1>4, <1>6, FS_EmptySet DEF Cxx!Refilled
<1> QED
  BY <1>4, <1>5, <1>7 DEF Cxx!BR!Open, Asleep, Woken

(* Threads that call wait(), or leave it, are not counted. *)
LEMMA CallReturnStep ==
  ASSUME Reliable, Books, NEW t \in Threads, Cxx!Call(t) \/ Cxx!Return(t)
  PROVE  Books' /\ (Cxx!BR!Leave(t) \/ UNCHANGED Cxx!BR!vars)
<1> USE DEF Books
<1>1. CASE Cxx!Call(t)
  <2>1. /\ cxxPc[t] = "outside" /\ cxxPc' = [cxxPc EXCEPT ![t] = "enter"] /\ pending' = pending
    BY <1>1 DEF Cxx!Call
  <2>2. cxxPc'[t] = "enter" /\ \A u \in Threads : u # t => cxxPc'[u] = cxxPc[u]
    BY <2>1 DEF CxxTypes
  <2>3. Asleep' = Asleep /\ Woken' = Woken /\ (Cxx!MutexFree' <=> Cxx!MutexFree)
    BY <2>1, <2>2 DEF Asleep, Woken, Cxx!MutexFree
  <2>4. CxxTypes' /\ LastAlone'
    BY <2>1, <2>2 DEF CxxTypes, LastAlone
  <2> QED
    BY <2>1, <2>3, <2>4 DEF Cxx!BR!vars, Asleep, Woken, Cxx!Refilled
<1>2. CASE Cxx!Return(t)
  <2>1. /\ cxxPc[t] = "woken" /\ cxxPc' = [cxxPc EXCEPT ![t] = "outside"] /\ pending' = pending
    BY <1>2 DEF Cxx!Return, Cxx!Awake, Reliable
  <2>2. cxxPc'[t] = "outside" /\ \A u \in Threads : u # t => cxxPc'[u] = cxxPc[u]
    BY <2>1 DEF CxxTypes
  <2>3. /\ t \in Woken /\ Woken' = Woken \ {t}
        /\ Asleep' = Asleep /\ (Cxx!MutexFree' <=> Cxx!MutexFree)
    BY <2>1, <2>2 DEF Asleep, Woken, Cxx!MutexFree
  <2>4. CxxTypes' /\ LastAlone'
    BY <2>1, <2>2 DEF CxxTypes, LastAlone
  <2> QED
    BY <2>1, <2>3, <2>4 DEF Cxx!BR!Leave, Asleep, Woken, Cxx!Refilled
<1> QED
  BY <1>1, <1>2

(* Nobody leaves a round of cxx_barrier before all have come to it, also when
   it is used again at once, without spurious wakeups. *)
THEOREM SleepersKeepRounds ==
  ASSUME ~ Spurious
  PROVE  Spec => Cxx!BR!Init /\ [][Cxx!BR!Next]_(Cxx!BR!vars)
<1>0. Reliable
  BY SpinAssumption, SpinSizes DEF Spin!ConstantsOK, Reliable
<1>1. Init => Books /\ Cxx!BR!Init
  BY <1>0, BooksInit DEF Init, Cxx!BR!Init, Asleep, Woken
<1>2. Books /\ [Next]_vars => Books' /\ [Cxx!BR!Next]_(Cxx!BR!vars)
  <2>1. CASE Cxx!Next
    BY <1>0, <2>1, ArriveStep, NotifyStep, CallReturnStep DEF Cxx!Next, Cxx!BR!Next
  <2>2. CASE UNCHANGED cxxVars
    BY <2>2 DEF cxxVars, Books, CxxTypes, LastAlone, Cxx!MutexFree, Cxx!Refilled, Asleep, Cxx!BR!vars
  <2> QED
    BY <2>1, <2>2 DEF Next, vars
<1> QED
  BY <1>1, <1>2, PTL DEF Spec

-----------------------------------------------------------------------------
(* Parallel loops. *)

(* part k of the n parts of lo .. hi - 1: s numbers each, the last the rest *)
PartOf(lo, hi, n, s, k) ==
  {i \in Int : lo + k * s <= i /\ i < (IF k >= n - 1 THEN hi ELSE lo + k * s + s)}

(* Multiples of s grow by s at least. *)
LEMMA Upwards ==
  ASSUME NEW k \in Nat, NEW l \in Nat, NEW s \in Nat, k < l
  PROVE  k * s + s <= l * s /\ k * s \in Nat /\ l * s \in Nat
<1>1. PICK d \in Nat : l = k + 1 + d
  <2>1. l - k - 1 \in Nat /\ l = k + 1 + (l - k - 1)
    OBVIOUS
  <2> QED
    BY <2>1
<1>2. l * s = k * s + s + d * s
  BY <1>1
<1>3. d * s \in Nat /\ k * s \in Nat /\ l * s \in Nat
  OBVIOUS
<1> QED
  BY <1>2, <1>3

(* The quotient of a number. *)
LEMMA Quotient ==
  ASSUME NEW a \in Nat, NEW v \in Nat \ {0}
  PROVE  a \div v \in Nat /\ (a \div v) * v <= a /\ a < (a \div v) * v + v
<1>1. a \div v \in Int /\ a \div v >= 0 /\ a % v \in 0 .. v - 1
  OBVIOUS
<1>2. a = v * (a \div v) + (a % v)
  OBVIOUS
<1>3. PICK q \in Nat : q = a \div v
  BY <1>1
<1>4. PICK r \in 0 .. v - 1 : r = a % v
  BY <1>1
<1>5. a = v * q + r /\ v * q = q * v /\ q * v \in Nat
  BY <1>2, <1>3, <1>4
<1>6. q * v <= a /\ a < q * v + v
  BY <1>5
<1> QED
  BY <1>3, <1>6

(* The parts are disjoint and cover the interval. *)
LEMMA PartsFit ==
  ASSUME NEW lo \in Int, NEW hi \in Int, NEW n \in Nat \ {0}, NEW s \in Nat,
         lo + (n - 1) * s <= hi
  PROVE  /\ \A k \in 0 .. n - 1 : PartOf(lo, hi, n, s, k) \subseteq lo .. hi - 1
         /\ \A k, l \in 0 .. n - 1 : \A i \in PartOf(lo, hi, n, s, k) :
              i \in PartOf(lo, hi, n, s, l) => k = l
         /\ \A i \in lo .. hi - 1 : \E k \in 0 .. n - 1 : i \in PartOf(lo, hi, n, s, k)
<1>0. ASSUME NEW k \in 0 .. n - 1, NEW l \in 0 .. n - 1, k < l
      PROVE  k < n - 1 /\ k * s + s <= l * s /\ k * s \in Nat /\ l * s \in Nat
  BY <1>0, Upwards
<1>1. ASSUME NEW k \in 0 .. n - 1 PROVE PartOf(lo, hi, n, s, k) \subseteq lo .. hi - 1
  <2>1. k * s \in Nat
    OBVIOUS
  <2>2. k < n - 1 => lo + k * s + s <= hi
    <3> SUFFICES ASSUME k < n - 1 PROVE lo + k * s + s <= hi
      OBVIOUS
    <3>1. n - 1 \in Nat /\ k \in Nat
      OBVIOUS
    <3>2. k * s + s <= (n - 1) * s /\ (n - 1) * s \in Nat
      BY <3>1, Upwards
    <3>3. PICK x \in Nat : x = (n - 1) * s
      BY <3>2
    <3> QED
      BY <2>1, <3>2, <3>3
  <2>3. PICK x \in Nat : x = k * s
    BY <2>1
  <2> QED
    BY <2>2, <2>3 DEF PartOf
<1>2. ASSUME NEW k \in 0 .. n - 1, NEW l \in 0 .. n - 1, k < l,
             NEW i \in PartOf(lo, hi, n, s, k), i \in PartOf(lo, hi, n, s, l)
      PROVE  FALSE
  <2>1. k < n - 1 /\ k * s + s <= l * s /\ k * s \in Nat /\ l * s \in Nat
    BY <1>0, <1>2
  <2>2. i \in Int /\ i < lo + k * s + s /\ lo + l * s <= i
    BY <1>2, <2>1 DEF PartOf
  <2>3. PICK x \in Nat, y \in Nat : x = k * s /\ y = l * s
    BY <2>1
  <2> QED
    BY <2>1, <2>2, <2>3
<1>3. ASSUME NEW i \in lo .. hi - 1 PROVE \E k \in 0 .. n - 1 : i \in PartOf(lo, hi, n, s, k)
  <2>1. CASE lo + (n - 1) * s <= i
    <3>1. n - 1 \in 0 .. n - 1 /\ i \in PartOf(lo, hi, n, s, n - 1)
      BY <2>1 DEF PartOf
    <3> QED
      BY <3>1
  <2>2. CASE i < lo + (n - 1) * s
    <3>1. s # 0
      <4>1. s = 0 => (n - 1) * s = 0
        OBVIOUS
      <4> QED
        BY <2>2, <4>1
    <3>2. PICK q \in Nat : q * s <= i - lo /\ i - lo < q * s + s
      <4>1. i - lo \in Nat /\ s \in Nat \ {0}
        BY <3>1
      <4> QED
        BY <4>1, Quotient
    <3>3. q < n - 1
      <4>1. ASSUME n - 1 <= q PROVE FALSE
        <5>1. (n - 1) * s <= q * s
          <6>1. CASE n - 1 = q
            BY <6>1
          <6>2. CASE n - 1 < q
            <7>1. n - 1 \in Nat
              OBVIOUS
            <7>2. (n - 1) * s + s <= q * s /\ (n - 1) * s \in Nat
              BY <6>2, <7>1, Upwards
            <7>3. PICK x \in Nat : x = (n - 1) * s
              BY <7>2
            <7> QED
              BY <7>2, <7>3
          <6> QED
            BY <4>1, <6>1, <6>2
        <5>2. PICK x \in Int, y \in Int : x = (n - 1) * s /\ y = q * s
          OBVIOUS
        <5> QED
          BY <2>2, <3>2, <5>1, <5>2
      <4> QED
        BY <4>1
    <3>4. q \in 0 .. n - 1 /\ ~ (q >= n - 1) /\ i \in Int
      BY <3>3
    <3>5. PICK y \in Nat : y = q * s
      OBVIOUS
    <3>6. lo + y <= i /\ i < lo + y + s
      BY <3>2, <3>5
    <3>7. i \in PartOf(lo, hi, n, s, q)
      BY <3>4, <3>5, <3>6 DEF PartOf
    <3> QED
      BY <3>4, <3>7
  <2> QED
    <3>1. (n - 1) * s \in Int
      OBVIOUS
    <3> QED
      BY <2>1, <2>2, <3>1
<1>4. ASSUME NEW k \in 0 .. n - 1, NEW l \in 0 .. n - 1, NEW i \in PartOf(lo, hi, n, s, k),
             i \in PartOf(lo, hi, n, s, l)
      PROVE  k = l
  <2>1. k < l \/ l < k \/ k = l
    OBVIOUS
  <2> QED
    BY <1>2, <1>4, <2>1
<1> QED
  BY <1>1, <1>3, <1>4

(* Rounding up leaves less than a part for the last one. *)
LEMMA RoundUp ==
  ASSUME NEW a \in Nat \ {0}, NEW s \in Nat \ {0}
  PROVE  /\ (a + s - 1) \div s \in Nat \ {0}
         /\ ((a + s - 1) \div s - 1) * s < a
<1>1. a + s - 1 \in Nat
  OBVIOUS
<1>2. PICK q \in Nat : /\ q = (a + s - 1) \div s
                       /\ q * s <= a + s - 1 /\ a + s - 1 < q * s + s
  BY <1>1, Quotient
<1>3. q # 0
  BY <1>2
<1>4. (q - 1) * s = q * s - s
  OBVIOUS
<1>5. PICK x \in Nat : x = q * s
  OBVIOUS
<1>6. x - s < a
  BY <1>2, <1>5
<1> QED
  BY <1>2, <1>3, <1>4, <1>5, <1>6


(* What Primitives does not assume of its loops: those that are split start at
   zero, where the blocks do. *)
SplitFromZero == \A c \in Loops : c.multi => c.from = 0

(* The tasks of a loop share its iterations. *)
LEMMA TasksFit ==
  ASSUME SplitFromZero, call \in Loops, NEW n, n = For!NBlocks(call)
  PROVE  /\ n \in Nat \ {0} /\ For!Tasks = 0 .. n - 1
         /\ call.from \in Nat /\ call.to \in Nat /\ call.block \in Nat \ {0}
         /\ call.from + (n - 1) * call.block <= call.to
         /\ \A t \in For!Tasks :
              /\ For!Start(t) \in Nat /\ For!End(t) \in Nat /\ For!Start(t) < For!End(t)
              /\ \A i : i \in For!Upto(For!Start(t), For!End(t))
                          <=> i \in PartOf(call.from, call.to, n, call.block, t)
<1>1. PICK lo \in Nat, hi \in Nat, s \in Nat \ {0} :
        call.from = lo /\ call.to = hi /\ call.block = s /\ lo < hi
  BY ForAssumption DEF For!ConstantsOK
<1>2. call.multi \in BOOLEAN /\ (call.multi => lo = 0)
  BY <1>1, ForAssumption DEF For!ConstantsOK, SplitFromZero
<1>3. n \in Nat \ {0} /\ lo + (n - 1) * s < hi
  <2>1. CASE call.multi
    <3>1. n = (hi - lo + s - 1) \div s
      BY <1>1, <2>1 DEF For!NBlocks
    <3>2. lo = 0 /\ hi - lo = hi /\ hi \in Nat \ {0}
      BY <1>1, <1>2, <2>1
    <3>3. n \in Nat \ {0} /\ (n - 1) * s < hi
      BY <3>1, <3>2, RoundUp
    <3>4. PICK x \in Int : x = (n - 1) * s
      BY <3>3
    <3> QED
      BY <3>2, <3>3, <3>4
  <2>2. CASE ~ call.multi
    <3>1. n = 1 /\ (n - 1) * s = 0
      BY <2>2 DEF For!NBlocks
    <3> QED
      BY <1>1, <3>1
  <2> QED
    BY <2>1, <2>2
<1>4. For!Tasks = 0 .. n - 1
  BY DEF For!Tasks, For!Upto
<1>5. ASSUME NEW t \in For!Tasks
      PROVE  /\ For!Start(t) = lo + t * s
             /\ For!End(t) = IF t >= n - 1 THEN hi ELSE lo + t * s + s
             /\ t * s \in Nat /\ t \in Nat /\ t <= n - 1
  <2>1. t \in Nat /\ t <= n - 1 /\ t * s \in Nat
    BY <1>3, <1>4
  <2>2. CASE call.multi
    <3>1. For!Start(t) = t * s /\ lo = 0
      BY <1>1, <1>2, <2>2 DEF For!Start
    <3>2. For!Start(t) = lo + t * s
      BY <2>1, <3>1
    <3>3. For!End(t) = IF t < n - 1 THEN For!Start(t) + s ELSE hi
      BY <1>1, <2>2 DEF For!End
    <3> QED
      BY <1>3, <2>1, <3>2, <3>3
  <2>3. CASE ~ call.multi
    <3>1. n = 1 /\ For!Start(t) = lo /\ For!End(t) = hi
      BY <1>1, <2>3 DEF For!NBlocks, For!Start, For!End
    <3>2. t = 0 /\ t * s = 0
      BY <2>1, <3>1
    <3> QED
      BY <2>1, <3>1, <3>2
  <2> QED
    BY <2>2, <2>3
<1>6. ASSUME NEW t \in For!Tasks
      PROVE  /\ For!Start(t) \in Nat /\ For!End(t) \in Nat /\ For!Start(t) < For!End(t)
             /\ \A i : i \in For!Upto(For!Start(t), For!End(t))
                         <=> i \in PartOf(lo, hi, n, s, t)
  <2>1. t < n - 1 \/ t = n - 1
    BY <1>3, <1>5
  <2>2. PICK x \in Nat : x = t * s
    BY <1>5
  <2>3. t = n - 1 => lo + x < hi
    BY <1>3, <2>2
  <2>4. For!Start(t) \in Nat /\ For!End(t) \in Nat /\ For!Start(t) < For!End(t)
    BY <1>3, <1>5, <2>1, <2>2, <2>3
  <2> QED
    BY <1>5, <2>2, <2>4 DEF For!Upto, PartOf
<1> QED
  <2>1. (n - 1) * s \in Int
    BY <1>3
  <2>2. PICK y \in Int : y = (n - 1) * s
    BY <2>1
  <2>3. lo + y <= hi
    BY <1>3, <2>2
  <2> QED
    BY <1>1, <1>3, <1>4, <1>6, <2>2, <2>3

(* The blocks of a task share its iterations. *)
LEMMA BlocksFit ==
  ASSUME SplitFromZero, call \in Loops, NEW t \in For!Tasks
  PROVE  /\ For!Blocks(t) \in Nat \ {0} /\ For!BlockSize(t) \in Nat \ {0}
         /\ For!Start(t) + (For!Blocks(t) - 1) * For!BlockSize(t) <= For!End(t)
         /\ \A b \in Nat : \A i : i \in For!Block(t, b)
              <=> i \in PartOf(For!Start(t), For!End(t), For!Blocks(t), For!BlockSize(t), b)
<1>1. PICK lo \in Nat, hi \in Nat : For!Start(t) = lo /\ For!End(t) = hi /\ lo < hi
  BY TasksFit
<1>2. For!Size(t) = hi - lo /\ hi - lo \in Nat \ {0}
  BY <1>1 DEF For!Size
<1>3. call.width * Slackness \in Nat \ {0}
  BY ForAssumption DEF For!ConstantsOK
<1>4. PICK s \in Nat \ {0} : s = For!BlockSize(t)
  <2>1. (hi - lo) \div (call.width * Slackness) \in Nat
    BY <1>2, <1>3, Quotient
  <2> QED
    BY <1>2, <2>1 DEF For!BlockSize
<1>5. PICK n \in Nat \ {0} : n = For!Blocks(t) /\ (n - 1) * s < hi - lo
  BY <1>2, <1>4, RoundUp DEF For!Blocks
<1>6. PICK x \in Int : x = (n - 1) * s
  OBVIOUS
<1>7. lo + x <= hi
  BY <1>5, <1>6
<1>8. ASSUME NEW b \in Nat
      PROVE  \A i : i \in For!Block(t, b) <=> i \in PartOf(lo, hi, n, s, b)
  <2>1. PICK y \in Nat : y = b * s
    OBVIOUS
  <2> QED
    BY <1>1, <1>4, <1>5, <2>1 DEF For!Block, For!Upto, PartOf
<1> QED
  BY <1>1, <1>4, <1>5, <1>6, <1>7, <1>8

(* So do the members of its place. *)
LEMMA SharesFit ==
  ASSUME SplitFromZero, call \in Loops, NEW t \in For!Tasks, members[t] \in Nat \ {0}
  PROVE  /\ For!ShareSize(t) \in Nat
         /\ For!Start(t) + (members[t] - 1) * For!ShareSize(t) <= For!End(t)
         /\ \A m \in Nat : \A i : i \in For!Share(t, m)
              <=> i \in PartOf(For!Start(t), For!End(t), members[t], For!ShareSize(t), m)
<1>1. PICK lo \in Nat, hi \in Nat : For!Start(t) = lo /\ For!End(t) = hi /\ lo < hi
  BY TasksFit
<1>2. For!Size(t) = hi - lo /\ hi - lo \in Nat
  BY <1>1 DEF For!Size
<1>3. PICK w \in Nat \ {0} : w = members[t]
  OBVIOUS
<1>4. PICK s \in Nat : s = For!ShareSize(t) /\ s * w <= hi - lo
  BY <1>2, <1>3, Quotient DEF For!ShareSize
<1>5. (w - 1) * s = s * w - s
  OBVIOUS
<1>6. PICK x \in Int, z \in Int : x = (w - 1) * s /\ z = s * w
  OBVIOUS
<1>7. lo + x <= hi
  BY <1>4, <1>5, <1>6
<1>8. ASSUME NEW m \in Nat
      PROVE  \A i : i \in For!Share(t, m) <=> i \in PartOf(lo, hi, w, s, m)
  <2>1. PICK y \in Nat : y = m * s
    OBVIOUS
  <2> QED
    BY <1>1, <1>3, <1>4, <2>1 DEF For!Share, For!Upto, PartOf
<1> QED
  BY <1>1, <1>3, <1>4, <1>6, <1>7, <1>8

ForLabel == {"off", "share", "claim", "run", "done"}

ForTypes ==
  /\ call \in Loops
  /\ members \in [For!Tasks -> 0 .. MaxMembers]
  /\ next \in [For!Tasks -> Nat]
  /\ forPc \in [For!Tasks -> [For!Member -> ForLabel]]
  /\ mine \in [For!Tasks -> [For!Member -> Nat]]
  /\ times \in [For!Iterations -> Nat]

(* the pieces in which the iterations of a task are executed *)
Pieces(t) == IF call.static THEN members[t] ELSE For!Blocks(t)
Piece(t, k) == IF call.static THEN For!Share(t, k) ELSE For!Block(t, k)

(* k has been executed: by the member it belongs to, or by the one that has claimed it *)
Executed(t, k) ==
  IF call.static THEN forPc[t][k] = "done"
  ELSE k < next[t] /\ \A m \in For!Member : ~ (forPc[t][m] = "run" /\ mine[t][m] = k)

(* What the members of a task do. *)
Claims(t) ==
  /\ members[t] = 0 => next[t] = 0
  /\ \A m \in For!Member :
       /\ forPc[t][m] = "off" <=> m >= members[t]
       /\ call.static => forPc[t][m] \notin {"claim", "run"}
       /\ ~ call.static => forPc[t][m] # "share"
       /\ forPc[t][m] = "run" => mine[t][m] < next[t] /\ mine[t][m] < For!Blocks(t)
       /\ forPc[t][m] = "done" /\ ~ call.static => For!Blocks(t) <= next[t]
  /\ \A m, l \in For!Member :
       forPc[t][m] = "run" /\ forPc[t][l] = "run" /\ mine[t][m] = mine[t][l] => m = l

(* The body has been executed once for the pieces that are executed, and for no
   other iteration. *)
Counts ==
  \A i \in For!Iterations :
    times[i] = IF \E t \in For!Tasks : \E k \in 0 .. Pieces(t) - 1 : Executed(t, k) /\ i \in Piece(t, k)
               THEN 1 ELSE 0

ForInv == ForTypes /\ (\A t \in For!Tasks : Claims(t)) /\ Counts

(* Pieces, also of different tasks, have no iteration in common, and all together
   they are the loop. *)
LEMMA PiecesFit ==
  ASSUME SplitFromZero, ForTypes
  PROVE  /\ \A t \in For!Tasks : Pieces(t) \in Nat
         /\ \A t, u \in For!Tasks : \A k \in 0 .. Pieces(t) - 1, l \in 0 .. Pieces(u) - 1 :
              \A i \in Piece(t, k) : i \in Piece(u, l) => t = u /\ k = l
         /\ \A t \in For!Tasks : \A k \in 0 .. Pieces(t) - 1 :
              Piece(t, k) \subseteq For!Upto(call.from, call.to)
         /\ \A t \in For!Tasks : members[t] > 0 =>
              \A i \in For!Upto(For!Start(t), For!End(t)) : \E k \in 0 .. Pieces(t) - 1 : i \in Piece(t, k)
         /\ \A i \in For!Upto(call.from, call.to) :
              \E t \in For!Tasks : i \in For!Upto(For!Start(t), For!End(t))
         /\ \A t \in For!Tasks :
              For!Upto(For!Start(t), For!End(t)) \subseteq For!Upto(call.from, call.to)
<1>0. call \in Loops /\ members \in [For!Tasks -> 0 .. MaxMembers] /\ MaxMembers \in Nat
  BY ForAssumption DEF ForTypes, For!ConstantsOK
<1>1. ASSUME NEW t \in For!Tasks
      PROVE  /\ Pieces(t) \in Nat
             /\ \E s \in Nat :
                  /\ Pieces(t) # 0 => For!Start(t) + (Pieces(t) - 1) * s <= For!End(t)
                  /\ Pieces(t) # 0 => \A k \in Nat : \A i :
                       i \in Piece(t, k) <=> i \in PartOf(For!Start(t), For!End(t), Pieces(t), s, k)
  <2>1. CASE call.static
    <3>1. Pieces(t) = members[t] /\ Pieces(t) \in Nat
      BY <1>0, <2>1 DEF Pieces
    <3>2. CASE members[t] # 0
      <4>1. members[t] \in Nat \ {0}
        BY <3>1, <3>2
      <4>2. \A k : Piece(t, k) = For!Share(t, k)
        BY <2>1 DEF Piece
      <4> QED
        BY <1>0, <3>1, <4>1, <4>2, SharesFit
    <3> QED
      BY <3>1, <3>2
  <2>2. CASE ~ call.static
    <3>1. Pieces(t) = For!Blocks(t) /\ \A k : Piece(t, k) = For!Block(t, k)
      BY <2>2 DEF Pieces, Piece
    <3> QED
      BY <1>0, <3>1, BlocksFit
  <2> QED
    BY <2>1, <2>2
<1>2. PICK n : n = For!NBlocks(call)
  OBVIOUS
<1>3. /\ n \in Nat \ {0} /\ For!Tasks = 0 .. n - 1
      /\ call.from \in Nat /\ call.to \in Nat /\ call.block \in Nat \ {0}
      /\ call.from + (n - 1) * call.block <= call.to
      /\ \A t \in For!Tasks :
           /\ For!Start(t) \in Nat /\ For!End(t) \in Nat /\ For!Start(t) < For!End(t)
           /\ \A i : i \in For!Upto(For!Start(t), For!End(t))
                       <=> i \in PartOf(call.from, call.to, n, call.block, t)
  BY <1>0, <1>2, TasksFit
<1>4. /\ \A k \in 0 .. n - 1 : PartOf(call.from, call.to, n, call.block, k) \subseteq call.from .. call.to - 1
      /\ \A k, l \in 0 .. n - 1 : \A i \in PartOf(call.from, call.to, n, call.block, k) :
           i \in PartOf(call.from, call.to, n, call.block, l) => k = l
      /\ \A i \in call.from .. call.to - 1 :
           \E k \in 0 .. n - 1 : i \in PartOf(call.from, call.to, n, call.block, k)
  <2>1. PICK lo \in Nat, hi \in Nat, s \in Nat : lo = call.from /\ hi = call.to /\ s = call.block
    BY <1>3
  <2>2. n \in Nat \ {0} /\ lo + (n - 1) * s <= hi
    BY <1>3, <2>1
  <2>3. /\ \A k \in 0 .. n - 1 : PartOf(lo, hi, n, s, k) \subseteq lo .. hi - 1
        /\ \A k, l \in 0 .. n - 1 : \A i \in PartOf(lo, hi, n, s, k) :
             i \in PartOf(lo, hi, n, s, l) => k = l
        /\ \A i \in lo .. hi - 1 : \E k \in 0 .. n - 1 : i \in PartOf(lo, hi, n, s, k)
    <3>1. lo \in Int /\ hi \in Int /\ s \in Nat
      OBVIOUS
    <3> QED
      BY ONLY <2>2, <3>1, PartsFit
  <2> QED
    BY <2>1, <2>3
<1>5. ASSUME NEW t \in For!Tasks
      PROVE  /\ \A k \in 0 .. Pieces(t) - 1 : Piece(t, k) \subseteq For!Upto(For!Start(t), For!End(t))
             /\ \A k, l \in 0 .. Pieces(t) - 1 : \A i \in Piece(t, k) : i \in Piece(t, l) => k = l
             /\ Pieces(t) # 0 => \A i \in For!Upto(For!Start(t), For!End(t)) :
                  \E k \in 0 .. Pieces(t) - 1 : i \in Piece(t, k)
  <2>1. CASE Pieces(t) = 0
    <3>1. 0 .. Pieces(t) - 1 = {}
      BY <2>1
    <3> QED
      BY <2>1, <3>1
  <2>2. CASE Pieces(t) # 0
    <3>1. PICK s \in Nat :
            /\ For!Start(t) + (Pieces(t) - 1) * s <= For!End(t)
            /\ \A k \in Nat : \A i :
                 i \in Piece(t, k) <=> i \in PartOf(For!Start(t), For!End(t), Pieces(t), s, k)
      BY <1>1, <2>2
    <3>2. PICK lo \in Nat, hi \in Nat, p \in Nat \ {0} :
            lo = For!Start(t) /\ hi = For!End(t) /\ p = Pieces(t)
      BY <1>1, <1>3, <2>2
    <3>3. /\ \A k \in 0 .. p - 1 : PartOf(lo, hi, p, s, k) \subseteq lo .. hi - 1
          /\ \A k, l \in 0 .. p - 1 : \A i \in PartOf(lo, hi, p, s, k) :
               i \in PartOf(lo, hi, p, s, l) => k = l
          /\ \A i \in lo .. hi - 1 : \E k \in 0 .. p - 1 : i \in PartOf(lo, hi, p, s, k)
      <4>1. lo \in Int /\ hi \in Int /\ lo + (p - 1) * s <= hi /\ p \in Nat \ {0} /\ s \in Nat
        BY <3>1, <3>2
      <4> QED
        BY ONLY <4>1, PartsFit
    <3>4. \A k \in 0 .. p - 1 : k \in Nat
      OBVIOUS
    <3> QED
      BY <3>1, <3>2, <3>3, <3>4 DEF For!Upto
  <2> QED
    BY <2>1, <2>2
<1>6. \A i, t, u : t \in For!Tasks /\ u \in For!Tasks
        /\ i \in For!Upto(For!Start(t), For!End(t)) /\ i \in For!Upto(For!Start(u), For!End(u)) => t = u
  BY <1>3, <1>4
<1>7. \A t \in For!Tasks :
        For!Upto(For!Start(t), For!End(t)) \subseteq For!Upto(call.from, call.to)
  BY <1>3, <1>4 DEF For!Upto
<1>8. \A i \in For!Upto(call.from, call.to) :
        \E t \in For!Tasks : i \in For!Upto(For!Start(t), For!End(t))
  BY <1>3, <1>4 DEF For!Upto
<1>9. \A t \in For!Tasks : members[t] > 0 => Pieces(t) # 0
  <2>1. \A t \in For!Tasks : For!Blocks(t) # 0
    BY <1>0, BlocksFit
  <2> QED
    BY <1>0, <2>1 DEF Pieces
<1>10. \A t, u \in For!Tasks : \A k \in 0 .. Pieces(t) - 1, l \in 0 .. Pieces(u) - 1 :
         \A i \in Piece(t, k) : i \in Piece(u, l) => t = u /\ k = l
  <2> SUFFICES ASSUME NEW t \in For!Tasks, NEW u \in For!Tasks, NEW k \in 0 .. Pieces(t) - 1,
                      NEW l \in 0 .. Pieces(u) - 1, NEW i \in Piece(t, k), i \in Piece(u, l)
               PROVE  t = u /\ k = l
    OBVIOUS
  <2>1. t = u
    BY <1>5, <1>6
  <2> QED
    BY <1>5, <2>1
<1> QED
  BY <1>1, <1>5, <1>7, <1>8, <1>9, <1>10

(* At first no piece has been executed. *)
LEMMA ForStarts == Init => ForInv
<1> SUFFICES ASSUME Init PROVE ForInv
  OBVIOUS
<1>1. /\ call \in Loops
      /\ members = [t \in For!Tasks |-> 0] /\ next = [t \in For!Tasks |-> 0]
      /\ forPc = [t \in For!Tasks |-> [m \in For!Member |-> "off"]]
      /\ mine = [t \in For!Tasks |-> [m \in For!Member |-> 0]]
      /\ times = [i \in For!Iterations |-> 0]
  BY DEF Init, For!Init
<1>2. \A m \in For!Member : m \in Nat /\ m >= 0
  BY ForAssumption DEF For!Member, For!Upto, For!ConstantsOK
<1>3. ForTypes
  BY <1>1, ForAssumption DEF ForTypes, ForLabel, For!ConstantsOK
<1>4. \A t \in For!Tasks : Claims(t)
  BY <1>1, <1>2 DEF Claims
<1>5. ASSUME NEW t \in For!Tasks, NEW k \in 0 .. Pieces(t) - 1 PROVE ~ Executed(t, k)
  <2>1. CASE call.static
    <3>1. Pieces(t) = 0
      BY <1>1, <2>1 DEF Pieces
    <3> QED
      BY <3>1
  <2>2. CASE ~ call.static
    <3>1. next[t] = 0 /\ k \in Int /\ k >= 0
      BY <1>1
    <3> QED
      BY <2>2, <3>1 DEF Executed
  <2> QED
    BY <2>1, <2>2
<1>6. Counts
  BY <1>1, <1>5 DEF Counts
<1> QED
  BY <1>3, <1>4, <1>6 DEF ForInv

(* As long as the members of the tasks stay, so do the pieces. *)
LEMMA SamePieces ==
  ASSUME call' = call
  PROVE  /\ For!Tasks' = For!Tasks
         /\ \A t : For!Blocks(t)' = For!Blocks(t)
         /\ \A t : \A k : members'[t] = members[t] => Piece(t, k)' = Piece(t, k)
         /\ \A t : members'[t] = members[t] => Pieces(t)' = Pieces(t)
<1>1. /\ For!Tasks' = For!Tasks
      /\ \A t : For!Start(t)' = For!Start(t) /\ For!End(t)' = For!End(t)
  BY DEF For!Tasks, For!Upto, For!NBlocks, For!Start, For!End
<1>2. \A t : For!Size(t)' = For!Size(t)
  BY <1>1 DEF For!Size
<1>3. \A t : For!BlockSize(t)' = For!BlockSize(t)
  BY <1>2 DEF For!BlockSize
<1>4. \A t : For!Blocks(t)' = For!Blocks(t)
  BY <1>2, <1>3 DEF For!Blocks
<1>5. \A t, k : For!Block(t, k)' = For!Block(t, k)
  BY <1>1, <1>3, <1>4 DEF For!Block, For!Upto
<1>6. \A t : members'[t] = members[t] => For!ShareSize(t)' = For!ShareSize(t)
  BY <1>2 DEF For!ShareSize
<1>7. \A t, k : members'[t] = members[t] => For!Share(t, k)' = For!Share(t, k)
  BY <1>1, <1>6 DEF For!Share, For!Upto
<1> QED
  BY <1>1, <1>4, <1>5, <1>7 DEF Piece, Pieces

(* The body is executed for one more piece. *)
LEMMA OneMore ==
  ASSUME SplitFromZero, ForTypes, Counts, call' = call, members' = members,
         NEW t \in For!Tasks, NEW k \in 0 .. Pieces(t) - 1, ~ Executed(t, k),
         times' = [i \in For!Iterations |-> times[i] + (IF i \in Piece(t, k) THEN 1 ELSE 0)],
         \A u \in For!Tasks : \A l \in 0 .. Pieces(u) - 1 :
           Executed(u, l)' <=> Executed(u, l) \/ (u = t /\ l = k)
  PROVE  Counts'
<1>1. /\ For!Tasks' = For!Tasks
      /\ \A u, l : Piece(u, l)' = Piece(u, l)
      /\ \A u : Pieces(u)' = Pieces(u)
  BY SamePieces
<1> SUFFICES ASSUME NEW i \in For!Iterations
             PROVE  times'[i] = IF \E u \in For!Tasks : \E l \in 0 .. Pieces(u) - 1 :
                                     Executed(u, l)' /\ i \in Piece(u, l)
                                THEN 1 ELSE 0
  BY <1>1 DEF Counts
<1>2. times[i] = IF \E u \in For!Tasks : \E l \in 0 .. Pieces(u) - 1 : Executed(u, l) /\ i \in Piece(u, l)
                 THEN 1 ELSE 0
  BY DEF Counts
<1>3. times'[i] = times[i] + (IF i \in Piece(t, k) THEN 1 ELSE 0)
  OBVIOUS
<1>4. CASE i \in Piece(t, k)
  <2>1. \A u \in For!Tasks : \A l \in 0 .. Pieces(u) - 1 : i \in Piece(u, l) => u = t /\ l = k
    BY <1>4, PiecesFit
  <2>2. times[i] = 0
    BY <1>2, <2>1
  <2>3. times'[i] = 1
    BY <1>3, <1>4, <2>2
  <2>4. Executed(t, k)'
    OBVIOUS
  <2> QED
    BY <1>4, <2>3, <2>4
<1>5. CASE i \notin Piece(t, k)
  <2>1. times'[i] = times[i]
    BY <1>2, <1>3, <1>5
  <2>2. \A u \in For!Tasks : \A l \in 0 .. Pieces(u) - 1 :
          Executed(u, l)' /\ i \in Piece(u, l) <=> Executed(u, l) /\ i \in Piece(u, l)
    BY <1>5
  <2> QED
    BY <1>2, <2>1, <2>2
<1> QED
  BY <1>4, <1>5

(* The body is not executed. *)
LEMMA NoMore ==
  ASSUME Counts, call' = call, times' = times,
         \A u \in For!Tasks :
           \/ /\ members'[u] = members[u]
              /\ \A l \in 0 .. Pieces(u) - 1 : Executed(u, l)' <=> Executed(u, l)
           \/ /\ \A l \in 0 .. Pieces(u) - 1 : ~ Executed(u, l)
              /\ \A l \in 0 .. Pieces(u)' - 1 : ~ Executed(u, l)'
  PROVE  Counts'
<1>1. For!Tasks' = For!Tasks
  BY SamePieces
<1>2. ASSUME NEW u \in For!Tasks, NEW i
      PROVE  (\E l \in 0 .. Pieces(u)' - 1 : Executed(u, l)' /\ i \in Piece(u, l)')
               <=> (\E l \in 0 .. Pieces(u) - 1 : Executed(u, l) /\ i \in Piece(u, l))
  <2>1. CASE /\ members'[u] = members[u]
             /\ \A l \in 0 .. Pieces(u) - 1 : Executed(u, l)' <=> Executed(u, l)
    <3>1. Pieces(u)' = Pieces(u) /\ \A l : Piece(u, l)' = Piece(u, l)
      BY <2>1, SamePieces
    <3> QED
      BY <2>1, <3>1
  <2> QED
    BY <2>1
<1>3. ASSUME NEW i \in For!Iterations
      PROVE  times'[i] = IF \E u \in For!Tasks : \E l \in 0 .. Pieces(u)' - 1 :
                              Executed(u, l)' /\ i \in Piece(u, l)'
                         THEN 1 ELSE 0
  BY <1>2 DEF Counts
<1> QED
  BY <1>1, <1>3 DEF Counts

(* The members of a place are numbered from zero. *)
LEMMA MembersAreNumbers == For!Member = 0 .. MaxMembers - 1 /\ MaxMembers \in Nat
  BY ForAssumption DEF For!Member, For!Upto, For!ConstantsOK

(* What is said of one task depends on its own variables only. *)
LEMMA ClaimsStay ==
  ASSUME NEW u, Claims(u), call' = call, members'[u] = members[u], next'[u] = next[u],
         forPc'[u] = forPc[u], mine'[u] = mine[u]
  PROVE  Claims(u)' /\ \A l : Executed(u, l)' <=> Executed(u, l)
<1>1. For!Blocks(u)' = For!Blocks(u)
  BY SamePieces
<1> QED
  BY <1>1 DEF Claims, Executed

(* A task gets its place, and with it its shares. *)
LEMMA EnterKeeps ==
  ASSUME ForInv, NEW t \in For!Tasks, NEW w \in 1 .. MaxMembers, For!Enter(t, w)
  PROVE  ForInv'
<1>1. /\ members[t] = 0 /\ members' = [members EXCEPT ![t] = w]
      /\ forPc' = [forPc EXCEPT ![t] = [m \in For!Member |->
                     IF m >= w THEN "off" ELSE IF call.static THEN "share" ELSE "claim"]]
      /\ call' = call /\ next' = next /\ mine' = mine /\ times' = times
  BY DEF For!Enter
<1>2. For!Tasks' = For!Tasks
  BY <1>1, SamePieces
<1>3. ForTypes'
  BY <1>1, <1>2, MembersAreNumbers DEF ForInv, ForTypes, ForLabel
<1>4. next[t] = 0 /\ w \in Nat /\ w > 0 /\ w <= MaxMembers
  BY <1>1, MembersAreNumbers DEF ForInv, Claims
<1>5. /\ members'[t] = w /\ forPc'[t] = [m \in For!Member |->
           IF m >= w THEN "off" ELSE IF call.static THEN "share" ELSE "claim"]
      /\ \A u \in For!Tasks \ {t} : members'[u] = members[u] /\ forPc'[u] = forPc[u]
  BY <1>1 DEF ForInv, ForTypes
<1>6. ASSUME NEW u \in For!Tasks PROVE Claims(u)'
  <2>1. CASE u = t
    BY <1>1, <1>4, <1>5, <2>1, MembersAreNumbers DEF Claims
  <2>2. CASE u # t
    BY <1>1, <1>5, <2>2, ClaimsStay DEF ForInv
  <2> QED
    BY <2>1, <2>2
<1>7. \A l \in 0 .. Pieces(t) - 1 : ~ Executed(t, l)
  <2>1. call.static => Pieces(t) = 0
    BY <1>1 DEF Pieces
  <2> QED
    BY <1>4, <2>1 DEF Executed
<1>8. \A l \in 0 .. Pieces(t)' - 1 : ~ Executed(t, l)'
  <2>1. CASE call.static
    <3>1. Pieces(t)' = w
      BY <1>1, <1>5, <2>1 DEF Pieces
    <3>2. \A l \in 0 .. w - 1 : l \in For!Member
      BY <1>4, MembersAreNumbers
    <3> QED
      BY <1>1, <1>5, <2>1, <3>1, <3>2 DEF Executed
  <2>2. CASE ~ call.static
    BY <1>1, <1>4, <2>2 DEF Executed
  <2> QED
    BY <2>1, <2>2
<1>9. Counts'
  <2>1. ASSUME NEW u \in For!Tasks, u # t
        PROVE  members'[u] = members[u] /\ \A l \in 0 .. Pieces(u) - 1 : Executed(u, l)' <=> Executed(u, l)
    BY <1>1, <1>5, <2>1, ClaimsStay DEF ForInv
  <2> QED
    BY <1>1, <1>7, <1>8, <2>1, NoMore DEF ForInv
<1> QED
  BY <1>2, <1>3, <1>6, <1>9 DEF ForInv

(* A block is claimed: it is not executed before and not after. *)
LEMMA ClaimKeeps ==
  ASSUME ForInv, NEW t \in For!Tasks, NEW m \in For!Member, For!Claim(t, m), SplitFromZero
  PROVE  ForInv'
<1>1. /\ forPc[t][m] = "claim"
      /\ mine' = [mine EXCEPT ![t][m] = next[t]]
      /\ next' = [next EXCEPT ![t] = next[t] + 1]
      /\ forPc' = [forPc EXCEPT ![t][m] = IF next[t] < For!Blocks(t) THEN "run" ELSE "done"]
      /\ call' = call /\ members' = members /\ times' = times
  BY DEF For!Claim, For!Goto
<1>2. For!Tasks' = For!Tasks /\ For!Blocks(t)' = For!Blocks(t)
  BY <1>1, SamePieces
<1>3. ForTypes'
  BY <1>1, <1>2 DEF ForInv, ForTypes, ForLabel
<1>4. PICK n \in Nat, b \in Nat : n = next[t] /\ b = For!Blocks(t)
  <2>1. For!Blocks(t) \in Nat
    BY BlocksFit DEF ForInv, ForTypes
  <2> QED
    BY <2>1 DEF ForInv, ForTypes
<1>5. /\ next'[t] = n + 1 /\ mine'[t][m] = n
      /\ forPc'[t][m] = IF n < b THEN "run" ELSE "done"
      /\ \A l \in For!Member \ {m} : mine'[t][l] = mine[t][l] /\ forPc'[t][l] = forPc[t][l]
      /\ \A u \in For!Tasks \ {t} :
           next'[u] = next[u] /\ forPc'[u] = forPc[u] /\ mine'[u] = mine[u]
  BY <1>1, <1>4 DEF ForInv, ForTypes
<1>6. ~ call.static /\ members[t] # 0 /\ ~ (m >= members[t])
  <2>1. ~ call.static /\ ~ (m >= members[t])
    BY <1>1 DEF ForInv, Claims
  <2> QED
    BY <2>1, MembersAreNumbers
<1>7. Claims(t)'
  <2>1. members'[t] = members[t] /\ call' = call
    BY <1>1
  <2>2. ASSUME NEW l \in For!Member
        PROVE  /\ forPc'[t][l] = "off" <=> l >= members[t]
               /\ forPc'[t][l] # "share"
               /\ forPc'[t][l] = "run" => mine'[t][l] < n + 1 /\ mine'[t][l] < b
               /\ forPc'[t][l] = "done" => b <= n + 1
    <3>1. CASE l = m
      BY <1>4, <1>5, <1>6, <3>1
    <3>2. CASE l # m
      <4>1. mine[t][l] \in Nat
        BY DEF ForInv, ForTypes
      <4> QED
        BY <1>4, <1>5, <1>6, <3>2, <4>1 DEF ForInv, Claims
    <3> QED
      BY <3>1, <3>2
  <2>3. ASSUME NEW l \in For!Member, NEW k \in For!Member, l # k,
               forPc'[t][l] = "run", forPc'[t][k] = "run"
        PROVE  mine'[t][l] # mine'[t][k]
    <3>1. \A j \in For!Member \ {m} : forPc'[t][j] = "run" => mine'[t][j] < n /\ mine'[t][j] \in Nat
      BY <1>4, <1>5 DEF ForInv, Claims, ForTypes
    <3>2. CASE l # m /\ k # m
      BY <1>5, <2>3, <3>2 DEF ForInv, Claims
    <3> QED
      BY <1>5, <2>3, <3>1, <3>2
  <2> QED
    BY <1>2, <1>4, <1>5, <1>6, <2>1, <2>2, <2>3 DEF Claims
<1>8. ASSUME NEW u \in For!Tasks, u # t
      PROVE  Claims(u)' /\ \A l : Executed(u, l)' <=> Executed(u, l)
  BY <1>1, <1>5, <1>8, ClaimsStay DEF ForInv
<1>9. ASSUME NEW l \in 0 .. Pieces(t) - 1 PROVE Executed(t, l)' <=> Executed(t, l)
  <2>1. Pieces(t) = b
    BY <1>4, <1>6 DEF Pieces
  <2>2. l \in Nat /\ l < b
    BY <2>1
  <2>3. /\ Executed(t, l) <=> l < n /\ \A j \in For!Member : ~ (forPc[t][j] = "run" /\ mine[t][j] = l)
        /\ Executed(t, l)' <=> l < n + 1 /\ \A j \in For!Member : ~ (forPc'[t][j] = "run" /\ mine'[t][j] = l)
    BY <1>1, <1>4, <1>5, <1>6 DEF Executed
  <2>4. CASE l < n
    BY <1>1, <1>5, <2>2, <2>3, <2>4
  <2>5. CASE l = n
    BY <1>5, <2>2, <2>3, <2>5
  <2> QED
    BY <2>2, <2>3, <2>4, <2>5
<1>10. Counts'
  <2>1. \A u \in For!Tasks : \A l \in 0 .. Pieces(u) - 1 : Executed(u, l)' <=> Executed(u, l)
    BY <1>8, <1>9
  <2> QED
    BY <1>1, <2>1, NoMore DEF ForInv
<1> QED
  BY <1>2, <1>3, <1>7, <1>8, <1>10 DEF ForInv

(* The block a member has claimed is executed. *)
LEMMA RunBlockKeeps ==
  ASSUME ForInv, NEW t \in For!Tasks, NEW m \in For!Member, For!RunBlock(t, m), SplitFromZero
  PROVE  ForInv'
<1>1. /\ forPc[t][m] = "run"
      /\ times' = [i \in For!Iterations |-> times[i] + (IF i \in For!Block(t, mine[t][m]) THEN 1 ELSE 0)]
      /\ forPc' = [forPc EXCEPT ![t][m] = "claim"]
      /\ call' = call /\ members' = members /\ next' = next /\ mine' = mine
  BY DEF For!RunBlock, For!Goto, For!RunBody
<1>2. For!Tasks' = For!Tasks /\ For!Blocks(t)' = For!Blocks(t)
  BY <1>1, SamePieces
<1>3. ForTypes'
  BY <1>1, <1>2 DEF ForInv, ForTypes, ForLabel
<1>4. PICK n \in Nat, b \in Nat, k \in Nat : n = next[t] /\ b = For!Blocks(t) /\ k = mine[t][m]
  <2>1. For!Blocks(t) \in Nat
    BY BlocksFit DEF ForInv, ForTypes
  <2> QED
    BY <2>1 DEF ForInv, ForTypes
<1>5. ~ call.static /\ k < n /\ k < b
  BY <1>1, <1>4 DEF ForInv, Claims
<1>6. /\ forPc'[t][m] = "claim"
      /\ \A l \in For!Member \ {m} : forPc'[t][l] = forPc[t][l]
      /\ \A u \in For!Tasks \ {t} : forPc'[u] = forPc[u]
  BY <1>1 DEF ForInv, ForTypes
<1>7. Claims(t)'
  BY <1>1, <1>2, <1>5, <1>6 DEF ForInv, Claims
<1>8. ASSUME NEW u \in For!Tasks, u # t
      PROVE  Claims(u)' /\ \A l : Executed(u, l)' <=> Executed(u, l)
  BY <1>1, <1>6, <1>8, ClaimsStay DEF ForInv
<1>9. k \in 0 .. Pieces(t) - 1 /\ ~ Executed(t, k) /\ Piece(t, k) = For!Block(t, mine[t][m])
  <2>1. Pieces(t) = b /\ ~ Executed(t, k) /\ Piece(t, k) = For!Block(t, mine[t][m])
    BY <1>1, <1>4, <1>5 DEF Pieces, Executed, Piece
  <2> QED
    BY <1>5, <2>1
<1>10. ASSUME NEW l \in 0 .. Pieces(t) - 1 PROVE Executed(t, l)' <=> Executed(t, l) \/ l = k
  <2>1. /\ Executed(t, l) <=> l < n /\ \A j \in For!Member : ~ (forPc[t][j] = "run" /\ mine[t][j] = l)
        /\ Executed(t, l)' <=> l < n /\ \A j \in For!Member : ~ (forPc'[t][j] = "run" /\ mine[t][j] = l)
    BY <1>1, <1>4, <1>5 DEF Executed
  <2>2. \A j \in For!Member \ {m} : forPc[t][j] = "run" => mine[t][j] # k
    BY <1>1, <1>4 DEF ForInv, Claims
  <2>3. CASE l = k
    BY <1>5, <1>6, <2>1, <2>2, <2>3
  <2>4. CASE l # k
    BY <1>4, <1>6, <2>1, <2>4
  <2> QED
    BY <2>3, <2>4
<1>11. Counts'
  <2>1. \A u \in For!Tasks : \A l \in 0 .. Pieces(u) - 1 :
          Executed(u, l)' <=> Executed(u, l) \/ (u = t /\ l = k)
    BY <1>8, <1>10
  <2> QED
    BY <1>1, <1>9, <2>1, OneMore DEF ForInv
<1> QED
  BY <1>2, <1>3, <1>7, <1>8, <1>11 DEF ForInv

(* A member executes its share. *)
LEMMA RunShareKeeps ==
  ASSUME ForInv, NEW t \in For!Tasks, NEW m \in For!Member, For!RunShare(t, m), SplitFromZero
  PROVE  ForInv'
<1>1. /\ forPc[t][m] = "share"
      /\ times' = [i \in For!Iterations |-> times[i] + (IF i \in For!Share(t, m) THEN 1 ELSE 0)]
      /\ forPc' = [forPc EXCEPT ![t][m] = "done"]
      /\ call' = call /\ members' = members /\ next' = next /\ mine' = mine
  BY DEF For!RunShare, For!Goto, For!RunBody
<1>2. For!Tasks' = For!Tasks /\ For!Blocks(t)' = For!Blocks(t)
  BY <1>1, SamePieces
<1>3. ForTypes'
  BY <1>1, <1>2 DEF ForInv, ForTypes, ForLabel
<1>4. call.static /\ m < members[t] /\ m \in Nat /\ members[t] \in Nat
  <2>1. call.static /\ ~ (m >= members[t]) /\ members[t] \in 0 .. MaxMembers
    BY <1>1 DEF ForInv, Claims, ForTypes
  <2> QED
    BY <2>1, MembersAreNumbers
<1>5. /\ forPc'[t][m] = "done"
      /\ \A l \in For!Member \ {m} : forPc'[t][l] = forPc[t][l]
      /\ \A u \in For!Tasks \ {t} : forPc'[u] = forPc[u]
  BY <1>1 DEF ForInv, ForTypes
<1>6. Claims(t)'
  BY <1>1, <1>2, <1>4, <1>5 DEF ForInv, Claims
<1>7. ASSUME NEW u \in For!Tasks, u # t
      PROVE  Claims(u)' /\ \A l : Executed(u, l)' <=> Executed(u, l)
  BY <1>1, <1>5, <1>7, ClaimsStay DEF ForInv
<1>8. m \in 0 .. Pieces(t) - 1 /\ ~ Executed(t, m) /\ Piece(t, m) = For!Share(t, m)
  <2>1. Pieces(t) = members[t] /\ ~ Executed(t, m) /\ Piece(t, m) = For!Share(t, m)
    BY <1>1, <1>4 DEF Pieces, Executed, Piece
  <2> QED
    BY <1>4, <2>1
<1>9. ASSUME NEW l \in 0 .. Pieces(t) - 1 PROVE Executed(t, l)' <=> Executed(t, l) \/ l = m
  <2>1. l \in For!Member
    <3>1. Pieces(t) = members[t] /\ members[t] \in 0 .. MaxMembers
      BY <1>4 DEF Pieces, ForInv, ForTypes
    <3> QED
      BY <3>1, MembersAreNumbers
  <2> QED
    BY <1>1, <1>4, <1>5, <2>1 DEF Executed
<1>10. Counts'
  <2>1. \A u \in For!Tasks : \A l \in 0 .. Pieces(u) - 1 :
          Executed(u, l)' <=> Executed(u, l) \/ (u = t /\ l = m)
    BY <1>7, <1>9
  <2> QED
    BY <1>1, <1>8, <2>1, OneMore DEF ForInv
<1> QED
  BY <1>2, <1>3, <1>6, <1>7, <1>10 DEF ForInv

(* Every step of a loop keeps the invariant. *)
LEMMA ForStep ==
  ASSUME SplitFromZero, ForInv, [For!Next]_forVars
  PROVE  ForInv'
<1>1. ASSUME call' = call, members' = members, next' = next, forPc' = forPc, mine' = mine,
             times' = times
      PROVE  ForInv'
  <2>1. For!Tasks' = For!Tasks
    BY <1>1, SamePieces
  <2>2. ForTypes'
    BY <1>1, <2>1 DEF ForInv, ForTypes
  <2>3. \A u \in For!Tasks : Claims(u)' /\ \A l : Executed(u, l)' <=> Executed(u, l)
    BY <1>1, ClaimsStay DEF ForInv
  <2>4. Counts'
    BY <1>1, <2>3, NoMore DEF ForInv
  <2> QED
    BY <2>1, <2>2, <2>3, <2>4 DEF ForInv
<1>2. CASE UNCHANGED forVars
  BY <1>1, <1>2 DEF forVars
<1>3. ASSUME NEW t \in For!Tasks, NEW m \in For!Member, For!NotEnoughWork(t, m) PROVE ForInv'
  BY <1>1, <1>3 DEF For!NotEnoughWork
<1> QED
  BY <1>2, <1>3, EnterKeeps, ClaimKeeps, RunBlockKeeps, RunShareKeeps DEF For!Next

(* Who has left a task has seen all its blocks claimed. *)
LEMMA ForIsCounted == SplitFromZero /\ ForInv => EachIterationOnce
<1> SUFFICES ASSUME SplitFromZero, ForInv PROVE EachIterationOnce
  OBVIOUS
<1>1. ASSUME NEW i \in For!Iterations
      PROVE  times[i] <= IF i \in For!Upto(call.from, call.to) THEN 1 ELSE 0
  <2>1. CASE \E t \in For!Tasks : \E k \in 0 .. Pieces(t) - 1 : Executed(t, k) /\ i \in Piece(t, k)
    <3>1. i \in For!Upto(call.from, call.to)
      BY <2>1, PiecesFit DEF ForInv
    <3>2. times[i] = 1
      BY <2>1 DEF ForInv, Counts
    <3> QED
      BY <3>1, <3>2
  <2>2. CASE ~ \E t \in For!Tasks : \E k \in 0 .. Pieces(t) - 1 : Executed(t, k) /\ i \in Piece(t, k)
    <3>1. times[i] = 0
      BY <2>2 DEF ForInv, Counts
    <3> QED
      BY <3>1
  <2> QED
    BY <2>1, <2>2
<1>2. For!Upto(call.from, call.to) \subseteq For!Iterations
  <2>1. /\ call \in Loops /\ call.from \in Nat /\ call.to \in Nat /\ call.block \in Nat
    BY ForAssumption DEF ForInv, ForTypes, For!ConstantsOK
  <2>2. For!Upto(call.from, call.to) \subseteq For!Upto(0, call.to + call.block)
    BY <2>1 DEF For!Upto
  <2> QED
    BY <2>1, <2>2 DEF For!Iterations
<1>3. ASSUME NEW t \in For!Tasks, For!Over(t), NEW i \in For!Upto(For!Start(t), For!End(t))
      PROVE  times[i] = 1
  <2>1. members[t] > 0 /\ i \in For!Iterations
    BY <1>2, <1>3, PiecesFit DEF For!Over, ForInv
  <2>2. PICK k \in 0 .. Pieces(t) - 1 : i \in Piece(t, k)
    BY <2>1, PiecesFit DEF ForInv
  <2>3. Executed(t, k)
    <3>1. members[t] \in 0 .. MaxMembers
      BY DEF ForInv, ForTypes
    <3>2. CASE call.static
      <4>1. k \in For!Member /\ ~ (k >= members[t])
        BY <3>1, <3>2, MembersAreNumbers DEF Pieces
      <4> QED
        BY <1>3, <3>2, <4>1 DEF For!Over, Executed, ForInv, Claims
    <3>3. CASE ~ call.static
      <4>1. 0 \in For!Member /\ ~ (0 >= members[t])
        BY <2>1, <3>1, MembersAreNumbers
      <4>2. forPc[t][0] = "done"
        BY <1>3, <4>1 DEF For!Over, ForInv, Claims
      <4>3. For!Blocks(t) <= next[t] /\ next[t] \in Nat /\ For!Blocks(t) \in Nat
        BY <3>3, <4>1, <4>2, BlocksFit DEF ForInv, ForTypes, Claims
      <4>4. k < next[t]
        BY <3>3, <4>3 DEF Pieces
      <4>5. \A m \in For!Member : forPc[t][m] # "run"
        BY <1>3 DEF For!Over
      <4> QED
        BY <3>3, <4>4, <4>5 DEF Executed
    <3> QED
      BY <3>2, <3>3
  <2> QED
    BY <2>1, <2>2, <2>3 DEF ForInv, Counts
<1>4. ASSUME \A t \in For!Tasks : For!Over(t), NEW i \in For!Upto(call.from, call.to)
      PROVE  times[i] = 1
  <2>1. PICK t \in For!Tasks : i \in For!Upto(For!Start(t), For!End(t))
    BY PiecesFit DEF ForInv
  <2> QED
    BY <1>3, <1>4, <2>1
<1> QED
  BY <1>1, <1>3, <1>4 DEF EachIterationOnce, For!EachIterationOnce

(* A parallel loop executes its body once for each of its iterations and for no other,
   whatever width the program gave and whatever place the task has got, for any loops of
   which those that are split begin at zero. *)
THEOREM LoopsAreComplete ==
  ASSUME SplitFromZero
  PROVE  Spec => []EachIterationOnce
<1>1. Init => ForInv
  BY ForStarts
<1>2. ForInv /\ [Next]_vars => ForInv'
  <2>1. [Next]_vars => [For!Next]_forVars
    BY DEF Next, vars
  <2> QED
    BY <2>1, ForStep
<1>3. ForInv => EachIterationOnce
  BY ForIsCounted
<1> QED
  BY <1>1, <1>2, <1>3, PTL DEF Spec

-----------------------------------------------------------------------------
(* Recording. *)

(* the sequences of cs one after the other, up to each *)
Joined(cs, n, f) ==
  f = [i \in 1 .. n |-> IF i = 1 THEN cs[i] ELSE f[i - 1] \o cs[i]]

(* cs and ds begin with the same n elements *)
Begins(cs, ds, n) == \A i \in 1 .. n : ds[i] = cs[i]

LEMMA JoinedOnce ==
  ASSUME NEW n \in Nat, NEW cs, NEW ds, NEW f, NEW g, NEW m \in Nat, n <= m,
         Begins(cs, ds, n), Joined(cs, n, f), Joined(ds, m, g)
  PROVE  \A i \in 1 .. n : f[i] = g[i]
<1> DEFINE S == {i \in 1 .. n : f[i] # g[i]}
<1>1. SUFFICES ASSUME S # {} PROVE FALSE
  OBVIOUS
<1>2. PICK i \in S : \A k \in S : i <= k
  <2>1. S \subseteq Nat
    OBVIOUS
  <2> HIDE DEF S
  <2> QED
    BY <1>1, <2>1, Least
<1>3. /\ f[i] = IF i = 1 THEN cs[i] ELSE f[i - 1] \o cs[i]
      /\ g[i] = IF i = 1 THEN ds[i] ELSE g[i - 1] \o ds[i]
  <2>1. \A k \in 1 .. n : f[k] = IF k = 1 THEN cs[k] ELSE f[k - 1] \o cs[k]
    BY DEF Joined
  <2>2. \A k \in 1 .. m : g[k] = IF k = 1 THEN ds[k] ELSE g[k - 1] \o ds[k]
    BY DEF Joined
  <2>3. i \in 1 .. n /\ i \in 1 .. m
    OBVIOUS
  <2> QED
    BY <2>1, <2>2, <2>3
<1>a. ds[i] = cs[i]
  BY DEF Begins
<1>4. i # 1 => i - 1 \in 1 .. n /\ ~ (i <= i - 1)
  OBVIOUS
<1>5. i # 1 => f[i - 1] = g[i - 1]
  BY <1>2, <1>4
<1> QED
  BY <1>3, <1>5, <1>a

LEMMA JoinedExists ==
  ASSUME NEW n \in Nat \ {0}, NEW cs
  PROVE  \E f : Joined(cs, n, f)
<1> DEFINE Built(m) == \E f : Joined(cs, m, f)
           S == {m \in 1 .. n : ~ Built(m)}
<1>1. SUFFICES ASSUME S # {} PROVE FALSE
  <2>1. n \in 1 .. n
    OBVIOUS
  <2> HIDE DEF Built
  <2>2. Built(n)
    BY <2>1
  <2> QED
    BY <2>2 DEF Built
<1>2. PICK m \in S : \A k \in S : m <= k
  <2>1. S \subseteq Nat
    OBVIOUS
  <2> HIDE DEF S
  <2> QED
    BY <1>1, <2>1, Least
<1>3. CASE m = 1
  <2>1. PICK f : f = [i \in 1 .. 1 |-> cs[i]]
    OBVIOUS
  <2>2. \A i \in 1 .. 1 : i = 1
    OBVIOUS
  <2>3. Joined(cs, 1, f)
    BY <2>1, <2>2 DEF Joined
  <2> QED
    BY <1>2, <1>3, <2>3
<1>4. CASE m # 1
  <2>1. m - 1 \in 1 .. n /\ m \in 1 .. n /\ ~ (m <= m - 1)
    BY <1>4
  <2>2. m - 1 \notin S
    BY <1>2, <2>1
  <2>3. PICK f : Joined(cs, m - 1, f)
    BY <2>1, <2>2
  <2>a. PICK v : v = f[m - 1] \o cs[m]
    OBVIOUS
  <2>4. PICK g : g = [i \in 1 .. m |-> IF i = m THEN v ELSE f[i]]
    OBVIOUS
  <2>5. \A i \in 1 .. m - 1 : f[i] = IF i = 1 THEN cs[i] ELSE f[i - 1] \o cs[i]
    BY <2>3 DEF Joined
  <2>6. \A i \in 1 .. m : i = m \/ (i \in 1 .. m - 1 /\ i # m)
    BY <2>1
  <2>7. \A i \in 1 .. m : i = 1 \/ (i - 1 \in 1 .. m /\ i - 1 # m)
    BY <2>1
  <2>8. ASSUME NEW i \in 1 .. m
        PROVE  g[i] = IF i = 1 THEN cs[i] ELSE g[i - 1] \o cs[i]
    <3>1. CASE i = m
      <4>1. g[m] = v
        BY <2>1, <2>4
      <4>2. m - 1 \in 1 .. m /\ m - 1 # m
        BY <2>1
      <4>3. g[m - 1] = f[m - 1]
        BY <2>4, <4>2
      <4> QED
        BY <1>4, <2>a, <3>1, <4>1, <4>3
    <3>2. CASE i # m
      <4>1. g[i] = f[i] /\ i \in 1 .. m - 1
        BY <2>4, <2>6, <3>2
      <4>2. i # 1 => g[i - 1] = f[i - 1]
        BY <2>4, <2>7
      <4> QED
        BY <2>5, <4>1, <4>2
    <3> QED
      BY <3>1, <3>2
  <2>9. Joined(cs, m, g)
    BY <2>4, <2>8 DEF Joined
  <2> QED
    BY <1>2, <2>9
<1> QED
  BY <1>2, <1>3, <1>4

(* FlattenSeq is the last of them. *)
LEMMA Flattening ==
  ASSUME NEW n \in Nat \ {0}, NEW cs, Len(cs) = n
  PROVE  \E f : Joined(cs, n, f) /\ Rec!FlattenSeq(cs) = f[n]
<1>1. \E f : f = [i \in 1 .. n |-> IF i = 1 THEN cs[i] ELSE f[i - 1] \o cs[i]]
  <2>1. \E f : Joined(cs, n, f)
    BY JoinedExists
  <2> QED
    BY <2>1 DEF Joined
<1>2. PICK f : f = CHOOSE g : g = [i \in 1 .. n |-> IF i = 1 THEN cs[i] ELSE g[i - 1] \o cs[i]]
  OBVIOUS
<1>3. Joined(cs, n, f)
  BY <1>1, <1>2 DEF Joined
<1>4. Rec!FlattenSeq(cs) = f[n]
  BY <1>2 DEF Rec!FlattenSeq
<1> QED
  BY <1>3, <1>4

LEMMA OneMoreJoined ==
  ASSUME NEW V, NEW n \in Nat, NEW cs \in Seq(Seq(V)), NEW ds \in Seq(Seq(V)),
         Len(cs) = n, Len(ds) = n + 1, \A i \in 1 .. n : ds[i] = cs[i]
  PROVE  Rec!FlattenSeq(ds) = Rec!FlattenSeq(cs) \o ds[n + 1]
<1>1. n + 1 \in Nat \ {0}
  OBVIOUS
<1>2. PICK g : Joined(ds, n + 1, g) /\ Rec!FlattenSeq(ds) = g[n + 1]
  BY <1>1, Flattening
<1>3. \A k \in 1 .. n + 1 : g[k] = IF k = 1 THEN ds[k] ELSE g[k - 1] \o ds[k]
  BY <1>2 DEF Joined
<1>4. n + 1 \in 1 .. n + 1 /\ (n + 1) - 1 = n
  OBVIOUS
<1>5. CASE n = 0
  <2>1. Rec!FlattenSeq(cs) = cs /\ cs = <<>>
    BY <1>5 DEF Rec!FlattenSeq
  <2>2. ds[1] \in Seq(V) /\ g[1] = ds[1]
    BY <1>3, <1>5
  <2>3. <<>> \o ds[1] = ds[1]
    BY <2>2
  <2> QED
    BY <1>2, <1>5, <2>1, <2>2, <2>3
<1>6. CASE n # 0
  <2>1. PICK f : Joined(cs, n, f) /\ Rec!FlattenSeq(cs) = f[n]
    BY <1>6, Flattening
  <2>2. n <= n + 1 /\ n \in 1 .. n /\ n + 1 # 1
    BY <1>6
  <2>a. Begins(cs, ds, n) /\ n + 1 \in Nat
    BY DEF Begins
  <2>3. \A i \in 1 .. n : f[i] = g[i]
    BY ONLY <1>1, <1>2, <2>1, <2>2, <2>a, JoinedOnce, n \in Nat
  <2>4. g[n + 1] = g[n] \o ds[n + 1]
    BY <1>3, <1>4, <2>2
  <2> QED
    BY <1>2, <2>1, <2>2, <2>3, <2>4
<1> QED
  BY <1>5, <1>6

Run == [job : Jobs, tsc : Nat, time : Nat]
Access == [tsc : Nat, id : Nat, size : Int, kernel : Rec!Kernels \union {0}]

LEMMA AccessesAreThose ==
  ASSUME NEW run \in Run
  PROVE  /\ Rec!AccessesOf(run) \in Seq(Access)
         /\ Len(Rec!AccessesOf(run)) = Len(run.job.blocks)
<1>1. run.job \in Jobs /\ run.tsc \in Nat
  BY DEF Run
<1>2. run.job.blocks \in Seq(Nat \X Int)
  BY <1>1, RecAssumption DEF Rec!ConstantsOK, Rec!Block
<1>3. PICK n \in Nat : n = Len(run.job.blocks)
  BY <1>2
<1>4. \A b \in 1 .. n : /\ run.job.blocks[b][1] \in Nat /\ run.job.blocks[b][2] \in Int
  BY <1>2, <1>3
<1>5. \A b \in 1 .. n : [tsc |-> run.tsc, id |-> run.job.blocks[b][1],
                          size |-> run.job.blocks[b][2], kernel |-> run.job.kernel] \in Access
  BY <1>1, <1>4 DEF Access, Rec!Kernels
<1> QED
  BY <1>3, <1>5 DEF Rec!AccessesOf

LEMMA OneMoreAccess ==
  ASSUME NEW runs \in Seq(Run), NEW run \in Run
  PROVE  Rec!Accesses(Append(runs, run)) = Rec!Accesses(runs) \o Rec!AccessesOf(run)
<1>1. PICK n \in Nat : n = Len(runs)
  OBVIOUS
<1>2. PICK more : more = Append(runs, run)
  OBVIOUS
<1>3. /\ more \in Seq(Run) /\ Len(more) = n + 1 /\ more[n + 1] = run
      /\ \A r \in 1 .. n : more[r] = runs[r] /\ runs[r] \in Run
  BY <1>1, <1>2
<1>4. PICK cs : cs = [r \in 1 .. n |-> Rec!AccessesOf(runs[r])]
  OBVIOUS
<1>5. PICK ds : ds = [r \in 1 .. n + 1 |-> Rec!AccessesOf(more[r])]
  OBVIOUS
<1>6. cs \in Seq(Seq(Access)) /\ Len(cs) = n
  <2>1. \A r \in 1 .. n : Rec!AccessesOf(runs[r]) \in Seq(Access)
    BY <1>3, AccessesAreThose
  <2> QED
    BY <1>4, <2>1
<1>7. ds \in Seq(Seq(Access)) /\ Len(ds) = n + 1
  <2>1. \A r \in 1 .. n + 1 : more[r] \in Run
    BY <1>3
  <2> QED
    <3>1. \A r \in 1 .. n + 1 : Rec!AccessesOf(more[r]) \in Seq(Access)
      BY <2>1, AccessesAreThose
    <3> QED
      BY <1>5, <3>1
<1>8. /\ ds[n + 1] = Rec!AccessesOf(run)
      /\ \A r \in 1 .. n : ds[r] = cs[r]
  BY <1>3, <1>4, <1>5
<1>9. Rec!FlattenSeq(ds) = Rec!FlattenSeq(cs) \o ds[n + 1]
  BY <1>6, <1>7, <1>8, OneMoreJoined
<1> QED
  BY <1>1, <1>2, <1>3, <1>4, <1>5, <1>8, <1>9 DEF Rec!Accesses

LEMMA NoAccess == Rec!Accesses(<<>>) = <<>>
<1>1. PICK cs : cs = [r \in 1 .. 0 |-> Rec!AccessesOf(<<>>[r])]
  OBVIOUS
<1>2. Len(cs) = 0 /\ cs = <<>>
  BY <1>1
<1>3. Rec!FlattenSeq(cs) = cs
  BY <1>2 DEF Rec!FlattenSeq
<1>4. Len(<<>>) = 0
  OBVIOUS
<1> QED
  BY <1>1, <1>2, <1>3, <1>4 DEF Rec!Accesses

(* the cycles of the runs of kernel k, up to each *)
Summed(runs, k, n, f) ==
  f = [r \in 0 .. n |->
        IF r = 0 THEN 0 ELSE f[r - 1] + IF runs[r].job.kernel = k THEN runs[r].time ELSE 0]

LEMMA SummedOnce ==
  ASSUME NEW n \in Nat, NEW m \in Nat, n <= m, NEW runs, NEW more, NEW k, NEW f, NEW g,
         Begins(runs, more, n), Summed(runs, k, n, f), Summed(more, k, m, g)
  PROVE  \A r \in 0 .. n : f[r] = g[r]
<1> DEFINE S == {r \in 0 .. n : f[r] # g[r]}
<1>1. SUFFICES ASSUME S # {} PROVE FALSE
  OBVIOUS
<1>2. PICK r \in S : \A q \in S : r <= q
  <2>1. S \subseteq Nat
    OBVIOUS
  <2> HIDE DEF S
  <2> QED
    BY <1>1, <2>1, Least
<1>3. PICK c, d : /\ c = IF runs[r].job.kernel = k THEN runs[r].time ELSE 0
                  /\ d = IF more[r].job.kernel = k THEN more[r].time ELSE 0
  OBVIOUS
<1>4. /\ f[r] = IF r = 0 THEN 0 ELSE f[r - 1] + c
      /\ g[r] = IF r = 0 THEN 0 ELSE g[r - 1] + d
  <2>1. \A q \in 0 .. n : f[q] = IF q = 0 THEN 0 ELSE f[q - 1]
                                      + IF runs[q].job.kernel = k THEN runs[q].time ELSE 0
    BY DEF Summed
  <2>2. \A q \in 0 .. m : g[q] = IF q = 0 THEN 0 ELSE g[q - 1]
                                      + IF more[q].job.kernel = k THEN more[q].time ELSE 0
    BY DEF Summed
  <2>3. r \in 0 .. n /\ r \in 0 .. m
    OBVIOUS
  <2> QED
    BY <1>3, <2>1, <2>2, <2>3
<1>5. r # 0 => c = d
  BY <1>3 DEF Begins
<1>6. r # 0 => r - 1 \in 0 .. n /\ ~ (r <= r - 1)
  OBVIOUS
<1>7. r # 0 => f[r - 1] = g[r - 1]
  BY <1>2, <1>6
<1> QED
  BY <1>4, <1>5, <1>7

LEMMA SummedExists ==
  ASSUME NEW n \in Nat, NEW runs, NEW k
  PROVE  \E f : Summed(runs, k, n, f)
<1> DEFINE Built(m) == \E f : Summed(runs, k, m, f)
           S == {m \in 0 .. n : ~ Built(m)}
<1>1. SUFFICES ASSUME S # {} PROVE FALSE
  <2>1. n \in 0 .. n
    OBVIOUS
  <2> HIDE DEF Built
  <2>2. Built(n)
    BY <2>1
  <2> QED
    BY <2>2 DEF Built
<1>2. PICK m \in S : \A q \in S : m <= q
  <2>1. S \subseteq Nat
    OBVIOUS
  <2> HIDE DEF S
  <2> QED
    BY <1>1, <2>1, Least
<1>3. CASE m = 0
  <2>1. PICK f : f = [r \in 0 .. 0 |-> 0]
    OBVIOUS
  <2>2. \A r \in 0 .. 0 : r = 0
    OBVIOUS
  <2>3. Summed(runs, k, 0, f)
    BY <2>1, <2>2 DEF Summed
  <2> QED
    BY <1>2, <1>3, <2>3
<1>4. CASE m # 0
  <2>1. m - 1 \in 0 .. n /\ m \in 0 .. n /\ ~ (m <= m - 1)
    BY <1>4
  <2>2. m - 1 \notin S
    BY <1>2, <2>1
  <2>3. PICK f : Summed(runs, k, m - 1, f)
    BY <2>1, <2>2
  <2>4. PICK v : v = f[m - 1] + IF runs[m].job.kernel = k THEN runs[m].time ELSE 0
    OBVIOUS
  <2>5. PICK g : g = [r \in 0 .. m |-> IF r = m THEN v ELSE f[r]]
    OBVIOUS
  <2>6. \A r \in 0 .. m - 1 :
          f[r] = IF r = 0 THEN 0 ELSE f[r - 1]
                   + IF runs[r].job.kernel = k THEN runs[r].time ELSE 0
    BY <2>3 DEF Summed
  <2>7. ASSUME NEW r \in 0 .. m
        PROVE  g[r] = IF r = 0 THEN 0 ELSE g[r - 1]
                        + IF runs[r].job.kernel = k THEN runs[r].time ELSE 0
    <3>1. CASE r = m
      <4>1. g[m] = v
        BY <2>1, <2>5
      <4>2. m - 1 \in 0 .. m /\ m - 1 # m
        BY <1>4, <2>1
      <4>3. g[m - 1] = f[m - 1]
        BY <2>5, <4>2
      <4> QED
        BY <1>4, <2>4, <3>1, <4>1, <4>3
    <3>2. CASE r # m
      <4>1. r \in 0 .. m - 1 /\ g[r] = f[r]
        BY <2>1, <2>5, <3>2
      <4>2. r # 0 => r - 1 \in 0 .. m /\ r - 1 # m
        BY <2>1, <3>2
      <4>3. r # 0 => g[r - 1] = f[r - 1]
        BY <2>5, <4>2
      <4> QED
        BY <2>6, <4>1, <4>3
    <3> QED
      BY <3>1, <3>2
  <2>8. Summed(runs, k, m, g)
    BY <2>5, <2>7 DEF Summed
  <2> QED
    BY <1>2, <2>8
<1> QED
  BY <1>2, <1>3, <1>4

(* CyclesOf is the last of them. *)
LEMMA CyclesAreSummed ==
  ASSUME NEW runs, NEW n \in Nat, Len(runs) = n, NEW k
  PROVE  \E f : Summed(runs, k, n, f) /\ Rec!CyclesOf(runs, k) = f[n]
<1>1. \E f : Summed(runs, k, n, f)
  BY SummedExists
<1>2. PICK f : f = CHOOSE g : g =
        [r \in 0 .. n |->
          IF r = 0 THEN 0 ELSE g[r - 1] + IF runs[r].job.kernel = k THEN runs[r].time ELSE 0]
  OBVIOUS
<1>3. Summed(runs, k, n, f)
  BY <1>1, <1>2 DEF Summed
<1>4. Rec!CyclesOf(runs, k) = f[n]
  BY <1>2 DEF Rec!CyclesOf
<1> QED
  BY <1>3, <1>4

(* A further run adds to the count and the cycles of its kernel. *)
LEMMA OneMoreRun ==
  ASSUME NEW runs \in Seq(Run), NEW run \in Run, NEW k
  PROVE  /\ Rec!CyclesOf(Append(runs, run), k) =
              Rec!CyclesOf(runs, k) + IF run.job.kernel = k THEN run.time ELSE 0
         /\ Cardinality(Rec!RunsOf(runs, k)) \in Nat
         /\ Cardinality(Rec!RunsOf(Append(runs, run), k)) =
              Cardinality(Rec!RunsOf(runs, k)) + IF run.job.kernel = k THEN 1 ELSE 0
<1>1. PICK n \in Nat : n = Len(runs)
  OBVIOUS
<1>2. PICK more : more = Append(runs, run)
  OBVIOUS
<1>3. /\ Len(more) = n + 1 /\ more[n + 1] = run /\ n + 1 \in Nat /\ n <= n + 1
      /\ \A r \in 1 .. n : more[r] = runs[r]
  BY <1>1, <1>2
<1>4. Begins(runs, more, n)
  BY <1>3 DEF Begins
<1>5. PICK f : Summed(runs, k, n, f) /\ Rec!CyclesOf(runs, k) = f[n]
  BY <1>1, CyclesAreSummed
<1>6. PICK g : Summed(more, k, n + 1, g) /\ Rec!CyclesOf(more, k) = g[n + 1]
  BY <1>3, CyclesAreSummed
<1>7. g[n] = f[n]
  <2>1. \A r \in 0 .. n : f[r] = g[r]
    BY ONLY <1>1, <1>3, <1>4, <1>5, <1>6, SummedOnce
  <2> QED
    BY <2>1
<1>8. g[n + 1] = g[n] + IF run.job.kernel = k THEN run.time ELSE 0
  <2>1. \A r \in 0 .. n + 1 :
          g[r] = IF r = 0 THEN 0 ELSE g[r - 1]
                   + IF more[r].job.kernel = k THEN more[r].time ELSE 0
    BY <1>6 DEF Summed
  <2>2. n + 1 \in 0 .. n + 1 /\ n + 1 # 0 /\ (n + 1) - 1 = n
    OBVIOUS
  <2> QED
    BY <1>3, <2>1, <2>2
<1>9. PICK K : K = Rec!RunsOf(runs, k)
  OBVIOUS
<1>10. K = {r \in 1 .. n : runs[r].job.kernel = k}
  BY <1>1, <1>9 DEF Rec!RunsOf
<1>11. IsFiniteSet(K) /\ Cardinality(K) \in Nat /\ n + 1 \notin K
  <2>1. IsFiniteSet(1 .. n)
    BY FS_Interval
  <2>2. K \subseteq 1 .. n
    BY <1>10
  <2>3. IsFiniteSet(K)
    BY <2>1, <2>2, FS_Subset
  <2>4. n + 1 \notin K
    BY <2>2
  <2> QED
    BY <2>3, <2>4, FS_CardinalityType
<1>12. Rec!RunsOf(more, k) = IF run.job.kernel = k THEN K \union {n + 1} ELSE K
  <2>1. Rec!RunsOf(more, k) = {r \in 1 .. n + 1 : more[r].job.kernel = k}
    BY <1>3 DEF Rec!RunsOf
  <2>2. \A r \in 1 .. n + 1 : r \in 1 .. n \/ r = n + 1
    OBVIOUS
  <2>3. \A r \in 1 .. n : r \in 1 .. n + 1 /\ r # n + 1
    OBVIOUS
  <2>4. n + 1 \in 1 .. n + 1
    OBVIOUS
  <2> QED
    BY <1>3, <1>10, <2>1, <2>2, <2>3, <2>4
<1>13. Cardinality(Rec!RunsOf(more, k)) =
         Cardinality(K) + IF run.job.kernel = k THEN 1 ELSE 0
  <2>1. Cardinality(K \union {n + 1}) = Cardinality(K) + 1
    BY <1>11, FS_AddElement
  <2> QED
    BY <1>11, <1>12, <2>1
<1> QED
  BY <1>2, <1>5, <1>6, <1>7, <1>8, <1>9, <1>11, <1>13

(* The invariant. *)
RecTypes ==
  /\ clock \in Nat
  /\ recPc \in [Rec!Thread -> {"idle", "kernel", "time", "load", "num", "trace", "incr"}]
  /\ job \in [Rec!Thread -> Jobs]
  /\ kstart \in [Rec!Thread -> Nat] /\ \A t \in Rec!Thread : kstart[t] <= clock
  /\ reg \in [Rec!Thread -> Int]
  /\ todo \in [Rec!Thread -> Seq(Rec!Block)]
  /\ ran \in [Rec!Thread -> Seq(Run)]
  /\ knum \in [Rec!Indices -> [Rec!Kernels -> Int]]
  /\ ktime \in [Rec!Indices -> [Rec!Kernels -> Int]]
  /\ entries \in [Rec!Indices -> [1 .. Limit -> Access]]
  /\ elems \in [Rec!Indices -> 0 .. Limit]

(* a run is counted when its number is stored, *)
RunsCounted(t) ==
  /\ \A k \in Rec!Kernels :
       Cardinality(Rec!RunsOf(ran[t], k)) =
         knum[Pinned[t]][k]
           + IF recPc[t] \in {"time", "load", "num"} /\ k = job[t].kernel THEN 1 ELSE 0
  /\ recPc[t] = "num" => reg[t] = knum[Pinned[t]][job[t].kernel] + 1

(* and its cycles are before that *)
RunsTimed(t) ==
  /\ recPc[t] = "time" => reg[t] = Rec!CyclesOf(ran[t], job[t].kernel)
  /\ \A k \in Rec!Kernels :
       recPc[t] # "time" \/ k # job[t].kernel =>
         ktime[Pinned[t]][k] = Rec!CyclesOf(ran[t], k)

(* the blocks of the last run that are not in the trace yet *)
Rest(t) ==
  IF recPc[t] \in {"time", "load", "num"} THEN job[t].blocks
  ELSE IF recPc[t] \in {"trace", "incr"} THEN todo[t] ELSE <<>>

EntryOf(t, block) ==
  [tsc |-> kstart[t], id |-> block[1], size |-> block[2], kernel |-> job[t].kernel]

(* the first n of all accesses have been dealt with: the trace holds as many as it can,
   and the rest are those of the run *)
DealtWith(t, all, n) ==
  /\ Len(all) = n + Len(Rest(t))
  /\ elems[Pinned[t]] = IF n < Limit THEN n ELSE Limit
  /\ \A x \in 1 .. elems[Pinned[t]] : entries[Pinned[t]][x] = all[x]
  /\ \A b \in 1 .. Len(Rest(t)) : all[n + b] = EntryOf(t, Rest(t)[b])
  /\ recPc[t] = "incr" =>
       /\ todo[t] # <<>> /\ n < Limit /\ reg[t] = n + 1
       /\ entries[Pinned[t]][n + 1] = all[n + 1]

(* accesses are in the order of time, and the first is not to block 0 *)
InTime(all, time) ==
  /\ all \in Seq(Access)
  /\ \A x \in 1 .. Len(all) : all[x].tsc <= time
  /\ \A x, y \in 1 .. Len(all) : x < y => all[x].tsc <= all[y].tsc
  /\ Len(all) > 0 => all[1].id # 0

Written(t) ==
  /\ InTime(Rec!Accesses(ran[t]), kstart[t])
  /\ \E n \in Nat : DealtWith(t, Rec!Accesses(ran[t]), n)

ThreadInv(t) == RunsCounted(t) /\ RunsTimed(t) /\ Written(t)

SavedInv ==
  saved # Rec!Unsaved =>
    /\ \A t \in Rec!Thread : recPc[t] = "idle"
    /\ saved = [i \in Rec!Indices |-> IF entries[i][1].id # 0
                                      THEN SubSeq(entries[i], 1, elems[i]) ELSE <<>>]

RecInv == RecTypes /\ (\A t \in Rec!Thread : ThreadInv(t)) /\ SavedInv

LEMMA RecFacts ==
  ASSUME NEW t \in Rec!Thread
  PROVE  /\ Pinned[t] \in Rec!Indices /\ Rec!Index(t) = Pinned[t]
         /\ \A u \in Rec!Thread : Pinned[u] = Pinned[t] => u = t
         /\ MaxThreads \in Nat \ {0} /\ Limit \in Nat \ {0}
<1>1. /\ MaxThreads \in Nat \ {0} /\ Limit \in Nat \ {0} /\ Pinned[t] \in 0 .. MaxThreads - 1
      /\ \A u \in Rec!Thread : Pinned[u] = Pinned[t] => u = t
  BY RecAssumption DEF Rec!ConstantsOK, Rec!Indices
<1>2. Pinned[t] % MaxThreads = Pinned[t]
  BY <1>1
<1> QED
  BY <1>1, <1>2 DEF Rec!Indices, Rec!Index

LEMMA JobFacts ==
  ASSUME NEW j \in Jobs
  PROVE  /\ j.kernel \in Rec!Kernels /\ j.blocks \in Seq(Rec!Block)
         /\ j.blocks # <<>> => j.blocks[1][1] # 0
BY RecAssumption DEF Rec!ConstantsOK, Rec!Kernels

(* Steps of t leave what belongs to the other threads alone. *)
Others(t) ==
  \A u \in Rec!Thread \ {t} :
    /\ recPc'[u] = recPc[u] /\ job'[u] = job[u] /\ kstart'[u] = kstart[u]
    /\ reg'[u] = reg[u] /\ todo'[u] = todo[u] /\ ran'[u] = ran[u]
    /\ knum'[Pinned[u]] = knum[Pinned[u]] /\ ktime'[Pinned[u]] = ktime[Pinned[u]]
    /\ entries'[Pinned[u]] = entries[Pinned[u]] /\ elems'[Pinned[u]] = elems[Pinned[u]]

LEMMA OthersStay ==
  ASSUME NEW t, Others(t), NEW u \in Rec!Thread \ {t}, ThreadInv(u)
  PROVE  ThreadInv(u)'
<1>1. /\ recPc'[u] = recPc[u] /\ job'[u] = job[u] /\ kstart'[u] = kstart[u]
      /\ reg'[u] = reg[u] /\ todo'[u] = todo[u] /\ ran'[u] = ran[u]
      /\ knum'[Pinned[u]] = knum[Pinned[u]] /\ ktime'[Pinned[u]] = ktime[Pinned[u]]
      /\ entries'[Pinned[u]] = entries[Pinned[u]] /\ elems'[Pinned[u]] = elems[Pinned[u]]
  BY DEF Others
<1>2. RunsCounted(u)'
  BY <1>1 DEF ThreadInv, RunsCounted
<1>3. RunsTimed(u)'
  BY <1>1 DEF ThreadInv, RunsTimed
<1>4. Written(u)'
  <2>1. PICK n \in Nat : DealtWith(u, Rec!Accesses(ran[u]), n)
    BY DEF ThreadInv, Written
  <2>2. Rest(u)' = Rest(u)
    BY <1>1 DEF Rest
  <2>3. DealtWith(u, Rec!Accesses(ran[u]), n)'
    BY <1>1, <2>1, <2>2 DEF DealtWith, EntryOf
  <2> QED
    BY <1>1, <2>3 DEF ThreadInv, Written
<1> QED
  BY <1>2, <1>3, <1>4 DEF ThreadInv

LEMMA RecStarts == Init => RecInv
<1> SUFFICES ASSUME Init PROVE RecInv
  OBVIOUS
<1> USE DEF Init, Rec!Init
<1>1. RecTypes
  <2>1. Rec!Zero \in Access
    BY DEF Access, Rec!Zero
  <2>2. (CHOOSE j \in Jobs : TRUE) \in Jobs
    BY RecAssumption DEF Rec!ConstantsOK
  <2>3. Limit \in Nat
    BY RecAssumption DEF Rec!ConstantsOK
  <2> QED
    BY <2>1, <2>2, <2>3 DEF RecTypes
<1>2. ASSUME NEW t \in Rec!Thread PROVE ThreadInv(t)
  <2>1. /\ recPc[t] = "idle" /\ ran[t] = <<>> /\ Pinned[t] \in Rec!Indices
        /\ elems[Pinned[t]] = 0 /\ kstart[t] \in Nat /\ Limit \in Nat \ {0}
    BY RecFacts
  <2>2. \A k \in Rec!Kernels : ktime[Pinned[t]][k] = 0 /\ knum[Pinned[t]][k] = 0
    BY <2>1
  <2>3. ASSUME NEW k PROVE Rec!CyclesOf(<<>>, k) = 0 /\ Cardinality(Rec!RunsOf(<<>>, k)) = 0
    <3>1. Rec!RunsOf(<<>>, k) = {}
      BY DEF Rec!RunsOf
    <3>2. PICK f : Summed(<<>>, k, 0, f) /\ Rec!CyclesOf(<<>>, k) = f[0]
      BY CyclesAreSummed
    <3>3. f[0] = 0
      BY <3>2 DEF Summed
    <3> QED
      BY <3>1, <3>2, <3>3, FS_EmptySet
  <2>4. RunsCounted(t)
    BY <2>1, <2>2, <2>3 DEF RunsCounted
  <2>5. RunsTimed(t)
    BY <2>1, <2>2, <2>3 DEF RunsTimed
  <2>6. Rest(t) = <<>>
    BY <2>1 DEF Rest
  <2>7. InTime(<<>>, kstart[t]) /\ DealtWith(t, <<>>, 0)
    BY <2>1, <2>6 DEF InTime, DealtWith
  <2>8. Written(t)
    BY <2>1, <2>7, NoAccess DEF Written
  <2> QED
    BY <2>4, <2>5, <2>8 DEF ThreadInv
<1>3. SavedInv
  BY DEF SavedInv
<1> QED
  BY <1>1, <1>2, <1>3 DEF RecInv

LEMMA StartKeeps ==
  ASSUME RecInv, NEW t \in Rec!Thread, NEW j \in Jobs, Rec!ProfileStart(t, j)
  PROVE  RecTypes' /\ ThreadInv(t)' /\ Others(t)
<1> USE DEF Rec!ProfileStart, Rec!Goto
<1>1. RecTypes'
  BY DEF RecInv, RecTypes
<1>2. /\ recPc[t] = "idle" /\ recPc'[t] = "kernel" /\ ran'[t] = ran[t]
      /\ kstart'[t] = clock + 1 /\ kstart[t] \in Nat /\ kstart[t] <= clock /\ clock \in Nat
  BY DEF RecInv, RecTypes
<1>3. Others(t)
  BY DEF Others, RecInv, RecTypes
<1>4. RunsCounted(t)' /\ RunsTimed(t)'
  BY <1>2 DEF RecInv, ThreadInv, RunsCounted, RunsTimed
<1>5. Written(t)'
  <2>1. PICK all : all = Rec!Accesses(ran[t])
    OBVIOUS
  <2>2. PICK n \in Nat : DealtWith(t, all, n)
    BY <2>1 DEF RecInv, ThreadInv, Written
  <2>3. Rest(t) = <<>> /\ Rest(t)' = <<>>
    BY <1>2 DEF Rest
  <2>4. DealtWith(t, all, n)'
    BY <1>2, <2>2, <2>3 DEF DealtWith
  <2>5. InTime(all, clock + 1)
    <3>1. InTime(all, kstart[t])
      BY <2>1 DEF RecInv, ThreadInv, Written
    <3>2. \A x \in 1 .. Len(all) : all[x] \in Access
      BY <3>1 DEF InTime
    <3>3. \A x \in 1 .. Len(all) : all[x].tsc \in Nat
      BY <3>2 DEF Access
    <3>4. \A x \in 1 .. Len(all) : all[x].tsc <= kstart[t]
      BY <3>1 DEF InTime
    <3>5. \A x \in 1 .. Len(all) : all[x].tsc <= clock + 1
      BY <1>2, <3>3, <3>4
    <3> QED
      BY <3>1, <3>5 DEF InTime
  <2> QED
    BY <1>2, <2>1, <2>4, <2>5 DEF Written
<1> QED
  BY <1>1, <1>3, <1>4, <1>5 DEF ThreadInv

LEMMA StopKeeps ==
  ASSUME RecInv, NEW t \in Rec!Thread, Rec!ProfileStop(t)
  PROVE  RecTypes' /\ ThreadInv(t)' /\ Others(t)
<1> USE DEF Rec!ProfileStop, Rec!Goto
<1>1. PICK run : run = [job |-> job[t], tsc |-> kstart[t], time |-> clock + 1 - kstart[t]]
  OBVIOUS
<1>2. /\ run \in Run /\ run.job = job[t] /\ run.tsc = kstart[t]
      /\ run.time = clock + 1 - kstart[t] /\ run.time \in Nat
  BY <1>1 DEF Run, RecInv, RecTypes
<1>3. PICK runs \in Seq(Run) : runs = ran[t]
  BY DEF RecInv, RecTypes
<1>4. /\ recPc[t] = "kernel" /\ recPc'[t] = "time" /\ ran'[t] = Append(runs, run)
      /\ job'[t] = job[t] /\ kstart'[t] = kstart[t] /\ job[t] \in Jobs
      /\ job[t].kernel \in Rec!Kernels /\ kstart[t] \in Nat
  BY <1>1, <1>3, JobFacts DEF RecInv, RecTypes
<1>5. /\ reg'[t] = ktime[Pinned[t]][job[t].kernel] + run.time
      /\ ktime[Pinned[t]][job[t].kernel] \in Int
  BY <1>1, <1>4, RecFacts DEF RecInv, RecTypes
<1>6. RecTypes'
  <2>1. ran' \in [Rec!Thread -> Seq(Run)]
    <3>1. Append(ran[t], run) \in Seq(Run)
      BY <1>2, <1>3
    <3> QED
      BY <1>1, <3>1 DEF RecInv, RecTypes
  <2>2. reg' \in [Rec!Thread -> Int]
    <3>1. ktime[Rec!Index(t)][job[t].kernel] + (clock + 1 - kstart[t]) \in Int
      BY <1>1, <1>2, <1>5, RecFacts
    <3> QED
      BY <3>1 DEF RecInv, RecTypes
  <2>3. clock' \in Nat /\ \A u \in Rec!Thread : kstart'[u] <= clock'
    BY DEF RecInv, RecTypes
  <2>4. recPc' \in [Rec!Thread -> {"idle", "kernel", "time", "load", "num", "trace", "incr"}]
    BY DEF RecInv, RecTypes
  <2> QED
    BY <2>1, <2>2, <2>3, <2>4 DEF RecInv, RecTypes
<1>7. Others(t)
  BY DEF Others, RecInv, RecTypes
<1>8. RunsCounted(t)'
  <2>1. ASSUME NEW k \in Rec!Kernels
        PROVE  Cardinality(Rec!RunsOf(Append(runs, run), k)) =
                 knum[Pinned[t]][k] + IF k = job[t].kernel THEN 1 ELSE 0
    <3>1. Cardinality(Rec!RunsOf(runs, k)) = knum[Pinned[t]][k]
      <4>1. knum[Pinned[t]][k] \in Int
        BY RecFacts DEF RecInv, RecTypes
      <4> QED
        BY <1>3, <1>4, <4>1 DEF RecInv, ThreadInv, RunsCounted
    <3> QED
      BY <1>2, <3>1, OneMoreRun
  <2> QED
    BY <1>4, <2>1 DEF RunsCounted
<1>9. RunsTimed(t)'
  <2>1. ASSUME NEW k \in Rec!Kernels
        PROVE  Rec!CyclesOf(Append(runs, run), k) =
                 ktime[Pinned[t]][k] + IF k = job[t].kernel THEN run.time ELSE 0
    <3>1. Rec!CyclesOf(runs, k) = ktime[Pinned[t]][k]
      BY <1>3, <1>4 DEF RecInv, ThreadInv, RunsTimed
    <3> QED
      BY <1>2, <3>1, OneMoreRun
  <2>2. \A k \in Rec!Kernels : ktime[Pinned[t]][k] \in Int
    BY RecFacts DEF RecInv, RecTypes
  <2>3. reg'[t] = Rec!CyclesOf(ran'[t], job'[t].kernel)
    BY <1>4, <1>5, <2>1
  <2>4. \A k \in Rec!Kernels : k # job[t].kernel =>
          ktime'[Pinned[t]][k] = Rec!CyclesOf(ran'[t], k)
    <3> SUFFICES ASSUME NEW k \in Rec!Kernels, k # job[t].kernel
                 PROVE  ktime'[Pinned[t]][k] = Rec!CyclesOf(ran'[t], k)
      OBVIOUS
    <3>1. Rec!CyclesOf(Append(runs, run), k) = ktime[Pinned[t]][k] + 0
      BY <2>1
    <3>2. Rec!CyclesOf(Append(runs, run), k) = ktime[Pinned[t]][k]
      BY <2>2, <3>1
    <3> QED
      BY <1>4, <3>2
  <2> QED
    BY <1>4, <2>3, <2>4 DEF RunsTimed
<1>10. Written(t)'
  <2>1. PICK all : all = Rec!Accesses(runs)
    OBVIOUS
  <2>2. PICK n \in Nat : DealtWith(t, all, n)
    BY <1>3, <2>1 DEF RecInv, ThreadInv, Written
  <2>3. Rest(t) = <<>> /\ Rest(t)' = job[t].blocks
    BY <1>4 DEF Rest
  <2>4. PICK new : new = Rec!AccessesOf(run)
    OBVIOUS
  <2>5. PICK l \in Nat : l = Len(job[t].blocks)
    BY <1>4, JobFacts
  <2>6. /\ new \in Seq(Access) /\ Len(new) = l
        /\ \A b \in 1 .. l : new[b] = EntryOf(t, job[t].blocks[b])
    <3>1. new \in Seq(Access) /\ Len(new) = l
      BY <1>2, <2>4, <2>5, AccessesAreThose
    <3>2. \A b \in 1 .. l : new[b] = [tsc |-> run.tsc, id |-> run.job.blocks[b][1],
                                    size |-> run.job.blocks[b][2], kernel |-> run.job.kernel]
      BY <1>2, <2>4, <2>5 DEF Rec!AccessesOf
    <3> QED
      BY <1>2, <3>1, <3>2 DEF EntryOf
  <2>7. InTime(all, kstart[t]) /\ all \in Seq(Access) /\ Len(all) = n
    <3>1. InTime(all, kstart[t])
      BY <1>3, <2>1 DEF RecInv, ThreadInv, Written
    <3>2. Len(all) = n + 0
      BY <2>2, <2>3 DEF DealtWith
    <3> QED
      BY <3>1, <3>2 DEF InTime
  <2>8. PICK more : more = all \o new
    OBVIOUS
  <2>9. /\ more \in Seq(Access) /\ Len(more) = n + l
        /\ \A x \in 1 .. n : more[x] = all[x]
        /\ \A b \in 1 .. l : more[n + b] = new[b]
    <3>1. all \in Seq(Access) /\ new \in Seq(Access) /\ Len(all) = n /\ Len(new) = l
      BY <2>6, <2>7
    <3>a. more \in Seq(Access)
      BY <2>8, <3>1
    <3>b. Len(more) = Len(all) + Len(new)
      BY ONLY <2>8, <3>1, ConcatProperties
    <3>2. more \in Seq(Access) /\ Len(more) = n + l
      BY <3>1, <3>a, <3>b
    <3>3. \A x \in 1 .. n : more[x] = all[x]
      BY ONLY <2>8, <3>1, n \in Nat, l \in Nat
    <3>4. ASSUME NEW b \in 1 .. l PROVE more[n + b] = new[b]
      <4>1. n + b \in 1 .. n + l /\ ~ (n + b <= n) /\ (n + b) - n = b
        OBVIOUS
      <4>2. \A i \in 1 .. n + l : more[i] = IF i <= n THEN all[i] ELSE new[i - n]
        BY ONLY <2>8, <3>1, ConcatProperties
      <4>3. more[n + b] = new[(n + b) - n]
        BY <4>1, <4>2
      <4> QED
        BY <4>1, <4>3
    <3> QED
      BY <3>2, <3>3, <3>4
  <2>10. Rec!Accesses(ran[t])' = more
    BY <1>2, <1>4, <2>1, <2>4, <2>8, OneMoreAccess
  <2>11. InTime(more, kstart[t])
    <3>1. \A x \in 1 .. n + l : x \in 1 .. n \/ (x - n \in 1 .. l /\ more[x] = new[x - n])
      <4>1. ASSUME NEW x \in 1 .. n + l, x \notin 1 .. n PROVE x - n \in 1 .. l /\ n + (x - n) = x
        BY <4>1
      <4> QED
        BY <2>9, <4>1
    <3>2. \A b \in 1 .. l : new[b].tsc = kstart[t]
      BY <2>6 DEF EntryOf
    <3>3. \A x \in 1 .. n : all[x].tsc <= kstart[t] /\ all[x].tsc \in Nat
      <4>1. \A x \in 1 .. n : all[x] \in Access
        BY <2>7
      <4>2. \A x \in 1 .. n : all[x].tsc <= kstart[t]
        BY <2>7 DEF InTime
      <4> QED
        BY <4>1, <4>2 DEF Access
    <3>4. \A x, y \in 1 .. n : x < y => all[x].tsc <= all[y].tsc
      BY <2>7 DEF InTime
    <3>5. \A x \in 1 .. n + l : more[x].tsc <= kstart[t]
      <4> SUFFICES ASSUME NEW x \in 1 .. n + l PROVE more[x].tsc <= kstart[t]
        OBVIOUS
      <4>1. CASE x \in 1 .. n
        BY <2>9, <3>3, <4>1
      <4>2. CASE x \notin 1 .. n
        <5>1. more[x].tsc = kstart[t]
          BY ONLY <3>1, <3>2, <4>2, x \in 1 .. n + l
        <5> QED
          BY <1>4, <5>1
      <4> QED
        BY <4>1, <4>2
    <3>6. \A x, y \in 1 .. n + l : x < y => more[x].tsc <= more[y].tsc
      <4> SUFFICES ASSUME NEW x \in 1 .. n + l, NEW y \in 1 .. n + l, x < y
                   PROVE  more[x].tsc <= more[y].tsc
        OBVIOUS
      <4>1. CASE y \in 1 .. n
        <5>1. x \in 1 .. n
          BY <4>1
        <5> QED
          BY <2>9, <3>4, <4>1, <5>1
      <4>2. CASE y \notin 1 .. n
        BY <3>1, <3>2, <3>5, <4>2
      <4> QED
        BY <4>1, <4>2
    <3>7. n + l > 0 => more[1].id # 0
      <4>1. CASE n > 0
        <5>1. 1 \in 1 .. n
          BY <4>1
        <5> QED
          BY <2>7, <2>9, <4>1, <5>1 DEF InTime
      <4>2. CASE n = 0 /\ l > 0
        <5>1. 1 \in 1 .. l /\ job[t].blocks # <<>>
          BY <2>5, <4>2
        <5>2. more[1] = EntryOf(t, job[t].blocks[1])
          BY <2>6, <2>9, <4>2, <5>1
        <5> QED
          BY <1>4, <5>1, <5>2, JobFacts DEF EntryOf
      <4> QED
        BY <4>1, <4>2
    <3> QED
      BY <2>9, <3>5, <3>6, <3>7 DEF InTime
  <2>12. DealtWith(t, more, n)'
    <3>1. elems[Pinned[t]] = IF n < Limit THEN n ELSE Limit
      BY <2>2 DEF DealtWith
    <3>2. \A x \in 1 .. elems[Pinned[t]] : x \in 1 .. n /\ entries[Pinned[t]][x] = more[x]
      BY <2>2, <2>9, <3>1, RecFacts DEF DealtWith
    <3>3. \A b \in 1 .. l : more[n + b] = EntryOf(t, job[t].blocks[b])'
      BY <1>4, <2>6, <2>9 DEF EntryOf
    <3> QED
      BY <1>4, <2>3, <2>5, <2>9, <3>1, <3>2, <3>3 DEF DealtWith
  <2> QED
    BY <1>4, <2>10, <2>11, <2>12 DEF Written
<1> QED
  BY <1>6, <1>7, <1>8, <1>9, <1>10 DEF ThreadInv

(* The counters. *)
LEMMA StoreTimeKeeps ==
  ASSUME RecInv, NEW t \in Rec!Thread, Rec!StoreTime(t)
  PROVE  RecTypes' /\ ThreadInv(t)' /\ Others(t)
<1> USE DEF Rec!StoreTime, Rec!Goto
<1>1. /\ recPc[t] = "time" /\ recPc'[t] = "load" /\ ran'[t] = ran[t] /\ job'[t] = job[t]
      /\ job[t] \in Jobs /\ job[t].kernel \in Rec!Kernels
      /\ Rec!Index(t) = Pinned[t] /\ Pinned[t] \in Rec!Indices
      /\ knum' = knum /\ entries' = entries /\ elems' = elems /\ kstart' = kstart /\ todo' = todo
  BY JobFacts, RecFacts DEF RecInv, RecTypes
<1>2. PICK cycles : cycles = [ktime[Pinned[t]] EXCEPT ![job[t].kernel] = reg[t]]
  OBVIOUS
<1>3. /\ cycles \in [Rec!Kernels -> Int] /\ cycles[job[t].kernel] = reg[t]
      /\ \A k \in Rec!Kernels : k # job[t].kernel => cycles[k] = ktime[Pinned[t]][k]
  BY <1>1, <1>2 DEF RecInv, RecTypes
<1>4. ktime' = [ktime EXCEPT ![Pinned[t]] = cycles]
  BY <1>1, <1>2
<1>5. RecTypes'
  <2>1. ktime' \in [Rec!Indices -> [Rec!Kernels -> Int]]
    BY <1>3, <1>4 DEF RecInv, RecTypes
  <2> QED
    BY <2>1 DEF RecInv, RecTypes
<1>6. Others(t)
  <2>1. \A u \in Rec!Thread \ {t} : Pinned[u] # Pinned[t] /\ Pinned[u] \in Rec!Indices
    BY RecFacts
  <2>2. ASSUME NEW u \in Rec!Thread \ {t} PROVE ktime'[Pinned[u]] = ktime[Pinned[u]]
    BY <1>4, <2>1 DEF RecInv, RecTypes
  <2> QED
    BY <2>2 DEF Others, RecInv, RecTypes
<1>7. RunsCounted(t)'
  BY <1>1 DEF RecInv, ThreadInv, RunsCounted
<1>8. RunsTimed(t)'
  <2>1. ktime'[Pinned[t]] = cycles
    BY <1>1, <1>4 DEF RecInv, RecTypes
  <2> QED
    BY <1>1, <1>3, <2>1 DEF RecInv, ThreadInv, RunsTimed
<1>9. Written(t)'
  <2>1. PICK n \in Nat : DealtWith(t, Rec!Accesses(ran[t]), n)
    BY DEF RecInv, ThreadInv, Written
  <2>2. Rest(t)' = Rest(t)
    BY <1>1 DEF Rest
  <2>3. DealtWith(t, Rec!Accesses(ran[t]), n)'
    BY <1>1, <2>1, <2>2 DEF DealtWith, EntryOf
  <2> QED
    BY <1>1, <2>3 DEF RecInv, ThreadInv, Written
<1> QED
  BY <1>5, <1>6, <1>7, <1>8, <1>9 DEF ThreadInv

LEMMA LoadNumKeeps ==
  ASSUME RecInv, NEW t \in Rec!Thread, Rec!LoadNum(t)
  PROVE  RecTypes' /\ ThreadInv(t)' /\ Others(t)
<1> USE DEF Rec!LoadNum, Rec!Goto
<1>1. /\ recPc[t] = "load" /\ recPc'[t] = "num" /\ ran'[t] = ran[t] /\ job'[t] = job[t]
      /\ job[t] \in Jobs /\ job[t].kernel \in Rec!Kernels
      /\ Rec!Index(t) = Pinned[t] /\ Pinned[t] \in Rec!Indices
      /\ knum' = knum /\ ktime' = ktime /\ entries' = entries /\ elems' = elems
      /\ kstart' = kstart /\ todo' = todo
  BY JobFacts, RecFacts DEF RecInv, RecTypes
<1>2. knum[Pinned[t]][job[t].kernel] \in Int /\ reg'[t] = knum[Pinned[t]][job[t].kernel] + 1
  BY <1>1 DEF RecInv, RecTypes
<1>3. RecTypes'
  <2>1. reg' \in [Rec!Thread -> Int]
    BY <1>1, <1>2 DEF RecInv, RecTypes
  <2> QED
    BY <2>1 DEF RecInv, RecTypes
<1>4. Others(t)
  BY DEF Others, RecInv, RecTypes
<1>5. RunsCounted(t)'
  BY <1>1, <1>2 DEF RecInv, ThreadInv, RunsCounted
<1>6. RunsTimed(t)'
  BY <1>1 DEF RecInv, ThreadInv, RunsTimed
<1>7. Written(t)'
  <2>1. PICK n \in Nat : DealtWith(t, Rec!Accesses(ran[t]), n)
    BY DEF RecInv, ThreadInv, Written
  <2>2. Rest(t)' = Rest(t)
    BY <1>1 DEF Rest
  <2>3. DealtWith(t, Rec!Accesses(ran[t]), n)'
    BY <1>1, <2>1, <2>2 DEF DealtWith, EntryOf
  <2> QED
    BY <1>1, <2>3 DEF RecInv, ThreadInv, Written
<1> QED
  BY <1>3, <1>4, <1>5, <1>6, <1>7 DEF ThreadInv

LEMMA StoreNumKeeps ==
  ASSUME RecInv, NEW t \in Rec!Thread, Rec!StoreNum(t)
  PROVE  RecTypes' /\ ThreadInv(t)' /\ Others(t)
<1> USE DEF Rec!StoreNum, Rec!Goto
<1>1. /\ recPc[t] = "num" /\ recPc'[t] = "trace" /\ ran'[t] = ran[t] /\ job'[t] = job[t]
      /\ job[t] \in Jobs /\ job[t].kernel \in Rec!Kernels /\ job[t].blocks \in Seq(Rec!Block)
      /\ Rec!Index(t) = Pinned[t] /\ Pinned[t] \in Rec!Indices
      /\ ktime' = ktime /\ entries' = entries /\ elems' = elems
      /\ kstart' = kstart /\ todo'[t] = job[t].blocks
  BY JobFacts, RecFacts DEF RecInv, RecTypes
<1>2. PICK nums : nums = [knum[Pinned[t]] EXCEPT ![job[t].kernel] = reg[t]]
  OBVIOUS
<1>3. /\ nums \in [Rec!Kernels -> Int] /\ nums[job[t].kernel] = reg[t]
      /\ \A k \in Rec!Kernels : k # job[t].kernel => nums[k] = knum[Pinned[t]][k]
  BY <1>1, <1>2 DEF RecInv, RecTypes
<1>4. knum' = [knum EXCEPT ![Pinned[t]] = nums]
  BY <1>1, <1>2
<1>5. RecTypes'
  <2>1. knum' \in [Rec!Indices -> [Rec!Kernels -> Int]]
    BY <1>3, <1>4 DEF RecInv, RecTypes
  <2>2. todo' \in [Rec!Thread -> Seq(Rec!Block)]
    BY <1>1 DEF RecInv, RecTypes
  <2> QED
    BY <2>1, <2>2 DEF RecInv, RecTypes
<1>6. Others(t)
  <2>1. \A u \in Rec!Thread \ {t} : Pinned[u] # Pinned[t] /\ Pinned[u] \in Rec!Indices
    BY RecFacts
  <2>2. ASSUME NEW u \in Rec!Thread \ {t} PROVE knum'[Pinned[u]] = knum[Pinned[u]]
    BY <1>4, <2>1 DEF RecInv, RecTypes
  <2> QED
    BY <2>2 DEF Others, RecInv, RecTypes
<1>7. RunsCounted(t)'
  <2>1. knum'[Pinned[t]] = nums
    BY <1>1, <1>4 DEF RecInv, RecTypes
  <2>2. \A k \in Rec!Kernels : nums[k] \in Int
    BY <1>3
  <2>3. \A k \in Rec!Kernels : Cardinality(Rec!RunsOf(ran[t], k)) = nums[k]
    <3> SUFFICES ASSUME NEW k \in Rec!Kernels PROVE Cardinality(Rec!RunsOf(ran[t], k)) = nums[k]
      OBVIOUS
    <3>1. knum[Pinned[t]][k] \in Int
      BY <1>1 DEF RecInv, RecTypes
    <3>2. /\ Cardinality(Rec!RunsOf(ran[t], k)) =
               knum[Pinned[t]][k] + IF k = job[t].kernel THEN 1 ELSE 0
          /\ reg[t] = knum[Pinned[t]][job[t].kernel] + 1
      BY <1>1 DEF RecInv, ThreadInv, RunsCounted
    <3> QED
      BY <1>3, <3>1, <3>2
  <2>4. ASSUME NEW k \in Rec!Kernels
        PROVE  Cardinality(Rec!RunsOf(ran'[t], k)) = knum'[Pinned[t]][k] + 0
    <3>1. nums[k] + 0 = nums[k]
      BY <2>2
    <3>2. Cardinality(Rec!RunsOf(ran'[t], k)) = nums[k]
      BY <1>1, <2>3
    <3> QED
      BY <2>1, <3>1, <3>2
  <2> QED
    BY <1>1, <2>4 DEF RunsCounted
<1>8. RunsTimed(t)'
  BY <1>1 DEF RecInv, ThreadInv, RunsTimed
<1>9. Written(t)'
  <2>1. PICK n \in Nat : DealtWith(t, Rec!Accesses(ran[t]), n)
    BY DEF RecInv, ThreadInv, Written
  <2>2. Rest(t)' = Rest(t)
    BY <1>1 DEF Rest
  <2>3. DealtWith(t, Rec!Accesses(ran[t]), n)'
    BY <1>1, <2>1, <2>2 DEF DealtWith, EntryOf
  <2> QED
    BY <1>1, <2>3 DEF RecInv, ThreadInv, Written
<1> QED
  BY <1>5, <1>6, <1>7, <1>8, <1>9 DEF ThreadInv

(* The trace. *)
LEMMA WriteEntryKeeps ==
  ASSUME RecInv, NEW t \in Rec!Thread, Rec!WriteEntry(t)
  PROVE  RecTypes' /\ ThreadInv(t)' /\ Others(t)
<1> USE DEF Rec!WriteEntry, Rec!Goto
<1>1. /\ recPc[t] = "trace" /\ recPc'[t] = "incr" /\ ran'[t] = ran[t] /\ job'[t] = job[t]
      /\ job[t] \in Jobs /\ job[t].kernel \in Rec!Kernels
      /\ Rec!Index(t) = Pinned[t] /\ Pinned[t] \in Rec!Indices
      /\ ktime' = ktime /\ knum' = knum /\ elems' = elems
      /\ kstart' = kstart /\ kstart[t] \in Nat /\ todo' = todo
  BY JobFacts, RecFacts DEF RecInv, RecTypes
<1>2. PICK e \in Nat : e = elems[Pinned[t]]
  BY <1>1, RecFacts DEF RecInv, RecTypes
<1>3. e < Limit /\ Limit \in Nat /\ e + 1 \in 1 .. Limit /\ todo[t] # <<>>
  BY <1>1, <1>2, RecFacts
<1>4. PICK entry : entry = EntryOf(t, Head(todo[t]))
  OBVIOUS
<1>5. entry \in Access
  <2>1. Head(todo[t]) \in Nat \X Int
    BY <1>3 DEF RecInv, RecTypes, Rec!Block
  <2> QED
    BY <1>1, <1>4, <2>1 DEF EntryOf, Access
<1>6. PICK file : file = [entries[Pinned[t]] EXCEPT ![e + 1] = entry]
  OBVIOUS
<1>7. /\ file \in [1 .. Limit -> Access] /\ file[e + 1] = entry
      /\ \A x \in 1 .. e : file[x] = entries[Pinned[t]][x]
  <2>1. entries[Pinned[t]] \in [1 .. Limit -> Access]
    BY <1>1 DEF RecInv, RecTypes
  <2>2. \A x \in 1 .. e : x \in 1 .. Limit /\ x # e + 1
    BY <1>3
  <2> QED
    BY <1>3, <1>5, <1>6, <2>1, <2>2
<1>8. entries' = [entries EXCEPT ![Pinned[t]] = file] /\ reg'[t] = e + 1
  BY <1>1, <1>2, <1>4, <1>6 DEF EntryOf, RecInv, RecTypes
<1>9. RecTypes'
  <2>1. entries' \in [Rec!Indices -> [1 .. Limit -> Access]]
    BY <1>7, <1>8 DEF RecInv, RecTypes
  <2>2. reg' \in [Rec!Thread -> Int]
    BY <1>1, <1>2 DEF RecInv, RecTypes
  <2> QED
    BY <2>1, <2>2 DEF RecInv, RecTypes
<1>10. Others(t)
  <2>1. \A u \in Rec!Thread \ {t} : Pinned[u] # Pinned[t] /\ Pinned[u] \in Rec!Indices
    BY RecFacts
  <2>2. ASSUME NEW u \in Rec!Thread \ {t} PROVE entries'[Pinned[u]] = entries[Pinned[u]]
    BY <1>8, <2>1 DEF RecInv, RecTypes
  <2> QED
    BY <2>2 DEF Others, RecInv, RecTypes
<1>11. RunsCounted(t)'
  BY <1>1 DEF RecInv, ThreadInv, RunsCounted
<1>12. RunsTimed(t)'
  BY <1>1 DEF RecInv, ThreadInv, RunsTimed
<1>13. Written(t)'
  <2>1. PICK all : all = Rec!Accesses(ran[t])
    OBVIOUS
  <2>2. PICK n \in Nat : DealtWith(t, all, n)
    BY <2>1 DEF RecInv, ThreadInv, Written
  <2>3. Rest(t) = todo[t] /\ Rest(t)' = todo[t]
    BY <1>1 DEF Rest
  <2>4. n = e
    BY <1>2, <1>3, <2>2 DEF DealtWith
  <2>5. entries'[Pinned[t]] = file
    BY <1>1, <1>8 DEF RecInv, RecTypes
  <2>6. all[n + 1] = entry
    <3>1. 1 \in 1 .. Len(todo[t]) /\ todo[t][1] = Head(todo[t])
      BY <1>3 DEF RecInv, RecTypes
    <3> QED
      BY <1>4, <2>2, <2>3, <3>1 DEF DealtWith
  <2>7. DealtWith(t, all, n)'
    <3>1. Len(all) = n + Len(todo[t])
      BY <2>2, <2>3 DEF DealtWith
    <3>2. \A x \in 1 .. e : file[x] = all[x]
      BY <1>2, <1>7, <2>2 DEF DealtWith
    <3>3. \A b \in 1 .. Len(todo[t]) : all[n + b] = EntryOf(t, todo[t][b])'
      BY <1>1, <2>2, <2>3 DEF DealtWith, EntryOf
    <3>4. /\ elems'[Pinned[t]] = e /\ e = IF n < Limit THEN n ELSE Limit
          /\ todo'[t] # <<>> /\ n < Limit /\ reg'[t] = n + 1
      BY <1>1, <1>2, <1>3, <1>8, <2>4
    <3>5. entries'[Pinned[t]][n + 1] = all[n + 1]
      BY <1>7, <2>4, <2>5, <2>6
    <3> QED
      BY <2>3, <2>5, <3>1, <3>2, <3>3, <3>4, <3>5 DEF DealtWith
  <2> QED
    BY <1>1, <2>1, <2>7 DEF RecInv, ThreadInv, Written
<1> QED
  BY <1>9, <1>10, <1>11, <1>12, <1>13 DEF ThreadInv

LEMMA TailFacts ==
  ASSUME NEW V, NEW s \in Seq(V), s # <<>>
  PROVE  \E l \in Nat :
           /\ Len(s) = l + 1 /\ Tail(s) \in Seq(V) /\ Len(Tail(s)) = l
           /\ \A b \in 1 .. l : Tail(s)[b] = s[b + 1] /\ b + 1 \in 1 .. l + 1
<1>1. Len(s) \in Nat /\ Len(s) # 0
  OBVIOUS
<1>2. PICK l \in Nat : Len(s) = l + 1
  BY <1>1
<1>3. Tail(s) \in Seq(V) /\ Len(Tail(s)) = l
  BY <1>2
<1>4. \A b \in 1 .. l : Tail(s)[b] = s[b + 1] /\ b + 1 \in 1 .. l + 1
  BY <1>2
<1> QED
  BY <1>2, <1>3, <1>4

LEMMA IncrementKeeps ==
  ASSUME RecInv, NEW t \in Rec!Thread, Rec!Increment(t)
  PROVE  RecTypes' /\ ThreadInv(t)' /\ Others(t)
<1> USE DEF Rec!Increment, Rec!Goto
<1>1. /\ recPc[t] = "incr" /\ recPc'[t] = "trace" /\ ran'[t] = ran[t] /\ job'[t] = job[t]
      /\ job[t] \in Jobs /\ Rec!Index(t) = Pinned[t] /\ Pinned[t] \in Rec!Indices
      /\ ktime' = ktime /\ knum' = knum /\ entries' = entries /\ reg' = reg
      /\ kstart' = kstart /\ todo'[t] = Tail(todo[t]) /\ todo[t] \in Seq(Rec!Block)
  BY JobFacts, RecFacts DEF RecInv, RecTypes
<1>2. PICK all : all = Rec!Accesses(ran[t])
  OBVIOUS
<1>3. PICK n \in Nat : DealtWith(t, all, n)
  BY <1>2 DEF RecInv, ThreadInv, Written
<1>4. /\ todo[t] # <<>> /\ n < Limit /\ Limit \in Nat /\ reg[t] = n + 1 /\ n + 1 \in 0 .. Limit
      /\ elems[Pinned[t]] = n /\ entries[Pinned[t]][n + 1] = all[n + 1]
  BY <1>1, <1>3, RecFacts DEF DealtWith
<1>5. elems' = [elems EXCEPT ![Pinned[t]] = n + 1] /\ elems'[Pinned[t]] = n + 1
  BY <1>1, <1>4 DEF RecInv, RecTypes
<1>6. RecTypes'
  <2>1. elems' \in [Rec!Indices -> 0 .. Limit]
    BY <1>4, <1>5 DEF RecInv, RecTypes
  <2>2. todo' \in [Rec!Thread -> Seq(Rec!Block)]
    BY <1>4 DEF RecInv, RecTypes
  <2> QED
    BY <2>1, <2>2 DEF RecInv, RecTypes
<1>7. Others(t)
  <2>1. \A u \in Rec!Thread \ {t} : Pinned[u] # Pinned[t] /\ Pinned[u] \in Rec!Indices
    BY RecFacts
  <2>2. ASSUME NEW u \in Rec!Thread \ {t} PROVE elems'[Pinned[u]] = elems[Pinned[u]]
    BY <1>5, <2>1 DEF RecInv, RecTypes
  <2> QED
    BY <2>2 DEF Others, RecInv, RecTypes
<1>8. RunsCounted(t)'
  BY <1>1 DEF RecInv, ThreadInv, RunsCounted
<1>9. RunsTimed(t)'
  BY <1>1 DEF RecInv, ThreadInv, RunsTimed
<1>10. Written(t)'
  <2>a. PICK rest : rest = Tail(todo[t])
    OBVIOUS
  <2>1. Rest(t) = todo[t] /\ Rest(t)' = rest
    BY <1>1, <2>a DEF Rest
  <2>b. PICK l \in Nat :
          /\ Len(todo[t]) = l + 1 /\ Len(rest) = l
          /\ \A b \in 1 .. l : rest[b] = todo[t][b + 1] /\ b + 1 \in 1 .. l + 1
    BY <1>1, <1>4, <2>a, TailFacts
  <2>2. Len(todo[t]) = l + 1 /\ Len(rest) = l
    BY <2>b
  <2>3. \A b \in 1 .. l : rest[b] = todo[t][b + 1] /\ b + 1 \in 1 .. l + 1
    BY <2>b
  <2>4. DealtWith(t, all, n + 1)'
    <3>1. Len(all) = (n + 1) + l
      BY <1>3, <2>1, <2>2 DEF DealtWith
    <3>2. \A x \in 1 .. n + 1 : entries[Pinned[t]][x] = all[x]
      <4>1. \A x \in 1 .. n + 1 : x = n + 1 \/ x \in 1 .. n
        OBVIOUS
      <4>2. \A x \in 1 .. n : entries[Pinned[t]][x] = all[x]
        BY <1>3, <1>4 DEF DealtWith
      <4> QED
        BY <1>4, <4>1, <4>2
    <3>3. ASSUME NEW b \in 1 .. l PROVE all[(n + 1) + b] = EntryOf(t, rest[b])'
      <4>1. all[n + (b + 1)] = EntryOf(t, todo[t][b + 1])
        BY <1>3, <2>1, <2>2, <2>3 DEF DealtWith
      <4>2. (n + 1) + b = n + (b + 1)
        OBVIOUS
      <4> QED
        BY <1>1, <2>3, <4>1, <4>2 DEF EntryOf
    <3>4. elems'[Pinned[t]] = IF n + 1 < Limit THEN n + 1 ELSE Limit
      BY <1>4, <1>5
    <3> QED
      BY <1>1, <1>5, <2>1, <2>2, <3>1, <3>2, <3>3, <3>4 DEF DealtWith
  <2> QED
    BY <1>1, <1>2, <2>4 DEF RecInv, ThreadInv, Written
<1> QED
  BY <1>6, <1>7, <1>8, <1>9, <1>10 DEF ThreadInv

LEMMA SkipEntryKeeps ==
  ASSUME RecInv, NEW t \in Rec!Thread, Rec!SkipEntry(t)
  PROVE  RecTypes' /\ ThreadInv(t)' /\ Others(t)
<1> USE DEF Rec!SkipEntry
<1>1. /\ recPc[t] = "trace" /\ recPc' = recPc /\ ran' = ran /\ job' = job
      /\ Rec!Index(t) = Pinned[t] /\ Pinned[t] \in Rec!Indices
      /\ ktime' = ktime /\ knum' = knum /\ entries' = entries /\ elems' = elems
      /\ kstart' = kstart /\ todo'[t] = Tail(todo[t]) /\ todo[t] \in Seq(Rec!Block)
      /\ todo[t] # <<>>
  BY RecFacts DEF RecInv, RecTypes
<1>2. PICK all : all = Rec!Accesses(ran[t])
  OBVIOUS
<1>3. PICK n \in Nat : DealtWith(t, all, n)
  BY <1>2 DEF RecInv, ThreadInv, Written
<1>4. elems[Pinned[t]] = Limit /\ ~ (n < Limit) /\ Limit \in Nat
  <2>1. elems[Pinned[t]] >= Limit
    BY <1>1
  <2> QED
    BY <1>3, <2>1, RecFacts DEF DealtWith
<1>5. RecTypes'
  <2>1. todo' \in [Rec!Thread -> Seq(Rec!Block)]
    BY <1>1 DEF RecInv, RecTypes
  <2> QED
    BY <2>1 DEF RecInv, RecTypes
<1>6. Others(t)
  BY DEF Others, RecInv, RecTypes
<1>7. RunsCounted(t)' /\ RunsTimed(t)'
  BY <1>1 DEF RecInv, ThreadInv, RunsCounted, RunsTimed
<1>8. Written(t)'
  <2>a. PICK rest : rest = Tail(todo[t])
    OBVIOUS
  <2>1. Rest(t) = todo[t] /\ Rest(t)' = rest
    BY <1>1, <2>a DEF Rest
  <2>b. PICK l \in Nat :
          /\ Len(todo[t]) = l + 1 /\ Len(rest) = l
          /\ \A b \in 1 .. l : rest[b] = todo[t][b + 1] /\ b + 1 \in 1 .. l + 1
    BY <1>1, <2>a, TailFacts
  <2>2. Len(todo[t]) = l + 1 /\ Len(rest) = l
    BY <2>b
  <2>3. \A b \in 1 .. l : rest[b] = todo[t][b + 1] /\ b + 1 \in 1 .. l + 1
    BY <2>b
  <2>4. DealtWith(t, all, n + 1)'
    <3>1. Len(all) = (n + 1) + l
      BY <1>3, <2>1, <2>2 DEF DealtWith
    <3>2. \A x \in 1 .. Limit : entries[Pinned[t]][x] = all[x]
      BY <1>3, <1>4 DEF DealtWith
    <3>3. ASSUME NEW b \in 1 .. l PROVE all[(n + 1) + b] = EntryOf(t, rest[b])'
      <4>1. all[n + (b + 1)] = EntryOf(t, todo[t][b + 1])
        BY <1>3, <2>1, <2>2, <2>3 DEF DealtWith
      <4>2. (n + 1) + b = n + (b + 1)
        OBVIOUS
      <4> QED
        BY <1>1, <2>3, <4>1, <4>2 DEF EntryOf
    <3>4. Limit = IF n + 1 < Limit THEN n + 1 ELSE Limit
      BY <1>4
    <3> QED
      BY <1>1, <1>4, <2>1, <2>2, <3>1, <3>2, <3>3, <3>4 DEF DealtWith
  <2> QED
    BY <1>1, <1>2, <2>4 DEF RecInv, ThreadInv, Written
<1> QED
  BY <1>5, <1>6, <1>7, <1>8 DEF ThreadInv

LEMMA LeaveKeeps ==
  ASSUME RecInv, NEW t \in Rec!Thread, Rec!Leave(t)
  PROVE  RecTypes' /\ ThreadInv(t)' /\ Others(t)
<1> USE DEF Rec!Leave, Rec!Goto
<1>1. /\ recPc[t] = "trace" /\ recPc'[t] = "idle" /\ ran' = ran /\ job' = job
      /\ ktime' = ktime /\ knum' = knum /\ entries' = entries /\ elems' = elems
      /\ kstart' = kstart /\ todo' = todo /\ todo[t] = <<>> /\ reg' = reg
  BY DEF RecInv, RecTypes
<1>2. RecTypes'
  BY DEF RecInv, RecTypes
<1>3. Others(t)
  BY DEF Others, RecInv, RecTypes
<1>4. RunsCounted(t)' /\ RunsTimed(t)'
  BY <1>1 DEF RecInv, ThreadInv, RunsCounted, RunsTimed
<1>5. Written(t)'
  <2>1. PICK n \in Nat : DealtWith(t, Rec!Accesses(ran[t]), n)
    BY DEF RecInv, ThreadInv, Written
  <2>2. Rest(t) = <<>> /\ Rest(t)' = <<>>
    BY <1>1 DEF Rest
  <2>3. DealtWith(t, Rec!Accesses(ran[t]), n)'
    BY <1>1, <2>1, <2>2 DEF DealtWith, EntryOf
  <2> QED
    BY <1>1, <2>3 DEF RecInv, ThreadInv, Written
<1> QED
  BY <1>2, <1>3, <1>4, <1>5 DEF ThreadInv

(* A step of a thread is made before the traces are saved. *)
ThreadStep(t) ==
  \/ \E j \in Jobs : Rec!ProfileStart(t, j)
  \/ Rec!ProfileStop(t) \/ Rec!StoreTime(t) \/ Rec!LoadNum(t) \/ Rec!StoreNum(t)
  \/ Rec!WriteEntry(t) \/ Rec!Increment(t) \/ Rec!SkipEntry(t) \/ Rec!Leave(t)

LEMMA RecStep == RecInv /\ [Rec!Next]_recVars => RecInv'
<1> SUFFICES ASSUME RecInv, [Rec!Next]_recVars PROVE RecInv'
  OBVIOUS
<1>1. ASSUME NEW t \in Rec!Thread, ThreadStep(t) PROVE RecInv'
  <2>1. RecTypes' /\ ThreadInv(t)' /\ Others(t)
    BY <1>1, StartKeeps, StopKeeps, StoreTimeKeeps, LoadNumKeeps, StoreNumKeeps,
       WriteEntryKeeps, IncrementKeeps, SkipEntryKeeps, LeaveKeeps DEF ThreadStep
  <2>2. \A u \in Rec!Thread : ThreadInv(u)'
    BY <2>1, OthersStay DEF RecInv
  <2>3. SavedInv'
    <3>1. saved = Rec!Unsaved
      <4>1. CASE \E j \in Jobs : Rec!ProfileStart(t, j)
        BY <4>1 DEF Rec!ProfileStart
      <4>2. CASE recPc[t] # "idle"
        BY <4>2 DEF RecInv, SavedInv
      <4> QED
        BY <1>1, <4>1, <4>2 DEF ThreadStep, Rec!ProfileStop, Rec!StoreTime, Rec!LoadNum,
           Rec!StoreNum, Rec!WriteEntry, Rec!Increment, Rec!SkipEntry, Rec!Leave
    <3>2. saved' = saved
      BY <1>1 DEF ThreadStep, Rec!ProfileStart, Rec!ProfileStop, Rec!StoreTime, Rec!LoadNum,
         Rec!StoreNum, Rec!WriteEntry, Rec!Increment, Rec!SkipEntry, Rec!Leave
    <3> QED
      BY <3>1, <3>2 DEF SavedInv, Rec!Unsaved
  <2> QED
    BY <2>1, <2>2, <2>3 DEF RecInv
<1>2. ASSUME UNCHANGED <<clock, recPc, job, kstart, todo, reg, ktime, knum, entries, elems, ran>>
      PROVE  RecTypes' /\ \A t \in Rec!Thread : ThreadInv(t)'
  <2>1. RecTypes'
    BY <1>2 DEF RecInv, RecTypes
  <2>3. ASSUME NEW t \in Rec!Thread PROVE ThreadInv(t)'
    <3>1. RunsCounted(t)' /\ RunsTimed(t)'
      BY <1>2 DEF RecInv, ThreadInv, RunsCounted, RunsTimed
    <3>2. PICK n \in Nat : DealtWith(t, Rec!Accesses(ran[t]), n)
      BY DEF RecInv, ThreadInv, Written
    <3>3. Rest(t)' = Rest(t)
      BY <1>2 DEF Rest
    <3>4. DealtWith(t, Rec!Accesses(ran[t]), n)'
      BY <1>2, <3>2, <3>3 DEF DealtWith, EntryOf
    <3>5. Written(t)'
      BY <1>2, <3>4 DEF RecInv, ThreadInv, Written
    <3> QED
      BY <3>1, <3>5 DEF ThreadInv
  <2> QED
    BY <2>1, <2>3
<1>3. CASE Rec!SaveTraces
  <2>1. SavedInv'
    BY <1>3 DEF Rec!SaveTraces, SavedInv
  <2> QED
    BY <1>2, <1>3, <2>1 DEF Rec!SaveTraces, RecInv
<1>4. CASE UNCHANGED recVars
  <2>1. SavedInv'
    BY <1>4 DEF recVars, RecInv, SavedInv
  <2> QED
    BY <1>2, <1>4, <2>1 DEF recVars, RecInv
<1> QED
  BY <1>1, <1>3, <1>4 DEF Rec!Next, ThreadStep

LEMMA CountingIsSame ==
  ASSUME NEW S
  PROVE  Rec!Cardinality(S) = Cardinality(S)
BY DEF Rec!Cardinality, Cardinality

LEMMA RecIsExact == RecInv => TraceIsRecord
<1> DEFINE File(t, all, file) ==
             /\ file = SubSeq(all, 1, IF Len(all) < Limit THEN Len(all) ELSE Limit)
             /\ \A x, y \in DOMAIN file : x < y => file[x].tsc <= file[y].tsc
             /\ \A k \in Rec!Kernels :
                  /\ knum[Pinned[t]][k] = Rec!Cardinality(Rec!RunsOf(ran[t], k))
                  /\ ktime[Pinned[t]][k] = Rec!CyclesOf(ran[t], k)
<1> SUFFICES ASSUME RecInv, saved # Rec!Unsaved, NEW t \in Rec!Thread
             PROVE  File(t, Rec!Accesses(ran[t]), saved[Pinned[t]])
  BY DEF TraceIsRecord, Rec!TraceIsRecord
<1>a. PICK all : all = Rec!Accesses(ran[t])
  OBVIOUS
<1>b. PICK file : file = saved[Pinned[t]]
  OBVIOUS
<1>1. PICK i \in Rec!Indices : i = Pinned[t] /\ Limit \in Nat \ {0}
  BY RecFacts
<1>2. /\ recPc[t] = "idle"
      /\ file = IF entries[i][1].id # 0 THEN SubSeq(entries[i], 1, elems[i]) ELSE <<>>
  BY <1>1, <1>b DEF RecInv, SavedInv
<1>3. PICK n \in Nat : DealtWith(t, all, n)
  BY <1>a DEF RecInv, ThreadInv, Written
<1>4. InTime(all, kstart[t]) /\ all \in Seq(Access)
  BY <1>a DEF RecInv, ThreadInv, Written, InTime
<1>5. Len(all) = n
  <2>1. Rest(t) = <<>>
    BY <1>2 DEF Rest
  <2> QED
    BY <1>3, <2>1 DEF DealtWith
<1>6. PICK e \in Nat : e = IF n < Limit THEN n ELSE Limit
  BY <1>1
<1>7. elems[i] = e /\ \A x \in 1 .. e : entries[i][x] = all[x]
  BY <1>1, <1>3, <1>6 DEF DealtWith
<1>8. e <= n /\ e <= Limit /\ entries[i] \in [1 .. Limit -> Access]
  BY <1>1, <1>6 DEF RecInv, RecTypes
<1>9. PICK part : part = SubSeq(all, 1, e)
  OBVIOUS
<1>10. part \in Seq(Access) /\ Len(part) = e /\ \A x \in 1 .. e : part[x] = all[x]
  BY <1>4, <1>5, <1>8, <1>9, SubSeqProperties
<1>11. file = part
  <2>1. CASE e = 0
    <3>1. SubSeq(entries[i], 1, 0) = <<>>
      OBVIOUS
    <3> QED
      BY <1>2, <1>7, <1>10, <2>1, <3>1
  <2>2. CASE e # 0
    <3>1. 1 \in 1 .. e /\ Len(all) > 0
      BY <1>5, <1>8, <2>2
    <3>2. entries[i][1].id # 0
      BY <1>4, <1>7, <3>1 DEF InTime
    <3>3. entries[i] \in Seq(Access) /\ Len(entries[i]) = Limit
      BY <1>1, <1>8
    <3>4. PICK saving : saving = SubSeq(entries[i], 1, e)
      OBVIOUS
    <3>5. saving \in Seq(Access) /\ Len(saving) = e /\ \A x \in 1 .. e : saving[x] = entries[i][x]
      BY <1>8, <3>3, <3>4, SubSeqProperties
    <3>6. saving = part
      BY <1>7, <1>10, <3>5
    <3> QED
      BY <1>2, <1>7, <3>2, <3>4, <3>6
  <2> QED
    BY <2>1, <2>2
<1>12. \A x, y \in DOMAIN file : x < y => file[x].tsc <= file[y].tsc
  <2>1. \A x \in DOMAIN file : x \in 1 .. n /\ file[x] = all[x]
    BY <1>8, <1>10, <1>11
  <2>2. \A x, y \in 1 .. n : x < y => all[x].tsc <= all[y].tsc
    BY <1>4, <1>5 DEF InTime
  <2> QED
    BY <2>1, <2>2
<1>13. ASSUME NEW k \in Rec!Kernels
       PROVE  /\ knum[i][k] = Rec!Cardinality(Rec!RunsOf(ran[t], k))
              /\ ktime[i][k] = Rec!CyclesOf(ran[t], k)
  <2>1. knum[i][k] \in Int
    BY DEF RecInv, RecTypes
  <2>2. Cardinality(Rec!RunsOf(ran[t], k)) = knum[i][k] + 0
    BY <1>1, <1>2 DEF RecInv, ThreadInv, RunsCounted
  <2>3. ktime[i][k] = Rec!CyclesOf(ran[t], k)
    BY <1>1, <1>2 DEF RecInv, ThreadInv, RunsTimed
  <2> QED
    BY <2>1, <2>2, <2>3, CountingIsSame
<1> QED
  BY <1>1, <1>5, <1>6, <1>9, <1>11, <1>12, <1>13, <1>a, <1>b

(* The files hold for each core its own thread's accesses in ascending time, up to the
   length of a trace, and the counters are exact, for any pinned threads, kernels and
   interleavings. *)
THEOREM RecordsAreExact == Spec => []TraceIsRecord
<1>1. RecInv /\ [Next]_vars => RecInv'
  <2>1. [Next]_vars => [Rec!Next]_recVars
    BY DEF Next, vars
  <2> QED
    BY <2>1, RecStep
<1> QED
  BY <1>1, RecStarts, RecIsExact, PTL DEF Spec
=============================================================================
