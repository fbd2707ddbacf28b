------------------------------- MODULE LFQueue -------------------------------
(***************************************************************************)
(* The assembly queue of one worker: a linked list with a dummy node at its *)
(* head, where one consumer, the worker, pops without a lock while producers *)
(* push, one at a time, under worker_assembly_lock.  Nodes live on the heap: *)
(* the consumer deletes them, and an address may be allocated again.         *)
(***************************************************************************)
EXTENDS Integers, Sequences, FiniteSets

CONSTANTS
  Producers,   \* the workers that push to the queue
  Addresses,   \* where a node may be allocated
  Values,      \* the task pointers that are pushed
  Null,        \* nullptr, as a pointer and as a value
  MaxPushes    \* bound: how often the run pushes

Free == "free"

(* what the constants must be *)
ConstantsOK ==
  /\ Null \notin Addresses \union Values /\ IsFiniteSet(Addresses)
  /\ Free \notin Producers
  /\ MaxPushes \in Nat

VARIABLES
  heap,     \* heap[a]: the node at an address, [value, next]
  alive,    \* the addresses that are allocated
  first,    \* the dummy node before the first element
  last,     \* the last node
  lock,     \* worker_assembly_lock: the producer that holds it
  tmp,      \* the node producer p is pushing
  ppc,      \* where a producer is in push()
  cpc,      \* where the consumer is in empty(), front() and pop()
  oldFirst, \* the local variable of pop()
  got,      \* what front() has returned
  taken,    \* history: the values the consumer has taken, in order
  pushes    \* history: number of calls of push()

listVars == <<heap, alive, first, last>>
prodVars == <<lock, tmp, ppc, pushes>>
consVars == <<cpc, oldFirst, got, taken>>
vars == <<listVars, prodVars, consVars>>

EmptyNode == [value |-> Null, next |-> Null]

(* LFQueue::LFQueue *)
Init ==
  /\ heap = [a \in Addresses |-> EmptyNode]
  /\ \E a \in Addresses : first = a /\ last = a /\ alive = {a}
  /\ lock = Free
  /\ tmp = [p \in Producers |-> Null]
  /\ ppc = [p \in Producers |-> "idle"]
  /\ cpc = "idle"
  /\ oldFirst = Null
  /\ got = Null
  /\ taken = <<>>
  /\ pushes = 0

-----------------------------------------------------------------------------
(* push(), between LOCK_ACQUIRE and LOCK_RELEASE.                            *)

(* Mutant: the lock is not waited for. *)
Acquire_NoTest(p) ==
  /\ ppc[p] = "idle"
  /\ pushes < MaxPushes
  /\ lock' = p
  /\ pushes' = pushes + 1
  /\ ppc' = [ppc EXCEPT ![p] = "new"]
  /\ UNCHANGED <<listVars, tmp, consVars>>

Acquire(p) ==
  /\ ppc[p] = "idle"
  /\ pushes < MaxPushes
  /\ lock = Free
  /\ lock' = p
  /\ pushes' = pushes + 1
  /\ ppc' = [ppc EXCEPT ![p] = "new"]
  /\ UNCHANGED <<listVars, tmp, consVars>>

(* "do work off to the side" *)
NewNode(p, v) ==
  /\ ppc[p] = "new"
  /\ \E a \in Addresses \ alive :
       /\ heap' = [heap EXCEPT ![a] = [value |-> v, next |-> Null]]
       /\ alive' = alive \union {a}
       /\ tmp' = [tmp EXCEPT ![p] = a]
  /\ ppc' = [ppc EXCEPT ![p] = "publish"]
  /\ UNCHANGED <<first, last, lock, pushes, consVars>>

(* "A: publish the new item" *)
Publish(p) ==
  /\ ppc[p] = "publish"
  /\ heap' = [heap EXCEPT ![last].next = tmp[p]]
  /\ ppc' = [ppc EXCEPT ![p] = "last"]
  /\ UNCHANGED <<alive, first, last, lock, tmp, pushes, consVars>>

(* Mutant: what the comment warns of, last = last->next. *)
MoveLast_ByNext(p) ==
  /\ ppc[p] = "last"
  /\ last' = heap[last].next
  /\ tmp' = [tmp EXCEPT ![p] = Null]
  /\ ppc' = [ppc EXCEPT ![p] = "unlock"]
  /\ UNCHANGED <<heap, alive, first, lock, pushes, consVars>>

(* "B: not last->next" *)
MoveLast(p) ==
  /\ ppc[p] = "last"
  /\ last' = tmp[p]
  /\ tmp' = [tmp EXCEPT ![p] = Null]
  /\ ppc' = [ppc EXCEPT ![p] = "unlock"]
  /\ UNCHANGED <<heap, alive, first, lock, pushes, consVars>>

Release(p) ==
  /\ ppc[p] = "unlock"
  /\ lock' = Free
  /\ ppc' = [ppc EXCEPT ![p] = "idle"]
  /\ UNCHANGED <<listVars, tmp, pushes, consVars>>

-----------------------------------------------------------------------------
(* try_pop_assembly_task: empty(), front(), pop().                           *)

TestEmpty ==
  /\ cpc = "idle"
  /\ heap[first].next # Null
  /\ cpc' = "front"
  /\ UNCHANGED <<listVars, prodVars, oldFirst, got, taken>>

(* front() returns the value of the node behind the dummy *)
Front ==
  /\ cpc = "front"
  /\ got' = IF heap[first].next # Null THEN heap[heap[first].next].value
                                       ELSE heap[first].value
  /\ cpc' = "pop"
  /\ UNCHANGED <<listVars, prodVars, oldFirst, taken>>

(* Mutant: the dummy node stays, its successor is taken out of the list. *)
Advance_KeepsFirst ==
  /\ cpc = "pop"
  /\ heap[first].next # Null
  /\ oldFirst' = heap[first].next
  /\ heap' = [heap EXCEPT ![first].next = heap[heap[first].next].next]
  /\ taken' = Append(taken, got)
  /\ got' = Null
  /\ cpc' = "clear"
  /\ UNCHANGED <<alive, first, last, prodVars>>

(* pop() passes the role of the dummy on to the next node *)
Advance ==
  /\ cpc = "pop"
  /\ heap[first].next # Null
  /\ oldFirst' = first
  /\ first' = heap[first].next
  /\ taken' = Append(taken, got)
  /\ got' = Null
  /\ cpc' = "clear"
  /\ UNCHANGED <<heap, alive, last, prodVars>>

Clear ==
  /\ cpc = "clear"
  /\ heap' = [heap EXCEPT ![first].value = Null]
  /\ cpc' = "delete"
  /\ UNCHANGED <<alive, first, last, prodVars, oldFirst, got, taken>>

(* Mutant: the old dummy node is never deleted. *)
Delete_Leaks ==
  /\ cpc = "delete"
  /\ oldFirst' = Null
  /\ cpc' = "idle"
  /\ UNCHANGED <<listVars, prodVars, got, taken>>

(* what the node held is gone *)
Delete ==
  /\ cpc = "delete"
  /\ alive' = alive \ {oldFirst}
  /\ heap' = [heap EXCEPT ![oldFirst] = EmptyNode]
  /\ oldFirst' = Null
  /\ cpc' = "idle"
  /\ UNCHANGED <<first, last, prodVars, got, taken>>

-----------------------------------------------------------------------------
Pushing(p) ==
  \/ Acquire(p) \/ \E v \in Values : NewNode(p, v)
  \/ Publish(p) \/ MoveLast(p) \/ Release(p)

Popping == TestEmpty \/ Front \/ Advance \/ Clear \/ Delete

Next == Popping \/ \E p \in Producers : Pushing(p)

Spec == Init /\ [][Next]_vars

(* The worker keeps looking into its queue; producers owe nothing. *)
FairSpec == Spec /\ WF_vars(Popping)
-----------------------------------------------------------------------------
(* Properties. *)

(* the k-th node after first, or Null *)
Nth[k \in 0 .. Cardinality(Addresses)] ==
  IF k = 0 THEN first
  ELSE IF Nth[k - 1] = Null THEN Null ELSE heap[Nth[k - 1]].next

Chain == {Nth[k] : k \in DOMAIN Nth} \ {Null}

(* Nobody follows a pointer to a node that is deleted, although the consumer
   may delete the very node last still points to when a producer stands
   between its steps A and B. *)
NoUseAfterDelete ==
  /\ Chain \subseteq alive
  /\ \A p \in Producers : ppc[p] = "publish" => last \in alive
  /\ \A p \in Producers : ppc[p] \in {"idle", "new", "unlock"} /\ lock \in {p, Free}
       => last \in Chain

(* A node is deleted once and never lost: the allocated nodes are those of
   the list, the one pop() is about to delete and those not published yet. *)
NoLeak ==
  alive = Chain \union ({oldFirst} \ {Null})
                \union {tmp[p] : p \in {q \in Producers : ppc[q] = "publish"}}

(* The heap is right whatever consumer and producers do at once. *)
HeapSound == NoUseAfterDelete /\ NoLeak

Length == CHOOSE k \in DOMAIN Nth :
            Nth[k] # Null /\ heap[Nth[k]].next = Null

Contents == [k \in 1 .. Length |-> heap[Nth[k]].value]

(* The list implements a first-in first-out queue: what is published comes
   out, once and in this order. *)
F == INSTANCE Fifo WITH queue <- Contents

ImplementsFifo == F!Spec
=============================================================================
