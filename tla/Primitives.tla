----------------------------- MODULE Primitives -----------------------------
(***************************************************************************)
(* The components that are used by the others and do not interact: the queue, *)
(* the two barriers, the parallel loops and the recording of traces.  In a      *)
(* behaviour one of them, the subject, takes its steps and the others stay as   *)
(* they are, so that the properties of each hold of the behaviours it is the    *)
(* subject of.                                                                  *)
(***************************************************************************)
EXTENDS Integers, Sequences, FiniteSets

CONSTANTS
  Addresses, Producers, Values, Null, MaxPushes,   \* of LFQueue
  Threads, Modulus, Spurious,                      \* of the barriers
  Loops, MaxMembers, Slackness,                    \* of ParFor
  Pinned, Jobs, MaxThreads, Limit, MaxRuns         \* of Recording

VARIABLES
  heap, alive, first, last, lock, tmp, ppc, pushes, cpc, oldFirst, got, taken,
  nwait, step, lstep, spinPc,
  pending, cxxPc,
  call, members, next, forPc, mine, times, exited,
  clock, recPc, job, kstart, todo, reg, ktime, knum, entries, elems, ran, saved,
  subject   \* the component that takes its steps

queueVars == <<heap, alive, first, last, lock, tmp, ppc, pushes, cpc, oldFirst, got, taken>>
spinVars == <<nwait, step, lstep, spinPc>>
cxxVars == <<pending, cxxPc>>
forVars == <<call, members, next, forPc, mine, times, exited>>
recVars == <<clock, recPc, job, kstart, todo, reg, ktime, knum, entries, elems, ran, saved>>
vars == <<queueVars, spinVars, cxxVars, forVars, recVars, subject>>

Queue == INSTANCE LFQueue
Spin  == INSTANCE SpinBarrier WITH pc <- spinPc
Cxx   == INSTANCE SleepingBarrier WITH pc <- cxxPc
For   == INSTANCE ParFor WITH Calls <- Loops, pc <- forPc
Rec   == INSTANCE Recording WITH Core <- Pinned, pc <- recPc

ASSUME QueueAssumption == Queue!ConstantsOK
ASSUME SpinAssumption == Spin!ConstantsOK
ASSUME ForAssumption == For!ConstantsOK
ASSUME RecAssumption == Rec!ConstantsOK

Init ==
  /\ subject \in {"queue", "spin", "cxx", "for", "rec"}
  /\ Queue!Init /\ Spin!Init /\ Cxx!Init /\ For!Init /\ Rec!Init
  /\ subject # "queue" => first = CHOOSE a \in Addresses : TRUE
  /\ subject # "for" => call = CHOOSE c \in Loops : TRUE

Next ==
  \/ /\ subject = "queue" /\ Queue!Next
     /\ UNCHANGED <<spinVars, cxxVars, forVars, recVars, subject>>
  \/ /\ subject = "spin" /\ Spin!Next
     /\ UNCHANGED <<queueVars, cxxVars, forVars, recVars, subject>>
  \/ /\ subject = "cxx" /\ Cxx!Next
     /\ UNCHANGED <<queueVars, spinVars, forVars, recVars, subject>>
  \/ /\ subject = "for" /\ For!Next
     /\ UNCHANGED <<queueVars, spinVars, cxxVars, recVars, subject>>
  \/ /\ subject = "rec" /\ Rec!Next
     /\ UNCHANGED <<queueVars, spinVars, cxxVars, forVars, subject>>

(* The consumer of the queue keeps looking into it; a thread that has called wait()
   of a barrier runs on.  What is not the subject has nothing to do. *)
Fairness ==
  /\ WF_queueVars(Queue!Popping)
  /\ \A t \in Threads :
       /\ WF_spinVars(Spin!Inside(t))
       /\ WF_cxxVars(Cxx!Arrive(t))
       /\ WF_cxxVars(Cxx!NotifyAll(t))
       /\ WF_cxxVars(Cxx!Return(t))

Spec == Init /\ [][Next]_vars /\ Fairness
-----------------------------------------------------------------------------
(* Nobody follows a pointer to a deleted node of the queue, and a node is deleted
   once and never lost. *)
HeapSound == Queue!HeapSound

(* The queue is a first-in first-out queue. *)
ImplementsFifo == Queue!ImplementsFifo

(* The spinning barrier implements rounds that nobody leaves before all have come. *)
ImplementsBarrier == Spin!ImplementsBarrier

(* So does the sleeping one. *)
CxxImplementsBarrier == Cxx!ImplementsBarrier

(* A parallel loop executes its body once for each of its iterations. *)
EachIterationOnce == For!EachIterationOnce

(* The traces and counters are what the pinned threads have done. *)
TraceIsRecord == Rec!TraceIsRecord
=============================================================================
