-------------------------- MODULE MCAssemblyQueues --------------------------
(* Small instances of AssemblyQueues for TLC. *)
EXTENDS AssemblyQueues, TLC

CONSTANTS t1, t2, t3

AllPlaces == {p \in [leader : 0 .. NThreads - 1, width : 1 .. NThreads] :
                p.leader + p.width <= NThreads}

(* The places that overlap another one, without the two single workers at the
   ends of the machine. *)
OverlappingPlaces == {p \in AllPlaces : p.width > 1 \/ p.leader = 1}

(* Everything was pushed to the queue of worker 0 and has to be stolen. *)
AllAtZero == [t \in Tasks |-> 0]

TaskSymmetry == Permutations(Tasks)
=============================================================================
