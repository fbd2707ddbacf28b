---------------------------- MODULE MCPrimitives ----------------------------
(* Small instances of Primitives for TLC. *)
EXTENDS Primitives

CONSTANTS a1, a2, a3, p1, p2, v1, v2, t1, t2, t3, MaxSize, MaxBlock

(* Single tasks of any size, from 0 or 1. *)
SingleLoops ==
  {c \in [multi : {FALSE}, static : BOOLEAN, from : 0 .. 1, to : 1 .. MaxSize,
          width : 1 .. 2, block : {1}] :
     c.from < c.to /\ (c.static => c.width = 1)}

(* Loops split into two tasks; they start at zero. *)
SplitLoops == [multi : {TRUE}, static : BOOLEAN, from : {0},
               to : (MaxBlock + 1) .. (2 * MaxBlock), width : {1},
               block : {MaxBlock}]

SmallLoops == SingleLoops \union SplitLoops

(* Two threads on cores of their own, kernels with one block and with three. *)
TwoCores == <<1, 3>>

SmallJobs == {[kernel |-> 1, blocks |-> <<<<1, 1>>>>],
              [kernel |-> 2, blocks |-> <<<<2, -1>>, <<0, 2>>, <<3, 1>>>>]}
=============================================================================
