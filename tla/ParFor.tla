------------------------------- MODULE ParFor -------------------------------
(***************************************************************************)
(* Parallel loops: xitao_vec makes one ParForTask of a loop, and            *)
(* xitao_vec_multiparallel one for each block of its iterations.  A         *)
(* ParForTask is an assembly: each member of its place executes a part of   *)
(* the task's iterations, either the part that belongs to its position      *)
(* (static) or small blocks that the members claim one by one (dynamic).    *)
(* The place, and with it the number of members, is only known when the     *)
(* task runs.                                                               *)
(***************************************************************************)
EXTENDS Integers, FiniteSets

CONSTANTS
  Calls,       \* [multi, static, from, to, width, block]: the loops to run
  MaxMembers,  \* bound: the largest place
  Slackness    \* ParForTask::slackness, 8 in the code

(* what the constants must be *)
ConstantsOK ==
  /\ MaxMembers \in Nat \ {0} /\ Slackness \in Nat \ {0}
  /\ IsFiniteSet(Calls)
  /\ \A c \in Calls : /\ c.multi \in BOOLEAN /\ c.static \in BOOLEAN
                      /\ c.from \in Nat /\ c.to \in Nat /\ c.from < c.to
                      /\ c.width \in Nat \ {0} /\ c.block \in Nat \ {0}

VARIABLES
  call,     \* the loop
  members,  \* members[t]: the width of the place of task t, 0 before it has one
  next,     \* next[t]: the task's next_block
  pc,       \* pc[t][m]: what member m of task t does
  mine,     \* the block_id of a member
  times,    \* history: how often the body was executed for an iteration
  exited    \* a task has ended the program: "not enough work to do"

vars == <<call, members, next, pc, mine, times, exited>>

Member == 0 .. MaxMembers - 1
Upto(a, b) == a .. (b - 1)

-----------------------------------------------------------------------------
(* The tasks of a loop, numbered from 0, and their iterations.              *)

NBlocks(c) == IF c.multi THEN (c.to - c.from + c.block - 1) \div c.block ELSE 1

Tasks == Upto(0, NBlocks(call))

(* the block_start and block_end of xitao_vec_multiparallel *)
Start(t) == IF call.multi THEN t * call.block ELSE call.from

(* Mutant: the last task gets a whole block too. *)
End_WholeBlock(t) == IF call.multi THEN Start(t) + call.block ELSE call.to

End(t) ==
  IF call.multi /\ t < NBlocks(call) - 1 THEN Start(t) + call.block ELSE call.to

Size(t) == End(t) - Start(t)

(* dynamic: the blocks of a task, computed by the constructor from the width
   the program gave *)
BlockSize(t) ==
  LET b == Size(t) \div (call.width * Slackness) IN IF b <= 0 THEN 1 ELSE b

Blocks(t) == (Size(t) + BlockSize(t) - 1) \div BlockSize(t)

Block(t, b) ==
  LET first == Start(t) + b * BlockSize(t)
  IN  Upto(first, IF b >= Blocks(t) - 1 THEN End(t) ELSE first + BlockSize(t))

(* static: the part of member m, from the width of the place *)
ShareSize(t) == Size(t) \div members[t]

(* Mutant: the last member's part ends where the others' would. *)
Share_NoRest(t, m) ==
  LET first == Start(t) + m * ShareSize(t) IN Upto(first, first + ShareSize(t))

Share(t, m) ==
  LET first == Start(t) + m * ShareSize(t)
  IN  Upto(first, IF m >= members[t] - 1 THEN End(t) ELSE first + ShareSize(t))

-----------------------------------------------------------------------------
Iterations == UNION {Upto(0, c.to + c.block) : c \in Calls}

Init ==
  /\ call \in Calls
  /\ members = [t \in Tasks |-> 0]
  /\ next = [t \in Tasks |-> 0]
  /\ pc = [t \in Tasks |-> [m \in Member |-> "off"]]
  /\ mine = [t \in Tasks |-> [m \in Member |-> 0]]
  /\ times = [i \in Iterations |-> 0]
  /\ exited = FALSE

Goto(t, m, label) == pc' = [pc EXCEPT ![t][m] = label]

(* the body is executed for the iterations in S, in one step: the members
   write to iterations of their own *)
RunBody(S) == times' = [i \in Iterations |-> times[i] + (IF i \in S THEN 1 ELSE 0)]

(* worker_loop has placed the task and its members have passed the barrier *)
Enter(t, w) ==
  /\ ~ exited
  /\ members[t] = 0
  /\ members' = [members EXCEPT ![t] = w]
  /\ pc' = [pc EXCEPT ![t] = [m \in Member |->
              IF m >= w THEN "off" ELSE IF call.static THEN "share" ELSE "claim"]]
  /\ UNCHANGED <<call, next, mine, times, exited>>

(* block_id = next_block++ *)
Claim(t, m) ==
  /\ ~ exited
  /\ pc[t][m] = "claim"
  /\ mine' = [mine EXCEPT ![t][m] = next[t]]
  /\ next' = [next EXCEPT ![t] = @ + 1]
  /\ Goto(t, m, IF next[t] < Blocks(t) THEN "run" ELSE "done")
  /\ UNCHANGED <<call, members, times, exited>>

RunBlock(t, m) ==
  /\ ~ exited
  /\ pc[t][m] = "run"
  /\ RunBody(Block(t, mine[t][m]))
  /\ Goto(t, m, "claim")
  /\ UNCHANGED <<call, members, next, mine, exited>>

RunShare(t, m) ==
  /\ ~ exited
  /\ pc[t][m] = "share"
  /\ ShareSize(t) >= 1
  /\ RunBody(Share(t, m))
  /\ Goto(t, m, "done")
  /\ UNCHANGED <<call, members, next, mine, exited>>

NotEnoughWork(t, m) ==
  /\ ~ exited
  /\ pc[t][m] = "share"
  /\ ShareSize(t) < 1
  /\ exited' = TRUE
  /\ UNCHANGED <<call, members, next, pc, mine, times>>

Next ==
  \E t \in Tasks :
    \/ \E w \in 1 .. MaxMembers : Enter(t, w)
    \/ \E m \in Member :
         Claim(t, m) \/ RunBlock(t, m) \/ RunShare(t, m) \/ NotEnoughWork(t, m)

Spec == Init /\ [][Next]_vars
-----------------------------------------------------------------------------
(* Properties. *)

Over(t) == members[t] > 0 /\ \A m \in Member : pc[t][m] \in {"off", "done"}

(* However the members share a task, whatever width the program gave and whatever
   place the task has got, the body is executed for no iteration twice, and when the
   last member leaves the task, for all iterations of it.  Over all tasks these are
   the iterations of the loop and no others: "iter_start is the iterator start",
   "end is the end of the loop". *)
EachIterationOnce ==
  /\ \A i \in Iterations :
       times[i] <= IF i \in Upto(call.from, call.to) THEN 1 ELSE 0
  /\ \A t \in Tasks : Over(t) => \A i \in Upto(Start(t), End(t)) : times[i] = 1
  /\ (\A t \in Tasks : Over(t)) => \A i \in Upto(call.from, call.to) : times[i] = 1
=============================================================================
