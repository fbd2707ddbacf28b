# A TLA+ verification of the XiTAO runtime

XiTAO executes graphs of *tasks* on a fixed set of worker threads. A simple task
runs on one worker. An *assembly* (TAO) is *molded*: when it becomes ready it gets a
*place*, an interval `leader .. leader + width - 1` of workers, and all of them
execute it together. Beside it lies `loi` (`src/loi`), which records the memory
accesses of tasks, with the `krd` tools that compute reuse distances from such traces.
This directory holds TLA+ modules of both, TLC configurations that check them on small
instances, and TLAPS proofs about the assembly queues and the gangs that execute from them, the
execution of the task graph, the accounting of tasks, the lock-free queue, the barriers, the parallel loops, the shared performance table and
the merging of traces.

`PROJECT.json` lists for every definition the source lines it models, for every
run its properties, for every property a mutation of the model that breaks it, and
the hazards of the code with the properties that watch them.

## 1. Inventory

| component | source | state | operations |
|---|---|---|---|
| worker loop and task graph | `tao_sched.cpp`, `poly_task.cpp` | ready queues, `refcount`, `out` lists, the task in hand | search for work, run, `commit_and_wakeup`, `make_edge`, `xitao_push` |
| assembly queues | `queue_manager.h`, `tao_sched.cpp` | `worker_assembly_q`, `worker_assembly_lock`, `threads_in_tao`, `threads_out_tao` | `insert_task_in_assembly_queues`, `try_pop_assembly_task`, the barriers around `execute` |
| lock-free queue | `lfq-fifo.h` | linked nodes with `first` and `last` | `push`, `front`, `pop`, `empty` |
| accounting and life cycle | `poly_task.cpp`, `tao_sched.cpp`, `xitao_workspace.cpp` | `pending_tasks`, `task_pool`, `task_completions`, `gotao_can_exit` | task constructor, idle steps, `xitao_start`, `xitao_drain`, `xitao_fini` |
| placement | `perf_model.h`, `tao_sched.cpp` | `last_width`, `cont_choices` of a performance table | `history_mold_locally`, `global_search_ptt`, the default leader |
| PTT layout | `xitao_ptt.cpp`, `tao_sched.cpp` | `ptt_layout`, `inclusive_partitions` | `prepare_default_layout`, `read_layout_table`, `xitao_init_hw` |
| barriers | `barriers.cpp` | step and count; mutex, count and condition variable | `wait` of both |
| parallel loops | `tao.h`, `xitao_api.h` | `next_block` and the bounds of a loop | `ParForTask`, `xitao_vec`, `xitao_vec_multiparallel` |
| PTT tables | `xitao_ptt.cpp`, `xitao_ptt_key.cpp` | map from task type to performance table | `try_insert_table`, `clear_tables`, `reset_table` |
| configuration and start-up | `config.cpp`, `tao_sched.cpp` | options, `runtime_resource_mapper`, `static_resource_mapper`, `gotao_thread_base` | `init_config`, `set_xitao_mask`, `xitao_init_hw`, pinning, the queue of `xitao_push` |
| recording | `loi.h`, `krd.h`, `krd_trace.c` | `kernelstats` and `threadtraces` of each core | `kernel_profile_start/stop`, `kernel_trace1..3`, `krd_save_traces` |
| trace tools | `krd_trace.c` | traces read with a position each, the trace written | merge, coherence and partition tool |
| reuse distances | `krd.c` | a stack of blocks with a cursor, histograms | `do_one_histogram_mem`, histogram files, accumulation |
| statistics | `runtime_stats.cpp` | counters for the final dump | counting |

How they interact. The master constructs tasks, links them and pushes the roots
into ready queues. A worker looks into its assembly queue, then its ready queue,
then a victim's; a task from a ready queue is placed by the performance model
within the layout, and inserted into the assembly queue of each member of its
place. The members pop it, meet at a spinning barrier, execute it, and the last to
leave commits it: it releases the successors, which go to ready queues or, when
critical, directly to assembly queues. An idle worker reports its completions to
the global counter that `xitao_drain` waits for and workers test before they leave.
All of this is shared state of threads; there are no messages. The tasks may record their
accesses, each thread into the trace of the core it is pinned to; the traces are the only
thing that is persisted. The tools run after the program, one after another or, for the parts
of a trace, side by side, and share nothing but files.

What is hard in it, and what makes each part correct:

- *Assembly queues.* Insertions by different workers overlap, and a member that
  has popped a task spins and does nothing else. The queues must agree on the order of
  their common tasks, or workers wait for each other in a circle. The counters
  that make the two barriers belong to a task that the last member deletes.
- *Task graph.* Several predecessors of a task are committed at once; exactly one
  committer must hand it over, and only when all members of all predecessors are done.
- *Lock-free queue.* Producers exclude each other by a lock the consumer does
  not take; nodes are deleted while a producer holds a pointer near them.
- *Accounting.* The counter is kept in lumps (a pool of tasks counted beforehand)
  by steps that are not atomic together; zero must mean done, and be reached.
- *Placement.* Two fields are shared without a lock, and the shortcut reads one
  of them twice.
- *Layout.* Two tables must describe the same places, across re-initialisations.
- *Barriers.* They are used again before everybody has left.
- *Loops.* The blocks are computed from the width the program asked for, the
  members from the place the task gets.
- *Start-up.* A mask, a layout file, a base and repeated initialisations decide together
  which cores the workers are pinned to and which workers stay; tasks must land with one that does.
- *Recording.* Nothing is locked, because each core has its own thread; that is a
  consequence of the pinning.
- *Trace tools.* Invalidations must come behind the accesses they hit, and nothing may be lost.
- *Reuse distances.* Blocks are divided and removed while a cursor walks the list they are
  in; the parts of a trace, analysed side by side, must add up to the whole.

## 2. Modules

| module | models | abstract specification |
|---|---|---|
| `AssemblyQueues` | one assembly from ready queue to commit, insertion lock by lock, both barriers, optional deletion | `GangSchedule` |
| `AssemblyQueues_proofs` | theorems about its queues and its gangs | |
| `Scheduler` | the whole worker loop over a task graph | `DagExecution` |
| `Scheduler_proofs` | theorems about it | |
| `TaskAccounting` | counters, pools, start/drain/fini | |
| `TaskAccounting_proofs` | theorems about it | |
| `LFQueue` | a queue with its heap, two producers and one consumer | `Fifo` |
| `Placement` | the choice of a place with the shared table | |
| `Placement_proofs` | theorems about it | |
| `Layout` | the two layout tables | |
| `Startup` | options, mask, initialisation, pinning, the queue of a pushed task; extends `Layout` | |
| `Startup_proofs` | theorems about both | |
| `SpinBarrier`, `SleepingBarrier` | `spin_barrier`, `cxx_barrier` | `BarrierRounds` |
| `ParFor` | parallel loops, static and dynamic | |
| `Recording` | the counters and traces of pinned threads, and how they are saved | |
| `Primitives` | composes `LFQueue`, both barriers, `ParFor` and `Recording`: one of them takes the steps of a behaviour | |
| `Primitives_proofs` | theorems about all of them | |
| `TraceTools` | merge, coherence and partition tool | |
| `ReuseStack` | `do_one_histogram_mem`, a round of its loops in each step | |
| `KrdPipeline` | the tools one after another, from recorded traces to the sum of the parts' histograms; extends the last two | the trace itself (`LastRef`, `ProbedSince`) |
| `KrdPipeline_proofs`, `KrdParts_proofs` | theorems about its traces and its stack, and about the parts | |

Each `MC...` module defines the values of the constants of one of them. `Primitives`
is about what does not interact: in each of its behaviours one component takes steps, and the others keep
their initial state.

How they fit together. `AssemblyQueues` shows that insertions lock by lock leave the
queues as if each insertion were atomic, which is how `Scheduler` inserts.
`LFQueue` shows that the linked list is a queue, which is how `AssemblyQueues`
keeps it (a log with a read position), provided that there is one producer at a
time: that is `SingleProducer` of `AssemblyQueues`. `Scheduler` lets the place of a task be
any place around the worker; `Placement` has the choice, within a layout that
`Layout` builds. `TaskAccounting` treats a task as run by one worker and has the idle part
of the loop in detail, which `Scheduler` skips. `Startup` shows that workers have cores of
their own, which `Recording` takes as given, and that `xitao_push` finds a worker that has not left,
as `Scheduler` assumes. `Recording` shows that saved traces are ascending in
time, the assumption of `TraceTools` on what it reads.

State and actions keep the names of the source where TLA+ allows it. `pc`
labels stand for places in `worker_loop` or in the function modelled; a
step of the model is what the code does between two accesses to shared state, or
under a lock where others cannot see the steps in between. Variables marked
"history" exist only for the properties. Definitions named `X_Something` and
commented "Mutant" are variations of `X` with a plausible bug; no specification uses
them.

## 3. Runs

Eight runs pass and four exhibit defects.

| run | instance | what it shows |
|---|---|---|
| `assembly_safety` | 3 workers, 3 tasks, overlapping places, symmetric tasks; 835 000 states | queue orders agree, no cycle of waiting members, members enter together, exactly the last exits and commits, one producer per queue, the inductive invariant of the proofs |
| `assembly_live` | 3 workers, 2 tasks, all places, one critical; 162 000 states | every task is committed; implements `GangSchedule` |
| `assembly_deleted` | 2 workers, 2 tasks, deletion on | **violation** of `LastExit` |
| `scheduler` | 3 workers, a diamond of 4 tasks, one thief; 224 000 states | exact refcounts, custody of every task, one execution per member, dependencies, completion; implements `DagExecution` |
| `accounting` | 2 workers, 2 tasks, pools of 2; 54 000 states | exact counter, sound zero and exit, drain and fini return |
| `accounting_restart` | the same with 1 task, 2 sessions | **violation** of `DrainReturns` |
| `placement_safety` | 3 of 6 workers, default layout; 1 506 000 states | no settled width before one was stored; places are those of the layout |
| `placement_torn` | 2 of 6 workers | **violation** of `MembersExist` |
| `startup` | 6 cores, all numbers of threads, 2 masks, 2 bases, more than 130 files, any number of sessions; 208 000 states | the tables agree, default layouts are symmetric, nothing of an earlier layout is left; workers have cores of their own; pushed tasks reach a worker that has stayed |
| `primitives` | queue: 3 addresses, 2 producers, 4 pushes; barriers: 3 threads, step counter modulo 3; loops: up to 9 iterations, 3 members, 2 tasks; recording: 2 threads, 2 kernels each, traces of 3; 149 000 states | no use after delete and no leak, the queue implements `Fifo`; both barriers implement `BarrierRounds`; each iteration once and no other; traces and counters are what the threads did |
| `krd` | 2067 recordings of 2 or 3 traces, merged and made coherent, 3 warm-ups, whole traces and parts, both data models; 519 000 states | traces in the order of time, nothing lost; an LRU stack through all divisions, distances within bounds up to where they wrap around, each word counted once; the parts cover and equal the whole |
| `krd_invalidation` | a block of two words and another, a write to the end of the one and the beginning of the other | **violation** of `ProbesMark` |

Bounds and why they are enough.

- *Assembly queues.* Three workers and three tasks are the least with which
  members can wait in a circle that no two of the tasks close; places of width 1 at the
  ends of the machine are left out because they meet no other. With two tasks in the
  liveness run all pairs of places occur, also the place that does not include its inserter.
- *Scheduler.* The diamond has a fork, a join with two predecessors committed at
  once, a simple task with an affinity, and a critical task; all places of three workers
  occur. One worker steals from another: more thieves only multiply equal states.
- *Accounting.* Two tasks and pools of two: a pool is refilled, drawn from again
  and flushed with something in it, by both workers and the master.
- *Queue.* Three addresses are fewer than the nodes of four pushes and the dummy:
  addresses are used again while a producer is between its steps, the case of the
  classical ABA error.
- *Placement.* Six threads have the widths 1, 2, 3 and 6; three molders at
  different alignments; the bound on equal choices is 2 instead of 10 (it is only
  compared with). Values of `cont_choices` above the bound are not told apart.
- *Barriers.* Modulo 3 the step counter wraps as the 32-bit one does, and two rounds
  are always in different steps. Three threads: one may be a round ahead while one spins and one
  leaves.
- *Start-up.* Six cores have the default layouts of 2 to 6 threads (a prime, a square, a number
  with four divisors) and bases that leave enough cores or too few; files of three workers have any
  choice of lines from five, one of them illegal, and others are too long, too wide, or separated by spaces.
- *Recording.* Cores 1 and 3 of 5: an index that loses a bit makes them one. The trace has three entries, so
  that it is full in the middle of a kernel.
- *Krd.* Blocks of one to three words on three addresses overlap in all ways (superset, interior, start, end);
  three accesses and one of another core divide blocks twice and mark parts. Five accesses to single
  words with two invalidations have three parts of two words. Warm-ups reach nowhere, back by one part, and to the beginning.
  Histograms have 16 bins instead of 128, of which the distances use the first 5. Distances are counted modulo 4
  words instead of 2^30 (`DistanceMod`): in the recordings of up to three words they never wrap around, in the 81 of four words (`Wide`) they do.
- *Loops.* Nine iterations on three members with two blocks per width give rests
  at both divisions; slackness is 2 instead of 8.

Deadlock checking is off where the modelled system stops: after the last session
(`accounting`), after a fatal error at start-up (`startup`), when the analysis is
complete (`krd`, `krd_invalidation`), and after the last push, at the end of a loop and when the traces are saved (`primitives`).

Fairness. Weak fairness of each thread only: `worker_loop` is a busy loop that the operating
system schedules, and a thread that spins or holds a lock is scheduled as well. Locks are
test-and-set spin locks: nothing is assumed of who gets one that is free, and a waiting
thread may be passed as often as there are others that want it (tasks are finitely many, so
`EveryTaskCommits` needs no more). In `TaskAccounting` the program pushes what it has created and its tasks end; it
need not call the API, a condition variable need not wake by itself, and stealing need not
succeed. In `Scheduler` the program pushes its roots; stealing need not succeed. In the
barriers a thread inside `wait` runs on; nobody need come.

## 4. Defects shown by runs

- `assembly_deleted`: the exit test compares `++threads_out_tao` with `width` read
  *after* the increment (`tao_sched.cpp:354`). The last member may have committed
  and deleted the task by then (`delete_executed_taos` is on by default), and
  with a stale or reused width another member commits it again.
- `accounting_restart`: `gotao_can_exit` is never reset (`tao_sched.cpp:174`). In a second
  session the workers leave as soon as they read a zero counter, before the first task
  exists, and `xitao_drain` waits for ever.
- `placement_torn`: the shortcut of `history_mold_locally` reads `last_width` for
  the leader and again for the width (`perf_model.h:84-85`); a store in between gives a place beyond
  the machine, against the assertion at `queue_manager.h:59`.
- `krd_invalidation`: an invalidation that hits the end of a block cuts it in two, and the cursor
  goes on to the part that has just been cut off and marked (`krd.c:541`). Its bytes are subtracted a second time;
  the probe ends before it reaches other blocks it covers, or misses zero and runs to the end.

Further disagreements met while modelling, recorded as hazards and without a run of their own:
the release loop of an insertion reads a deleted task (`queue_manager.h:63`, reachable for a critical
task placed away from its inserter); a worker outside every partition never returns its pool (`tao_sched.cpp:288`);
a successor may be queued with such a worker (`poly_task.cpp:140`); a settled width
may be used where a layout file does not allow it, and the table is not refreshed any more
(`perf_model.h:83-86`); the default leader of a width that does not divide the
machine (`tao_sched.cpp:312`); a critical task for which no place was found
(`perf_model.h:78`); the empty default layout of one thread (`xitao_ptt.cpp:174`); a layout file
with numbers separated by spaces, like the example of the readme (`xitao_ptt.cpp:113`);
the last partition taken for the largest (`tao_sched.cpp:286`); a spurious wakeup in
`cxx_barrier` (`barriers.cpp:43`); a split loop that does not start at zero
(`xitao_api.h:164`); `xitao_barrier`, which waits for a task that calls it too, not for the end of the
execution (`xitao_api.h:88`); the mask of the first session is dropped by `xitao_fini` and a new one is
refused, so that workers of the next session may all be pinned to core 0 (`tao_sched.cpp:56`, `173`); a layout file
together with a mask leaves no worker active (`tao_sched.cpp:103`); `optind` is not set back between calls (`config.cpp:108`).
In the tools: `reuse_distance` has 32 bits, so that an access which passes 4 GiB of other blocks is counted in the bin of
a short distance (`krd.c:318`); the bloom filter does not learn blocks of the warm-up (`krd.c:307`); cold misses are counted for all
kernels when one is tracked (`krd.c:432`); half of the bins are never written (`krd.c:615`); recorded entries have no core
before a merge (`krd.h:110`); a trace that begins with block 0 is not saved (`krd_trace.c:40`); a failed
write never ends (`krd_trace.c:85`); the interleaving tool reads behind the end of traces (`krd_trace.c:497`).

## 5. Proofs

`AssemblyQueues_proofs` proves, for any number of workers, any finite set of tasks and any
set of places within the machine:

| theorem | statement |
|---|---|
| `TypeCorrect` | `Spec => []TypeOK` |
| `InsertionsAreTwoPhase` | `Spec => []InsertInv` |
| `QueuesAreSerial` | `Spec => []SerialOrder` |
| `OrderIsCommon` | `Spec => []CommonOrder` |
| `ProducersAreSingle` | `Spec => []SingleProducer` |

The last four assume `DeleteExecuted = FALSE`: with deletion the release loop may read
the place of a task that is gone, and `SingleProducer` is false. The other assumptions are those
of `AssemblyQueues` on its constants.

The argument. `CommonOrder` (two tasks that share two workers are in the same order
in both queues) is not inductive: a step that pushes to one queue must know how the
queues further right will look. An insertion acquires its locks from the leader to the right
and releases none before the last push. So the history variable `stamp` gives every
insertion the number under which its last push was made, and `SerialOrder` says that
in each queue, what completed insertions have left is ordered by stamp, and what an
insertion in progress has pushed comes after all of that. `InsertInv` adds what makes this
inductive: the bounds of the two loops (`LoopBounds`), which locks an inserter holds at each
point (`LocksHeld`), that a task has one inserter (`OneInserter`), and where entries of
open insertions can be (`OpenEntries`, `PushedSoFar`). There is one lemma per action that touches
an insertion (`AcquireInsert`, `PushMoreInsert`, `PushLastInsert`, `ReleaseLoopInsert`,
`TakeInsert`); all other steps leave the variables of `InsertInv` alone (`QuietStep`).
`CommonOrder` follows from two positions with the same pair of stamps, and
`SingleProducer` from the locks that two pushers would both hold.

The second half of the module is about the gangs, under the same assumptions:

| theorem | statement |
|---|---|
| `GangsEnterTogether` | `Spec => []GangEntry` |
| `LastMemberCommits` | `Spec => []LastExit` |
| `NobodyWaitsInCircles` | `Spec => []NoWaitCycle` |
| `QueuesKeepSchedule` | `Spec => GS!Init /\ [][GS!Next]_(GS!vars)`, the safety part of `ImplementsGangSchedule` |

The argument. `threads_in_tao` and `threads_out_tao` are numbers, and what they must say is who has come. `Counts` ties
each to a set of workers. An entry barrier that opens at the width has then seen the whole place, because only members
can be in the set and no member counts itself twice. Both follow from the queues: a task is in the queue of every member
of its place at most once and in no other (`Logs`), so a worker meets it once (`Met`). That a push adds no second entry
is where `InsertInv` is needed: who still has a task to push has not passed this queue yet (`NotPushed`). Members leave with different
values of the exit counter (`Exits`), so only one sees the width, and after it has committed nobody else can (`Committed`).
Steps outside of the gangs change neither counters nor places of popped tasks (`Apart`); the steps of members have a lemma
each. With deletion `LastExit` is not even true (the run `assembly_deleted`).

That nobody waits in a circle (`NoCycle`) rests on `Worked`: a worker has run all it has popped, except what it is in now. Who
spins for an assembly with a stamp waits for workers that are in assemblies with smaller stamps, because the queues are in the order of
the stamps (`WaitsEarlier`). Who spins for an assembly that is still being inserted waits, if for one that spins in such an assembly too, for a
worker further right (`WaitsRight`): the insertion with the lower locks cannot have gone past the other. And who waits
for a queue lock waits for a holder whose next lock is further right (`WaitsForHolder`). In a set of workers that all wait within the set
there would be one whose stamp is least, or one that is furthest right (`Least`, `Greatest`), and it waits for nobody there.
The same order gives the refinement: an assembly is scheduled when it is stamped and started when its last member has entered, and
every member has then run what was scheduled for it before (`EarlierIsRun`).

`Primitives_proofs` proves of the queue, the barriers, the parallel loops and the recording of traces, for any number of producers, addresses and
pushes, any finite, nonempty set of threads, any loops, widths and places, and any kernels and lengths of traces:

| theorem | statement |
|---|---|
| `QueueHeapIsSound` | `Spec => []HeapSound` |
| `QueueKeepsFifo` | `Spec => Queue!F!Init /\ [][Queue!F!Next]_(Queue!F!vars)`, the safety part of `ImplementsFifo` |
| `SpinKeepsRounds` | `Spec => Spin!BR!Init /\ [][Spin!BR!Next]_(Spin!BR!vars)`, the safety part of `ImplementsBarrier` |
| `SleepersKeepRounds` | the same of `Cxx`, without spurious wakeups, the safety part of `CxxImplementsBarrier` |
| `LoopsAreComplete` | `Spec => []EachIterationOnce`, if loops that are split begin at zero (`SplitFromZero`) |
| `RecordsAreExact` | `Spec => []TraceIsRecord` |

The queue. `Chain` and `Contents` follow the pointers from `first` on, which is a recursion; the invariant (`QueueInv`) says instead
that there is a sequence of different addresses with these links (`Listed`), and `ListIsQueue` shows that the recursion yields it. What makes
it inductive is what the others know. A producer that holds the lock has a node off the list, which is also not the one the
consumer is deleting, or its node is the end of the list and `last` follows in its next step (`Pushers`). The consumer, which takes no lock,
has seen a second node, so that what it reads and unlinks is never the node a producer is appending to; what it holds has left
the list (`Popper`). Nothing else is alive (`Working`). `Publish` appends to the sequence and is the push of `Fifo`,
`Advance` drops its head and is the pop, and the values change with neither of the other steps (`Quiet`).

The barriers. The invariant of the spinning one (`Rounds`): a thread that counts itself has seen the current step; one that spins is at most one step
behind; while the last one sets back `nwait` and opens the barrier all others spin. That a spinning thread is never two steps
behind is why two values of `step_atmc` are enough. The invariant of the sleeping one (`Books`): `pending_threads` is the number of threads
still missing, except that zero also stands for a round no one has come to; and while the last one holds the mutex all others sleep.

The loops. An interval of iterations is divided three times: the loop into tasks, a task into blocks from the width the program
gave, or into shares from the width of its place. Each time all parts but the last have the same size, and they are
disjoint and complete if all before the last fit (`PartsFit`), which both ways of rounding guarantee (`RoundUp`, `Quotient`). So the pieces of all tasks
have no iteration in common (`PiecesFit`). The invariant (`ForInv`) counts the iterations of the pieces that are executed: shares whose member is done, and
blocks that are claimed and that nobody runs. `next_block` gives each block to one member (`Claims`), and who
finds none has seen all of them claimed. `SplitFromZero` is needed, as `xitao_vec_multiparallel` computes its blocks from zero.

The recording. What each thread has run is counted (`RunsCounted`, `RunsTimed`: between the load of a counter and the store of it the
new value is in a register), and of its accesses the first ones have been dealt with: as many as there is room for are in the trace of its core, and the rest are those
the thread has still to write (`DealtWith`). A step of a thread touches nothing of this that belongs to another (`Others`), which is where it is needed that
threads have cores of their own. That is an assumption on the constants of `Recording`, together with the one that no kernel begins with block 0: a trace that does would count as empty when
it is saved. `OneMoreRun` and `OneMoreAccess` say what the sums over all runs become with a further one.

`KrdPipeline_proofs` proves `TracesInTimeOrder`, `Spec => []TimeOrder`, for any number of recorded traces of any
length, from the assumption that recorded traces are ascending (which `TraceIsRecord` shows of what is recorded).
`TimeOrder` says that the written trace is ascending and that its last entry is not younger than anything unread.
`OrderInv` adds that the traces read are ascending and that the positions are positions. A round
takes the oldest unread entry (`RoundTakesOldest`): what follows it in its own trace is not older because that is ascending,
and what is next elsewhere is not older by the choice. All steps of `krd_tool` leave the traces alone (`StepOrder`).

It also proves `TracesAreComplete`, `Spec => []NothingLost`, without any further assumption. `LostInv` says of what has been read so far of each trace
what `NothingLost` says of all of it: the entries with the number of a trace, or in a coherent one the accesses, are the ones read, the k-th of them the k-th of
the trace (`PartSoFar`, where `Rank` counts positions); and an invalidation stands in the trace as often as writes of others with the same entry have been read
(`InvalidationsKept`). An entry that is appended is behind all others, so it does not change the rank of any (`RankGrows`).
An access is never counted with the invalidations, as sizes are positive there and negative here and never zero.

Of the reuse stack it proves, for any trace made of such recordings, any division into parts and either data model:

| theorem | statement |
|---|---|
| `StackIsInOrder` | `Spec => []RecencyOrder` |
| `DistancesAreBounded` | `Spec => []DistanceBounds` |
| `WordsAreCounted` | `Spec => []EveryWordCounted` |

The first two are about moments between and within entries, so the invariant (`StackInv`) must describe the stack in the middle of one. While an access is looked
up the stack is divided at the cursor (`WalkAt`): above it there are no words of the entry, the words found so far (`R`) have left the stack, they were used after everything that is
still below, and with the blocks passed they make up `distance` as far as it holds that many. `Sound` is the order itself, except that the words of the entry
may be missing or marked at wrong places until it is finished; a word that is missing is older than the whole
stack (`Remembered`), because only the last block is ever dropped. `Age` is the last access to each word. There is one lemma per step of the loop; they rest on
what the pieces of a divided block are (`RestIs`, `MarkedIs`) and on what replacing a block, dropping the last one and putting the entry on
top do to the order (`SoundReplace`, `SoundDrop`, `SoundPush`). Without partial overlaps a block that is found is the whole entry (`WholeMatch`), which needs
that the blocks of the trace are apart (`JobInv`) and that the warm-up and the bloom filter are not both in use; else neither property is stated. The bounds
follow from the invariant by counting: what has been passed or found is newer than the block or as old, and what is newer has been passed or found.
`distance` is that count as 4 bytes hold it (`Grown`, `DistanceMod`): never more, and the same as long as it fits (`CountsTo`, `GrownCounts`). So the upper bound of
`DistanceBounds` holds for every trace, and the lower one has the hypothesis that the words used since are fewer than `DistanceMod`, that is 2^30 words or 4 GiB; it is false beyond. The modulus
is any positive number (`DistanceAssumption`). The other theorems do not need it: a wrapped distance has a bin as well, and the parts wrap as the whole does.

`EveryWordCounted` needs one assumption, `HistogramAssumption`: there is a bin for each number of words up to that of all words the recorded
programs touch (`Footprint`), since a count beyond the last bin would be lost. The code has 128 bins, for the logarithms of numbers of 64 bits. With it
`CountInv` is inductive: between two rounds of the search the words counted are those in the histogram and those still missing of the entry in hand. That a
distance is within the footprint follows from `DistanceBounds`, as the trace has no words but recorded ones (`OriginInv`); but not for a job
with a warm-up and the bloom filter, whose stack is no LRU stack. Of that one `BlindInv` says as much as is needed: the blocks that the filter
knows are above all others and no two of them are the same, so a search that the filter lets through ends among them and its distance is the number of words in
different blocks. `SumBins` is a fold; `SumsExist` shows that the recursive function it stands for exists on finite sets,
and `SumAddTo` what counting a word does to it.

`KrdParts_proofs` goes on from there, for the same traces:

| theorem | statement |
|---|---|
| `PartsAreCovered` | `Spec => []PartsCover` |
| `PartsGiveTheWhole` | `Spec => []PartsEqualWhole` |

`PartsCover` speaks of a trace whose accesses have one size that divides the partitions. The words before a position of the trace are then that size times a number of accesses
(`Upto`), and all quantities are multiples of it (`OneSize`, `Multiples`). Four invariants follow the words through the tools. `PartsInv`: the two cursors of the partition tool stand on
accesses (`Stop`), their counters are the words before them, and before the start of the m-th part there are m - 1 partitions (`CountsFrom`). `RunInv`: a job has counted the words before the entry it has
reached, less those of the parts before it, and is not warming up exactly from there on; it ends with a full partition or with the trace. `HalfInv`: the bins
that are not written are empty, so a file holds what the job has counted (`FilesInv`); for this the words must fit into the 4 bytes of a miss counter (the hypothesis
`TraceWords < CountMod` of the property) and their bins into the half that is written (`StoredAssumption`: `2 * CeilLog2(n) < 2^HistLen`, that is n up to 2^61 words of 4 bytes for the 128 bins of the code).
The sum of the files is a fold over a sequence, unfolded by `FoldIs` like the sums above; that the last partition ends behind the end of the trace makes it the words of the trace (`AddsUp`).
`QuietInv` says that nothing is analysed before the trace has been cut.

`PartsEqualWhole` compares different executions of the stack algorithm: that of the whole trace and those of the parts, which all begin with an empty stack. The proof defines the one run over the whole
trace as a sequence of moments (`After`, `Course`, `Attained`) and shows that each job is at a moment of it (`CourseInv`). A warm-up that reaches back to the beginning starts in front of the first
access (`WarmInv`), and invalidations in front of that leave the stack empty (`LeadIn`); from there each step of a job is the step of the run, with the same stack, cursor and distance (`StepFollows`), and
its histogram together with that of the run at the origin of the job is that of the run now, since `Recorded` adds to a sum what it adds to a part (`PlusEntered`). Where a job stops depends on invalidations
behind its last access, but the histogram does not: behind the same words the run has one histogram (`OneHistogram`). So each file holds what the run counts from one partition point to the next (`PairsInv`), and
the sum over them is the histogram of the run at the end, as is the first file (`WholeInv`, `AddsRun`). The files hold all of a histogram: `MissInv` says of the bins for lost words what `HalfInv` says of the others.
The attempt showed two things that the run over small traces could not: the property needs `TraceWords < CountMod`, as `PartsCover` does (the miss counter of the whole trace is cut to 4 bytes once, those of
the parts each for itself), and the whole trace must fit into the partition of size -1 (`UnlimitedAssumption`: `CountMod - 1 <= Unlimited`; in the code -1 becomes the greatest unsigned number of 64 bits).

`Scheduler_proofs` proves, for any graph, number of workers, places, affinities and victims, without further
assumptions than those of `Scheduler` on its constants:

| theorem | statement |
|---|---|
| `RefcountsAreExact` | `Spec => []RefcountExact` |
| `DependenciesAreKept` | `Spec => []DependenciesHold` |
| `ExecutesTheGraph` | `Spec => DE!Init /\ [][DE!Next]_(DE!vars)`, the safety part of `ImplementsDagExecution` |
| `CustodyIsKept` | `Spec => []Custody` |
| `MembersRunOnce` | `Spec => []EachMemberOnce` |

The argument. That a task begins only after its predecessors follows from `RefcountExact` and from
`BegunIsReady` (what has begun has the refcount zero): no predecessor is left that has not released it, and one that has
is being committed or has been, which takes that its whole place has run it (`Commits`). Neither is inductive alone.
Two commits of the same task would release its edges twice, and a place chosen anew for an assembly that already runs
would change how many members must have run it. Both are excluded by `OnePlace`: at any time a task is at only one of its
stations, waiting, with the program, at one position of one ready queue, in the hands of one worker, a gift of one commit, or launched.
Each action moves one task from one station to another (`Moved`) or none (`Stay`). `RanIsOut` ties the history `ran` to
`threads_out_tao`, which decides who commits; `ReleasePositive` shows that the decrement of a refcount meets an edge
that is still counted.

The last two theorems need the converse too, that a task is at one of its stations and not at none. `Kept` adds it: a task that is
ready is somewhere (`Present`), an assembly in an assembly queue has a place and each member has it at most once (`Placed`), and
who is in an assembly is a member of its place and has not run it (`Entered`). `EachMemberOnce` adds up positions of a queue, the worker's hands
and the history; a step moves the one unit there is (`StepShares`), and `CountAppend` and `CountTail` say how positions are counted.

`TaskAccounting_proofs` proves, for any number of workers and tasks, any partition and any size of the pools:

| theorem | statement |
|---|---|
| `CounterIsExact` | `Spec => []Accounting` |
| `ZeroIsQuiescent` | `Spec => []QuiescentIsDone` |
| `ExitIsSound` | `Spec => []ExitSound`, if `Sessions = 1` |

The argument. `Accounting` adds up three kinds of things, and each step must change one of them as it changes `pending_tasks`
(`Balance`; `TotalChange` does the sums). It needs an invariant that tells whose refill or flush a pool is in the
middle of: `LocksHeld` says who holds `worker_lock[i]` at each place of the code; `Constructors`, that a constructor adds a
task that is not counted yet, to a pool that is empty when it is refilled; `Running`, `QueuedOnce` and `HeldOnce`, that a task that
is committed is created and with no one else, or two commits would report it. The first two theorems hold over any number of sessions. The
third does not: `gotao_can_exit` stays set, and the workers of a second session may leave at once (the run
`accounting_restart`). `ExitInv` adds that workers leave only after `xitao_fini`, which is last, so that only a
running task could create another; and there is none when the counter has read zero.

`Placement_proofs` proves `ShortcutHasWidth`, `Spec => []SettledOnWidth`, for any layout, any widths given by the
program and any number of workers. `SettledOnWidth` is not inductive: a worker increments `cont_choices` from a value it
has read before, after it compared `last_width`, and writes `last_width` still later. `SettleInv` adds that
`cont_choices` is positive only if `last_width` is a width, that what a search has found has a width, and that a worker
between the comparison and the increment relies on a width in the table. `last_width` is only ever overwritten by the
width of a place that was found, so a width stays a width (`Move`, for every step that changes the table).

`PlacesAreAllowed`, `Spec => []PlaceAllowed`, is about where tasks go. The shortcut combines the width of a place some worker
has found with a leader that it computes, so it needs a layout that is `Regular`: width 1 everywhere, and a width that is allowed
somewhere at each of its multiples. `DefaultIsRegular` proves it of the default layout for more than one core; a
file need not be regular. A width the program gives is used unchecked, so the theorem is for given widths that divide the machine.
`AllowedInv` adds what a worker knows at each place of the code (`Right`); between the two reads of `last_width` the
leader is a multiple of the width it read first.

`Startup_proofs` proves, for any number of cores and any layout files, masks, bases, command lines and sessions:

| theorem | statement |
|---|---|
| `TablesStayAlike` | `SystemSpec => []TablesAgree` |
| `DefaultsAreSymmetric` | `SystemSpec => []DefaultIsSymmetric` |
| `FilesAreObeyed` | `SystemSpec => []FileIsLayout` |
| `WorkersHaveCores` | `SystemSpec => []OneWorkerPerCore` |
| `TasksFindWorkers` | `SystemSpec => []PushedToWorker` |

The argument. `TablesAgree` is inductive: a line that is read adds to the list of each worker what it adds to the list of the leader
(`CoveringIs`, `Concatenated`). For the default tables it has to be computed: `WidthsAreDivisors` says which widths they have,
each divisor but the square root once below it or as the cofactor of one below it, and `FlattenedOnce` that of the lists
put together for a worker only the one of the right leader contributes. A worker is in one place of each width because only one multiple of
the width is close enough (`PlaceOf`). `FileInv` says how much of the file is in the layout already (`ReadSoFar`). For the session `ReadyInv`
and `CoresInv` remember what the last initialisation took the threads and the cores from, until the next one, and `SessionInv` that a
session changes nothing of it. `ChosenStays` is the search of `xitao_push`: going round, it meets the
worker that exists, and takes the first. With a mask it does not search; there every worker has a place as soon as one has. The empty line of a file without commas has no number in the model, as in the code:
otherwise the proof would fail. `Layout` lists
and selects numbers with `Ascending` and `Entries` instead of the sorting and filtering operators of the
library, whose definitions the provers cannot expand.

Every invariant that a passing run checks is also proved. Only model-checked: liveness, and the fairness of `Fifo`, `GangSchedule`, `DagExecution` and `BarrierRounds`.
The induction theorems of the library take an operator as a parameter and cannot be used; where a proof needs an
induction it takes the least counterexample instead (`Least`).

## 6. What is abstracted or left out

- Execution times: any candidate place may turn out best.
- The order in which `Succ` is visited, and which victim is chosen: any.
- A layout file is the list of its lines as lists of numbers.
- A condition variable of `SleepingBarrier` wakes spuriously only with
  `Spurious = TRUE`; that of `xitao_drain` may always.
- The graph is complete before it is executed; edges added to running tasks are not modelled.
- A critical `SimpleTask` is excluded by assumption (the runtime would treat it as an assembly).
- Addresses and sizes of traces count words of 4 bytes; the bloom filter has no collisions; a trace
  without file is an empty one; the tools do not fail to read or write.
- Of the options only the number of threads and the use of affinities are looked at; the others set
  constants of the other modules. Extracting the options from one argument is the identity on them.
- Not modelled: the map of PTT tables; statistics and everything that is only printed;
  `gotao_push_init`, which no header declares and nothing calls; of `loi` the timer calibration, the phase timers and
  the overhead benchmarks; the interleaving and dump tools and `gentrace`, which no other tool needs; the
  benchmarks, programs on top of the runtime.

## 7. Plan

Written: all modules of section 2, in the order `AssemblyQueues`, `TaskAccounting`,
`Scheduler`, `Layout`, `Placement`, `LFQueue`, barriers, `ParFor`, `TraceTools`, `ReuseStack`, `KrdPipeline`,
`Startup`, `Recording`. What could follow:

1. `PttTables`: `try_insert_table` called by running tasks, with the unlocked map.
2. Edges added during the execution in `Scheduler`.
3. Deletion of executed tasks with `Critical = {}`: which properties of `AssemblyQueues` it keeps.
