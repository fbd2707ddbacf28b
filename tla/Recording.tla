------------------------------ MODULE Recording ------------------------------
(***************************************************************************)
(* What loi and krd record while the tasks run: a kernel is framed by        *)
(* kernel_profile_start and kernel_profile_stop, which add to the counters   *)
(* of the core, and followed by kernel_trace1 .. 3, which append the blocks   *)
(* it has accessed to the trace of the core.  The counters and traces are     *)
(* shared and updated without a lock: "each entry is only touched by a single *)
(* core and thread".  At the end krd_save_traces writes the traces.           *)
(*                                                                            *)
(* A thread stays on its core, as worker_loop pins it.                        *)
(***************************************************************************)
EXTENDS Integers, Sequences, SequencesExt, FiniteSets

CONSTANTS
  Core,       \* Core[t]: the core thread t is pinned to
  Jobs,       \* [kernel, blocks]: the kernels, with the blocks they access
  MaxThreads, \* LOI_MAXTHREADS
  Limit,      \* TRACE_LENGTH
  MaxRuns     \* bound: how many kernels a thread runs

VARIABLES
  clock,    \* the cycle counter
  pc,       \* where a thread is in the macros
  job,      \* the kernel it runs
  kstart,   \* its __kstart
  todo,     \* the blocks it has still to record
  reg,      \* what it has loaded from a shared counter
  ktime,    \* kernelstats[core].cycles[kernel]
  knum,     \* kernelstats[core].num[kernel]
  entries,  \* threadtraces[core].data_ids
  elems,    \* threadtraces[core].num_elems
  ran,      \* history: the kernels a thread has run, [job, tsc, time]
  saved     \* the trace files, Unsaved before they are written

vars == <<clock, pc, job, kstart, todo, reg, ktime, knum, entries, elems, ran, saved>>

Thread == DOMAIN Core
Indices == 0 .. MaxThreads - 1
Kernels == {j.kernel : j \in Jobs}
Unsaved == <<>>
Zero == [tsc |-> 0, id |-> 0, size |-> 0, kernel |-> 0]
Block == Nat \X Int   \* a number, and a size that is negative for a write

(* Each thread has a core of its own.  A kernel does not begin with block 0, as a
   trace that does counts as empty. *)
ConstantsOK ==
  /\ MaxThreads \in Nat \ {0} /\ Limit \in Nat \ {0} /\ MaxRuns \in Nat
  /\ Core \in [Thread -> Indices]
  /\ \A t, u \in Thread : Core[t] = Core[u] => t = u
  /\ Jobs # {}
  /\ \A j \in Jobs : j.blocks \in Seq(Block) /\ (j.blocks # <<>> => j.blocks[1][1] # 0)

Init ==
  /\ clock = 0
  /\ pc = [t \in Thread |-> "idle"]
  /\ job = [t \in Thread |-> CHOOSE j \in Jobs : TRUE]
  /\ kstart = [t \in Thread |-> 0] /\ reg = [t \in Thread |-> 0]
  /\ todo = [t \in Thread |-> <<>>] /\ ran = [t \in Thread |-> <<>>]
  /\ ktime = [i \in Indices |-> [k \in Kernels |-> 0]]
  /\ knum = [i \in Indices |-> [k \in Kernels |-> 0]]
  /\ entries = [i \in Indices |-> [e \in 1 .. Limit |-> Zero]]
  /\ elems = [i \in Indices |-> 0]
  /\ saved = Unsaved

(* Mutant: too few bits of the core number are kept. *)
Index_Narrow(t) == Core[t] % 2

(* thread_index *)
Index(t) == Core[t] % MaxThreads

Goto(t, label) == pc' = [pc EXCEPT ![t] = label]

-----------------------------------------------------------------------------
ProfileStart(t, j) ==
  /\ pc[t] = "idle" /\ saved = Unsaved /\ Len(ran[t]) < MaxRuns
  /\ kstart' = [kstart EXCEPT ![t] = clock + 1]
  /\ clock' = clock + 1
  /\ job' = [job EXCEPT ![t] = j]
  /\ Goto(t, "kernel")
  /\ UNCHANGED <<todo, reg, ktime, knum, entries, elems, ran, saved>>

(* __kstop is taken, and cycles loaded to add the difference *)
ProfileStop(t) ==
  /\ pc[t] = "kernel"
  /\ clock' = clock + 1
  /\ reg' = [reg EXCEPT ![t] = ktime[Index(t)][job[t].kernel] + (clock + 1 - kstart[t])]
  /\ ran' = [ran EXCEPT ![t] =
               Append(@, [job |-> job[t], tsc |-> kstart[t], time |-> clock + 1 - kstart[t]])]
  /\ Goto(t, "time")
  /\ UNCHANGED <<job, kstart, todo, ktime, knum, entries, elems, saved>>

StoreTime(t) ==
  /\ pc[t] = "time"
  /\ ktime' = [ktime EXCEPT ![Index(t)][job[t].kernel] = reg[t]]
  /\ Goto(t, "load")
  /\ UNCHANGED <<clock, job, kstart, todo, reg, knum, entries, elems, ran, saved>>

LoadNum(t) ==
  /\ pc[t] = "load"
  /\ reg' = [reg EXCEPT ![t] = knum[Index(t)][job[t].kernel] + 1]
  /\ Goto(t, "num")
  /\ UNCHANGED <<clock, job, kstart, todo, ktime, knum, entries, elems, ran, saved>>

StoreNum(t) ==
  /\ pc[t] = "num"
  /\ knum' = [knum EXCEPT ![Index(t)][job[t].kernel] = reg[t]]
  /\ todo' = [todo EXCEPT ![t] = job[t].blocks]
  /\ Goto(t, "trace")
  /\ UNCHANGED <<clock, job, kstart, reg, ktime, entries, elems, ran, saved>>

(* TTrace_add_and_incr: the fields of the entry, then the number of entries *)
WriteEntry(t) ==
  /\ pc[t] = "trace" /\ todo[t] # <<>> /\ elems[Index(t)] < Limit
  /\ LET block == Head(todo[t])
     IN  entries' = [entries EXCEPT ![Index(t)][elems[Index(t)] + 1] =
                       [tsc |-> kstart[t], id |-> block[1], size |-> block[2],
                        kernel |-> job[t].kernel]]
  /\ reg' = [reg EXCEPT ![t] = elems[Index(t)] + 1]
  /\ Goto(t, "incr")
  /\ UNCHANGED <<clock, job, kstart, todo, ktime, knum, elems, ran, saved>>

Increment(t) ==
  /\ pc[t] = "incr"
  /\ elems' = [elems EXCEPT ![Index(t)] = reg[t]]
  /\ todo' = [todo EXCEPT ![t] = Tail(@)]
  /\ Goto(t, "trace")
  /\ UNCHANGED <<clock, job, kstart, reg, ktime, knum, entries, ran, saved>>

(* a full trace takes no more *)
SkipEntry(t) ==
  /\ pc[t] = "trace" /\ todo[t] # <<>> /\ elems[Index(t)] >= Limit
  /\ todo' = [todo EXCEPT ![t] = Tail(@)]
  /\ UNCHANGED <<clock, pc, job, kstart, reg, ktime, knum, entries, elems, ran, saved>>

Leave(t) ==
  /\ pc[t] = "trace" /\ todo[t] = <<>>
  /\ Goto(t, "idle")
  /\ UNCHANGED <<clock, job, kstart, todo, reg, ktime, knum, entries, elems, ran, saved>>

(* krd_save_traces, after the workers have ended; a trace whose first block has
   the number 0 counts as empty *)
SaveTraces ==
  /\ saved = Unsaved /\ \A t \in Thread : pc[t] = "idle"
  /\ saved' = [i \in Indices |-> IF entries[i][1].id # 0
                                 THEN SubSeq(entries[i], 1, elems[i]) ELSE <<>>]
  /\ UNCHANGED <<clock, pc, job, kstart, todo, reg, ktime, knum, entries, elems, ran>>

Next ==
  \/ \E t \in Thread :
       \/ \E j \in Jobs : ProfileStart(t, j)
       \/ ProfileStop(t) \/ StoreTime(t) \/ LoadNum(t) \/ StoreNum(t)
       \/ WriteEntry(t) \/ Increment(t) \/ SkipEntry(t) \/ Leave(t)
  \/ SaveTraces

Spec == Init /\ [][Next]_vars
-----------------------------------------------------------------------------
(* Properties. *)

(* the entries for a run of a kernel *)
AccessesOf(run) ==
  [b \in 1 .. Len(run.job.blocks) |->
     [tsc |-> run.tsc, id |-> run.job.blocks[b][1], size |-> run.job.blocks[b][2],
      kernel |-> run.job.kernel]]

(* the accesses of several runs, in their order *)
Accesses(runs) == FlattenSeq([r \in 1 .. Len(runs) |-> AccessesOf(runs[r])])

RunsOf(runs, k) == {r \in 1 .. Len(runs) : runs[r].job.kernel = k}

(* the cycles of all runs of kernel k *)
CyclesOf(runs, k) ==
  LET sum[r \in 0 .. Len(runs)] ==
        IF r = 0 THEN 0 ELSE sum[r - 1] + IF runs[r].job.kernel = k THEN runs[r].time ELSE 0
  IN  sum[Len(runs)]

(* The files hold what the threads have done, for each core its own thread's
   accesses in ascending time, as the tools expect, up to the length of a trace; and
   the counters are exact, although nothing is locked. *)
TraceIsRecord ==
  saved # Unsaved =>
    \A t \in Thread :
      LET all == Accesses(ran[t])
          file == saved[Core[t]]
      IN  /\ file = SubSeq(all, 1, IF Len(all) < Limit THEN Len(all) ELSE Limit)
          /\ \A x, y \in DOMAIN file : x < y => file[x].tsc <= file[y].tsc
          /\ \A k \in Kernels :
               /\ knum[Core[t]][k] = Cardinality(RunsOf(ran[t], k))
               /\ ktime[Core[t]][k] = CyclesOf(ran[t], k)
=============================================================================
