---------------------------- MODULE KrdPipeline ----------------------------
(***************************************************************************)
(* The analysis of recorded traces as the scripts of the krd tools run it:   *)
(* merge or coherence tool, partition tool, one call of krd_tool for the     *)
(* whole trace and one for each part, and accum_tool, which adds up the      *)
(* histogram files of the parts.  The tools share nothing but files.         *)
(***************************************************************************)
EXTENDS TraceTools, ReuseStack

CONSTANTS
  Kernels,     \* the kernel numbers the whole trace is analysed for
  CountMod     \* 2^32: cold and invalidation misses are stored in 4 bytes

(* the words a program touches *)
Footprint(r) ==
  UNION {UNION {r[t][k].id .. r[t][k].id + Abs(r[t][k].size) - 1 : k \in DOMAIN r[t]} : t \in DOMAIN r}

(* the histogram has a bin for every distance: 128 of them for numbers of 64 bits *)
ASSUME HistogramAssumption ==
  /\ 2^HistLen \in Nat
  /\ \A r \in Recordings : \A n \in 1 .. Cardinality(Footprint(r)) : CeilLog2(n) \in Bins

(* those bins are in the half of the histogram that is written *)
ASSUME StoredAssumption ==
  /\ CountMod \in Nat
  /\ \A r \in Recordings : \A n \in 1 .. Cardinality(Footprint(r)) : 2 * CeilLog2(n) < 2^HistLen

(* and a partition of size -1 has room for a trace whose words can be counted *)
ASSUME UnlimitedAssumption == Unlimited \in Nat /\ CountMod - 1 <= Unlimited

VARIABLES
  files,       \* the histogram files, that of the whole trace first
  total        \* what accum_tool has added up, a histogram with total_refs

pipeVars == <<files, total>>
vars == <<toolVars, stackVars, pipeVars>>

NoTotal == [hist |-> NoHistogram, refs |-> 0]

Init == ToolInit /\ StackInit /\ files = <<>> /\ total = NoTotal

(* "Partial overlaps cannot be tracked and thus should not occur" *)
BlocksApart ==
  \A j, k \in DOMAIN out :
    \/ out[j].id = out[k].id /\ Abs(out[j].size) = Abs(out[k].size)
    \/ out[j].id + Abs(out[j].size) <= out[k].id
    \/ out[k].id + Abs(out[k].size) <= out[j].id

(* the next call of krd_tool: the whole trace for one kernel, then the parts *)
StartWhole(kernel, disjoint) ==
  /\ phase = "cut" /\ files = <<>>
  /\ disjoint => BlocksApart
  /\ Start(out, [warmup |-> 0, start |-> 0, partition |-> Unlimited,
                 kernel |-> kernel, disjoint |-> disjoint])
  /\ UNCHANGED <<toolVars, pipeVars>>

StartPart ==
  /\ phase = "cut" /\ Len(files) \in 1 .. Len(jobs) /\ job.kernel = AllKernels
  /\ LET j == jobs[Len(files)]
     IN  Start(out, [warmup |-> j.warmup, start |-> j.start, partition |-> j.partition,
                     kernel |-> AllKernels, disjoint |-> job.disjoint])
  /\ UNCHANGED <<toolVars, pipeVars>>

(* Mutant: a quarter of the bins is written. *)
Stored_Quarter(h) ==
  LET short(v) == [b \in Bins |-> IF 4 * b < 2^HistLen THEN v[b] ELSE 0]
  IN  [dist |-> short(h.dist), shared |-> short(h.shared), lost |-> short(h.lost),
       cold |-> h.cold % CountMod, inv |-> h.inv % CountMod]

(* what write_one_histogram stores and read_one_histogram finds: a bin has eight
   bytes, and four for each are written, hence the first half of the bins *)
Stored(h) ==
  LET short(v) == [b \in Bins |-> IF 2 * b < 2^HistLen THEN v[b] ELSE 0]
  IN  [dist |-> short(h.dist), shared |-> short(h.shared), lost |-> short(h.lost),
       cold |-> h.cold % CountMod, inv |-> h.inv % CountMod]

WriteHistogram ==
  /\ pc = "done"
  /\ files' = Append(files, Stored(hist))
  /\ pc' = "idle"
  /\ UNCHANGED <<toolVars, total, trace, job, i, stack, walkVars, warm, counted, bloom, hist>>

PlusBins(v, u) == [b \in Bins |-> v[b] + u[b]]

Plus(h, g) ==
  [dist |-> PlusBins(h.dist, g.dist), shared |-> PlusBins(h.shared, g.shared),
   lost |-> PlusBins(h.lost, g.lost), cold |-> h.cold + g.cold, inv |-> h.inv + g.inv]

SumBins(v) == FoldFunction(+, 0, v)

(* accum_tool: read_one_histogram for each part, and accum_vectors *)
Accumulate ==
  /\ phase = "cut" /\ pc = "idle" /\ Len(files) = Len(jobs) + 1 /\ total = NoTotal
  /\ LET h == FoldLeft(Plus, NoHistogram, Tail(files))
     IN  total' = [hist |-> h, refs |-> SumBins(h.dist) + h.cold]
  /\ UNCHANGED <<toolVars, stackVars, files>>

Next ==
  \/ ToolNext /\ UNCHANGED <<stackVars, pipeVars>>
  \/ \E k \in Kernels, d \in BOOLEAN : StartWhole(k, d)
  \/ StartPart
  \/ StackStep /\ UNCHANGED <<toolVars, pipeVars>>
  \/ WriteHistogram
  \/ Accumulate

Spec == Init /\ [][Next]_vars
-----------------------------------------------------------------------------
(* Properties.  The reference is the trace itself: an entry is "referenced"  *)
(* last at the latest access to one of its words that the job has read.      *)

Touches(k, w) == trace[k].id <= w /\ w < trace[k].id + Abs(trace[k].size)

Words == UNION {trace[k].id .. trace[k].id + Abs(trace[k].size) - 1 : k \in DOMAIN trace}

(* the latest access to w before entry i, 0 if there is none *)
LastRef(w) ==
  LET refs == {k \in job.warmup + 1 .. i - 1 : ~ IsProbe(trace[k]) /\ Touches(k, w)}
  IN  IF refs = {} THEN 0 ELSE CHOOSE k \in refs : \A j \in refs : j <= k

ProbedSince(w) == \E k \in LastRef(w) + 1 .. i - 1 : IsProbe(trace[k]) /\ Touches(k, w)

Of(s) == s.elem .. s.elem + s.size - 1

(* a warm-up is of no use to the bloom filter: blocks read in it are not found *)
WarmedBlind == job.disjoint /\ job.warmup < job.start

(* Between two entries of the trace the blocks are disjoint and in the order of
   last use, the words of one block were last used together, and no word that was
   used is missing or marked unless an invalidation has hit it since: however often
   blocks are split and the cursor goes back, the stack is an LRU stack. *)
RecencyOrder ==
  pc = "fetch" /\ ~ WarmedBlind =>
    /\ \A a, b \in DOMAIN stack : a < b => Of(stack[a]) \intersect Of(stack[b]) = {}
    /\ \A a \in DOMAIN stack : \A w \in Of(stack[a]) :
         /\ LastRef(w) > 0
         /\ LastRef(w) = LastRef(stack[a].elem)
         /\ \A b \in a .. Len(stack) : LastRef(w) >= LastRef(stack[b].elem)
         /\ stack[a].inv => ProbedSince(w)
    /\ \A w \in Words : LastRef(w) > 0 /\ ~ ProbedSince(w) =>
         \E a \in DOMAIN stack : w \in Of(stack[a])

(* "basically go down the stack and set matching entries to invalid": a word that
   another core has written since its last use is not valid on the stack. *)
ProbesMark ==
  pc = "fetch" =>
    \A a \in DOMAIN stack : \A w \in Of(stack[a]) : ProbedSince(w) => stack[a].inv

(* The distance of a block that is found is at most the number of words used since
   its last use, the words used then included, and at least that of the words used later
   with the words that are found: "approximation bounded by size of block".  The lower
   bound holds only while the words used since fit into the 4 bytes of reuse_distance,
   which wraps around: behind them a long distance is recorded as a short one. *)
DistanceBounds ==
  pc = "walk" /\ ~ WarmedBlind /\ at <= Len(stack) /\ Match(stack[at]).words > 0 =>
    LET used  == LastRef(stack[at].elem)
        newer == {w \in Words : LastRef(w) > used}
        since == {w \in Words : LastRef(w) >= used}
    IN  /\ Cardinality(since) < DistanceMod =>
             Cardinality(newer) + Match(stack[at]).words <= Grown(distance, stack[at])
        /\ Grown(distance, stack[at]) <= Cardinality(since)

(* Each word of an access that is counted enters the histogram once, as a reuse or
   as a miss; misses by invalidation are cold misses, and shared reuses are reuses. *)
EveryWordCounted ==
  pc \in {"fetch", "done"} =>
    /\ job.kernel = AllKernels => SumBins(hist.dist) + hist.cold = counted
    /\ SumBins(hist.lost) = hist.inv /\ hist.inv <= hist.cold
    /\ \A b \in Bins : hist.shared[b] <= hist.dist[b]

Regulars == {k \in DOMAIN out : out[k].size > 0}
TraceWords == MapThenSumSet(LAMBDA k : out[k].size, Regulars)

(* the partition points fall between accesses, and no warm-up begins at the end of
   the part before, whose last access would be counted again *)
Aligned ==
  /\ \A k \in Regulars : /\ \A j \in Regulars : out[j].size = out[k].size
                         /\ cut.partition % out[k].size = 0
  /\ \A j \in 2 .. Len(jobs) : jobs[j].warmup # jobs[j].start

(* The parts cover the trace: if all accesses are of one size that divides the
   partitions, each is counted by exactly one job, whatever the invalidations between
   them and the warm-up, and no count is lost on the way through the files, as long as
   the words can be counted in 4 bytes. *)
PartsCover ==
  total # NoTotal /\ Aligned /\ TraceWords < CountMod => total.refs = TraceWords

(* With a warm-up that reaches back to the beginning, and without bloom filter, the
   parallel strategy gives the histogram of the whole trace, under the same conditions. *)
PartsEqualWhole ==
  /\ total # NoTotal /\ Aligned /\ TraceWords < CountMod
  /\ ~ job.disjoint /\ cut.warmup >= TraceWords
  => total.hist = files[1]
=============================================================================
