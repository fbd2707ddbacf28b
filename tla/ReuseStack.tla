----------------------------- MODULE ReuseStack -----------------------------
(***************************************************************************)
(* do_one_histogram_mem of krd.c: the reuse distances of a trace, found with *)
(* a stack of data blocks, the one used last on top.  An access looks for    *)
(* its words from the top, takes them out of the blocks it finds and becomes *)
(* the new top; the blocks it has passed are the distance.  An invalidation  *)
(* marks its words.                                                          *)
(*                                                                           *)
(* A step is one round of the loop over the trace or of the loops over the   *)
(* stack.  Addresses and sizes count words of 4 bytes.  The cursor is a      *)
(* position in the stack, the one behind the last standing for NULL.         *)
(***************************************************************************)
EXTENDS Integers, Sequences, SequencesExt, FiniteSetsExt, Functions

CONSTANTS
  HistLen,     \* HISTOGRAM_LEN: a histogram has 2^HistLen bins
  Unlimited,   \* the partition size -1, more than any trace has
  DistanceMod, \* 2^30: a distance has 4 bytes and counts the bytes of the words
  AllKernels   \* the kernel number -1

ASSUME DistanceAssumption == DistanceMod \in Nat \ {0}

Bins == 0 .. 2^HistLen - 1
NoBins == [b \in Bins |-> 0]
NoHistogram == [dist |-> NoBins, shared |-> NoBins, lost |-> NoBins, cold |-> 0, inv |-> 0]

VARIABLES
  trace,      \* the coherent trace
  job,        \* the arguments: warmup, start, partition, kernel; and whether the
              \* data model is one of disjoint blocks (ARRAY_DISJOINT, SPARSE)
  i,          \* the entry that is next or in hand, from 1
  stack,      \* the blocks: elem, size, inv, core
  at,         \* sentry
  pending,    \* match_bytes_pending
  distance,   \* reuse_distance
  warm,       \* warmup_phase
  counted,    \* total_bytes_processed
  bloom,      \* the addresses bloom_hash knows
  hist,       \* the histogram: distances, shared ones, those of invalidated
              \* words, cold misses, invalidation misses
  pc          \* "idle", "fetch", "walk", "probe", "done"

walkVars == <<at, pending, distance>>
stackVars == <<trace, job, i, stack, walkVars, warm, counted, bloom, hist, pc>>

StackInit ==
  /\ trace = <<>>
  /\ job = [warmup |-> 0, start |-> 0, partition |-> Unlimited,
            kernel |-> AllKernels, disjoint |-> FALSE]
  /\ i = 1 /\ stack = <<>> /\ at = 1 /\ pending = 0 /\ distance = 0
  /\ warm = FALSE /\ counted = 0 /\ bloom = {}
  /\ hist = NoHistogram
  /\ pc = "idle"

(* main of krd_tool: a process of its own, with nothing of an earlier one *)
Start(tr, jb) ==
  /\ pc = "idle"
  /\ trace' = tr /\ job' = jb
  /\ i' = jb.warmup + 1
  /\ stack' = <<>> /\ at' = 1 /\ pending' = 0 /\ distance' = 0
  /\ warm' = (jb.warmup < jb.start)
  /\ counted' = 0 /\ bloom' = {}
  /\ hist' = NoHistogram
  /\ pc' = "fetch"

-----------------------------------------------------------------------------
(* The loop over the trace. *)

Larger(a, b) == IF a > b THEN a ELSE b
Smaller(a, b) == IF a < b THEN a ELSE b

size == Larger(trace[i].size, -trace[i].size)

IsProbe(e) == e.size < 0

(* Mutant: the entry at the starting point is counted. *)
WarmAt_Early(k) == warm /\ ~ (k - 1 >= job.start)

(* warmup_phase at entry k; positions in a job count from zero *)
WarmAt(k) == warm /\ ~ (k - 1 > job.start)

(* the bloom filter, without collisions: what it does not know is not looked for;
   blocks of the warm-up are not entered into it *)
Unknown(e) == job.disjoint /\ e.id \notin bloom

PartitionFull ==
  i <= Len(trace) /\ ~ IsProbe(trace[i]) /\ ~ WarmAt(i) /\ counted + size > job.partition

Fetch ==
  /\ pc = "fetch" /\ i <= Len(trace) /\ ~ PartitionFull
  /\ warm' = WarmAt(i)
  /\ pending' = size
  /\ distance' = 0
  /\ at' = IF Unknown(trace[i]) THEN Len(stack) + 1 ELSE 1
  /\ IF IsProbe(trace[i])
     THEN pc' = "probe" /\ UNCHANGED <<counted, bloom>>
     ELSE /\ pc' = "walk"
          /\ counted' = IF WarmAt(i) THEN counted ELSE counted + size
          /\ bloom' = IF job.disjoint /\ ~ WarmAt(i) THEN bloom \union {trace[i].id} ELSE bloom
  /\ UNCHANGED <<trace, job, i, stack, hist>>

(* the end of the trace or of the partition *)
Finish ==
  /\ pc = "fetch" /\ (i > Len(trace) \/ PartitionFull)
  /\ pc' = "done"
  /\ UNCHANGED <<trace, job, i, stack, walkVars, warm, counted, bloom, hist>>

NextEntry == pc' = "fetch" /\ i' = i + 1 /\ UNCHANGED walkVars

-----------------------------------------------------------------------------
(* Blocks of the stack. *)

(* overlap: the part of block s that the entry in hand covers, of no words when
   they are apart; without partial overlaps it is the whole entry *)
Match(s) ==
  LET e == trace[i]
      from == Larger(s.elem, e.id)
      to   == Smaller(s.elem + s.size, e.id + size)
  IN  IF job.disjoint
      THEN [start |-> e.id, words |-> IF s.elem = e.id THEN size ELSE 0]
      ELSE [start |-> from, words |-> IF from < to THEN to - from ELSE 0]

Part(s, from, to) ==
  IF from < to THEN <<[s EXCEPT !.elem = from, !.size = to - from]>> ELSE <<>>

(* what is left of s in front of and behind the words of m: nothing in a superset,
   both in an interior match, one when the match is at the start or at the end *)
Before(s, m) == Part(s, s.elem, m.start)
Behind(s, m) == Part(s, m.start + m.words, s.elem + s.size)

Replace(k, blocks) == SubSeq(stack, 1, k - 1) \o blocks \o SubSeq(stack, k + 1, Len(stack))

(* ceil_log2 of a number of words in bytes *)
CeilLog2(words) == 2 + CHOOSE b \in 0 .. words : /\ words <= 2^b
                                                 /\ b > 0 => words > 2^(b - 1)

Top == [elem |-> trace[i].id, size |-> size, inv |-> FALSE, core |-> trace[i].core]

-----------------------------------------------------------------------------
(* The path of an access. *)

Tracked == ~ warm /\ job.kernel \in {AllKernels, trace[i].kernel}

(* the distance d with block s: reuse_distance wraps around *)
Grown(d, s) == (d + s.size) % DistanceMod

(* Mutant: words that were invalidated are counted as reuses too. *)
Recorded_Both(s, words, d) ==
  LET b == CeilLog2(Larger(d, size))
  IN  [hist EXCEPT !.dist[b] = @ + words,
                   !.lost[b] = IF s.inv THEN @ + words ELSE @,
                   !.inv = IF s.inv THEN @ + words ELSE @,
                   !.cold = IF s.inv THEN @ + words ELSE @]

(* words found in block s at distance d: a miss if they were invalidated *)
Recorded(s, words, d) ==
  LET b == CeilLog2(Larger(d, size))
  IN  IF s.inv THEN [hist EXCEPT !.lost[b] = @ + words, !.inv = @ + words,
                                 !.cold = @ + words]
      ELSE [hist EXCEPT !.dist[b] = @ + words,
                        !.shared[b] = IF s.core # trace[i].core THEN @ + words ELSE @]

(* Mutant: only blocks that are hit add to the distance. *)
PassOver_NoDistance ==
  /\ pc = "walk" /\ at <= Len(stack)
  /\ Match(stack[at]).words = 0
  /\ at' = at + 1
  /\ UNCHANGED <<trace, job, i, stack, pending, distance, warm, counted, bloom, hist, pc>>

PassOver ==
  /\ pc = "walk" /\ at <= Len(stack)
  /\ Match(stack[at]).words = 0
  /\ distance' = Grown(distance, stack[at])
  /\ at' = at + 1
  /\ UNCHANGED <<trace, job, i, stack, pending, warm, counted, bloom, hist, pc>>

(* Mutant: the block is left on the stack as it is. *)
Rest_Whole(s, m) == <<s>>

(* the block without the words that were found *)
Rest(s, m) == Before(s, m) \o Behind(s, m)

(* some words are found, others are still missing; the cursor stays when the
   block has gone, and the next one has taken its place *)
TakeSome ==
  /\ pc = "walk" /\ at <= Len(stack)
  /\ LET s == stack[at]
         m == Match(s)
     IN  /\ m.words > 0 /\ m.words # pending
         /\ pending' = pending - m.words
         /\ distance' = Grown(distance, s)
         /\ hist' = IF Tracked THEN Recorded(s, m.words, Grown(distance, s)) ELSE hist
         /\ stack' = Replace(at, Rest(s, m))
         /\ at' = IF Rest(s, m) = <<>> THEN at ELSE at + 1
  /\ UNCHANGED <<trace, job, i, warm, counted, bloom, pc>>

(* the last words are found: the entry becomes the top *)
TakeLast ==
  /\ pc = "walk" /\ at <= Len(stack)
  /\ LET s == stack[at]
         m == Match(s)
     IN  /\ m.words > 0 /\ m.words = pending
         /\ hist' = IF Tracked THEN Recorded(s, m.words, Grown(distance, s)) ELSE hist
         /\ stack' = <<Top>> \o Replace(at, Rest(s, m))
  /\ NextEntry
  /\ UNCHANGED <<trace, job, warm, counted, bloom>>

(* the end of the stack: what is missing are cold misses, of whatever kernel *)
ColdMiss ==
  /\ pc = "walk" /\ at > Len(stack)
  /\ hist' = IF warm THEN hist ELSE [hist EXCEPT !.cold = @ + pending]
  /\ stack' = <<Top>> \o stack
  /\ NextEntry
  /\ UNCHANGED <<trace, job, warm, counted, bloom>>

-----------------------------------------------------------------------------
(* The path of an invalidation probe. *)

(* the block with the probed words marked *)
Marked(s, m) ==
  Before(s, m)
    \o Part([s EXCEPT !.inv = TRUE, !.core = trace[i].core],
            Larger(m.start, s.elem), Smaller(m.start + m.words, s.elem + s.size))
    \o Behind(s, m)

(* Mutant: any last block is dropped. *)
UselessTail_Any(st) == at = Len(st) /\ at > 1

(* the last block need not be kept when it is invalid *)
UselessTail(st) == at = Len(st) /\ at > 1 /\ st[at].inv

(* all words are found *)
ProbeLast ==
  /\ pc = "probe" /\ at <= Len(stack)
  /\ LET s == stack[at]
         m == Match(s)
     IN  m.words > 0 /\ m.words = pending /\ stack' = Replace(at, Marked(s, m))
  /\ NextEntry
  /\ UNCHANGED <<trace, job, warm, counted, bloom, hist>>

(* some words or none are found; the cursor moves by one, also when the block was
   divided *)
ProbeSome ==
  /\ pc = "probe" /\ at <= Len(stack)
  /\ LET s  == stack[at]
         m  == Match(s)
         st == IF m.words = 0 THEN stack ELSE Replace(at, Marked(s, m))
     IN  /\ m.words # pending
         /\ pending' = pending - m.words
         /\ IF UselessTail(st) THEN stack' = Front(st) /\ at' = at
                               ELSE stack' = st /\ at' = at + 1
  /\ UNCHANGED <<trace, job, i, distance, warm, counted, bloom, hist, pc>>

ProbeEnd ==
  /\ pc = "probe" /\ at > Len(stack)
  /\ NextEntry
  /\ UNCHANGED <<trace, job, stack, warm, counted, bloom, hist>>

Walk == PassOver \/ TakeSome \/ TakeLast \/ ColdMiss
Probe == ProbeSome \/ ProbeLast \/ ProbeEnd
StackStep == Fetch \/ Finish \/ Walk \/ Probe
=============================================================================
