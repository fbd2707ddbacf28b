----------------------------- MODULE TraceTools -----------------------------
(***************************************************************************)
(* The tools of krd_trace.c that prepare recorded traces.  The merge tool   *)
(* puts several raw traces into one in the order of their time stamps.  The *)
(* coherence tool makes of the first trace one with invalidations: what its *)
(* core has accessed, and between that the writes of all other traces.  The *)
(* partition tool cuts such a trace into jobs that can be analysed at the    *)
(* same time, each after a warm-up.                                          *)
(*                                                                           *)
(* An entry is one access.  Addresses and sizes count words of 4 bytes; in a *)
(* raw trace a negative size is a write, in a coherent one an invalidation.  *)
(* A time stamp of zero stands for the memory behind the last entry, so      *)
(* those of entries are positive.  A trace that has no file is empty.        *)
(***************************************************************************)
EXTENDS Integers, Sequences, SequencesExt, FiniteSets

CONSTANTS
  Recordings,    \* what may have been recorded: a raw trace for each argument
  Tools,         \* the tools that are run, "merge" or "coherence"
  Warmups,       \* warm-up ranges and
  Partitions     \* partition sizes for the partition tool, in words

Entry == [tsc : Nat \ {0}, id : Nat, size : Int \ {0}, core : Nat, kernel : Nat]

Ascending(s) == \A a, b \in DOMAIN s : a < b => s[a].tsc <= s[b].tsc

ASSUME RecordingsAssumption ==
  \A r \in Recordings :
    /\ r \in Seq(Seq(Entry)) /\ Len(r) > 0
    /\ \A t \in DOMAIN r : Ascending(r[t])
ASSUME CutAssumption == Warmups \subseteq Nat /\ Partitions \subseteq Nat \ {0}

VARIABLES
  tool,     \* which of the two tools is run
  raw,      \* the traces it has read
  index,    \* threadtraces[t].index: the entry of raw[t] that is next
  out,      \* the trace it writes
  cut,      \* the partition tool: w, p, w_p, p_p and its arguments
  jobs,     \* the calls of krd_tool it has printed
  phase     \* "merging", "saved", "cutting", "cut"

toolVars == <<tool, raw, index, out, cut, jobs, phase>>

Abs(n) == IF n < 0 THEN -n ELSE n

ToolInit ==
  /\ tool \in Tools
  /\ raw \in Recordings
  /\ index = [t \in DOMAIN raw |-> 1]
  /\ out = <<>>
  /\ cut = [w |-> 0, p |-> 0, wBytes |-> 0, pBytes |-> 0, warmup |-> 0, partition |-> 1]
  /\ jobs = <<>>
  /\ phase = "merging"

-----------------------------------------------------------------------------
(* Merge and coherence. *)

Unread == {t \in DOMAIN raw : index[t] <= Len(raw[t])}

NextOf(t) == raw[t][index[t]]

(* Mutant: a trace is only compared with those behind it on the command line. *)
Oldest_Behind(t) ==
  \A u \in Unread : u > t => NextOf(t).tsc <= NextOf(u).tsc

(* source_tid: the lowest time stamp, and the first argument of several *)
Oldest(t) ==
  \A u \in Unread :
    \/ NextOf(t).tsc < NextOf(u).tsc
    \/ NextOf(t).tsc = NextOf(u).tsc /\ t <= u

(* a round of either tool: the next entry of t is the oldest *)
Round(name, t) ==
  /\ phase = "merging" /\ tool = name
  /\ t \in Unread /\ Oldest(t)
  /\ index' = [index EXCEPT ![t] = @ + 1]
  /\ UNCHANGED <<tool, raw, cut, jobs, phase>>

(* merge tool: the number of the trace becomes the core *)
MergeOne(t) ==
  /\ Round("merge", t)
  /\ out' = Append(out, [NextOf(t) EXCEPT !.core = t])

(* coherence tool: reads and writes of the first trace are accesses *)
CopyOwn(t) ==
  /\ Round("coherence", t) /\ t = 1
  /\ out' = Append(out, [NextOf(t) EXCEPT !.size = Abs(@)])

(* Mutant: the write of another core is entered as an access. *)
AddInvalidation_Abs(t) ==
  /\ Round("coherence", t) /\ t # 1 /\ NextOf(t).size < 0
  /\ out' = Append(out, [NextOf(t) EXCEPT !.size = Abs(@)])

(* writes of the others are invalidations, *)
AddInvalidation(t) ==
  /\ Round("coherence", t) /\ t # 1 /\ NextOf(t).size < 0
  /\ out' = Append(out, NextOf(t))

(* their reads are left out *)
SkipRead(t) ==
  /\ Round("coherence", t) /\ t # 1 /\ NextOf(t).size > 0
  /\ UNCHANGED out

Save ==
  /\ phase = "merging" /\ Unread = {}
  /\ phase' = "saved"
  /\ UNCHANGED <<tool, raw, index, out, cut, jobs>>

-----------------------------------------------------------------------------
(* The partition tool.  Positions count from zero, as krd_tool does. *)

SizeAt(k) == IF k < Len(out) THEN out[k + 1].size ELSE 0

(* the first entry from k on that is not an invalidation *)
Regular(k) == CHOOSE j \in k .. Len(out) + k :
                SizeAt(j) >= 0 /\ \A i \in k .. j - 1 : SizeAt(i) < 0

StartCut(warmup, partition) ==
  /\ phase = "saved" /\ tool = "coherence"
  /\ cut' = [w |-> Regular(0), p |-> Regular(0), wBytes |-> 0, pBytes |-> 0,
             warmup |-> warmup, partition |-> partition]
  /\ jobs' = <<[warmup |-> 0, start |-> 0, partition |-> partition]>>
  /\ phase' = "cutting"
  /\ UNCHANGED <<tool, raw, index, out>>

(* Mutant: a partition is full only with the entry behind its end. *)
Full_Late(bytes) == (bytes - 1) \div cut.partition > Len(jobs) - 1

(* p_p / partition > count *)
Full(bytes) == bytes \div cut.partition > Len(jobs) - 1

(* one round of the loop: the warm-up point follows at a distance, and a job is
   printed at the first entry with which a partition is full *)
CutStep ==
  /\ phase = "cutting" /\ cut.p < Len(out)
  /\ LET bytes == cut.pBytes + SizeAt(cut.p)
         far   == bytes - cut.wBytes > cut.warmup
         w     == IF far THEN Regular(cut.w + 1) ELSE cut.w
     IN  /\ cut' = [cut EXCEPT !.p = Regular(@ + 1), !.pBytes = bytes, !.w = w,
                               !.wBytes = IF far THEN @ + SizeAt(cut.w) ELSE @]
         /\ jobs' = IF Full(bytes)
                    THEN Append(jobs, [warmup |-> w, start |-> cut.p,
                                       partition |-> cut.partition])
                    ELSE jobs
  /\ UNCHANGED <<tool, raw, index, out, phase>>

EndCut ==
  /\ phase = "cutting" /\ cut.p >= Len(out)
  /\ phase' = "cut"
  /\ UNCHANGED <<tool, raw, index, out, cut, jobs>>

ToolNext ==
  \/ \E t \in DOMAIN raw : MergeOne(t) \/ CopyOwn(t) \/ AddInvalidation(t) \/ SkipRead(t)
  \/ Save
  \/ \E w \in Warmups, p \in Partitions : StartCut(w, p)
  \/ CutStep \/ EndCut
-----------------------------------------------------------------------------
(* Properties. *)

(* The trace that is written is in the order of time, and nothing that has not
   been read yet is older than its end: an invalidation comes behind the accesses
   it hits and in front of those it does not. *)
TimeOrder ==
  /\ Ascending(out)
  /\ phase = "merging" /\ out # <<>> =>
       \A t \in Unread : Last(out).tsc <= NextOf(t).tsc

Times(s, e) == Cardinality({k \in DOMAIN s : s[k] = e})

WritesOfOthers(e) ==
  Cardinality({x \in UNION {{t} \X DOMAIN raw[t] : t \in DOMAIN raw \ {1}} :
                 raw[x[1]][x[2]] = e})

Rank(k, K) == Cardinality({j \in K : j <= k})

(* what s has at the positions K is r, in the same order *)
IsPart(s, K, r) == Cardinality(K) = Len(r) /\ \A k \in K : s[k] = r[Rank(k, K)]

(* Merging neither loses nor doubles entries: each input is the part of the merged
   trace with its number.  A coherent trace has all accesses of the first trace in
   their order, exactly the writes of the other traces, and nothing else. *)
NothingLost ==
  phase = "saved" =>
    IF tool = "merge" THEN
      \A t \in DOMAIN raw :
        IsPart(out, {k \in DOMAIN out : out[k].core = t},
               [k \in DOMAIN raw[t] |-> [raw[t][k] EXCEPT !.core = t]])
    ELSE
      /\ IsPart(out, {k \in DOMAIN out : out[k].size > 0},
                [k \in DOMAIN raw[1] |-> [raw[1][k] EXCEPT !.size = Abs(@)]])
      /\ \A k \in DOMAIN out : out[k].size < 0 => Times(out, out[k]) = WritesOfOthers(out[k])
      /\ \A t \in DOMAIN raw \ {1} : \A k \in DOMAIN raw[t] :
           raw[t][k].size < 0 => raw[t][k] \in ToSet(out)
=============================================================================
