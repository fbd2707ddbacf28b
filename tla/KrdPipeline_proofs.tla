------------------------- MODULE KrdPipeline_proofs -------------------------
(***************************************************************************)
(* Proof that the trace the merge and the coherence tool write is in the     *)
(* order of time and that nothing is lost in it, and that the reuse stack    *)
(* built from it is in the order of last use and gives the distances that    *)
(* the words have, for any number of recorded traces of any length.  Module  *)
(* KrdParts_proofs goes on with the parts of a trace.                        *)
(*                                                                           *)
(* The first invariant adds to TimeOrder that the traces that have been read *)
(* are ascending themselves.  A round takes the oldest entry that has not    *)
(* been read: what follows it in its own trace is not older, because that    *)
(* trace is ascending, and what is next in the others is not older either.   *)
(*                                                                           *)
(* The second one says of what has been read so far what NothingLost says of *)
(* everything: a round appends the next entry at a position behind all       *)
(* others, or, of the writes of the other cores, one more of its kind.       *)
(*                                                                           *)
(* The third one is about the stack while an entry is looked up in it: it is *)
(* divided at the cursor, above it there are no words of the entry, and the  *)
(* words found so far, which have left the stack, were used after all that   *)
(* is still below.                                                           *)
(*                                                                           *)
(* The last one is about what is counted.  Each word of an access that has   *)
(* been counted is in the histogram or still missing in the search, and a    *)
(* bin exists for each distance, since what has been passed is not more      *)
(* than the program touches.  A job that has not put its warm-up into the    *)
(* bloom filter has no LRU stack; of its stack the proof needs only that     *)
(* the blocks the filter knows are above the others.                         *)
(***************************************************************************)
EXTENDS KrdPipeline, TLAPS, FiniteSetTheorems, SequenceTheorems, WellFoundedInduction

(* What the tools write; an entry of a recorded trace is one, too. *)
OutEntry == [tsc : Nat, id : Nat, size : Int \ {0}, core : Nat, kernel : Nat]

(* The inductive invariant. *)
OrderInv ==
  /\ raw \in Seq(Seq(Entry))
  /\ \A t \in DOMAIN raw : Ascending(raw[t])
  /\ index \in [DOMAIN raw -> Nat \ {0}]
  /\ out \in Seq(OutEntry)
  /\ TimeOrder

LEMMA InitOrder == Init => OrderInv
<1> SUFFICES ASSUME Init PROVE OrderInv
  OBVIOUS
<1>1. /\ raw \in Recordings /\ index = [t \in DOMAIN raw |-> 1] /\ out = <<>>
  BY DEF Init, ToolInit
<1>2. raw \in Seq(Seq(Entry)) /\ \A t \in DOMAIN raw : Ascending(raw[t])
  BY <1>1, RecordingsAssumption
<1>3. Ascending(out)
  BY <1>1 DEF Ascending
<1> QED
  BY <1>1, <1>2, <1>3 DEF OrderInv, TimeOrder

(* An unread trace has a next entry, with a time stamp. *)
LEMMA NextIsEntry ==
  ASSUME OrderInv, NEW t \in Unread
  PROVE  NextOf(t) \in Entry /\ NextOf(t).tsc \in Nat
<1>1. t \in DOMAIN raw /\ index[t] \in Nat \ {0} /\ index[t] <= Len(raw[t])
  BY DEF OrderInv, Unread
<1>2. raw[t] \in Seq(Entry)
  BY <1>1 DEF OrderInv
<1>3. NextOf(t) \in Entry
  BY <1>1, <1>2 DEF NextOf
<1> QED
  BY <1>3 DEF Entry

(* After a round nothing that is unread is older than what the round has read. *)
LEMMA RoundTakesOldest ==
  ASSUME OrderInv, NEW name, NEW t \in DOMAIN raw, Round(name, t), NEW u \in Unread'
  PROVE  NextOf(t).tsc <= (NextOf(u)').tsc
<1>1. /\ t \in Unread /\ Oldest(t) /\ raw' = raw
      /\ index' = [index EXCEPT ![t] = @ + 1]
  BY DEF Round, toolVars
<1>2. u \in DOMAIN raw /\ index'[u] <= Len(raw[u])
  BY <1>1 DEF Unread
<1>3. CASE u = t
  <2>1. raw[t] \in Seq(Entry) /\ Ascending(raw[t])
    BY DEF OrderInv
  <2>2. index[t] \in Nat \ {0} /\ index'[t] = index[t] + 1
    BY <1>1 DEF OrderInv
  <2>3. index[t] \in DOMAIN raw[t] /\ index[t] + 1 \in DOMAIN raw[t]
    BY <1>2, <1>3, <2>1, <2>2
  <2>4. raw[t][index[t]].tsc <= raw[t][index[t] + 1].tsc
    BY <2>1, <2>2, <2>3 DEF Ascending
  <2> QED
    BY <1>1, <1>3, <2>2, <2>4 DEF NextOf
<1>4. CASE u # t
  <2>1. index'[u] = index[u]
    BY <1>1, <1>2, <1>4 DEF OrderInv
  <2>2. u \in Unread /\ NextOf(u)' = NextOf(u)
    BY <1>1, <1>2, <2>1 DEF Unread, NextOf
  <2>3. NextOf(t).tsc \in Nat /\ NextOf(u).tsc \in Nat
    BY <1>1, <2>2, NextIsEntry
  <2> QED
    BY <1>1, <2>2, <2>3 DEF Oldest
<1> QED
  BY <1>3, <1>4

(* A sequence in the order of time stays so with an entry not older than its last. *)
LEMMA AscendingAppend ==
  ASSUME NEW s \in Seq(OutEntry), NEW e \in OutEntry, Ascending(s),
         s # <<>> => s[Len(s)].tsc <= e.tsc
  PROVE  Ascending(Append(s, e))
<1> SUFFICES ASSUME NEW a \in DOMAIN Append(s, e), NEW b \in DOMAIN Append(s, e), a < b
             PROVE  Append(s, e)[a].tsc <= Append(s, e)[b].tsc
  BY DEF Ascending
<1>1. Len(Append(s, e)) = Len(s) + 1 /\ a \in 1 .. Len(s) /\ b \in 1 .. Len(s) + 1
  OBVIOUS
<1>2. Append(s, e)[a] = s[a] /\ s[a] \in OutEntry
  BY <1>1
<1>3. CASE b \in 1 .. Len(s)
  <2>1. Append(s, e)[b] = s[b]
    BY <1>3
  <2> QED
    BY <1>1, <1>2, <1>3, <2>1 DEF Ascending
<1>4. CASE b = Len(s) + 1
  <2>1. Append(s, e)[b] = e
    BY <1>4
  <2>2. Len(s) \in DOMAIN s /\ s # <<>> /\ s[Len(s)] \in OutEntry
    BY <1>1
  <2>3. s[a].tsc <= s[Len(s)].tsc
    <3>1. CASE a = Len(s)
      BY <3>1, <2>2 DEF OutEntry
    <3>2. CASE a < Len(s)
      BY <1>1, <2>2, <3>2 DEF Ascending
    <3> QED
      BY <1>1, <3>1, <3>2
  <2>4. s[a].tsc \in Nat /\ s[Len(s)].tsc \in Nat /\ e.tsc \in Nat
    BY <1>2, <2>2 DEF OutEntry
  <2> QED
    BY <1>2, <2>1, <2>2, <2>3, <2>4
<1> QED
  BY <1>1, <1>3, <1>4

(* A round that appends the entry it has read, whatever it makes of the size and the
   core. *)
LEMMA RoundAppends ==
  ASSUME OrderInv, NEW name, NEW t \in DOMAIN raw, Round(name, t),
         NEW e \in OutEntry, e.tsc = NextOf(t).tsc, out' = Append(out, e)
  PROVE  OrderInv'
<1>1. /\ phase = "merging" /\ t \in Unread /\ raw' = raw
      /\ index' = [index EXCEPT ![t] = @ + 1]
  BY DEF Round, toolVars
<1>2. index' \in [DOMAIN raw -> Nat \ {0}]
  BY <1>1 DEF OrderInv
<1>3. out \in Seq(OutEntry) /\ out' \in Seq(OutEntry)
  BY DEF OrderInv
<1>4. out # <<>> => out[Len(out)].tsc <= e.tsc
  BY <1>1 DEF OrderInv, TimeOrder, Last
<1>5. Ascending(out)'
  BY <1>3, <1>4, AscendingAppend DEF OrderInv, TimeOrder
<1>6. out'[Len(out')] = e
  BY <1>3
<1>7. \A u \in Unread' : (Last(out)').tsc <= (NextOf(u)').tsc
  BY <1>6, RoundTakesOldest DEF Last
<1>8. TimeOrder'
  BY <1>5, <1>7 DEF TimeOrder
<1> QED
  BY <1>1, <1>2, <1>3, <1>8 DEF OrderInv

(* A round that leaves its entry out. *)
LEMMA RoundSkips ==
  ASSUME OrderInv, NEW name, NEW t \in DOMAIN raw, Round(name, t), out' = out
  PROVE  OrderInv'
<1>1. /\ phase = "merging" /\ t \in Unread /\ raw' = raw
      /\ index' = [index EXCEPT ![t] = @ + 1]
  BY DEF Round, toolVars
<1>2. index' \in [DOMAIN raw -> Nat \ {0}]
  BY <1>1 DEF OrderInv
<1>3. ASSUME out # <<>>, NEW u \in Unread'
      PROVE  Last(out).tsc <= (NextOf(u)').tsc
  <2>1. Last(out).tsc <= NextOf(t).tsc
    BY <1>1, <1>3 DEF OrderInv, TimeOrder
  <2>2. NextOf(t).tsc <= (NextOf(u)').tsc
    BY <1>3, RoundTakesOldest
  <2>3. NextOf(t).tsc \in Nat
    BY <1>1, NextIsEntry
  <2>4. Last(out) \in OutEntry
    BY <1>3 DEF OrderInv, Last
  <2>5. Last(out).tsc \in Nat
    BY <2>4 DEF OutEntry
  <2>6. u \in DOMAIN raw /\ index'[u] \in DOMAIN raw[u] /\ raw[u] \in Seq(Entry)
    <3>1. u \in DOMAIN raw /\ index'[u] <= Len(raw[u])
      BY <1>1, <1>3 DEF Unread
    <3>2. index'[u] \in Nat \ {0}
      BY <1>2, <3>1
    <3>3. raw[u] \in Seq(Entry)
      BY <3>1 DEF OrderInv
    <3> QED
      BY <3>1, <3>2, <3>3
  <2>7. (NextOf(u)').tsc \in Nat
    <3>1. NextOf(u)' = raw[u][index'[u]]
      BY <1>1 DEF NextOf
    <3>2. raw[u][index'[u]] \in Entry
      BY <2>6
    <3> QED
      BY <3>1, <3>2 DEF Entry
  <2> QED
    BY <2>1, <2>2, <2>3, <2>5, <2>7
<1>4. Ascending(out)' /\ Last(out)' = Last(out)
  BY DEF OrderInv, TimeOrder, Ascending, Last
<1>5. out' # <<>> => \A u \in Unread' : (Last(out)').tsc <= (NextOf(u)').tsc
  BY <1>3, <1>4
<1>6. TimeOrder'
  BY <1>4, <1>5 DEF TimeOrder
<1> QED
  BY <1>1, <1>2, <1>6 DEF OrderInv

LEMMA ToolsOrder == OrderInv /\ ToolNext => OrderInv'
<1> SUFFICES ASSUME OrderInv, ToolNext PROVE OrderInv'
  OBVIOUS
<1>1. ASSUME NEW t \in DOMAIN raw, MergeOne(t) PROVE OrderInv'
  <2> DEFINE e == [NextOf(t) EXCEPT !.core = t]
  <2>1. Round("merge", t) /\ t \in Unread /\ out' = Append(out, e)
    BY <1>1 DEF MergeOne, Round
  <2>2. NextOf(t) \in Entry /\ t \in Nat
    BY <2>1, NextIsEntry DEF OrderInv
  <2>3. e \in OutEntry /\ e.tsc = NextOf(t).tsc
    BY <2>2 DEF Entry, OutEntry
  <2> HIDE DEF e
  <2> QED
    BY <2>1, <2>3, RoundAppends
<1>2. ASSUME NEW t \in DOMAIN raw, CopyOwn(t) PROVE OrderInv'
  <2> DEFINE e == [NextOf(t) EXCEPT !.size = Abs(@)]
  <2>1. Round("coherence", t) /\ t \in Unread /\ out' = Append(out, e)
    BY <1>2 DEF CopyOwn, Round
  <2>2. NextOf(t) \in Entry
    BY <2>1, NextIsEntry
  <2>3. e \in OutEntry /\ e.tsc = NextOf(t).tsc
    BY <2>2 DEF Entry, OutEntry, Abs
  <2> HIDE DEF e
  <2> QED
    BY <2>1, <2>3, RoundAppends
<1>3. ASSUME NEW t \in DOMAIN raw, AddInvalidation(t) PROVE OrderInv'
  <2>1. Round("coherence", t) /\ t \in Unread /\ out' = Append(out, NextOf(t))
    BY <1>3 DEF AddInvalidation, Round
  <2>2. NextOf(t) \in OutEntry
    BY <2>1, NextIsEntry DEF Entry, OutEntry
  <2> QED
    BY <2>1, <2>2, RoundAppends
<1>4. ASSUME NEW t \in DOMAIN raw, SkipRead(t) PROVE OrderInv'
  BY <1>4, RoundSkips DEF SkipRead
<1>5. ASSUME UNCHANGED <<raw, index, out>>, phase' # "merging" PROVE OrderInv'
  BY <1>5 DEF OrderInv, TimeOrder, Ascending
<1>6. CASE Save
  BY <1>5, <1>6 DEF Save
<1>7. ASSUME NEW w \in Warmups, NEW p \in Partitions, StartCut(w, p) PROVE OrderInv'
  BY <1>5, <1>7 DEF StartCut
<1>8. CASE CutStep
  BY <1>5, <1>8 DEF CutStep
<1>9. CASE EndCut
  BY <1>5, <1>9 DEF EndCut
<1> QED
  BY <1>1, <1>2, <1>3, <1>4, <1>6, <1>7, <1>8, <1>9 DEF ToolNext

(* Only the tools touch the traces: krd_tool and accum_tool work on what is written. *)
LEMMA StepOrder == OrderInv /\ [Next]_vars => OrderInv'
<1> SUFFICES ASSUME OrderInv, [Next]_vars PROVE OrderInv'
  OBVIOUS
<1>1. CASE UNCHANGED toolVars
  BY <1>1 DEF OrderInv, TimeOrder, Unread, NextOf, Ascending, Last, toolVars
<1>2. CASE ToolNext
  BY <1>2, ToolsOrder
<1> QED
  BY <1>1, <1>2 DEF Next, vars, StartWhole, StartPart, WriteHistogram, Accumulate

(* The trace a merge or coherence tool writes is in the order of time, and nothing
   that has not been read is older than its end. *)
THEOREM TracesInTimeOrder == Spec => []TimeOrder
<1>1. OrderInv => TimeOrder
  BY DEF OrderInv
<1> QED
  BY InitOrder, StepOrder, <1>1, PTL DEF Spec
-----------------------------------------------------------------------------
(* What has been read is in the trace that is written. *)

(* the first m entries of r are what s has at K *)
PartSoFar(s, K, r, m) == Cardinality(K) = m /\ \A k \in K : s[k] = r[Rank(k, K)]

(* A further position behind all others. *)
LEMMA RankGrows ==
  ASSUME NEW n \in Nat, NEW K \in SUBSET (1 .. n)
  PROVE  /\ IsFiniteSet(K) /\ Cardinality(K) \in Nat
         /\ Cardinality(K \union {n + 1}) = Cardinality(K) + 1
         /\ \A k \in K : Rank(k, K \union {n + 1}) = Rank(k, K) /\ Rank(k, K) \in 1 .. Cardinality(K)
         /\ Rank(n + 1, K \union {n + 1}) = Cardinality(K) + 1
<1>1. IsFiniteSet(K) /\ Cardinality(K) \in Nat
  <2>1. IsFiniteSet(1 .. n)
    BY FS_Interval
  <2> QED
    BY <2>1, FS_Subset, FS_CardinalityType
<1>2. \A k \in K : k \in Int /\ k <= n + 1 /\ ~ (n + 1 <= k) /\ k # n + 1
  OBVIOUS
<1>3. Cardinality(K \union {n + 1}) = Cardinality(K) + 1
  BY <1>1, <1>2, FS_AddElement
<1>4. ASSUME NEW k \in K PROVE Rank(k, K \union {n + 1}) = Rank(k, K) /\ Rank(k, K) \in 1 .. Cardinality(K)
  <2>1. PICK B \in SUBSET K : B = {j \in K : j <= k}
    OBVIOUS
  <2>2. {j \in K \union {n + 1} : j <= k} = B
    BY <1>2, <2>1
  <2>3. k \in B
    BY <1>2, <2>1
  <2>4. IsFiniteSet(B) /\ Cardinality(B) <= Cardinality(K)
    BY <1>1, FS_Subset
  <2>5. Cardinality(B) \in Nat /\ Cardinality(B) # 0
    BY <2>3, <2>4, FS_CardinalityType, FS_EmptySet
  <2> QED
    BY <1>1, <2>1, <2>2, <2>4, <2>5 DEF Rank
<1>5. {j \in K \union {n + 1} : j <= n + 1} = K \union {n + 1}
  <2>1. n + 1 <= n + 1
    OBVIOUS
  <2> QED
    BY <1>2, <2>1
<1> QED
  BY <1>1, <1>3, <1>4, <1>5 DEF Rank

(* The next entry of r is appended, or another one. *)
LEMMA PartGrows ==
  ASSUME NEW V, NEW s \in Seq(V), NEW x \in V, NEW K \in SUBSET DOMAIN s, NEW r, NEW m \in Nat,
         PartSoFar(s, K, r, m)
  PROVE  /\ x = r[m + 1] => PartSoFar(Append(s, x), K \union {Len(s) + 1}, r, m + 1)
         /\ PartSoFar(Append(s, x), K, r, m)
<1>1. PICK n \in Nat : n = Len(s) /\ DOMAIN s = 1 .. n
  OBVIOUS
<1>a. PICK u : u = Append(s, x)
  OBVIOUS
<1>2. u = Append(s, x) /\ u[n + 1] = x /\ \A k \in 1 .. n : u[k] = s[k]
  BY <1>1, <1>a
<1>3. PICK J : J = K \union {n + 1}
  OBVIOUS
<1>4. /\ Cardinality(J) = m + 1 /\ Rank(n + 1, J) = m + 1
      /\ \A k \in K : Rank(k, J) = Rank(k, K)
  <2>1. K \in SUBSET (1 .. n) /\ Cardinality(K) = m
    BY <1>1 DEF PartSoFar
  <2>2. n \in Nat
    BY <1>1
  <2>3. /\ Cardinality(K \union {n + 1}) = Cardinality(K) + 1
        /\ Rank(n + 1, K \union {n + 1}) = Cardinality(K) + 1
    BY ONLY <2>1, <2>2, RankGrows
  <2>4. \A k \in K : Rank(k, K \union {n + 1}) = Rank(k, K)
    BY ONLY <2>1, <2>2, RankGrows
  <2> QED
    BY <1>3, <2>1, <2>3, <2>4
<1>5. \A k \in K : u[k] = r[Rank(k, K)]
  BY <1>1, <1>2 DEF PartSoFar
<1>6. x = r[m + 1] => PartSoFar(u, J, r, m + 1)
  BY <1>2, <1>3, <1>4, <1>5 DEF PartSoFar
<1>7. PartSoFar(u, K, r, m)
  BY <1>5 DEF PartSoFar
<1> QED
  BY <1>1, <1>2, <1>3, <1>6, <1>7

LEMMA TimesGrow ==
  ASSUME NEW V, NEW s \in Seq(V), NEW x \in V, NEW e
  PROVE  /\ Times(s, e) \in Nat
         /\ Times(Append(s, x), e) = IF x = e THEN Times(s, e) + 1 ELSE Times(s, e)
<1>1. PICK n \in Nat : n = Len(s) /\ DOMAIN s = 1 .. n
  OBVIOUS
<1>2. PICK u : u = Append(s, x)
  OBVIOUS
<1>3. u[n + 1] = x /\ DOMAIN u = 1 .. n + 1 /\ \A k \in 1 .. n : u[k] = s[k]
  BY <1>1, <1>2
<1>4. PICK K \in SUBSET (1 .. n) : K = {k \in DOMAIN s : s[k] = e}
  BY <1>1
<1>5. {k \in DOMAIN u : u[k] = e} = IF x = e THEN K \union {n + 1} ELSE K
  <2>1. \A k \in 1 .. n + 1 : k = n + 1 \/ k \in 1 .. n
    BY <1>1
  <2>2. \A k \in 1 .. n : k \in 1 .. n + 1 /\ k # n + 1
    BY <1>1
  <2>3. n + 1 \in 1 .. n + 1
    BY <1>1
  <2> QED
    BY <1>1, <1>3, <1>4, <2>1, <2>2, <2>3
<1>6. Cardinality(K) \in Nat /\ Cardinality(K \union {n + 1}) = Cardinality(K) + 1
  BY <1>1, RankGrows
<1> QED
  BY <1>2, <1>4, <1>5, <1>6 DEF Times

(* The positions of what the merge tool has from trace t, and what the coherence tool
   has from the first trace. *)
Mine(t) == {k \in DOMAIN out : out[k].core = t}
Own == {k \in DOMAIN out : out[k].size > 0}

(* what these entries should be *)
Numbered(t) == [k \in DOMAIN raw[t] |-> [raw[t][k] EXCEPT !.core = t]]
Sized == [k \in DOMAIN raw[1] |-> [raw[1][k] EXCEPT !.size = Abs(@)]]

(* where e is in what has been read of the other traces *)
Pairs == UNION {{t} \X DOMAIN raw[t] : t \in DOMAIN raw \ {1}}
ReadAt(e) == {x \in Pairs : raw[x[1]][x[2]] = e /\ x[2] < index[x[1]]}

InvalidationsKept ==
  /\ \A e \in OutEntry : e.size < 0 =>
       IsFiniteSet(ReadAt(e)) /\ Times(out, e) = Cardinality(ReadAt(e))
  /\ \A t \in DOMAIN raw \ {1} : \A k \in DOMAIN raw[t] :
       k < index[t] /\ raw[t][k].size < 0 => raw[t][k] \in ToSet(out)

LostInv ==
  /\ Len(raw) > 0
  /\ \A t \in DOMAIN raw : index[t] <= Len(raw[t]) + 1
  /\ phase # "merging" => Unread = {}
  /\ tool = "merge" =>
       \A t \in DOMAIN raw : PartSoFar(out, Mine(t), Numbered(t), index[t] - 1)
  /\ tool # "merge" => PartSoFar(out, Own, Sized, index[1] - 1) /\ InvalidationsKept

LEMMA InitLost == Init => LostInv
<1> SUFFICES ASSUME Init PROVE LostInv
  OBVIOUS
<1>1. /\ raw \in Recordings /\ index = [t \in DOMAIN raw |-> 1] /\ out = <<>> /\ phase = "merging"
  BY DEF Init, ToolInit
<1>2. raw \in Seq(Seq(Entry)) /\ Len(raw) > 0
  BY <1>1, RecordingsAssumption
<1>3. 1 \in DOMAIN raw /\ \A t \in DOMAIN raw : index[t] = 1 /\ index[t] <= Len(raw[t]) + 1 /\ index[t] - 1 = 0
  <2>1. 1 \in DOMAIN raw
    BY <1>2
  <2>2. \A t \in DOMAIN raw : raw[t] \in Seq(Entry)
    BY <1>2
  <2>3. \A t \in DOMAIN raw : Len(raw[t]) \in Nat
    BY <2>2
  <2> QED
    BY <1>1, <2>1, <2>3
<1>4. \A r : PartSoFar(out, {}, r, 0)
  BY FS_EmptySet DEF PartSoFar
<1>5. Own = {} /\ \A t \in DOMAIN raw : Mine(t) = {}
  BY <1>1 DEF Own, Mine
<1>6. InvalidationsKept
  <2>1. \A t \in DOMAIN raw \ {1} : \A k \in DOMAIN raw[t] : ~ (k < index[t])
    <3>1. \A t \in DOMAIN raw : raw[t] \in Seq(Entry)
      BY <1>2
    <3>2. \A t \in DOMAIN raw : \A k \in DOMAIN raw[t] : k \in Nat /\ k >= 1
      BY <3>1
    <3> QED
      BY <1>3, <3>2
  <2>2. ASSUME NEW e \in OutEntry PROVE ReadAt(e) = {}
    <3>1. \A x \in Pairs : \E t \in DOMAIN raw \ {1} : x[1] = t /\ x[2] \in DOMAIN raw[t]
      BY DEF Pairs
    <3> QED
      BY <2>1, <3>1 DEF ReadAt
  <2>3. \A e : Times(out, e) = 0
    <3>1. \A e : {k \in DOMAIN out : out[k] = e} = {}
      BY <1>1
    <3> QED
      BY <3>1, FS_EmptySet DEF Times
  <2> QED
    BY <2>1, <2>2, <2>3, FS_EmptySet DEF InvalidationsKept
<1> QED
  BY <1>1, <1>2, <1>3, <1>4, <1>5, <1>6 DEF LostInv

(* What a round reads. *)
LEMMA RoundReads ==
  ASSUME OrderInv, LostInv, NEW name, NEW t \in DOMAIN raw, Round(name, t)
  PROVE  /\ tool = name /\ tool' = tool /\ raw' = raw /\ phase = "merging" /\ phase' = "merging"
         /\ raw[t] \in Seq(Entry) /\ index[t] \in DOMAIN raw[t] /\ NextOf(t) \in Entry
         /\ index' \in [DOMAIN raw -> Nat \ {0}]
         /\ index[t] \in Nat \ {0} /\ index'[t] = index[t] + 1
         /\ \A u \in DOMAIN raw : u # t => index'[u] = index[u]
         /\ \A u \in DOMAIN raw : index'[u] <= Len(raw[u]) + 1
<1>1. /\ tool = name /\ tool' = tool /\ raw' = raw /\ phase = "merging" /\ phase' = "merging"
      /\ t \in Unread /\ index' = [index EXCEPT ![t] = @ + 1]
  BY DEF Round, toolVars
<1>a. raw[t] \in Seq(Entry) /\ index[t] \in Nat \ {0}
  BY DEF OrderInv
<1>2. raw[t] \in Seq(Entry) /\ index[t] \in Nat \ {0} /\ index[t] <= Len(raw[t])
  BY <1>1, <1>a DEF Unread
<1>3. index[t] \in DOMAIN raw[t] /\ index[t] + 1 <= Len(raw[t]) + 1
  BY <1>2
<1>4. NextOf(t) \in Entry
  BY <1>1, NextIsEntry
<1>5. index' \in [DOMAIN raw -> Nat \ {0}] /\ index'[t] = index[t] + 1
      /\ \A u \in DOMAIN raw : u # t => index'[u] = index[u]
  BY <1>1 DEF OrderInv
<1>6. \A u \in DOMAIN raw : index'[u] <= Len(raw[u]) + 1
  BY <1>3, <1>5 DEF LostInv
<1> QED
  BY <1>1, <1>2, <1>3, <1>4, <1>5, <1>6

LEMMA LostMerge == ASSUME OrderInv, LostInv, NEW t \in DOMAIN raw, MergeOne(t) PROVE LostInv'
<1>1. Round("merge", t)
  BY DEF MergeOne
<1>2. PICK e : e = [NextOf(t) EXCEPT !.core = t]
  OBVIOUS
<1>3. out' = Append(out, e)
  BY <1>2 DEF MergeOne
<1>4. e \in OutEntry /\ e.core = t /\ out \in Seq(OutEntry)
  <2>1. t \in Nat /\ NextOf(t) \in Entry
    BY <1>1, RoundReads DEF OrderInv
  <2> QED
    BY <1>2, <2>1 DEF Entry, OutEntry, OrderInv
<1>5. PICK n \in Nat : n = Len(out) /\ DOMAIN out = 1 .. n
  BY <1>4
<1>6. DOMAIN out' = 1 .. n + 1 /\ out'[n + 1] = e /\ \A k \in 1 .. n : out'[k] = out[k]
  BY <1>3, <1>4, <1>5
<1>7. ASSUME NEW u \in DOMAIN raw
      PROVE  PartSoFar(out', Mine(u)', Numbered(u)', index'[u] - 1)
  <2>1. PICK K \in SUBSET DOMAIN out : K = Mine(u)
    BY DEF Mine
  <2>2. Mine(u)' = IF u = t THEN K \union {n + 1} ELSE K
    <3>1. \A k : k \in 1 .. n + 1 <=> k \in 1 .. n \/ k = n + 1
      BY <1>5
    <3> QED
      BY <1>4, <1>5, <1>6, <2>1, <3>1 DEF Mine
  <2>3. PICK r : r = Numbered(u) /\ r = Numbered(u)'
    BY <1>1, RoundReads DEF Numbered
  <2>4. PICK m \in Nat : m = index[u] - 1 /\ m + 1 = index[u]
    <3>1. index[u] \in Nat \ {0}
      BY DEF OrderInv
    <3>2. index[u] - 1 \in Nat /\ (index[u] - 1) + 1 = index[u]
      BY <3>1
    <3> QED
      BY <3>2
  <2>5. PartSoFar(out, K, r, m)
    BY <1>1, <2>1, <2>3, <2>4, RoundReads DEF LostInv
  <2>6. CASE u = t
    <3>1. e = r[m + 1]
      <4>1. index[t] \in DOMAIN raw[t] /\ NextOf(t) = raw[t][index[t]]
        BY <1>1, RoundReads DEF NextOf
      <4> QED
        BY <1>2, <2>3, <2>4, <2>6, <4>1 DEF Numbered
    <3>2. PartSoFar(Append(out, e), K \union {Len(out) + 1}, r, m + 1)
      BY <1>4, <2>5, <3>1, PartGrows
    <3>3. index'[u] - 1 = m + 1
      <4>1. index'[u] = (m + 1) + 1
        BY <1>1, <2>4, <2>6, RoundReads
      <4> QED
        BY <4>1
    <3> QED
      BY <1>3, <1>5, <2>2, <2>3, <2>6, <3>2, <3>3
  <2>7. CASE u # t
    <3>1. PartSoFar(Append(out, e), K, r, m)
      BY <1>4, <2>5, PartGrows
    <3>2. index'[u] - 1 = m
      BY <1>1, <2>4, <2>7, RoundReads
    <3> QED
      BY <1>3, <2>2, <2>3, <2>7, <3>1, <3>2
  <2> QED
    BY <2>6, <2>7
<1>8. /\ Len(raw') > 0 /\ tool' = "merge" /\ phase' = "merging" /\ raw' = raw
      /\ \A u \in DOMAIN raw : index'[u] <= Len(raw[u]) + 1
  BY <1>1, RoundReads DEF LostInv
<1> QED
  BY <1>7, <1>8 DEF LostInv

(* A round of the coherence tool that copies an entry of the first trace. *)
LEMMA LostCopy == ASSUME OrderInv, LostInv, NEW t \in DOMAIN raw, CopyOwn(t) PROVE LostInv'
<1>1. Round("coherence", t) /\ t = 1
  BY DEF CopyOwn
<1>2. PICK e : e = [NextOf(t) EXCEPT !.size = Abs(@)]
  OBVIOUS
<1>3. out' = Append(out, e)
  BY <1>2 DEF CopyOwn
<1>4. e \in OutEntry /\ e.size > 0 /\ out \in Seq(OutEntry)
  <2>1. NextOf(t) \in Entry
    BY <1>1, RoundReads
  <2>2. NextOf(t).size \in Int \ {0}
    BY <2>1 DEF Entry
  <2>3. PICK z : z = Abs(NextOf(t).size)
    OBVIOUS
  <2>4. z \in Int \ {0} /\ z > 0
    BY <2>2, <2>3 DEF Abs
  <2> QED
    BY <1>2, <2>1, <2>3, <2>4 DEF Entry, OutEntry, OrderInv
<1>5. PICK n \in Nat : n = Len(out) /\ DOMAIN out = 1 .. n
  BY <1>4
<1>6. DOMAIN out' = 1 .. n + 1 /\ out'[n + 1] = e /\ \A k \in 1 .. n : out'[k] = out[k]
  BY <1>3, <1>4, <1>5
<1>7. PartSoFar(out', Own', Sized', index'[1] - 1)
  <2>1. PICK K \in SUBSET DOMAIN out : K = Own
    BY DEF Own
  <2>2. Own' = K \union {n + 1}
    <3>1. \A k : k \in 1 .. n + 1 <=> k \in 1 .. n \/ k = n + 1
      BY <1>5
    <3> QED
      BY <1>4, <1>5, <1>6, <2>1, <3>1 DEF Own
  <2>3. PICK r : r = Sized /\ r = Sized'
    BY <1>1, RoundReads DEF Sized
  <2>4. PICK m \in Nat : m = index[1] - 1 /\ m + 1 = index[1]
    <3>1. index[1] \in Nat \ {0}
      BY <1>1 DEF OrderInv
    <3>2. index[1] - 1 \in Nat /\ (index[1] - 1) + 1 = index[1]
      BY <3>1
    <3> QED
      BY <3>2
  <2>5. PartSoFar(out, K, r, m)
    BY <1>1, <2>1, <2>3, <2>4, RoundReads DEF LostInv
  <2>6. e = r[m + 1]
    <3>1. index[1] \in DOMAIN raw[1] /\ NextOf(t) = raw[1][index[1]]
      BY <1>1, RoundReads DEF NextOf
    <3> QED
      BY <1>2, <2>3, <2>4, <3>1 DEF Sized
  <2>7. PartSoFar(Append(out, e), K \union {Len(out) + 1}, r, m + 1)
    BY <1>4, <2>5, <2>6, PartGrows
  <2>8. index'[1] - 1 = m + 1
    <3>1. index'[1] = (m + 1) + 1
      BY <1>1, <2>4, RoundReads
    <3> QED
      BY <3>1
  <2> QED
    BY <1>3, <1>5, <2>2, <2>3, <2>7, <2>8
<1>8. InvalidationsKept'
  <2>1. raw' = raw /\ \A u \in DOMAIN raw \ {1} : index'[u] = index[u]
    BY <1>1, RoundReads
  <2>2. InvalidationsKept
    BY <1>1, RoundReads DEF LostInv
  <2>3. ASSUME NEW f \in OutEntry, f.size < 0
        PROVE  IsFiniteSet(ReadAt(f)') /\ Times(out', f) = Cardinality(ReadAt(f)')
    <3>1. \A x \in Pairs : x[1] \in DOMAIN raw \ {1}
      BY DEF Pairs
    <3>2. ReadAt(f)' = ReadAt(f)
      BY <2>1, <3>1 DEF ReadAt, Pairs
    <3>3. e # f
      BY <1>4, <2>3 DEF OutEntry
    <3>4. Times(out', f) = Times(out, f)
      BY <1>3, <1>4, <3>3, TimesGrow
    <3> QED
      BY <2>2, <2>3, <3>2, <3>4 DEF InvalidationsKept
  <2>4. ToSet(out) \subseteq ToSet(out')
    BY <1>5, <1>6 DEF ToSet
  <2>5. \A u \in DOMAIN raw \ {1} : \A k \in DOMAIN raw[u] :
          k < index'[u] /\ raw[u][k].size < 0 => raw[u][k] \in ToSet(out')
    BY <2>1, <2>2, <2>4 DEF InvalidationsKept
  <2> QED
    BY <2>1, <2>3, <2>5 DEF InvalidationsKept
<1>9. /\ Len(raw') > 0 /\ tool' # "merge" /\ phase' = "merging" /\ raw' = raw
      /\ \A u \in DOMAIN raw : index'[u] <= Len(raw[u]) + 1
  BY <1>1, RoundReads DEF LostInv
<1> QED
  BY <1>7, <1>8, <1>9 DEF LostInv

(* What a round reads of another trace. *)
LEMMA ReadGrows ==
  ASSUME OrderInv, LostInv, NEW name, NEW t \in DOMAIN raw \ {1}, Round(name, t), NEW f
  PROVE  /\ NextOf(t) # f => ReadAt(f)' = ReadAt(f)
         /\ NextOf(t) = f => ReadAt(f)' = ReadAt(f) \union {<<t, index[t]>>}
         /\ <<t, index[t]>> \notin ReadAt(f)
<1>1. /\ raw' = raw /\ index[t] \in DOMAIN raw[t] /\ index[t] \in Nat \ {0} /\ index'[t] = index[t] + 1
      /\ \A u \in DOMAIN raw : u # t => index'[u] = index[u]
  BY RoundReads
<1>2. NextOf(t) = raw[t][index[t]]
  BY DEF NextOf
<1>3. Pairs' = Pairs /\ <<t, index[t]>> \in Pairs
  BY <1>1 DEF Pairs
<1>4. ASSUME NEW x \in Pairs
      PROVE  x[2] < index'[x[1]] <=> x[2] < index[x[1]] \/ x = <<t, index[t]>>
  <2>1. PICK u \in DOMAIN raw \ {1} : x \in {u} \X DOMAIN raw[u]
    BY DEF Pairs
  <2>2. x = <<u, x[2]>> /\ x[1] = u /\ x[2] \in DOMAIN raw[u]
    BY <2>1
  <2>3. raw[u] \in Seq(Entry) /\ index[u] \in Nat
    BY DEF OrderInv
  <2>4. x[2] \in Nat
    BY <2>2, <2>3
  <2>5. CASE u = t
    <3>1. x[2] < index[t] + 1 <=> x[2] < index[t] \/ x[2] = index[t]
      BY <2>3, <2>4, <2>5
    <3> QED
      BY <1>1, <2>2, <2>5, <3>1
  <2>6. CASE u # t
    BY <1>1, <2>2, <2>6
  <2> QED
    BY <2>5, <2>6
<1>5. ~ (index[t] < index[t])
  BY <1>1
<1>6. <<t, index[t]>>[1] = t /\ <<t, index[t]>>[2] = index[t]
  OBVIOUS
<1>7. PICK p : p = <<t, index[t]>> /\ p \in Pairs /\ p[1] = t /\ p[2] = index[t]
  BY <1>3, <1>6
<1>8. p \notin ReadAt(f)
  BY <1>5, <1>7 DEF ReadAt
<1>9. raw[p[1]][p[2]] = NextOf(t)
  BY <1>2, <1>7
<1>10. ReadAt(f)' = {x \in Pairs : raw[x[1]][x[2]] = f /\ x[2] < index'[x[1]]}
  BY <1>1, <1>3 DEF ReadAt
<1>11. \A x : x \in ReadAt(f)' <=> x \in ReadAt(f) \/ (x = p /\ NextOf(t) = f)
  BY <1>4, <1>7, <1>9, <1>10 DEF ReadAt
<1> QED
  BY <1>7, <1>8, <1>11

(* Neither round changes what there is of the first trace. *)
LEMMA OwnKept ==
  ASSUME OrderInv, LostInv, NEW t \in DOMAIN raw \ {1}, Round("coherence", t),
         out' = out \/ \E e \in OutEntry : out' = Append(out, e) /\ ~ (e.size > 0)
  PROVE  PartSoFar(out', Own', Sized', index'[1] - 1)
<1>1. /\ raw' = raw /\ tool = "coherence" /\ 1 \in DOMAIN raw
      /\ \A u \in DOMAIN raw : u # t => index'[u] = index[u]
  BY RoundReads DEF LostInv, OrderInv
<1>2. index'[1] = index[1]
  BY <1>1
<1>3. PICK r : r = Sized /\ r = Sized'
  BY <1>1 DEF Sized
<1>4. PICK K \in SUBSET DOMAIN out : K = Own
  BY DEF Own
<1>5. PICK m \in Nat : m = index[1] - 1
  <2>1. index[1] \in Nat \ {0}
    BY <1>1 DEF OrderInv
  <2>2. index[1] - 1 \in Nat
    BY <2>1
  <2> QED
    BY <2>2
<1>6. PartSoFar(out, K, r, m)
  BY <1>1, <1>3, <1>4, <1>5 DEF LostInv
<1>7. CASE out' = out
  BY <1>2, <1>3, <1>4, <1>5, <1>6, <1>7 DEF Own
<1>8. CASE \E e \in OutEntry : out' = Append(out, e) /\ ~ (e.size > 0)
  <2>1. PICK e \in OutEntry : out' = Append(out, e) /\ ~ (e.size > 0)
    BY <1>8
  <2>2. out \in Seq(OutEntry)
    BY DEF OrderInv
  <2>3. PICK n \in Nat : n = Len(out) /\ DOMAIN out = 1 .. n
    BY <2>2
  <2>4. DOMAIN out' = 1 .. n + 1 /\ out'[n + 1] = e /\ \A k \in 1 .. n : out'[k] = out[k]
    BY <2>1, <2>2, <2>3
  <2>5. \A k : k \in 1 .. n + 1 <=> k \in 1 .. n \/ k = n + 1
    BY <2>3
  <2>6. Own' = K
    BY <1>4, <2>1, <2>3, <2>4, <2>5 DEF Own
  <2>7. PartSoFar(Append(out, e), K, r, m)
    BY <1>6, <2>2, PartGrows
  <2> QED
    BY <1>2, <1>3, <1>5, <2>1, <2>6, <2>7
<1> QED
  BY <1>7, <1>8

LEMMA LostInvalidation ==
  ASSUME OrderInv, LostInv, NEW t \in DOMAIN raw, AddInvalidation(t) PROVE LostInv'
<1>1. Round("coherence", t) /\ t \in DOMAIN raw \ {1} /\ NextOf(t).size < 0
      /\ out' = Append(out, NextOf(t))
  BY DEF AddInvalidation
<1>2. PICK e : e = NextOf(t)
  OBVIOUS
<1>3. e \in OutEntry /\ ~ (e.size > 0) /\ out \in Seq(OutEntry)
  <2>1. e \in Entry
    BY <1>1, <1>2, RoundReads
  <2> QED
    BY <1>1, <1>2, <2>1 DEF Entry, OutEntry, OrderInv
<1>4. PartSoFar(out', Own', Sized', index'[1] - 1)
  BY <1>1, <1>2, <1>3, OwnKept
<1>5. InvalidationsKept
  BY <1>1, RoundReads DEF LostInv
<1>6. /\ raw' = raw /\ index[t] \in DOMAIN raw[t] /\ index[t] \in Nat \ {0} /\ index'[t] = index[t] + 1
      /\ \A u \in DOMAIN raw : u # t => index'[u] = index[u]
  BY <1>1, RoundReads
<1>7. ASSUME NEW f \in OutEntry, f.size < 0
      PROVE  IsFiniteSet(ReadAt(f)') /\ Times(out', f) = Cardinality(ReadAt(f)')
  <2>1. IsFiniteSet(ReadAt(f)) /\ Times(out, f) = Cardinality(ReadAt(f))
    BY <1>5, <1>7 DEF InvalidationsKept
  <2>2. Times(out', f) = IF e = f THEN Times(out, f) + 1 ELSE Times(out, f)
    BY <1>1, <1>2, <1>3, TimesGrow
  <2>3. /\ e # f => ReadAt(f)' = ReadAt(f)
        /\ e = f => ReadAt(f)' = ReadAt(f) \union {<<t, index[t]>>}
        /\ <<t, index[t]>> \notin ReadAt(f)
    BY <1>1, <1>2, ReadGrows
  <2>4. CASE e = f
    <3>1. /\ IsFiniteSet(ReadAt(f) \union {<<t, index[t]>>})
          /\ Cardinality(ReadAt(f) \union {<<t, index[t]>>}) = Cardinality(ReadAt(f)) + 1
      BY <2>1, <2>3, FS_AddElement
    <3> QED
      BY <2>1, <2>2, <2>3, <2>4, <3>1
  <2>5. CASE e # f
    BY <2>1, <2>2, <2>3, <2>5
  <2> QED
    BY <2>4, <2>5
<1>8. ToSet(out') = ToSet(out) \union {e}
  <2>1. PICK n \in Nat : n = Len(out) /\ DOMAIN out = 1 .. n
    BY <1>3
  <2>2. DOMAIN out' = 1 .. n + 1 /\ out'[n + 1] = e /\ \A k \in 1 .. n : out'[k] = out[k]
    BY <1>1, <1>2, <1>3, <2>1
  <2>3. \A k : k \in 1 .. n + 1 <=> k \in 1 .. n \/ k = n + 1
    BY <2>1
  <2> QED
    BY <2>1, <2>2, <2>3 DEF ToSet
<1>9. ASSUME NEW u \in DOMAIN raw \ {1}, NEW k \in DOMAIN raw[u], k < index'[u], raw[u][k].size < 0
      PROVE  raw[u][k] \in ToSet(out')
  <2>1. raw[u] \in Seq(Entry)
    BY DEF OrderInv
  <2>2. k \in Nat
    BY <2>1
  <2>3. CASE k < index[u]
    BY <1>5, <1>8, <1>9, <2>3 DEF InvalidationsKept
  <2>4. CASE ~ (k < index[u])
    <3>1. u = t
      BY <1>6, <1>9, <2>4
    <3>2. k = index[t]
      BY <1>6, <1>9, <2>2, <2>4, <3>1
    <3> QED
      BY <1>2, <1>8, <3>1, <3>2 DEF NextOf
  <2> QED
    BY <2>3, <2>4
<1>10. InvalidationsKept'
  BY <1>6, <1>7, <1>9 DEF InvalidationsKept
<1>11. /\ Len(raw') > 0 /\ tool' # "merge" /\ phase' = "merging"
       /\ \A u \in DOMAIN raw : index'[u] <= Len(raw[u]) + 1
  BY <1>1, RoundReads DEF LostInv
<1> QED
  BY <1>4, <1>6, <1>10, <1>11 DEF LostInv

LEMMA LostRead ==
  ASSUME OrderInv, LostInv, NEW t \in DOMAIN raw, SkipRead(t) PROVE LostInv'
<1>1. Round("coherence", t) /\ t \in DOMAIN raw \ {1} /\ NextOf(t).size > 0 /\ out' = out
  BY DEF SkipRead
<1>2. PartSoFar(out', Own', Sized', index'[1] - 1)
  BY <1>1, OwnKept
<1>3. InvalidationsKept
  BY <1>1, RoundReads DEF LostInv
<1>4. /\ raw' = raw /\ NextOf(t) \in Entry /\ index[t] \in Nat \ {0} /\ index'[t] = index[t] + 1
      /\ \A u \in DOMAIN raw : u # t => index'[u] = index[u]
  BY <1>1, RoundReads
<1>5. NextOf(t).size \in Int
  BY <1>4 DEF Entry
<1>6. ASSUME NEW f \in OutEntry, f.size < 0
      PROVE  IsFiniteSet(ReadAt(f)') /\ Times(out', f) = Cardinality(ReadAt(f)')
  <2>1. NextOf(t) # f
    BY <1>1, <1>5, <1>6
  <2>2. ReadAt(f)' = ReadAt(f)
    BY <1>1, <2>1, ReadGrows
  <2> QED
    BY <1>1, <1>3, <1>6, <2>2 DEF InvalidationsKept
<1>7. ASSUME NEW u \in DOMAIN raw \ {1}, NEW k \in DOMAIN raw[u], k < index'[u], raw[u][k].size < 0
      PROVE  raw[u][k] \in ToSet(out')
  <2>1. raw[u] \in Seq(Entry)
    BY DEF OrderInv
  <2>2. k \in Nat
    BY <2>1
  <2>3. ~ (k < index[u]) => u = t /\ k = index[t]
    BY <1>4, <1>7, <2>2
  <2>4. k < index[u]
    BY <1>1, <1>5, <1>7, <2>3 DEF NextOf
  <2> QED
    BY <1>1, <1>3, <1>7, <2>4 DEF InvalidationsKept
<1>8. InvalidationsKept'
  BY <1>4, <1>6, <1>7 DEF InvalidationsKept
<1>9. /\ Len(raw') > 0 /\ tool' # "merge" /\ phase' = "merging"
      /\ \A u \in DOMAIN raw : index'[u] <= Len(raw[u]) + 1
  BY <1>1, RoundReads DEF LostInv
<1> QED
  BY <1>2, <1>4, <1>8, <1>9 DEF LostInv

LEMMA StepLost == OrderInv /\ LostInv /\ [Next]_vars => LostInv'
<1> SUFFICES ASSUME OrderInv, LostInv, [Next]_vars PROVE LostInv'
  OBVIOUS
<1>1. ASSUME UNCHANGED <<tool, raw, index, out>>, phase' # "merging" => Unread = {} PROVE LostInv'
  <2>1. (\A t \in DOMAIN raw : PartSoFar(out, Mine(t), Numbered(t), index[t] - 1)) =>
          \A t \in DOMAIN raw' : PartSoFar(out, Mine(t), Numbered(t), index[t] - 1)'
    <3> SUFFICES ASSUME NEW t \in DOMAIN raw, PartSoFar(out, Mine(t), Numbered(t), index[t] - 1)
                 PROVE  PartSoFar(out, Mine(t), Numbered(t), index[t] - 1)'
      BY <1>1
    <3>1. Mine(t)' = Mine(t)
      BY <1>1 DEF Mine
    <3>2. Numbered(t)' = Numbered(t)
      BY <1>1 DEF Numbered
    <3> QED
      BY <1>1, <3>1, <3>2 DEF PartSoFar
  <2>2. PartSoFar(out, Own, Sized, index[1] - 1)
          => PartSoFar(out, Own, Sized, index[1] - 1)'
    <3>1. Own' = Own
      BY <1>1 DEF Own
    <3>2. Sized' = Sized
      BY <1>1 DEF Sized
    <3> QED
      BY <1>1, <3>1, <3>2 DEF PartSoFar
  <2>3. InvalidationsKept => InvalidationsKept'
    BY <1>1 DEF InvalidationsKept, ReadAt, Pairs
  <2>4. Unread' = Unread
    BY <1>1 DEF Unread
  <2> QED
    BY <1>1, <2>1, <2>2, <2>3, <2>4 DEF LostInv
<1>2. CASE UNCHANGED toolVars
  BY <1>1, <1>2 DEF toolVars, LostInv
<1>3. CASE ToolNext
  <2>1. CASE Save
    BY <1>1, <2>1 DEF Save
  <2>2. ASSUME NEW w \in Warmups, NEW p \in Partitions, StartCut(w, p) PROVE LostInv'
    BY <1>1, <2>2 DEF StartCut, LostInv
  <2>3. CASE CutStep
    BY <1>1, <2>3 DEF CutStep, LostInv
  <2>4. CASE EndCut
    BY <1>1, <2>4 DEF EndCut, LostInv
  <2> QED
    BY <1>3, <2>1, <2>2, <2>3, <2>4, LostMerge, LostCopy, LostInvalidation, LostRead DEF ToolNext
<1> QED
  BY <1>2, <1>3 DEF Next, vars, StartWhole, StartPart, WriteHistogram, Accumulate

(* Merging neither loses nor doubles entries; a coherent trace has all accesses of the
   first trace in their order and exactly the writes of the others. *)
THEOREM TracesAreComplete == Spec => []NothingLost
<1>1. OrderInv /\ LostInv => NothingLost
  <2> SUFFICES ASSUME OrderInv, LostInv, phase = "saved" PROVE NothingLost
    BY DEF NothingLost
  <2>1. ASSUME NEW t \in DOMAIN raw
        PROVE  index[t] - 1 = Len(raw[t]) /\ raw[t] \in Seq(Entry) /\ DOMAIN raw[t] = 1 .. Len(raw[t])
    <3>1. raw[t] \in Seq(Entry) /\ index[t] \in Nat \ {0} /\ index[t] <= Len(raw[t]) + 1
      BY DEF OrderInv, LostInv
    <3>2. ~ (index[t] <= Len(raw[t]))
      BY DEF LostInv, Unread
    <3> QED
      BY <3>1, <3>2
  <2>2. CASE tool = "merge"
    <3> SUFFICES ASSUME NEW t \in DOMAIN raw PROVE IsPart(out, Mine(t), Numbered(t))
      BY <2>2 DEF NothingLost, Mine, Numbered
    <3>1. PartSoFar(out, Mine(t), Numbered(t), Len(raw[t]))
      BY <2>1, <2>2 DEF LostInv
    <3>2. Len(Numbered(t)) = Len(raw[t])
      BY <2>1 DEF Numbered
    <3> QED
      BY <3>1, <3>2 DEF IsPart, PartSoFar
  <2>3. CASE tool # "merge"
    <3>1. 1 \in DOMAIN raw
      BY DEF LostInv, OrderInv
    <3>2. IsPart(out, Own, Sized)
      <4>1. PartSoFar(out, Own, Sized, Len(raw[1]))
        BY <2>1, <2>3, <3>1 DEF LostInv
      <4>2. Len(Sized) = Len(raw[1])
        BY <2>1, <3>1 DEF Sized
      <4> QED
        BY <4>1, <4>2 DEF IsPart, PartSoFar
    <3>3. \A t \in DOMAIN raw : \A k \in DOMAIN raw[t] : k < index[t]
      <4> SUFFICES ASSUME NEW t \in DOMAIN raw, NEW k \in DOMAIN raw[t] PROVE k < index[t]
        OBVIOUS
      <4>1. Len(raw[t]) \in Nat /\ index[t] \in Nat /\ k \in 1 .. Len(raw[t])
        BY <2>1 DEF OrderInv
      <4> QED
        BY <2>1, <4>1
    <3>4. ASSUME NEW k \in DOMAIN out, out[k].size < 0
          PROVE  Times(out, out[k]) = WritesOfOthers(out[k])
      <4>1. out[k] \in OutEntry
        BY DEF OrderInv
      <4>2. ReadAt(out[k]) = {x \in Pairs : raw[x[1]][x[2]] = out[k]}
        <5>1. \A x \in Pairs : x[1] \in DOMAIN raw /\ x[2] \in DOMAIN raw[x[1]]
          BY DEF Pairs
        <5> QED
          BY <3>3, <5>1 DEF ReadAt
      <4> QED
        BY <2>3, <3>4, <4>1, <4>2 DEF LostInv, InvalidationsKept, WritesOfOthers, Pairs
    <3>5. \A t \in DOMAIN raw \ {1} : \A k \in DOMAIN raw[t] :
            raw[t][k].size < 0 => raw[t][k] \in ToSet(out)
      BY <2>3, <3>3 DEF LostInv, InvalidationsKept
    <3> QED
      BY <2>3, <3>2, <3>4, <3>5 DEF NothingLost, Own, Sized
  <2> QED
    BY <2>2, <2>3
<1> QED
  BY InitOrder, StepOrder, InitLost, StepLost, <1>1, PTL DEF Spec

-----------------------------------------------------------------------------
(* A set of numbers has a least one. *)
LEMMA Least ==
  ASSUME NEW S, S \subseteq Nat, S # {}
  PROVE  \E m \in S : \A k \in S : m <= k
<1>1. PICK R : IsWellFoundedOn(R, Nat) /\ \A x, y \in Nat : x < y => <<x, y>> \in R
  BY NatLessThanWellFounded DEF OpToRel
<1>2. PICK x \in S : \A y \in S : ~ (<<y, x>> \in R)
  <2>1. IsWellFoundedOn(R, Nat)
    BY <1>1
  <2> QED
    BY ONLY <2>1, S \subseteq Nat, S # {}, WFMin
<1>3. \A y \in S : y \in Nat /\ x \in Nat /\ ~ (y < x)
  BY <1>1, <1>2
<1> QED
  BY <1>3

(* Regular finds the first position from k on that is none of an invalidation. *)
LEMMA RegularFinds ==
  ASSUME out \in Seq(OutEntry), NEW k \in Nat
  PROVE  /\ Regular(k) \in Nat /\ Regular(k) >= k /\ SizeAt(Regular(k)) >= 0
         /\ \A l \in k .. Regular(k) - 1 : SizeAt(l) < 0
<1>1. \A j \in Nat : SizeAt(j) \in Int
  <2> SUFFICES ASSUME NEW j \in Nat PROVE SizeAt(j) \in Int
    OBVIOUS
  <2>1. CASE j < Len(out)
    <3>1. j + 1 \in DOMAIN out
      BY <2>1
    <3>2. out[j + 1] \in OutEntry
      BY <3>1
    <3>3. out[j + 1].size \in Int
      BY <3>2 DEF OutEntry
    <3> QED
      BY <2>1, <3>3 DEF SizeAt
  <2>2. CASE ~ (j < Len(out))
    BY <2>2 DEF SizeAt
  <2> QED
    BY <2>1, <2>2
<1>2. PICK S : S = {j \in Nat : j >= k /\ SizeAt(j) >= 0}
  OBVIOUS
<1>3. PICK n \in Nat : n = Len(out)
  OBVIOUS
<1>4. n + k \in S
  <2>1. SizeAt(n + k) = 0
    BY <1>3 DEF SizeAt
  <2> QED
    BY <1>2, <2>1
<1>5. PICK m \in S : \A j \in S : m <= j
  BY <1>2, <1>4, Least
<1>6. m \in k .. n + k /\ SizeAt(m) >= 0 /\ \A j \in k .. m - 1 : SizeAt(j) < 0
  <2>1. m \in Nat /\ m >= k /\ SizeAt(m) >= 0
    BY <1>2
  <2>2. m <= n + k
    BY <1>4, <1>5
  <2>3. ASSUME NEW j \in k .. m - 1 PROVE SizeAt(j) < 0
    <3>1. j \in Nat /\ j >= k /\ ~ (m <= j)
      BY <2>1
    <3>2. j \notin S
      BY <1>5, <3>1
    <3> QED
      BY <1>1, <1>2, <3>1, <3>2
  <2> QED
    BY <2>1, <2>2, <2>3
<1> DEFINE Found(j) == SizeAt(j) >= 0 /\ \A l \in k .. j - 1 : SizeAt(l) < 0
<1>7. \E j \in k .. n + k : Found(j)
  BY <1>6
<1>8. PICK r : r = CHOOSE j \in k .. n + k : Found(j)
  OBVIOUS
<1>9. r \in k .. n + k /\ Found(r)
  <2> HIDE DEF Found
  <2> QED
    BY <1>7, <1>8
<1>10. Regular(k) = r
  BY <1>3, <1>8 DEF Regular
<1>11. r \in Nat /\ r >= k
  BY <1>9
<1> QED
  BY <1>9, <1>10, <1>11

(* What it finds is a position. *)
LEMMA RegularIs ==
  ASSUME out \in Seq(OutEntry), NEW k \in Nat
  PROVE  Regular(k) \in Nat
BY RegularFinds

(* The calls of krd_tool. *)
CutType == [w : Nat, p : Nat, wBytes : Int, pBytes : Int, warmup : Nat, partition : Nat \ {0}]
CutJob == [warmup : Nat, start : Nat, partition : Nat \ {0}]

CutInv == cut \in CutType /\ jobs \in Seq(CutJob)

LEMMA InitCut == Init => CutInv
BY DEF Init, ToolInit, CutInv, CutType

(* The positions stay positions, and every call has a warm-up and a partition. *)
LEMMA StepCut == OrderInv /\ CutInv /\ [Next]_vars => CutInv'
<1> SUFFICES ASSUME OrderInv, CutInv, [Next]_vars PROVE CutInv'
  OBVIOUS
<1>1. ASSUME UNCHANGED <<cut, jobs>> PROVE CutInv'
  BY <1>1 DEF CutInv
<1>2. out \in Seq(OutEntry) /\ \A k \in Nat : Regular(k) \in Nat
  BY RegularIs DEF OrderInv
<1>3. ASSUME NEW w \in Warmups, NEW p \in Partitions, StartCut(w, p) PROVE CutInv'
  <2>1. w \in Nat /\ p \in Nat \ {0}
    BY CutAssumption
  <2>2. Regular(0) \in Nat
    BY <1>2
  <2>3. [warmup |-> 0, start |-> 0, partition |-> p] \in CutJob
    BY <2>1 DEF CutJob
  <2> QED
    BY <1>3, <2>1, <2>2, <2>3 DEF StartCut, CutInv, CutType
<1>4. CASE CutStep
  <2>1. cut \in CutType /\ cut.p \in Nat /\ cut.w \in Nat /\ cut.p < Len(out)
    BY <1>4 DEF CutStep, CutInv, CutType
  <2>2. Regular(cut.p + 1) \in Nat /\ Regular(cut.w + 1) \in Nat
    <3>1. cut.p + 1 \in Nat /\ cut.w + 1 \in Nat
      BY <2>1
    <3> QED
      BY <1>2, <3>1
  <2>3. SizeAt(cut.p) \in Int /\ SizeAt(cut.w) \in Int
    <3>1. ASSUME NEW k \in Nat PROVE SizeAt(k) \in Int
      <4>1. CASE k < Len(out)
        <5>1. k + 1 \in DOMAIN out
          BY <1>2, <4>1
        <5>2. out[k + 1] \in OutEntry
          BY <1>2, <5>1
        <5>3. out[k + 1].size \in Int
          BY <5>2 DEF OutEntry
        <5> QED
          BY <4>1, <5>3 DEF SizeAt
      <4>2. CASE ~ (k < Len(out))
        BY <4>2 DEF SizeAt
      <4> QED
        BY <4>1, <4>2
    <3> QED
      BY <2>1, <3>1
  <2>4. PICK bytes \in Int : bytes = cut.pBytes + SizeAt(cut.p)
    BY <2>1, <2>3 DEF CutType
  <2>5. PICK far : far = (bytes - cut.wBytes > cut.warmup)
    OBVIOUS
  <2>6. PICK w \in Nat : w = IF far THEN Regular(cut.w + 1) ELSE cut.w
    BY <2>1, <2>2
  <2>7. cut' = [cut EXCEPT !.p = Regular(cut.p + 1), !.pBytes = bytes, !.w = w,
                           !.wBytes = IF far THEN cut.wBytes + SizeAt(cut.w) ELSE cut.wBytes]
    BY <1>4, <2>4, <2>5, <2>6 DEF CutStep
  <2>8. cut' \in CutType
    <3>1. (IF far THEN cut.wBytes + SizeAt(cut.w) ELSE cut.wBytes) \in Int
      BY <2>1, <2>3 DEF CutType
    <3> QED
      BY <2>1, <2>2, <2>7, <3>1 DEF CutType
  <2>9. [warmup |-> w, start |-> cut.p, partition |-> cut.partition] \in CutJob
    BY <2>1 DEF CutType, CutJob
  <2>10. \/ jobs' = jobs
         \/ jobs' = Append(jobs, [warmup |-> w, start |-> cut.p, partition |-> cut.partition])
    BY <1>4, <2>4, <2>5, <2>6 DEF CutStep
  <2> QED
    BY <2>8, <2>9, <2>10 DEF CutInv
<1>5. ASSUME NEW t \in DOMAIN raw, MergeOne(t) \/ CopyOwn(t) \/ AddInvalidation(t) \/ SkipRead(t)
      PROVE  CutInv'
  BY <1>1, <1>5 DEF MergeOne, CopyOwn, AddInvalidation, SkipRead, Round
<1>6. CASE Save \/ EndCut \/ UNCHANGED toolVars
  BY <1>1, <1>6 DEF Save, EndCut, toolVars
<1> QED
  BY <1>3, <1>4, <1>5, <1>6 DEF Next, vars, ToolNext, StartWhole, StartPart, WriteHistogram, Accumulate

(* Entries are equal blocks or have no word in common. *)
Apart(tr) ==
  \A j, k \in DOMAIN tr :
    \/ tr[j].id = tr[k].id /\ Abs(tr[j].size) = Abs(tr[k].size)
    \/ tr[j].id + Abs(tr[j].size) <= tr[k].id
    \/ tr[k].id + Abs(tr[k].size) <= tr[j].id

(* The entry in hand. *)
JobInv ==
  /\ trace \in Seq(OutEntry)
  /\ job.warmup \in Nat /\ job.start \in Nat /\ job.disjoint \in BOOLEAN
  /\ i \in Nat /\ i >= job.warmup + 1
  /\ pc \in {"idle", "fetch", "walk", "probe", "done"}
  /\ pc \in {"walk", "probe"} => i <= Len(trace)
  /\ pc = "walk" => trace[i].size > 0
  /\ pc = "probe" => trace[i].size < 0
  /\ phase # "cut" => ~ job.disjoint
  /\ job.disjoint => Apart(out) /\ Apart(trace)
  /\ warm \in BOOLEAN
  /\ job.disjoint /\ ~ WarmedBlind => ~ warm

LEMMA InitJob == Init => JobInv
<1> SUFFICES ASSUME Init PROVE JobInv
  OBVIOUS
<1>1. /\ trace = <<>> /\ i = 1 /\ warm = FALSE /\ pc = "idle"
      /\ job = [warmup |-> 0, start |-> 0, partition |-> Unlimited,
                kernel |-> AllKernels, disjoint |-> FALSE]
  BY DEF Init, StackInit
<1>2. /\ job.warmup = 0 /\ job.start = 0 /\ job.disjoint = FALSE
  BY <1>1
<1>3. trace \in Seq(OutEntry)
  BY <1>1
<1>4. warm \in BOOLEAN /\ ~ warm
  BY <1>1
<1>5. job.disjoint \in BOOLEAN /\ ~ job.disjoint
  BY <1>2
<1> QED
  BY <1>1, <1>2, <1>3, <1>4, <1>5 DEF JobInv

(* krd_tool calls the analysis without partial overlaps only if blocks are apart. *)
LEMMA StartJob ==
  ASSUME OrderInv, JobInv, NEW jb, Start(out, jb), phase = "cut", UNCHANGED toolVars,
         jb.warmup \in Nat, jb.start \in Nat, jb.disjoint \in BOOLEAN,
         jb.disjoint => Apart(out)
  PROVE  JobInv'
<1>1. /\ out' = out /\ phase' = phase /\ trace' = out /\ job' = jb /\ i' = jb.warmup + 1
      /\ pc' = "fetch" /\ warm' = (jb.warmup < jb.start)
  BY DEF Start, toolVars
<1>2. out \in Seq(OutEntry)
  BY DEF OrderInv
<1>3. PICK early \in BOOLEAN : early = (jb.warmup < jb.start)
  <2>1. (jb.warmup < jb.start) \in BOOLEAN
    OBVIOUS
  <2> QED
    BY ONLY <2>1, Zenon
<1>4. /\ trace' \in Seq(OutEntry) /\ job'.warmup \in Nat /\ job'.start \in Nat
      /\ job'.disjoint \in BOOLEAN /\ warm' \in BOOLEAN
      /\ i' \in Nat /\ i' >= job'.warmup + 1
  BY <1>1, <1>2, <1>3
<1>5. job'.disjoint => Apart(out') /\ Apart(trace')
  BY <1>1
<1>6. job'.disjoint /\ ~ WarmedBlind' => ~ warm'
  BY <1>1, <1>3 DEF WarmedBlind
<1> QED
  BY <1>1, <1>4, <1>5, <1>6 DEF JobInv

(* The analysis keeps its trace and its job, and what it has read has an entry. *)
LEMMA StepJob == OrderInv /\ CutInv /\ JobInv /\ [Next]_vars => JobInv'
<1> SUFFICES ASSUME OrderInv, CutInv, JobInv, [Next]_vars PROVE JobInv'
  OBVIOUS
<1>1. ASSUME UNCHANGED <<trace, job, i, pc, warm>>, out' = out \/ ~ job.disjoint,
             phase' # "cut" => ~ job.disjoint
      PROVE  JobInv'
  BY <1>1 DEF JobInv, WarmedBlind
<1>2. CASE ToolNext /\ UNCHANGED stackVars
  <2>1. CASE phase = "merging"
    BY <1>1, <1>2, <2>1 DEF stackVars, JobInv
  <2>2. CASE phase # "merging"
    <3>1. out' = out /\ phase # "cut"
      BY <1>2, <2>2 DEF ToolNext, MergeOne, CopyOwn, AddInvalidation, SkipRead, Round, Save,
         StartCut, CutStep, EndCut
    <3> QED
      BY <1>1, <1>2, <3>1 DEF stackVars, JobInv
  <2> QED
    BY <2>1, <2>2
<1>3. ASSUME NEW k \in Kernels, NEW d \in BOOLEAN, StartWhole(k, d) PROVE JobInv'
  <2>1. d => Apart(out)
    BY <1>3 DEF StartWhole, BlocksApart, Apart
  <2>2. PICK jb : jb = [warmup |-> 0, start |-> 0, partition |-> Unlimited, kernel |-> k, disjoint |-> d]
    OBVIOUS
  <2> QED
    BY <1>3, <2>1, <2>2, StartJob DEF StartWhole
<1>4. CASE StartPart
  <2>1. PICK j : j = jobs[Len(files)]
    OBVIOUS
  <2>2. j \in CutJob
    BY <1>4, <2>1 DEF StartPart, CutInv
  <2>3. PICK jb : jb = [warmup |-> j.warmup, start |-> j.start, partition |-> j.partition,
                        kernel |-> AllKernels, disjoint |-> job.disjoint]
    OBVIOUS
  <2>4. jb.warmup \in Nat /\ jb.start \in Nat /\ jb.disjoint \in BOOLEAN /\ (jb.disjoint => Apart(out))
    BY <2>2, <2>3 DEF CutJob, JobInv
  <2> QED
    BY <1>4, <2>1, <2>3, <2>4, StartJob DEF StartPart
<1>5. CASE StackStep /\ UNCHANGED <<toolVars, pipeVars>>
  <2>1. out' = out /\ phase' = phase
    BY <1>5 DEF toolVars
  <2>2. CASE Fetch
    <3>1. /\ trace' = trace /\ job' = job /\ i' = i /\ i <= Len(trace) /\ warm' = WarmAt(i)
          /\ IF IsProbe(trace[i]) THEN pc' = "probe" ELSE pc' = "walk"
      BY <2>2 DEF Fetch
    <3>2. trace[i] \in OutEntry
      BY <3>1 DEF JobInv
    <3>3. trace[i].size \in Int \ {0}
      BY <3>2 DEF OutEntry
    <3>4. warm' \in BOOLEAN /\ (warm' => warm)
      BY <3>1 DEF WarmAt, JobInv
    <3> QED
      BY <2>1, <3>1, <3>3, <3>4 DEF JobInv, IsProbe, WarmedBlind
  <2>3. CASE Finish
    BY <2>1, <2>3 DEF Finish, JobInv, WarmedBlind
  <2>4. ASSUME NextEntry, UNCHANGED <<trace, job, warm>> PROVE JobInv'
    BY <2>1, <2>4 DEF NextEntry, JobInv, WarmedBlind
  <2>5. CASE PassOver \/ TakeSome \/ ProbeSome
    BY <1>1, <2>1, <2>5 DEF PassOver, TakeSome, ProbeSome, JobInv
  <2>6. CASE TakeLast \/ ColdMiss \/ ProbeLast \/ ProbeEnd
    BY <2>4, <2>6 DEF TakeLast, ColdMiss, ProbeLast, ProbeEnd
  <2> QED
    BY <1>5, <2>2, <2>3, <2>5, <2>6 DEF StackStep, Walk, Probe
<1>6. CASE WriteHistogram
  BY <1>6 DEF WriteHistogram, toolVars, JobInv, WarmedBlind
<1>7. CASE Accumulate
  BY <1>1, <1>7 DEF Accumulate, toolVars, stackVars, JobInv
<1>8. CASE UNCHANGED vars
  BY <1>1, <1>8 DEF vars, toolVars, stackVars, JobInv
<1> QED
  BY <1>2, <1>3, <1>4, <1>5, <1>6, <1>7, <1>8 DEF Next

-----------------------------------------------------------------------------
(* Sequences of blocks. *)

(* what is on the stack *)
Block == [elem : Int, size : Nat \ {0}, inv : BOOLEAN, core : Nat]

(* the words of a sequence of blocks *)
Held(st) == UNION {Of(st[a]) : a \in DOMAIN st}

(* no word is in two blocks *)
Separate(st) == \A a, b \in DOMAIN st : a < b => Of(st[a]) \intersect Of(st[b]) = {}

(* the words of one set were used after those of the other, or with them *)
Newer(X, Y, age) == \A w \in X, v \in Y : age[w] >= age[v]

(* from the top of the stack to its end the blocks were used earlier and earlier *)
Ordered(st, age) == \A a, b \in DOMAIN st : a <= b => Newer(Of(st[a]), Of(st[b]), age)

(* what is marked belongs to S *)
Marks(st, S) == \A a \in DOMAIN st : st[a].inv => Of(st[a]) \subseteq S

(* A block has as many words as its size. *)
LEMMA WordsOf ==
  ASSUME NEW s \in Block
  PROVE  /\ Of(s) \subseteq Int /\ s.elem \in Of(s)
         /\ Of(s) = s.elem .. s.elem + s.size - 1
         /\ s.elem \in Int /\ s.size \in Nat \ {0} /\ s.inv \in BOOLEAN
         /\ IsFiniteSet(Of(s)) /\ Cardinality(Of(s)) = s.size
<1>1. s.elem \in Int /\ s.size \in Nat \ {0} /\ s.inv \in BOOLEAN
  BY DEF Block
<1>2. Of(s) = s.elem .. s.elem + s.size - 1
  BY DEF Of
<1>3. PICK e \in Int, n \in Nat \ {0} : e = s.elem /\ n = s.size
  BY <1>1
<1>4. e .. e + n - 1 \subseteq Int /\ e \in e .. e + n - 1
  BY <1>3
<1>5. IsFiniteSet(e .. e + n - 1) /\ Cardinality(e .. e + n - 1) = n
  <2>1. e + n - 1 \in Int /\ ~ (e > e + n - 1) /\ (e + n - 1) - e + 1 = n
    OBVIOUS
  <2> QED
    BY <2>1, FS_Interval
<1> QED
  BY <1>1, <1>2, <1>3, <1>4, <1>5

(* What it is to be in a block of the stack. *)
LEMMA HeldWords ==
  ASSUME NEW st \in Seq(Block)
  PROVE  /\ Held(st) \subseteq Int
         /\ IsFiniteSet(Held(st))
         /\ \A w : w \in Held(st) <=> \E a \in DOMAIN st : w \in Of(st[a])
<1>1. \A a \in DOMAIN st : st[a] \in Block
  OBVIOUS
<1>2. \A w : w \in Held(st) <=> \E a \in DOMAIN st : w \in Of(st[a])
  BY DEF Held
<1>3. Held(st) \subseteq Int
  BY <1>1, <1>2, WordsOf
<1>4. IsFiniteSet(Held(st))
  <2>1. IsFiniteSet(DOMAIN st)
    <3>1. DOMAIN st = 1 .. Len(st) /\ Len(st) \in Int
      OBVIOUS
    <3> QED
      BY <3>1, FS_Interval
  <2>2. IsFiniteSet({Of(st[a]) : a \in DOMAIN st})
    <3>1. PICK f : f = [a \in DOMAIN st |-> Of(st[a])]
      OBVIOUS
    <3>2. PICK T : T = {Of(st[a]) : a \in DOMAIN st}
      OBVIOUS
    <3>3. f \in Surjection(DOMAIN st, T)
      BY <3>1, <3>2 DEF Surjection
    <3> QED
      BY <2>1, <3>2, <3>3, FS_Surjection
  <2>3. \A T \in {Of(st[a]) : a \in DOMAIN st} : IsFiniteSet(T)
    BY <1>1, WordsOf
  <2> QED
    BY <2>2, <2>3, FS_UNION DEF Held
<1> QED
  BY <1>2, <1>3, <1>4

(* A sequence behind another. *)
LEMMA CatAt ==
  ASSUME NEW a \in Seq(Block), NEW b \in Seq(Block), NEW c, c = a \o b
  PROVE  /\ c \in Seq(Block) /\ Len(c) = Len(a) + Len(b)
         /\ \A x \in DOMAIN a : x \in DOMAIN c /\ c[x] = a[x]
         /\ \A x \in DOMAIN b : x + Len(a) \in DOMAIN c /\ c[x + Len(a)] = b[x]
         /\ \A x \in DOMAIN c : x \in DOMAIN a \/ (x - Len(a) \in DOMAIN b /\ x > Len(a))
<1>1. /\ c \in Seq(Block) /\ Len(c) = Len(a) + Len(b)
      /\ \A x \in 1 .. Len(a) + Len(b) : c[x] = IF x <= Len(a) THEN a[x] ELSE b[x - Len(a)]
  BY ONLY a \in Seq(Block), b \in Seq(Block), c = a \o b, ConcatProperties
<1>2. /\ Len(a) \in Nat /\ DOMAIN a = 1 .. Len(a)
      /\ Len(b) \in Nat /\ DOMAIN b = 1 .. Len(b)
      /\ DOMAIN c = 1 .. Len(c)
  BY <1>1
<1>3. PICK n \in Nat, m \in Nat : n = Len(a) /\ m = Len(b)
  BY <1>2
<1> QED
  BY ONLY <1>1, <1>2, <1>3

(* What holds of a sequence behind another. *)
LEMMA CatHeld ==
  ASSUME NEW a \in Seq(Block), NEW b \in Seq(Block)
  PROVE  Held(a \o b) = Held(a) \union Held(b)
<1>1. PICK c : c = a \o b
  OBVIOUS
<1>2. /\ c \in Seq(Block)
      /\ \A x \in DOMAIN a : x \in DOMAIN c /\ c[x] = a[x]
      /\ \A x \in DOMAIN b : x + Len(a) \in DOMAIN c /\ c[x + Len(a)] = b[x]
      /\ \A x \in DOMAIN c : x \in DOMAIN a \/ (x - Len(a) \in DOMAIN b /\ x > Len(a))
  BY <1>1, CatAt
<1>3. ASSUME NEW w \in Held(a) PROVE w \in Held(c)
  BY <1>2, <1>3, HeldWords
<1>4. ASSUME NEW w \in Held(b) PROVE w \in Held(c)
  BY <1>2, <1>4, HeldWords
<1>5. ASSUME NEW w \in Held(c) PROVE w \in Held(a) \union Held(b)
  <2>1. PICK x \in DOMAIN c : w \in Of(c[x])
    BY <1>2, HeldWords
  <2>2. CASE x \in DOMAIN a
    <3>1. w \in Of(a[x])
      BY <1>2, <2>1, <2>2
    <3> QED
      BY <2>2, <3>1, HeldWords
  <2>3. CASE x - Len(a) \in DOMAIN b
    <3>1. x = (x - Len(a)) + Len(a)
      BY <1>2
    <3>2. c[x] = b[x - Len(a)]
      BY ONLY <1>2, <2>3, <3>1
    <3>3. w \in Of(b[x - Len(a)])
      BY <2>1, <3>2
    <3> QED
      BY <2>3, <3>3, HeldWords
  <2> QED
    BY <1>2, <2>2, <2>3
<1> QED
  BY <1>1, <1>3, <1>4, <1>5

LEMMA CatSeparate ==
  ASSUME NEW a \in Seq(Block), NEW b \in Seq(Block)
  PROVE  Separate(a \o b) <=>
           Separate(a) /\ Separate(b) /\ Held(a) \intersect Held(b) = {}
<1>1. PICK c : c = a \o b
  OBVIOUS
<1>2. /\ c \in Seq(Block)
      /\ \A x \in DOMAIN a : x \in DOMAIN c /\ c[x] = a[x]
      /\ \A x \in DOMAIN b : x + Len(a) \in DOMAIN c /\ c[x + Len(a)] = b[x]
      /\ \A x \in DOMAIN c : x \in DOMAIN a \/ (x - Len(a) \in DOMAIN b /\ x > Len(a))
  BY <1>1, CatAt
<1>3. /\ Len(a) \in Nat /\ \A x \in DOMAIN a : x \in 1 .. Len(a)
      /\ \A x \in DOMAIN b : x \in Nat \ {0}
      /\ \A x \in DOMAIN c : x \in Nat \ {0}
  BY <1>2
<1>4. ASSUME Separate(c)
      PROVE  Separate(a) /\ Separate(b) /\ Held(a) \intersect Held(b) = {}
  <2>1. Separate(a)
    BY <1>2, <1>4 DEF Separate
  <2>2. Separate(b)
    <3> SUFFICES ASSUME NEW x \in DOMAIN b, NEW y \in DOMAIN b, x < y
                 PROVE  Of(b[x]) \intersect Of(b[y]) = {}
      BY DEF Separate
    <3>1. x + Len(a) < y + Len(a)
      BY <1>3
    <3> QED
      BY <1>2, <1>4, <3>1 DEF Separate
  <2>3. Held(a) \intersect Held(b) = {}
    <3> SUFFICES ASSUME NEW w \in Held(a), w \in Held(b) PROVE FALSE
      OBVIOUS
    <3>1. PICK x \in DOMAIN a : w \in Of(a[x])
      BY HeldWords
    <3>2. PICK y \in DOMAIN b : w \in Of(b[y])
      BY HeldWords
    <3>3. x < y + Len(a)
      BY <1>3
    <3> QED
      BY <1>2, <1>4, <3>1, <3>2, <3>3 DEF Separate
  <2> QED
    BY <2>1, <2>2, <2>3
<1>5. ASSUME Separate(a), Separate(b), Held(a) \intersect Held(b) = {}
      PROVE  Separate(c)
  <2> SUFFICES ASSUME NEW x \in DOMAIN c, NEW y \in DOMAIN c, x < y,
                      NEW w \in Of(c[x]), w \in Of(c[y])
               PROVE  FALSE
    BY DEF Separate
  <2>1. CASE x \in DOMAIN a /\ y \in DOMAIN a
    BY <1>2, <1>5, <2>1 DEF Separate
  <2>2. ASSUME NEW z \in DOMAIN c, z - Len(a) \in DOMAIN b
        PROVE  c[z] = b[z - Len(a)]
    <3>1. z = (z - Len(a)) + Len(a)
      BY <1>3
    <3> QED
      BY ONLY <1>2, <2>2, <3>1
  <2>3. CASE x \in DOMAIN a /\ y - Len(a) \in DOMAIN b
    <3>1. w \in Of(a[x]) /\ w \in Of(b[y - Len(a)])
      BY <1>2, <2>2, <2>3
    <3> QED
      BY <1>5, <2>3, <3>1, HeldWords
  <2>4. CASE x - Len(a) \in DOMAIN b /\ y - Len(a) \in DOMAIN b
    <3>1. x - Len(a) < y - Len(a)
      BY <1>3
    <3>2. w \in Of(b[x - Len(a)]) /\ w \in Of(b[y - Len(a)])
      BY <2>2, <2>4
    <3> QED
      BY <1>5, <2>4, <3>1, <3>2 DEF Separate
  <2>5. ~ (x > Len(a) /\ y \in DOMAIN a)
    BY <1>3
  <2> QED
    BY <1>2, <2>1, <2>3, <2>4, <2>5
<1> QED
  BY <1>1, <1>4, <1>5

LEMMA CatOrdered ==
  ASSUME NEW a \in Seq(Block), NEW b \in Seq(Block), NEW age
  PROVE  Ordered(a \o b, age) <=>
           Ordered(a, age) /\ Ordered(b, age) /\ Newer(Held(a), Held(b), age)
<1>1. PICK c : c = a \o b
  OBVIOUS
<1>2. /\ c \in Seq(Block)
      /\ \A x \in DOMAIN a : x \in DOMAIN c /\ c[x] = a[x]
      /\ \A x \in DOMAIN b : x + Len(a) \in DOMAIN c /\ c[x + Len(a)] = b[x]
      /\ \A x \in DOMAIN c : x \in DOMAIN a \/ (x - Len(a) \in DOMAIN b /\ x > Len(a))
  BY <1>1, CatAt
<1>3. /\ Len(a) \in Nat /\ \A x \in DOMAIN a : x \in 1 .. Len(a)
      /\ \A x \in DOMAIN b : x \in Nat \ {0}
      /\ \A x \in DOMAIN c : x \in Nat \ {0}
  BY <1>2
<1>4. ASSUME Ordered(c, age)
      PROVE  Ordered(a, age) /\ Ordered(b, age) /\ Newer(Held(a), Held(b), age)
  <2>1. Ordered(a, age)
    BY <1>2, <1>4 DEF Ordered
  <2>2. Ordered(b, age)
    <3> SUFFICES ASSUME NEW x \in DOMAIN b, NEW y \in DOMAIN b, x <= y
                 PROVE  Newer(Of(b[x]), Of(b[y]), age)
      BY DEF Ordered
    <3>1. x + Len(a) <= y + Len(a)
      BY <1>3
    <3> QED
      BY <1>2, <1>4, <3>1 DEF Ordered
  <2>3. Newer(Held(a), Held(b), age)
    <3> SUFFICES ASSUME NEW w \in Held(a), NEW v \in Held(b) PROVE age[w] >= age[v]
      BY DEF Newer
    <3>1. PICK x \in DOMAIN a : w \in Of(a[x])
      BY HeldWords
    <3>2. PICK y \in DOMAIN b : v \in Of(b[y])
      BY HeldWords
    <3>3. x <= y + Len(a)
      BY <1>3
    <3>4. Newer(Of(a[x]), Of(b[y]), age)
      BY <1>2, <1>4, <3>3 DEF Ordered
    <3> QED
      BY <3>1, <3>2, <3>4 DEF Newer
  <2> QED
    BY <2>1, <2>2, <2>3
<1>5. ASSUME Ordered(a, age), Ordered(b, age), Newer(Held(a), Held(b), age)
      PROVE  Ordered(c, age)
  <2> SUFFICES ASSUME NEW x \in DOMAIN c, NEW y \in DOMAIN c, x <= y
               PROVE  Newer(Of(c[x]), Of(c[y]), age)
    BY DEF Ordered
  <2>1. CASE x \in DOMAIN a /\ y \in DOMAIN a
    BY <1>2, <1>5, <2>1 DEF Ordered
  <2>2. ASSUME NEW z \in DOMAIN c, z - Len(a) \in DOMAIN b
        PROVE  c[z] = b[z - Len(a)]
    <3>1. z = (z - Len(a)) + Len(a)
      BY <1>3
    <3> QED
      BY ONLY <1>2, <2>2, <3>1
  <2>3. CASE x \in DOMAIN a /\ y - Len(a) \in DOMAIN b
    <3>1. Of(c[x]) \subseteq Held(a) /\ Of(c[y]) \subseteq Held(b)
      BY <1>2, <2>2, <2>3, HeldWords
    <3> QED
      BY <1>5, <3>1 DEF Newer
  <2>4. CASE x - Len(a) \in DOMAIN b /\ y - Len(a) \in DOMAIN b
    <3>1. x - Len(a) <= y - Len(a)
      BY <1>3
    <3> QED
      BY <1>5, <2>2, <2>4, <3>1 DEF Ordered
  <2>5. ~ (x > Len(a) /\ y \in DOMAIN a)
    BY <1>3
  <2> QED
    BY <1>2, <2>1, <2>3, <2>4, <2>5
<1> QED
  BY <1>1, <1>4, <1>5

LEMMA CatMarks ==
  ASSUME NEW a \in Seq(Block), NEW b \in Seq(Block), NEW S
  PROVE  Marks(a \o b, S) <=> Marks(a, S) /\ Marks(b, S)
<1>1. PICK c : c = a \o b
  OBVIOUS
<1>2. /\ c \in Seq(Block)
      /\ \A x \in DOMAIN a : x \in DOMAIN c /\ c[x] = a[x]
      /\ \A x \in DOMAIN b : x + Len(a) \in DOMAIN c /\ c[x + Len(a)] = b[x]
      /\ \A x \in DOMAIN c : x \in DOMAIN a \/ (x - Len(a) \in DOMAIN b /\ x > Len(a))
  BY <1>1, CatAt
<1>3. ASSUME Marks(c, S) PROVE Marks(a, S) /\ Marks(b, S)
  BY <1>2, <1>3 DEF Marks
<1>4. ASSUME Marks(a, S), Marks(b, S) PROVE Marks(c, S)
  <2> SUFFICES ASSUME NEW x \in DOMAIN c, c[x].inv PROVE Of(c[x]) \subseteq S
    BY DEF Marks
  <2>1. CASE x \in DOMAIN a
    BY <1>2, <1>4, <2>1 DEF Marks
  <2>2. CASE x - Len(a) \in DOMAIN b
    <3>1. x = (x - Len(a)) + Len(a)
      BY <1>2
    <3>2. c[x] = b[x - Len(a)]
      BY ONLY <1>2, <2>2, <3>1
    <3> QED
      BY <1>4, <2>2, <3>2 DEF Marks
  <2> QED
    BY <1>2, <2>1, <2>2
<1> QED
  BY <1>1, <1>3, <1>4

(* One block. *)
LEMMA OneBlock ==
  ASSUME NEW s \in Block
  PROVE  <<s>> \in Seq(Block) /\ Len(<<s>>) = 1 /\ Held(<<s>>) = Of(s) /\ Separate(<<s>>)
<1>1. PICK t : t = <<s>>
  OBVIOUS
<1>2. t \in Seq(Block) /\ Len(t) = 1 /\ DOMAIN t = {1} /\ t[1] = s
  BY <1>1
<1>3. Held(t) = Of(s)
  BY <1>2, HeldWords
<1>4. Separate(t)
  BY <1>2 DEF Separate
<1> QED
  BY <1>1, <1>2, <1>3, <1>4

LEMMA OneOrdered ==
  ASSUME NEW s \in Block, NEW age
  PROVE  Ordered(<<s>>, age) <=> Newer(Of(s), Of(s), age)
<1>1. PICK t : t = <<s>>
  OBVIOUS
<1>2. DOMAIN t = {1} /\ t[1] = s
  BY <1>1
<1> QED
  BY <1>1, <1>2 DEF Ordered

LEMMA OneMarks ==
  ASSUME NEW s \in Block, NEW S
  PROVE  Marks(<<s>>, S) <=> (s.inv => Of(s) \subseteq S)
<1>1. PICK t : t = <<s>>
  OBVIOUS
<1>2. DOMAIN t = {1} /\ t[1] = s
  BY <1>1
<1> QED
  BY <1>1, <1>2 DEF Marks

(* What holds of the empty stack. *)
LEMMA NoBlock ==
  ASSUME NEW age, NEW S
  PROVE  /\ <<>> \in Seq(Block) /\ Held(<<>>) = {} /\ Separate(<<>>)
         /\ Ordered(<<>>, age) /\ Marks(<<>>, S)
<1>1. PICK t : t = <<>>
  OBVIOUS
<1>2. t \in Seq(Block) /\ DOMAIN t = {}
  BY <1>1
<1>3. Held(t) = {}
  BY <1>2, HeldWords
<1> QED
  BY <1>1, <1>2, <1>3 DEF Separate, Ordered, Marks

-----------------------------------------------------------------------------
(* The last accesses to a word. *)

(* The words of the entry in hand. *)
InHand == trace[i].id .. trace[i].id + size - 1

(* The accesses to a word so far, and the last of them. *)
Uses(w) == {k \in job.warmup + 1 .. i - 1 : ~ IsProbe(trace[k]) /\ Touches(k, w)}

Age == [w \in Int |-> LastRef(w)]

(* The words that were invalidated since. *)
Hit == {w \in Int : ProbedSince(w)}

(* A set of numbers up to n has a greatest one. *)
LEMMA Greatest ==
  ASSUME NEW n \in Int, NEW S, S # {}, \A k \in S : k \in Int /\ k <= n
  PROVE  \E m \in S : \A k \in S : k <= m
<1>1. PICK T : T = {n - k : k \in S}
  OBVIOUS
<1>2. T \subseteq Nat /\ T # {}
  BY <1>1
<1>3. PICK d \in T : \A e \in T : d <= e
  BY ONLY <1>2, Least
<1>4. PICK m \in S : d = n - m
  BY <1>1
<1>5. ASSUME NEW k \in S PROVE k <= m
  <2>1. n - k \in T
    BY <1>1
  <2>2. d <= n - k
    BY <1>3, <2>1
  <2> QED
    BY <1>4, <2>2
<1> QED
  BY <1>5

(* LastRef chooses the last of the accesses. *)
AgesRight ==
  /\ Age \in [Int -> Nat]
  /\ \A w \in Int :
       /\ Age[w] = LastRef(w) /\ Age[w] < i
       /\ Age[w] = 0 \/ Age[w] \in Uses(w)
       /\ \A k \in Uses(w) : k <= Age[w] /\ k > 0

LEMMA AgesAreRight == JobInv => AgesRight
<1> SUFFICES ASSUME JobInv PROVE AgesRight
  OBVIOUS
<1>1. i \in Nat /\ i >= 1 /\ job.warmup \in Nat
  BY DEF JobInv
<1>2. ASSUME NEW w \in Int
      PROVE  /\ LastRef(w) \in Nat /\ LastRef(w) < i
             /\ LastRef(w) = 0 \/ LastRef(w) \in Uses(w)
             /\ \A k \in Uses(w) : k <= LastRef(w) /\ k > 0
  <2>1. PICK U : U = Uses(w)
    OBVIOUS
  <2>2. \A k \in U : k \in Nat \ {0} /\ k <= i - 1
    BY <1>1, <2>1 DEF Uses
  <2>3. LastRef(w) = IF U = {} THEN 0 ELSE CHOOSE k \in U : \A j \in U : j <= k
    BY <2>1 DEF LastRef, Uses
  <2>4. CASE U = {}
    BY <1>1, <2>1, <2>3, <2>4
  <2>5. CASE U # {}
    <3>1. \E m \in U : \A k \in U : k <= m
      <4>1. i - 1 \in Int /\ \A k \in U : k \in Int /\ k <= i - 1
        BY <1>1, <2>2
      <4> QED
        BY ONLY <2>5, <4>1, Greatest
    <3>2. LastRef(w) \in U /\ \A k \in U : k <= LastRef(w)
      BY <2>3, <2>5, <3>1
    <3> QED
      BY <1>1, <2>1, <2>2, <3>2
  <2> QED
    BY <2>4, <2>5
<1>3. \A w \in Int : Age[w] = LastRef(w)
  BY DEF Age
<1>4. Age \in [Int -> Nat]
  BY <1>2 DEF Age
<1> QED
  BY <1>2, <1>3, <1>4 DEF AgesRight

(* The entry in hand has as many words as its size, and touches no others. *)
LEMMA WordsInHand ==
  ASSUME JobInv, i <= Len(trace)
  PROVE  /\ trace[i].id \in Nat /\ trace[i].size \in Int \ {0} /\ size = Abs(trace[i].size)
         /\ size \in Nat \ {0} /\ InHand \subseteq Int
         /\ trace[i].id \in InHand
         /\ \A w \in Int : w \in InHand <=> Touches(i, w)
         /\ IsFiniteSet(InHand) /\ Cardinality(InHand) = size
<1>1. trace[i] \in OutEntry
  BY DEF JobInv
<1>2. trace[i].id \in Nat /\ trace[i].size \in Int \ {0}
  BY <1>1 DEF OutEntry
<1>3. size = Abs(trace[i].size) /\ size \in Nat \ {0}
  BY <1>2 DEF size, Larger, Abs
<1>4. PICK e \in Nat, n \in Nat \ {0} : e = trace[i].id /\ n = size
  BY <1>2, <1>3
<1>5. e .. e + n - 1 \subseteq Int /\ e \in e .. e + n - 1
      /\ \A w \in Int : w \in e .. e + n - 1 <=> e <= w /\ w < e + n
  BY <1>4
<1>6. IsFiniteSet(e .. e + n - 1) /\ Cardinality(e .. e + n - 1) = n
  <2>1. e \in Int /\ e + n - 1 \in Int /\ ~ (e > e + n - 1) /\ (e + n - 1) - e + 1 = n
    OBVIOUS
  <2> QED
    BY <2>1, FS_Interval
<1>7. InHand = e .. e + n - 1
  BY <1>4 DEF InHand
<1>8. \A w : Touches(i, w) <=> e <= w /\ w < e + n
  BY <1>3, <1>4 DEF Touches
<1> QED
  BY ONLY <1>2, <1>3, <1>4, <1>5, <1>6, <1>7, <1>8

(* The entry in hand becomes the last use of its words, or hits them. *)
LEMMA UsesGrow ==
  ASSUME JobInv, i <= Len(trace), trace' = trace, job' = job, i' = i + 1, NEW w \in Int
  PROVE  \A k : k \in Uses(w)' <=>
                  k \in Uses(w) \/ (k = i /\ ~ IsProbe(trace[i]) /\ w \in InHand)
<1>1. i \in Nat /\ i >= job.warmup + 1 /\ job.warmup \in Nat
  BY DEF JobInv
<1>2. \A k : Touches(k, w)' <=> Touches(k, w)
  BY DEF Touches
<1>3. \A k : k \in Uses(w)' <=> k \in job.warmup + 1 .. (i + 1) - 1 /\ ~ IsProbe(trace[k]) /\ Touches(k, w)
  BY <1>2 DEF Uses
<1>4. \A k : k \in job.warmup + 1 .. (i + 1) - 1 <=> k \in job.warmup + 1 .. i - 1 \/ k = i
  BY <1>1
<1>5. w \in InHand <=> Touches(i, w)
  BY WordsInHand
<1> QED
  BY <1>3, <1>4, <1>5 DEF Uses

(* Reading an access makes it the last one to its words. *)
LEMMA AgesGrow ==
  ASSUME JobInv, JobInv', i <= Len(trace), trace' = trace, job' = job, i' = i + 1
  PROVE  Age' = [w \in Int |-> IF ~ IsProbe(trace[i]) /\ w \in InHand THEN i ELSE Age[w]]
<1>1. AgesRight /\ AgesRight'
  BY AgesAreRight, PTL
<1>2. i \in Nat /\ i >= 1
  BY DEF JobInv
<1>3. ASSUME NEW w \in Int
      PROVE  Age'[w] = IF ~ IsProbe(trace[i]) /\ w \in InHand THEN i ELSE Age[w]
  <2>1. PICK U, V : U = Uses(w) /\ V = Uses(w)'
    OBVIOUS
  <2>2. \A k : k \in V <=> k \in U \/ (k = i /\ ~ IsProbe(trace[i]) /\ w \in InHand)
    BY <2>1, UsesGrow
  <2>3. PICK a, b : a = Age[w] /\ b = Age'[w]
    OBVIOUS
  <2>4. a \in Nat /\ a < i /\ (a = 0 \/ a \in U) /\ \A k \in U : k <= a /\ k > 0
    BY <1>1, <2>1, <2>3 DEF AgesRight
  <2>5. b \in Nat /\ (b = 0 \/ b \in V) /\ \A k \in V : k <= b /\ k > 0
    BY <1>1, <2>1, <2>3 DEF AgesRight
  <2>6. CASE ~ IsProbe(trace[i]) /\ w \in InHand
    <3>1. i \in V
      BY <2>2, <2>6
    <3>2. b >= i /\ b \in V
      BY <1>2, <2>5, <3>1
    <3>3. ASSUME b \in U PROVE FALSE
      BY <1>2, <2>4, <2>5, <3>2, <3>3
    <3>4. b = i
      BY <2>2, <3>2, <3>3
    <3> QED
      BY <2>3, <2>6, <3>4
  <2>7. CASE ~ (~ IsProbe(trace[i]) /\ w \in InHand)
    <3>1. \A k : k \in V <=> k \in U
      BY <2>2, <2>7
    <3>2. a = b
      BY <2>4, <2>5, <3>1
    <3> QED
      BY <2>3, <2>7, <3>2
  <2> QED
    BY <2>6, <2>7
<1>4. Age' \in [Int -> Nat]
  BY <1>1 DEF AgesRight
<1> QED
  BY <1>3, <1>4

(* Reading a probe hits its words. *)
LEMMA HitsGrow ==
  ASSUME JobInv, JobInv', i <= Len(trace), trace' = trace, job' = job, i' = i + 1
  PROVE  Hit' = IF IsProbe(trace[i]) THEN Hit \union InHand ELSE Hit \ InHand
<1>1. AgesRight /\ AgesRight'
  BY AgesAreRight, PTL
<1>2. i \in Nat /\ i >= 1 /\ InHand \subseteq Int
  BY WordsInHand DEF JobInv
<1>3. ASSUME NEW w \in Int
      PROVE  ProbedSince(w)' <=>
               IF IsProbe(trace[i]) THEN ProbedSince(w) \/ w \in InHand
                                    ELSE ProbedSince(w) /\ w \notin InHand
  <2>1. PICK a, b : a = LastRef(w) /\ b = LastRef(w)'
    OBVIOUS
  <2>2. a \in Nat /\ a < i /\ a = Age[w] /\ b = Age'[w]
    BY <1>1, <2>1 DEF AgesRight
  <2>3. b = IF ~ IsProbe(trace[i]) /\ w \in InHand THEN i ELSE a
    BY <2>2, AgesGrow
  <2>4. \A k : Touches(k, w)' <=> Touches(k, w)
    BY DEF Touches
  <2> DEFINE P(k) == IsProbe(trace[k]) /\ Touches(k, w)
  <2>5. ProbedSince(w) <=> \E k \in a + 1 .. i - 1 : P(k)
    BY <2>1 DEF ProbedSince
  <2>6. ProbedSince(w)' <=> \E k \in b + 1 .. (i + 1) - 1 : P(k)
    BY <2>1, <2>4 DEF ProbedSince
  <2>7. w \in InHand <=> Touches(i, w)
    BY WordsInHand
  <2>8. P(i) <=> IsProbe(trace[i]) /\ w \in InHand
    BY <2>7
  <2> HIDE DEF P
  <2>9. CASE b = i
    <3>1. b + 1 .. (i + 1) - 1 = {}
      BY <1>2, <2>9
    <3> QED
      BY <2>2, <2>3, <2>6, <2>9, <3>1
  <2>10. CASE b = a
    <3>1. \A k : k \in b + 1 .. (i + 1) - 1 <=> k \in a + 1 .. i - 1 \/ k = i
      BY <1>2, <2>2, <2>10
    <3>2. ProbedSince(w)' <=> ProbedSince(w) \/ P(i)
      BY <2>5, <2>6, <3>1
    <3> QED
      BY <2>2, <2>3, <2>8, <2>10, <3>2
  <2> QED
    BY <2>3, <2>9, <2>10
<1>4. \A w : w \in Hit' <=> w \in Int /\ ProbedSince(w)'
  BY DEF Hit
<1> QED
  BY <1>2, <1>3, <1>4 DEF Hit

-----------------------------------------------------------------------------
(* Blocks and the entry in hand. *)

(* without partial overlaps a block is an entry that the bloom filter knows *)
WholeBlock(s) ==
  s.elem \in bloom /\ \E k \in DOMAIN trace : trace[k].id = s.elem /\ Abs(trace[k].size) = s.size

(* The search finds the words a block and the entry have in common, and where they begin. *)
LEMMA MatchIs ==
  ASSUME JobInv, i <= Len(trace), NEW s \in Block, job.disjoint => WholeBlock(s)
  PROVE  /\ Match(s).words \in Nat /\ Match(s).start \in Int
         /\ Match(s).words = 0 => Of(s) \intersect InHand = {}
         /\ Match(s).words > 0 =>
              /\ Of(s) \intersect InHand = Match(s).start .. Match(s).start + Match(s).words - 1
              /\ s.elem <= Match(s).start /\ Match(s).start + Match(s).words <= s.elem + s.size
              /\ Match(s).start = s.elem \/ Match(s).start = trace[i].id
              /\ \/ Match(s).start + Match(s).words = s.elem + s.size
                 \/ Match(s).start + Match(s).words = trace[i].id + size
<1>1. PICK e \in Int, n \in Nat \ {0} : e = s.elem /\ n = s.size
  BY DEF Block
<1>2. PICK d \in Nat, l \in Nat \ {0} : d = trace[i].id /\ l = size /\ l = Abs(trace[i].size)
  BY WordsInHand
<1>3. Of(s) = e .. e + n - 1 /\ InHand = d .. d + l - 1
  BY <1>1, <1>2 DEF Of, InHand
<1>4. PICK m : m = Match(s)
  OBVIOUS
<1>5. CASE ~ job.disjoint
  <2>1. PICK from \in Int, to \in Int : from = Larger(e, d) /\ to = Smaller(e + n, d + l)
    BY DEF Larger, Smaller
  <2>2. m = [start |-> from, words |-> IF from < to THEN to - from ELSE 0]
    BY <1>1, <1>2, <1>4, <1>5, <2>1 DEF Match
  <2>3. m.start = from /\ m.words = IF from < to THEN to - from ELSE 0
    BY <2>2
  <2>4. /\ from >= e /\ from >= d /\ (from = e \/ from = d)
        /\ to <= e + n /\ to <= d + l /\ (to = e + n \/ to = d + l)
    BY <2>1 DEF Larger, Smaller
  <2>5. CASE from < to
    <3>1. m.words = to - from /\ m.words > 0 /\ m.words \in Nat /\ m.start + m.words = to
      BY <2>3, <2>5
    <3>2. (e .. e + n - 1) \intersect (d .. d + l - 1) = from .. to - 1
      BY <2>4, <2>5
    <3> QED
      BY ONLY <1>1, <1>2, <1>3, <1>4, <2>3, <2>4, <3>1, <3>2
  <2>6. CASE ~ (from < to)
    <3>1. m.words = 0
      BY <2>3, <2>6
    <3>2. (e .. e + n - 1) \intersect (d .. d + l - 1) = {}
      BY <2>4, <2>6
    <3> QED
      BY ONLY <1>3, <1>4, <2>3, <3>1, <3>2
  <2> QED
    BY <2>5, <2>6
<1>6. CASE job.disjoint
  <2>1. PICK k \in DOMAIN trace : trace[k].id = e /\ Abs(trace[k].size) = n
    BY <1>1, <1>6 DEF WholeBlock
  <2>2. i \in DOMAIN trace /\ Apart(trace)
    BY <1>6 DEF JobInv
  <2>3. (e = d /\ n = l) \/ e + n <= d \/ d + l <= e
    BY <1>2, <2>1, <2>2 DEF Apart
  <2>4. m = [start |-> d, words |-> IF e = d THEN l ELSE 0]
    BY <1>1, <1>2, <1>4, <1>6 DEF Match
  <2>5. m.start = d /\ m.words = IF e = d THEN l ELSE 0
    BY <2>4
  <2>6. CASE e = d
    <3>1. n = l
      BY <2>3, <2>6
    <3> QED
      BY ONLY <1>1, <1>2, <1>3, <1>4, <2>5, <2>6, <3>1
  <2>7. CASE e # d
    <3>1. m.words = 0
      BY <2>5, <2>7
    <3>2. (e .. e + n - 1) \intersect (d .. d + l - 1) = {}
      BY <2>3, <2>7
    <3> QED
      BY ONLY <1>3, <1>4, <2>5, <3>1, <3>2
  <2> QED
    BY <2>6, <2>7
<1> QED
  BY <1>5, <1>6

(* A part of a block is a block, with its mark. *)
LEMMA PartIs ==
  ASSUME NEW s \in Block, NEW from \in Int, NEW to \in Int
  PROVE  /\ Part(s, from, to) \in Seq(Block)
         /\ Held(Part(s, from, to)) = from .. to - 1
         /\ Separate(Part(s, from, to))
         /\ \A S : (s.inv => from .. to - 1 \subseteq S) => Marks(Part(s, from, to), S)
         /\ Len(Part(s, from, to)) = IF from < to THEN 1 ELSE 0
<1>1. CASE from < to
  <2>1. PICK b : b = [s EXCEPT !.elem = from, !.size = to - from]
    OBVIOUS
  <2>2. b \in Block /\ b.elem = from /\ b.size = to - from /\ b.inv = s.inv
    <3>1. to - from \in Nat \ {0}
      BY <1>1
    <3> QED
      BY <2>1, <3>1 DEF Block
  <2>3. Of(b) = from .. to - 1
    <3>1. from + (to - from) - 1 = to - 1
      OBVIOUS
    <3> QED
      BY <2>2, <3>1 DEF Of
  <2>4. Part(s, from, to) = <<b>>
    BY <1>1, <2>1 DEF Part
  <2>5. /\ <<b>> \in Seq(Block) /\ Len(<<b>>) = 1 /\ Held(<<b>>) = Of(b) /\ Separate(<<b>>)
    BY <2>2, OneBlock
  <2>6. ASSUME NEW S, s.inv => from .. to - 1 \subseteq S PROVE Marks(<<b>>, S)
    BY <2>2, <2>3, <2>6, OneMarks
  <2> QED
    BY <1>1, <2>3, <2>4, <2>5, <2>6
<1>2. CASE ~ (from < to)
  <2>1. Part(s, from, to) = <<>>
    BY <1>2 DEF Part
  <2>2. from .. to - 1 = {}
    BY <1>2
  <2>3. Len(<<>>) = 0
    OBVIOUS
  <2>4. \A S : Marks(<<>>, S)
    BY NoBlock
  <2>5. <<>> \in Seq(Block) /\ Held(<<>>) = {} /\ Separate(<<>>)
    BY NoBlock
  <2>6. PICK e : e = <<>>
    OBVIOUS
  <2>7. e \in Seq(Block) /\ Held(e) = {} /\ Separate(e) /\ Len(e) = 0 /\ \A S : Marks(e, S)
    BY ONLY <2>3, <2>4, <2>5, <2>6
  <2>8. Part(s, from, to) = e
    BY ONLY <2>1, <2>6
  <2> QED
    BY ONLY <1>2, <2>2, <2>7, <2>8
<1> QED
  BY <1>1, <1>2

(* What a match leaves of a block are its other words, in at most two parts. *)
LEMMA RestIs ==
  ASSUME NEW s \in Block, NEW m, m.start \in Int, m.words \in Nat,
         s.elem <= m.start, m.start + m.words <= s.elem + s.size
  PROVE  /\ Rest(s, m) \in Seq(Block)
         /\ Held(Rest(s, m)) = Of(s) \ (m.start .. m.start + m.words - 1)
         /\ Separate(Rest(s, m))
         /\ \A S : (s.inv => Of(s) \subseteq S) => Marks(Rest(s, m), S)
         /\ s.elem = m.start \/ m.start + m.words = s.elem + s.size =>
              Len(Rest(s, m)) = 0 \/ Len(Rest(s, m)) = 1
<1>1. PICK e \in Int, n \in Nat \ {0} : e = s.elem /\ n = s.size
  BY DEF Block
<1>2. PICK a \in Int, b \in Int : a = m.start /\ b = m.start + m.words /\ e <= a /\ a <= b /\ b <= e + n
  BY <1>1
<1>3. PICK X, Y : X = Before(s, m) /\ Y = Behind(s, m)
  OBVIOUS
<1>4. X = Part(s, e, a) /\ Y = Part(s, b, e + n) /\ Rest(s, m) = X \o Y
  BY <1>1, <1>2, <1>3 DEF Before, Behind, Rest
<1>5. /\ X \in Seq(Block) /\ Held(X) = e .. a - 1 /\ Separate(X)
      /\ \A S : (s.inv => e .. a - 1 \subseteq S) => Marks(X, S)
      /\ Len(X) = IF e < a THEN 1 ELSE 0
  BY <1>4, PartIs
<1>6. /\ Y \in Seq(Block) /\ Held(Y) = b .. (e + n) - 1 /\ Separate(Y)
      /\ \A S : (s.inv => b .. (e + n) - 1 \subseteq S) => Marks(Y, S)
      /\ Len(Y) = IF b < e + n THEN 1 ELSE 0
  <2>1. e + n \in Int
    OBVIOUS
  <2> QED
    BY <1>4, <2>1, PartIs
<1>7. Of(s) = e .. e + n - 1
  BY <1>1 DEF Of
<1>8. /\ (e .. a - 1) \union (b .. (e + n) - 1) = (e .. e + n - 1) \ (a .. b - 1)
      /\ (e .. a - 1) \intersect (b .. (e + n) - 1) = {}
      /\ e .. a - 1 \subseteq e .. e + n - 1 /\ b .. (e + n) - 1 \subseteq e .. e + n - 1
  BY <1>2
<1>9. PICK Z : Z = X \o Y
  OBVIOUS
<1>10. Z \in Seq(Block) /\ Len(Z) = Len(X) + Len(Y)
  <2>1. X \in Seq(Block) /\ Y \in Seq(Block)
    BY ONLY <1>5, <1>6
  <2> QED
    BY ONLY <1>9, <2>1, CatAt
<1>11. Held(Z) = Held(X) \union Held(Y)
  BY <1>5, <1>6, <1>9, CatHeld
<1>12. Separate(Z)
  BY <1>5, <1>6, <1>8, <1>9, CatSeparate
<1>13. ASSUME NEW S, s.inv => Of(s) \subseteq S PROVE Marks(Z, S)
  <2>1. Marks(X, S) /\ Marks(Y, S)
    BY <1>5, <1>6, <1>7, <1>8, <1>13
  <2> QED
    BY <1>5, <1>6, <1>9, <2>1, CatMarks
<1>14. ASSUME e = a \/ b = e + n PROVE Len(Z) = 0 \/ Len(Z) = 1
  <2>1. PICK x, y, z : x = Len(X) /\ y = Len(Y) /\ z = Len(Z)
    OBVIOUS
  <2>2. x = (IF e < a THEN 1 ELSE 0) /\ y = (IF b < e + n THEN 1 ELSE 0) /\ z = x + y
    BY <1>5, <1>6, <1>10, <2>1
  <2>3. z = 0 \/ z = 1
    <3>1. ~ (e < a) \/ ~ (b < e + n)
      BY <1>1, <1>2, <1>14
    <3> QED
      BY ONLY <2>2, <3>1
  <2> QED
    BY ONLY <2>1, <2>3
<1>15. Held(Z) = Of(s) \ (m.start .. m.start + m.words - 1)
  <2>1. m.start .. m.start + m.words - 1 = a .. b - 1
    <3>1. PICK w \in Nat : w = m.words
      OBVIOUS
    <3>2. m.start = a /\ b = a + w
      BY ONLY <1>2, <3>1
    <3>3. a + (w - 1) = b - 1
      BY ONLY <3>2
    <3> QED
      BY ONLY <3>1, <3>2, <3>3, Zenon
  <2>2. Held(X) = e .. a - 1
    BY ONLY <1>5
  <2>3. Held(Y) = b .. (e + n) - 1
    BY ONLY <1>6
  <2>4. Held(X) \union Held(Y) = (e .. e + n - 1) \ (a .. b - 1)
    BY ONLY <1>8, <2>2, <2>3
  <2>5. Held(Z) = (e .. e + n - 1) \ (a .. b - 1)
    BY ONLY <1>11, <2>4
  <2> QED
    BY ONLY <1>7, <2>1, <2>5
<1> QED
  BY ONLY <1>1, <1>2, <1>4, <1>9, <1>10, <1>12, <1>13, <1>14, <1>15

(* A probe divides a block into at most three parts and marks what it meets. *)
LEMMA MarkedIs ==
  ASSUME NEW s \in Block, NEW m, m.start \in Int, m.words \in Nat, trace[i].core \in Nat,
         s.elem <= m.start, m.start + m.words <= s.elem + s.size
  PROVE  /\ Marked(s, m) \in Seq(Block)
         /\ Held(Marked(s, m)) = Of(s)
         /\ Separate(Marked(s, m))
         /\ \A S : (s.inv => Of(s) \subseteq S) /\ m.start .. m.start + m.words - 1 \subseteq S =>
              Marks(Marked(s, m), S)
<1>1. PICK e \in Int, n \in Nat \ {0} : e = s.elem /\ n = s.size
  BY DEF Block
<1>2. PICK a \in Int, b \in Int : a = m.start /\ b = m.start + m.words /\ e <= a /\ a <= b /\ b <= e + n
  BY <1>1
<1>3. PICK t : t = [s EXCEPT !.inv = TRUE, !.core = trace[i].core]
  OBVIOUS
<1>4. t \in Block
  BY <1>3 DEF Block
<1>5. PICK X, M, Y : X = Part(s, e, a) /\ M = Part(t, a, b) /\ Y = Part(s, b, e + n)
  OBVIOUS
<1>6. Marked(s, m) = X \o M \o Y
  <2>1. Larger(a, e) = a /\ Smaller(b, e + n) = b
    BY <1>2 DEF Larger, Smaller
  <2> QED
    BY <1>1, <1>2, <1>3, <1>5, <2>1 DEF Marked, Before, Behind
<1>7. /\ X \in Seq(Block) /\ Held(X) = e .. a - 1 /\ Separate(X)
      /\ \A S : (s.inv => e .. a - 1 \subseteq S) => Marks(X, S)
  BY <1>5, PartIs
<1>8. /\ M \in Seq(Block) /\ Held(M) = a .. b - 1 /\ Separate(M)
      /\ \A S : (t.inv => a .. b - 1 \subseteq S) => Marks(M, S)
  BY <1>4, <1>5, PartIs
<1>9. /\ Y \in Seq(Block) /\ Held(Y) = b .. (e + n) - 1 /\ Separate(Y)
      /\ \A S : (s.inv => b .. (e + n) - 1 \subseteq S) => Marks(Y, S)
  <2>1. e + n \in Int
    OBVIOUS
  <2> QED
    BY <1>5, <2>1, PartIs
<1>10. Of(s) = e .. e + n - 1
  BY <1>1 DEF Of
<1>11. /\ ((e .. a - 1) \union (a .. b - 1)) \union (b .. (e + n) - 1) = e .. e + n - 1
       /\ (e .. a - 1) \intersect (a .. b - 1) = {}
       /\ ((e .. a - 1) \union (a .. b - 1)) \intersect (b .. (e + n) - 1) = {}
       /\ e .. a - 1 \subseteq e .. e + n - 1 /\ b .. (e + n) - 1 \subseteq e .. e + n - 1
  BY <1>2
<1>12. PICK U : U = X \o M
  OBVIOUS
<1>13. U \in Seq(Block) /\ Held(U) = Held(X) \union Held(M)
  BY <1>7, <1>8, <1>12, CatAt, CatHeld
<1>14. Separate(U)
  BY <1>7, <1>8, <1>11, <1>12, CatSeparate
<1>15. PICK Z : Z = U \o Y
  OBVIOUS
<1>16. Z \in Seq(Block) /\ Held(Z) = Held(U) \union Held(Y)
  BY <1>9, <1>13, <1>15, CatAt, CatHeld
<1>17. Separate(Z)
  <2>1. Held(U) \intersect Held(Y) = {}
    BY <1>7, <1>8, <1>9, <1>11, <1>13
  <2> QED
    BY <1>9, <1>13, <1>14, <1>15, <2>1, CatSeparate
<1>18. ASSUME NEW S, s.inv => Of(s) \subseteq S, a .. b - 1 \subseteq S PROVE Marks(Z, S)
  <2>1. Marks(X, S) /\ Marks(M, S) /\ Marks(Y, S)
    BY <1>7, <1>8, <1>9, <1>10, <1>11, <1>18
  <2>2. Marks(U, S)
    BY <1>7, <1>8, <1>12, <2>1, CatMarks
  <2> QED
    BY <1>9, <1>13, <1>15, <2>1, <2>2, CatMarks
<1>19. Held(Z) = Of(s)
  BY <1>7, <1>8, <1>9, <1>10, <1>11, <1>13, <1>16
<1>20. Marked(s, m) = Z
  BY <1>6, <1>12, <1>15
<1>21. ASSUME NEW S, s.inv => Of(s) \subseteq S, m.start .. m.start + m.words - 1 \subseteq S
       PROVE  Marks(Z, S)
  <2>1. a .. b - 1 \subseteq S
    BY <1>2, <1>21
  <2> QED
    BY ONLY <1>18, <1>21, <2>1
<1> QED
  BY ONLY <1>16, <1>17, <1>19, <1>20, <1>21

-----------------------------------------------------------------------------
(* A stack in the order of last use. *)

(* a word that was used is on the stack, is one of R, or is older than the stack *)
Remembered(st, age, R) ==
  \A w \in Int : age[w] > 0 =>
    w \in Held(st) \/ w \in R \/ \A v \in Held(st) : age[v] >= age[w]

(* the stack is in order for the words outside S; those of H were invalidated *)
Sound(st, age, H, S, R) ==
  /\ st \in Seq(Block) /\ Separate(st) /\ Ordered(st, age)
  /\ \A w \in Held(st) : age[w] > 0
  /\ Marks(st, H \union S)
  /\ \A w \in Int : age[w] > 0 => w \in Held(st) \/ w \in H \/ w \in S
  /\ Remembered(st, age, R)

(* What holds of three sequences put together. *)
LEMMA ThreeHeld ==
  ASSUME NEW a \in Seq(Block), NEW b \in Seq(Block), NEW c \in Seq(Block)
  PROVE  /\ a \o b \o c \in Seq(Block)
         /\ Len(a \o b \o c) = Len(a) + Len(b) + Len(c)
         /\ Held(a \o b \o c) = Held(a) \union Held(b) \union Held(c)
<1>1. PICK d, st : d = a \o b /\ st = d \o c
  OBVIOUS
<1>2. d \in Seq(Block) /\ Len(d) = Len(a) + Len(b)
  BY <1>1, CatAt
<1>3. Held(d) = Held(a) \union Held(b)
  BY <1>1, CatHeld
<1>4. st \in Seq(Block) /\ Len(st) = Len(d) + Len(c)
  BY <1>1, <1>2, CatAt
<1>5. Held(st) = Held(d) \union Held(c)
  BY <1>1, <1>2, CatHeld
<1>6. Len(st) = Len(a) + Len(b) + Len(c)
  BY ONLY <1>2, <1>4
<1>7. Held(st) = Held(a) \union Held(b) \union Held(c)
  BY ONLY <1>3, <1>5
<1> QED
  BY ONLY <1>1, <1>4, <1>6, <1>7

LEMMA ThreeSeparate ==
  ASSUME NEW a \in Seq(Block), NEW b \in Seq(Block), NEW c \in Seq(Block),
         NEW st, st = a \o b \o c
  PROVE  Separate(st) <=>
           /\ Separate(a) /\ Separate(b) /\ Separate(c)
           /\ Held(a) \intersect Held(b) = {} /\ Held(a) \intersect Held(c) = {}
           /\ Held(b) \intersect Held(c) = {}
<1>1. PICK d : d = a \o b
  OBVIOUS
<1>2. d \in Seq(Block) /\ Held(d) = Held(a) \union Held(b)
  BY <1>1, CatAt, CatHeld
<1>3. Separate(d) <=> Separate(a) /\ Separate(b) /\ Held(a) \intersect Held(b) = {}
  BY <1>1, CatSeparate
<1>4. Separate(st) <=> Separate(d) /\ Separate(c) /\ Held(d) \intersect Held(c) = {}
  BY <1>1, <1>2, CatSeparate
<1>5. Held(d) \intersect Held(c) = {} <=>
        Held(a) \intersect Held(c) = {} /\ Held(b) \intersect Held(c) = {}
  BY <1>2
<1> QED
  BY ONLY <1>3, <1>4, <1>5

LEMMA ThreeInOrder ==
  ASSUME NEW a \in Seq(Block), NEW b \in Seq(Block), NEW c \in Seq(Block),
         NEW st, st = a \o b \o c, NEW age
  PROVE  Ordered(st, age) <=>
           /\ Ordered(a, age) /\ Ordered(b, age) /\ Ordered(c, age)
           /\ Newer(Held(a), Held(b), age) /\ Newer(Held(a), Held(c), age)
           /\ Newer(Held(b), Held(c), age)
<1>1. PICK d : d = a \o b
  OBVIOUS
<1>2. d \in Seq(Block) /\ Held(d) = Held(a) \union Held(b)
  BY <1>1, CatAt, CatHeld
<1>3. Ordered(d, age) <=> Ordered(a, age) /\ Ordered(b, age) /\ Newer(Held(a), Held(b), age)
  BY <1>1, CatOrdered
<1>4. Ordered(st, age) <=> Ordered(d, age) /\ Ordered(c, age) /\ Newer(Held(d), Held(c), age)
  BY <1>1, <1>2, CatOrdered
<1>5. Newer(Held(d), Held(c), age) <=>
         Newer(Held(a), Held(c), age) /\ Newer(Held(b), Held(c), age)
  BY <1>2 DEF Newer
<1> QED
  BY ONLY <1>3, <1>4, <1>5

LEMMA ThreeMarks ==
  ASSUME NEW a \in Seq(Block), NEW b \in Seq(Block), NEW c \in Seq(Block),
         NEW st, st = a \o b \o c, NEW S
  PROVE  Marks(st, S) <=> Marks(a, S) /\ Marks(b, S) /\ Marks(c, S)
<1>1. PICK d : d = a \o b
  OBVIOUS
<1>2. d \in Seq(Block)
  BY <1>1, CatAt
<1>3. Marks(d, S) <=> Marks(a, S) /\ Marks(b, S)
  BY <1>1, CatMarks
<1>4. Marks(st, S) <=> Marks(d, S) /\ Marks(c, S)
  BY <1>1, <1>2, CatMarks
<1> QED
  BY ONLY <1>3, <1>4

(* A block is replaced by parts of it; its other words are put into R. *)
LEMMA SoundReplace ==
  ASSUME NEW a \in Seq(Block), NEW s \in Block, NEW c \in Seq(Block), NEW b \in Seq(Block),
         NEW age, NEW H, NEW S, NEW R, NEW Q,
         Sound(a \o <<s>> \o c, age, H, S, R),
         Held(b) \subseteq Of(s), Separate(b), Marks(b, H \union S),
         R \subseteq Q, Q \subseteq S, Of(s) \subseteq Held(b) \union Q
  PROVE  Sound(a \o b \o c, age, H, S, Q)
<1>1. PICK o, T : o = <<s>> /\ T = H \union S
  OBVIOUS
<1>2. /\ o \in Seq(Block) /\ Held(o) = Of(s)
      /\ Ordered(o, age) <=> Newer(Of(s), Of(s), age)
  BY <1>1, OneBlock, OneOrdered, OneMarks
<1>3. PICK x : x = a \o o \o c
  OBVIOUS
<1>4. PICK y : y = a \o b \o c
  OBVIOUS
<1>5. Sound(x, age, H, S, R)
  BY <1>1, <1>3
<1>6. /\ Held(x) = Held(a) \union Held(o) \union Held(c)
      /\ Separate(x) <=>
              /\ Separate(a) /\ Separate(o) /\ Separate(c)
              /\ Held(a) \intersect Held(o) = {} /\ Held(a) \intersect Held(c) = {}
              /\ Held(o) \intersect Held(c) = {}
      /\ Ordered(x, age) <=>
              /\ Ordered(a, age) /\ Ordered(o, age) /\ Ordered(c, age)
              /\ Newer(Held(a), Held(o), age) /\ Newer(Held(a), Held(c), age)
              /\ Newer(Held(o), Held(c), age)
      /\ Marks(x, T) <=> Marks(a, T) /\ Marks(o, T) /\ Marks(c, T)
  <2>1. a \in Seq(Block) /\ o \in Seq(Block) /\ c \in Seq(Block)
    BY <1>2
  <2> QED
    <3>1. x \in Seq(Block) /\ Held(x) = Held(a) \union Held(o) \union Held(c)
      BY ONLY <1>3, <2>1, ThreeHeld
    <3>4. Separate(x) <=>
            /\ Separate(a) /\ Separate(o) /\ Separate(c)
            /\ Held(a) \intersect Held(o) = {} /\ Held(a) \intersect Held(c) = {}
            /\ Held(o) \intersect Held(c) = {}
      BY ONLY <1>3, <2>1, ThreeSeparate
    <3>2. Ordered(x, age) <=>
            /\ Ordered(a, age) /\ Ordered(o, age) /\ Ordered(c, age)
            /\ Newer(Held(a), Held(o), age) /\ Newer(Held(a), Held(c), age)
            /\ Newer(Held(o), Held(c), age)
      BY ONLY <1>3, <2>1, ThreeInOrder
    <3>3. Marks(x, T) <=> Marks(a, T) /\ Marks(o, T) /\ Marks(c, T)
      BY ONLY <1>3, <2>1, ThreeMarks
    <3> QED
      BY ONLY <3>1, <3>2, <3>3, <3>4
<1>7. /\ y \in Seq(Block)
      /\ Held(y) = Held(a) \union Held(b) \union Held(c)
      /\ Separate(y) <=>
              /\ Separate(a) /\ Separate(b) /\ Separate(c)
              /\ Held(a) \intersect Held(b) = {} /\ Held(a) \intersect Held(c) = {}
              /\ Held(b) \intersect Held(c) = {}
      /\ Ordered(y, age) <=>
              /\ Ordered(a, age) /\ Ordered(b, age) /\ Ordered(c, age)
              /\ Newer(Held(a), Held(b), age) /\ Newer(Held(a), Held(c), age)
              /\ Newer(Held(b), Held(c), age)
      /\ Marks(y, T) <=> Marks(a, T) /\ Marks(b, T) /\ Marks(c, T)
  <2>1. a \in Seq(Block) /\ b \in Seq(Block) /\ c \in Seq(Block)
    OBVIOUS
  <2> QED
    <3>1. y \in Seq(Block) /\ Held(y) = Held(a) \union Held(b) \union Held(c)
      BY ONLY <1>4, <2>1, ThreeHeld
    <3>4. Separate(y) <=>
            /\ Separate(a) /\ Separate(b) /\ Separate(c)
            /\ Held(a) \intersect Held(b) = {} /\ Held(a) \intersect Held(c) = {}
            /\ Held(b) \intersect Held(c) = {}
      BY ONLY <1>4, <2>1, ThreeSeparate
    <3>2. Ordered(y, age) <=>
            /\ Ordered(a, age) /\ Ordered(b, age) /\ Ordered(c, age)
            /\ Newer(Held(a), Held(b), age) /\ Newer(Held(a), Held(c), age)
            /\ Newer(Held(b), Held(c), age)
      BY ONLY <1>4, <2>1, ThreeInOrder
    <3>3. Marks(y, T) <=> Marks(a, T) /\ Marks(b, T) /\ Marks(c, T)
      BY ONLY <1>4, <2>1, ThreeMarks
    <3> QED
      BY ONLY <3>1, <3>2, <3>3, <3>4
<1>8. /\ Separate(x) /\ Ordered(x, age) /\ Marks(x, T)
      /\ \A w \in Held(x) : age[w] > 0
      /\ \A w \in Int : age[w] > 0 => w \in Held(x) \/ w \in H \/ w \in S
      /\ Remembered(x, age, R)
  BY <1>1, <1>5 DEF Sound
<1>9. Separate(y)
  BY <1>2, <1>6, <1>7, <1>8
<1>10. Ordered(y, age)
  <2>1. Newer(Held(b), Held(b), age)
    BY <1>2, <1>6, <1>8 DEF Newer
  <2>2. Ordered(b, age)
    <3> SUFFICES ASSUME NEW k \in DOMAIN b, NEW l \in DOMAIN b PROVE Newer(Of(b[k]), Of(b[l]), age)
      BY DEF Ordered
    <3>1. Of(b[k]) \subseteq Held(b) /\ Of(b[l]) \subseteq Held(b)
      BY HeldWords
    <3> QED
      BY <2>1, <3>1 DEF Newer
  <2>3. Newer(Held(a), Held(b), age) /\ Newer(Held(b), Held(c), age)
    BY <1>2, <1>6, <1>8 DEF Newer
  <2> QED
    BY <1>6, <1>7, <1>8, <2>2, <2>3
<1>11. Marks(y, T)
  BY <1>1, <1>6, <1>7, <1>8
<1>12. Held(y) \subseteq Held(x) /\ Held(x) \subseteq Held(y) \union Q
  BY <1>2, <1>6, <1>7
<1>13. Remembered(y, age, Q)
  <2> SUFFICES ASSUME NEW w \in Int, age[w] > 0, w \notin Held(y), w \notin Q
               PROVE  \A v \in Held(y) : age[v] >= age[w]
    BY DEF Remembered
  <2>1. w \notin Held(x) /\ w \notin R
    BY <1>12
  <2>2. \A v \in Held(x) : age[v] >= age[w]
    BY <1>8, <2>1 DEF Remembered
  <2> QED
    BY <1>12, <2>2
<1>14. /\ \A w \in Held(y) : age[w] > 0
       /\ \A w \in Int : age[w] > 0 => w \in Held(y) \/ w \in H \/ w \in S
  BY <1>8, <1>12
<1>15. Sound(y, age, H, S, Q)
  BY <1>1, <1>7, <1>9, <1>10, <1>11, <1>13, <1>14 DEF Sound
<1> QED
  BY <1>4, <1>15

(* The last block is dropped if it was invalidated. *)
LEMMA SoundDrop ==
  ASSUME NEW a \in Seq(Block), NEW s \in Block, s.inv,
         NEW age, NEW H, NEW S, age \in [Int -> Nat],
         Sound(a \o <<s>>, age, H, S, {})
  PROVE  Sound(a, age, H, S, {})
<1>1. PICK o : o = <<s>>
  OBVIOUS
<1>2. /\ o \in Seq(Block) /\ Held(o) = Of(s)
      /\ Marks(o, H \union S) <=> (s.inv => Of(s) \subseteq H \union S)
  BY <1>1, OneBlock, OneOrdered, OneMarks
<1>3. PICK x : x = a \o o
  OBVIOUS
<1>4. /\ Separate(x) /\ Ordered(x, age) /\ Marks(x, H \union S)
      /\ \A w \in Held(x) : age[w] > 0
      /\ \A w \in Int : age[w] > 0 => w \in Held(x) \/ w \in H \/ w \in S
      /\ Remembered(x, age, {})
  BY <1>1, <1>3 DEF Sound
<1>5. Held(x) = Held(a) \union Held(o)
  BY <1>2, <1>3, CatHeld
<1>6. Separate(a)
  BY <1>2, <1>3, <1>4, CatSeparate
<1>7. Ordered(a, age) /\ Newer(Held(a), Held(o), age)
  BY <1>2, <1>3, <1>4, CatOrdered
<1>8. Marks(a, H \union S) /\ Marks(o, H \union S)
  BY <1>2, <1>3, <1>4, CatMarks
<1>9. Remembered(a, age, {})
  <2> SUFFICES ASSUME NEW w \in Int, age[w] > 0, w \notin Held(a), NEW v \in Held(a)
               PROVE  age[v] >= age[w]
    BY DEF Remembered
  <2>1. CASE w \in Held(o)
    BY <1>7, <2>1 DEF Newer
  <2>2. CASE w \notin Held(o)
    BY <1>4, <1>5, <2>2 DEF Remembered
  <2> QED
    BY <2>1, <2>2
<1>10. \A w \in Int : age[w] > 0 => w \in Held(a) \/ w \in H \/ w \in S
  BY <1>2, <1>4, <1>5, <1>8
<1>11. \A w \in Held(a) : age[w] > 0
  BY <1>4, <1>5
<1> QED
  BY <1>6, <1>7, <1>8, <1>9, <1>10, <1>11 DEF Sound

(* the ages after an access to the words S at time n *)
Renewed(age, S, n) == [w \in Int |-> IF w \in S THEN n ELSE age[w]]

(* The entry becomes the top, when the stack holds none of its words. *)
LEMMA SoundPush ==
  ASSUME NEW st, NEW s \in Block, ~ s.inv, NEW n \in Nat, n > 0,
         NEW age \in [Int -> 0 .. n - 1], NEW H, NEW S, S = Of(s), NEW R, R \subseteq S,
         Sound(st, age, H, S, R), Held(st) \intersect S = {},
         NEW young, young = Renewed(age, S, n)
  PROVE  Sound(<<s>> \o st, young, H \ S, {}, {})
<1>1. PICK o : o = <<s>>
  OBVIOUS
<1>2. PICK G : G = (H \ S) \union {}
  OBVIOUS
<1>3. /\ o \in Seq(Block) /\ Held(o) = Of(s) /\ Separate(o)
      /\ Ordered(o, young) <=> Newer(Of(s), Of(s), young)
      /\ Marks(o, G) <=> (s.inv => Of(s) \subseteq G)
  BY <1>1, OneBlock, OneOrdered, OneMarks
<1>4. PICK y : y = o \o st
  OBVIOUS
<1>5. /\ st \in Seq(Block) /\ Separate(st) /\ Ordered(st, age) /\ Marks(st, H \union S)
      /\ \A w \in Held(st) : age[w] > 0
      /\ \A w \in Int : age[w] > 0 => w \in Held(st) \/ w \in H \/ w \in S
      /\ Remembered(st, age, R)
  BY DEF Sound
<1>6. Held(st) \subseteq Int /\ S \subseteq Int
  BY <1>5, HeldWords, WordsOf
<1>7. /\ \A w \in S : young[w] = n
      /\ \A w \in Int : w \notin S => young[w] = age[w]
      /\ \A w \in Int : age[w] \in Nat /\ age[w] < n
  BY <1>6 DEF Renewed
<1>8. y \in Seq(Block) /\ Held(y) = Held(o) \union Held(st)
  BY <1>3, <1>4, <1>5, CatAt, CatHeld
<1>9. Separate(y)
  <2>1. Held(o) \intersect Held(st) = {}
    BY <1>3
  <2> QED
    BY <1>3, <1>4, <1>5, <2>1, CatSeparate
<1>10. Ordered(y, young)
  <2>1. Ordered(o, young)
    <3>1. Newer(Of(s), Of(s), young)
      <4> SUFFICES ASSUME NEW w \in Of(s), NEW v \in Of(s) PROVE young[w] >= young[v]
        BY DEF Newer
      <4>1. young[w] = n /\ young[v] = n
        BY <1>7
      <4> QED
        BY <4>1
    <3> QED
      BY <1>3, <3>1
  <2>2. Ordered(st, young)
    <3> SUFFICES ASSUME NEW k \in DOMAIN st, NEW l \in DOMAIN st, k <= l
                 PROVE  Newer(Of(st[k]), Of(st[l]), young)
      BY DEF Ordered
    <3>1. Of(st[k]) \subseteq Held(st) /\ Of(st[l]) \subseteq Held(st)
      BY <1>5, HeldWords
    <3>2. Newer(Of(st[k]), Of(st[l]), age)
      BY <1>5 DEF Ordered
    <3>3. \A w \in Held(st) : young[w] = age[w]
      BY <1>6, <1>7
    <3> QED
      BY <3>1, <3>2, <3>3 DEF Newer
  <2>3. Newer(Held(o), Held(st), young)
    <3> SUFFICES ASSUME NEW w \in Held(o), NEW v \in Held(st) PROVE young[w] >= young[v]
      BY DEF Newer
    <3>1. young[w] = n
      BY <1>3, <1>7
    <3>2. v \in Int /\ v \notin S
      BY <1>6
    <3>3. young[v] = age[v] /\ age[v] \in Nat /\ age[v] < n
      BY <1>7, <3>2
    <3> QED
      BY <3>1, <3>3
  <2> QED
    BY <1>3, <1>4, <1>5, <2>1, <2>2, <2>3, CatOrdered
<1>11. Marks(y, G)
  <2>1. Marks(o, G)
    BY <1>3
  <2>2. Marks(st, G)
    <3> SUFFICES ASSUME NEW k \in DOMAIN st, st[k].inv PROVE Of(st[k]) \subseteq G
      BY DEF Marks
    <3>1. Of(st[k]) \subseteq Held(st) /\ Of(st[k]) \subseteq H \union S
      BY <1>5, HeldWords DEF Marks
    <3> QED
      BY <1>2, <3>1
  <2> QED
    BY <1>3, <1>4, <1>5, <2>1, <2>2, CatMarks
<1>12. Remembered(y, young, {})
  <2> SUFFICES ASSUME NEW w \in Int, young[w] > 0, w \notin Held(y), NEW v \in Held(y)
               PROVE  young[v] >= young[w]
    BY DEF Remembered
  <2>1. w \notin S /\ w \notin Held(st) /\ w \notin R
    BY <1>3, <1>8
  <2>2. young[w] = age[w] /\ age[w] \in Nat /\ age[w] < n
    BY <1>7, <2>1
  <2>3. CASE v \in S
    <3>1. young[v] = n
      BY <1>7, <2>3
    <3> QED
      BY <2>2, <3>1
  <2>4. CASE v \notin S
    <3>1. v \in Held(st) /\ young[v] = age[v]
      BY <1>3, <1>6, <1>7, <1>8, <2>4
    <3>2. age[v] >= age[w]
      BY <1>5, <2>1, <2>2, <3>1 DEF Remembered
    <3> QED
      BY <2>2, <3>1, <3>2
  <2> QED
    BY <2>3, <2>4
<1>13. \A w \in Int : young[w] > 0 => w \in Held(y) \/ w \in H \ S \/ w \in {}
  BY <1>3, <1>5, <1>7, <1>8
<1>14. \A w \in Held(y) : young[w] > 0
  BY <1>3, <1>5, <1>6, <1>7, <1>8
<1>15. Sound(y, young, H \ S, {}, {})
  BY <1>2, <1>8, <1>9, <1>10, <1>11, <1>12, <1>13, <1>14 DEF Sound
<1> QED
  BY <1>1, <1>4, <1>15

(* A probe has come to its end; an entry begins. *)
LEMMA SoundHit ==
  ASSUME NEW st, NEW age, NEW H, NEW S, Sound(st, age, H, S, {})
  PROVE  Sound(st, age, H \union S, {}, {})
<1>1. (H \union S) \union {} = H \union S
  OBVIOUS
<1> QED
  BY <1>1 DEF Sound

(* Nothing is missing when an entry begins. *)
LEMMA SoundBegins ==
  ASSUME NEW st, NEW age, NEW H, NEW S, Sound(st, age, H, {}, {})
  PROVE  Sound(st, age, H, S, {})
<1>1. Marks(st, H \union {}) => Marks(st, H \union S)
  BY DEF Marks
<1> QED
  BY <1>1 DEF Sound

-----------------------------------------------------------------------------
(* The invariant of the stack. *)

Whole(st) == \A x \in DOMAIN st : WholeBlock(st[x])

(* d is the number n as reuse_distance holds it: n if it fits, and never more *)
CountsTo(d, n) == d \in Nat /\ d <= n /\ (n < DistanceMod => d = n)

(* A block more. *)
LEMMA GrownCounts ==
  ASSUME NEW n \in Nat, NEW d, CountsTo(d, n), NEW s, s.size \in Nat
  PROVE  CountsTo(Grown(d, s), n + s.size)
<1>1. PICK k \in Nat, M \in Nat \ {0} : k = s.size /\ M = DistanceMod
  BY DistanceAssumption
<1>2. d \in Nat /\ d <= n /\ (n < M => d = n)
  BY <1>1 DEF CountsTo
<1>3. PICK e \in Nat : e = d + k
  BY <1>2
<1>4. e % M \in Nat /\ e % M < M
  BY ONLY e \in Nat, M \in Nat \ {0}
<1>5. e < M => e % M = e
  BY ONLY e \in Nat, M \in Nat \ {0}
<1>6. e % M <= e
  BY <1>4, <1>5
<1>7. e % M <= n + k /\ (n + k < M => e % M = n + k)
  <2>1. e <= n + k /\ (n + k < M => e = n + k /\ e < M)
    BY <1>2, <1>3
  <2> QED
    BY <1>4, <1>5, <1>6, <2>1
<1>8. Grown(d, s) = e % M
  BY <1>1, <1>3 DEF Grown
<1> QED
  BY <1>1, <1>4, <1>7, <1>8 DEF CountsTo

(* The cursor stands between a and b, and the words R have been found. *)
WalkAt(a, b, R) ==
  /\ stack = a \o b /\ Len(a) = at - 1
  /\ pending \in Int /\ Cardinality(R) + pending = size
  /\ Held(stack) \intersect R = {} /\ Held(a) \intersect InHand = {}
  /\ Sound(stack, Age, Hit, InHand, R)
  /\ b # <<>> =>
       /\ CountsTo(distance, Cardinality(Held(a) \union R))
       /\ \A w \in R : Age[w] > 0
       /\ Newer(R, Held(b), Age)

(* What is true at each place of the loop. *)
InOrder ==
  /\ job.disjoint => Whole(stack)
  /\ pc = "fetch" => Sound(stack, Age, Hit, {}, {})
  /\ pc = "probe" => Sound(stack, Age, Hit, InHand, {})
  /\ pc = "walk" =>
       /\ job.disjoint => trace[i].id \in bloom
       /\ \E a, b \in Seq(Block), R \in SUBSET InHand : WalkAt(a, b, R)

StackInv ==
  pc \in {"fetch", "walk", "probe"} /\ ~ WarmedBlind => at \in Nat \ {0} /\ InOrder

LEMMA InitStack == Init => StackInv
BY DEF Init, StackInit, StackInv

(* The ages depend on the trace, the job and the position alone. *)
LEMMA Frame ==
  ASSUME trace' = trace, job' = job, i' = i
  PROVE  /\ Age' = Age /\ Hit' = Hit /\ InHand' = InHand /\ size' = size
         /\ WarmedBlind' = WarmedBlind
<1>1. \A k, w : Touches(k, w)' <=> Touches(k, w)
  BY DEF Touches
<1>2. ASSUME NEW w PROVE LastRef(w)' = LastRef(w)
  BY DEF LastRef, Touches
<1>3. \A w : ProbedSince(w)' <=> ProbedSince(w)
  BY <1>1, <1>2 DEF ProbedSince
<1>4. size' = size
  BY DEF size
<1> QED
  BY <1>2, <1>3, <1>4 DEF Age, Hit, InHand, WarmedBlind

LEMMA FrameStack == StackInv /\ UNCHANGED stackVars => StackInv'
<1> SUFFICES ASSUME StackInv, UNCHANGED stackVars PROVE StackInv'
  OBVIOUS
<1>1. /\ trace' = trace /\ job' = job /\ i' = i /\ pc' = pc /\ stack' = stack /\ at' = at
      /\ pending' = pending /\ distance' = distance /\ bloom' = bloom
  BY DEF stackVars, walkVars
<1>2. /\ Age' = Age /\ Hit' = Hit /\ InHand' = InHand /\ size' = size /\ WarmedBlind' = WarmedBlind
  BY <1>1, Frame
<1>3. \A a, b, R : WalkAt(a, b, R)' <=> WalkAt(a, b, R)
  BY <1>1, <1>2 DEF WalkAt
<1>4. Whole(stack)' <=> Whole(stack)
  BY <1>1 DEF Whole, WholeBlock
<1>5. InOrder' <=> InOrder
  BY <1>1, <1>2, <1>3, <1>4 DEF InOrder
<1> QED
  BY <1>1, <1>2, <1>5 DEF StackInv

(* A call begins with an empty stack. *)
LEMMA StartStack ==
  ASSUME JobInv', NEW tr, NEW jb, Start(tr, jb)
  PROVE  StackInv'
<1>1. pc' = "fetch" /\ stack' = <<>> /\ at' = 1 /\ i' = job'.warmup + 1
  BY DEF Start
<1>2. AgesRight'
  BY AgesAreRight, PTL
<1>3. ASSUME NEW w \in Int PROVE Age'[w] = 0
  <2>1. Uses(w)' = {}
    <3>1. \A k \in Uses(w)' : k \in job'.warmup + 1 .. i' - 1
      BY DEF Uses
    <3>2. i' \in Nat /\ job'.warmup \in Nat
      BY DEF JobInv
    <3>3. job'.warmup + 1 .. i' - 1 = {}
      BY <1>1, <3>2
    <3> QED
      BY <3>1, <3>3
  <2> QED
    BY <1>2, <2>1 DEF AgesRight
<1>4. PICK age, H, st : age = Age' /\ H = Hit' /\ st = stack'
  OBVIOUS
<1>5. st = <<>> /\ \A w \in Int : age[w] = 0
  BY <1>1, <1>3, <1>4
<1>6. /\ st \in Seq(Block) /\ Held(st) = {} /\ Separate(st)
      /\ Ordered(st, age) /\ Marks(st, H \union {})
  BY <1>5, NoBlock
<1>7. Sound(st, age, H, {}, {})
  BY <1>5, <1>6 DEF Sound, Remembered
<1>8. Whole(stack)'
  BY <1>1 DEF Whole
<1> QED
  BY <1>1, <1>4, <1>7, <1>8 DEF StackInv, InOrder

(* Sequences around a block. *)
LEMMA SplitAt ==
  ASSUME NEW st \in Seq(Block), NEW k \in DOMAIN st
  PROVE  \E a, c \in Seq(Block) :
           /\ a = SubSeq(st, 1, k - 1) /\ c = SubSeq(st, k + 1, Len(st)) /\ Len(a) = k - 1
           /\ st = a \o <<st[k]>> \o c
           /\ SubSeq(st, k, Len(st)) = <<st[k]>> \o c
<1>1. k \in 1 .. Len(st) /\ Len(st) \in Nat /\ st[k] \in Block
  OBVIOUS
<1>2. PICK n \in Nat : n = Len(st)
  BY <1>1
<1>3. PICK a, b, c : a = SubSeq(st, 1, k - 1) /\ b = SubSeq(st, k, n) /\ c = SubSeq(st, k + 1, n)
  OBVIOUS
<1>4. \A x \in 1 .. n : st[x] \in Block
  BY <1>2
<1>5. a \in Seq(Block) /\ Len(a) = k - 1
  <2>1. 1 \in Int /\ k - 1 \in Int /\ \A x \in 1 .. k - 1 : st[x] \in Block
    BY <1>1, <1>2, <1>4
  <2>2. a \in Seq(Block) /\ Len(a) = IF 1 <= k - 1 THEN (k - 1) - 1 + 1 ELSE 0
    BY ONLY <1>3, <2>1, SubSeqProperties
  <2> QED
    BY <1>1, <2>2
<1>6. c \in Seq(Block)
  <2>1. k + 1 \in Int /\ n \in Int /\ \A x \in k + 1 .. n : st[x] \in Block
    BY <1>1, <1>4
  <2>2. c \in Seq(Block) /\ Len(c) = IF k + 1 <= n THEN n - (k + 1) + 1 ELSE 0
    BY ONLY <1>3, <2>1, SubSeqProperties
  <2> QED
    BY <2>2
<1>7. b = <<st[k]>> \o c
  <2>1. k \in 1 .. Len(st) /\ Len(st) \in k .. Len(st)
    BY <1>1
  <2>2. SubSeq(st, k, Len(st)) = <<st[k]>> \o SubSeq(st, k + 1, Len(st))
    BY ONLY st \in Seq(Block), <2>1, SubSeqRecursiveFirst
  <2> QED
    BY <1>2, <1>3, <2>2
<1>8. a \o b = st
  <2>1. 1 \in 1 .. Len(st) + 1 /\ k - 1 \in 1 - 1 .. Len(st) /\ Len(st) \in k - 1 .. Len(st)
    BY <1>1
  <2>2. SubSeq(st, 1, k - 1) \o SubSeq(st, (k - 1) + 1, Len(st)) = SubSeq(st, 1, Len(st))
    BY ONLY st \in Seq(Block), <2>1, ConcatAdjacentSubSeq
  <2>3. (k - 1) + 1 = k
    BY <1>1
  <2>4. SubSeq(st, 1, Len(st)) = st
    BY SubSeqFull
  <2> QED
    BY <1>2, <1>3, <2>2, <2>3, <2>4
<1>9. a \o <<st[k]>> \o c = a \o (<<st[k]>> \o c)
  <2>1. <<st[k]>> \in Seq(Block)
    BY <1>1
  <2> QED
    BY ONLY <1>5, <1>6, <2>1, ConcatAssociative
<1> QED
  BY <1>2, <1>3, <1>5, <1>6, <1>7, <1>8, <1>9

(* Two sequences put together can be taken apart again. *)
LEMMA PrefixIs ==
  ASSUME NEW a \in Seq(Block), NEW b \in Seq(Block), NEW st, st = a \o b
  PROVE  SubSeq(st, 1, Len(a)) = a /\ SubSeq(st, Len(a) + 1, Len(st)) = b
<1>1. /\ st \in Seq(Block) /\ Len(st) = Len(a) + Len(b)
      /\ \A x \in DOMAIN a : x \in DOMAIN st /\ st[x] = a[x]
      /\ \A x \in DOMAIN b : x + Len(a) \in DOMAIN st /\ st[x + Len(a)] = b[x]
  BY CatAt
<1>2. PICK n \in Nat, m \in Nat : n = Len(a) /\ m = Len(b)
  OBVIOUS
<1>3. DOMAIN st = 1 .. n + m /\ DOMAIN a = 1 .. n /\ DOMAIN b = 1 .. m
  BY <1>1, <1>2
<1>4. \A x \in 1 .. n + m : st[x] \in Block
  BY <1>1, <1>3
<1>5. SubSeq(st, 1, n) = a
  <2>1. PICK u : u = SubSeq(st, 1, n)
    OBVIOUS
  <2>2. 1 \in Int /\ n \in Int /\ \A x \in 1 .. n : st[x] \in Block
    <3>1. \A x \in 1 .. n : x \in 1 .. n + m
      BY <1>2
    <3> QED
      BY <1>2, <1>4, <3>1
  <2>3. /\ u \in Seq(Block) /\ Len(u) = IF 1 <= n THEN n - 1 + 1 ELSE 0
        /\ \A x \in 1 .. n - 1 + 1 : u[x] = st[1 + x - 1]
    BY ONLY <2>1, <2>2, SubSeqProperties
  <2>4. Len(u) = n
    BY <2>3
  <2>5. \A x \in 1 .. n : u[x] = a[x]
    <3> SUFFICES ASSUME NEW x \in 1 .. n PROVE u[x] = a[x]
      OBVIOUS
    <3>1. x \in 1 .. n - 1 + 1 /\ 1 + x - 1 = x
      OBVIOUS
    <3> QED
      BY <1>1, <1>3, <2>3, <3>1
  <2> QED
    BY <1>2, <2>1, <2>3, <2>4, <2>5, SeqEqual
<1>6. SubSeq(st, n + 1, n + m) = b
  <2>1. PICK u : u = SubSeq(st, n + 1, n + m)
    OBVIOUS
  <2>2. n + 1 \in Int /\ n + m \in Int /\ \A x \in n + 1 .. n + m : st[x] \in Block
    <3>1. \A x \in n + 1 .. n + m : x \in 1 .. n + m
      BY <1>2
    <3> QED
      BY <1>2, <1>4, <3>1
  <2>3. /\ u \in Seq(Block) /\ Len(u) = IF n + 1 <= n + m THEN (n + m) - (n + 1) + 1 ELSE 0
        /\ \A x \in 1 .. (n + m) - (n + 1) + 1 : u[x] = st[(n + 1) + x - 1]
    BY ONLY <2>1, <2>2, SubSeqProperties
  <2>4. Len(u) = m
    BY <2>3
  <2>5. \A x \in 1 .. m : u[x] = b[x]
    <3> SUFFICES ASSUME NEW x \in 1 .. m PROVE u[x] = b[x]
      OBVIOUS
    <3>1. x \in 1 .. (n + m) - (n + 1) + 1 /\ (n + 1) + x - 1 = x + n
      OBVIOUS
    <3> QED
      BY <1>1, <1>2, <1>3, <2>3, <3>1
  <2> QED
    BY <1>2, <2>1, <2>3, <2>4, <2>5, SeqEqual
<1> QED
  BY <1>1, <1>2, <1>5, <1>6

(* The block at the cursor, and what stands on both sides. *)
LEMMA Around ==
  ASSUME NEW a \in Seq(Block), NEW b \in Seq(Block), stack = a \o b, Len(a) = at - 1,
         at \in Nat \ {0}, at <= Len(stack)
  PROVE  \E c \in Seq(Block) :
           /\ stack[at] \in Block
           /\ stack = a \o <<stack[at]>> \o c
           /\ b = <<stack[at]>> \o c /\ b # <<>>
           /\ \A blocks : Replace(at, blocks) = a \o blocks \o c
<1>1. stack \in Seq(Block) /\ Len(stack) = Len(a) + Len(b)
  BY CatAt
<1>2. at \in DOMAIN stack /\ stack[at] \in Block
  BY <1>1
<1>3. PICK d, c \in Seq(Block) :
           /\ d = SubSeq(stack, 1, at - 1) /\ c = SubSeq(stack, at + 1, Len(stack))
           /\ stack = d \o <<stack[at]>> \o c
           /\ SubSeq(stack, at, Len(stack)) = <<stack[at]>> \o c
  <2>1. PICK st, k : st = stack /\ k = at
    OBVIOUS
  <2>2. st \in Seq(Block) /\ k \in DOMAIN st
    BY <1>1, <1>2, <2>1
  <2>3. \E d, c \in Seq(Block) :
           /\ d = SubSeq(st, 1, k - 1) /\ c = SubSeq(st, k + 1, Len(st)) /\ Len(d) = k - 1
           /\ st = d \o <<st[k]>> \o c
           /\ SubSeq(st, k, Len(st)) = <<st[k]>> \o c
    BY ONLY <2>2, SplitAt
  <2> QED
    BY ONLY <2>1, <2>3
<1>4. SubSeq(stack, 1, Len(a)) = a /\ SubSeq(stack, Len(a) + 1, Len(stack)) = b
  BY PrefixIs
<1>5. d = a /\ b = <<stack[at]>> \o c
  <2>1. Len(a) + 1 = at
    OBVIOUS
  <2> QED
    BY <1>3, <1>4, <2>1
<1>6. b # <<>>
  <2>1. Len(b) \in Nat /\ Len(a) \in Nat /\ Len(b) > 0
    BY <1>1
  <2> QED
    BY <2>1
<1>7. \A blocks : Replace(at, blocks) = a \o blocks \o c
  BY <1>3, <1>5 DEF Replace
<1> QED
  BY <1>2, <1>3, <1>5, <1>6, <1>7

(* Whole blocks behind others. *)
LEMMA CatWhole ==
  ASSUME NEW a \in Seq(Block), NEW b \in Seq(Block)
  PROVE  Whole(a \o b) <=> Whole(a) /\ Whole(b)
<1>1. PICK c : c = a \o b
  OBVIOUS
<1>2. /\ c \in Seq(Block)
      /\ \A x \in DOMAIN a : x \in DOMAIN c /\ c[x] = a[x]
      /\ \A x \in DOMAIN b : x + Len(a) \in DOMAIN c /\ c[x + Len(a)] = b[x]
      /\ \A x \in DOMAIN c : x \in DOMAIN a \/ (x - Len(a) \in DOMAIN b /\ x > Len(a))
  BY <1>1, CatAt
<1>3. ASSUME Whole(c) PROVE Whole(a) /\ Whole(b)
  BY <1>2, <1>3 DEF Whole
<1>4. ASSUME Whole(a), Whole(b) PROVE Whole(c)
  <2> SUFFICES ASSUME NEW x \in DOMAIN c PROVE WholeBlock(c[x])
    BY DEF Whole
  <2>1. CASE x \in DOMAIN a
    BY <1>2, <1>4, <2>1 DEF Whole
  <2>2. CASE x - Len(a) \in DOMAIN b
    <3>1. x = (x - Len(a)) + Len(a)
      BY <1>2
    <3>2. c[x] = b[x - Len(a)]
      BY ONLY <1>2, <2>2, <3>1
    <3> QED
      BY <1>4, <2>2, <3>2 DEF Whole
  <2> QED
    BY <1>2, <2>1, <2>2
<1> QED
  BY <1>1, <1>3, <1>4

-----------------------------------------------------------------------------
(* Steps along the stack. *)

(* The next entry is taken in hand. *)
LEMMA FetchStack ==
  ASSUME JobInv, StackInv, Fetch, ~ WarmedBlind PROVE InOrder'
<1>1. /\ pc = "fetch" /\ i <= Len(trace) /\ pending' = size /\ distance' = 0
      /\ at' = IF Unknown(trace[i]) THEN Len(stack) + 1 ELSE 1
      /\ trace' = trace /\ job' = job /\ i' = i /\ stack' = stack
      /\ IF IsProbe(trace[i])
         THEN pc' = "probe" /\ bloom' = bloom
         ELSE /\ pc' = "walk"
              /\ bloom' = IF job.disjoint /\ ~ WarmAt(i) THEN bloom \union {trace[i].id} ELSE bloom
  BY DEF Fetch
<1>2. Sound(stack, Age, Hit, {}, {}) /\ (job.disjoint => Whole(stack))
  BY <1>1 DEF StackInv, InOrder
<1>3. /\ Age' = Age /\ Hit' = Hit /\ InHand' = InHand /\ size' = size
  BY <1>1, Frame
<1>4. Sound(stack, Age, Hit, InHand, {})
  BY <1>2, SoundBegins
<1>5. job.disjoint => Whole(stack)'
  BY <1>1, <1>2 DEF Whole, WholeBlock
<1>6. stack \in Seq(Block)
  BY <1>2 DEF Sound
<1>7. ASSUME pc' = "walk" PROVE job.disjoint => trace[i].id \in bloom'
  BY <1>1, <1>7 DEF WarmAt, JobInv
<1>8. ASSUME pc' = "walk" PROVE \E a, b \in Seq(Block), R \in SUBSET InHand : WalkAt(a, b, R)'
  <2>1. Cardinality({}) = 0 /\ IsFiniteSet({}) /\ size \in Nat /\ size \in Int
    BY <1>1, FS_EmptySet, WordsInHand
  <2>2. CASE Unknown(trace[i])
    <3>1. Held(stack) \intersect InHand = {}
      <4> SUFFICES ASSUME NEW x \in DOMAIN stack PROVE Of(stack[x]) \intersect InHand = {}
        BY <1>6, HeldWords
      <4>1. job.disjoint /\ trace[i].id \notin bloom
        BY <2>2 DEF Unknown
      <4>2. stack[x] \in Block /\ WholeBlock(stack[x])
        BY <1>2, <1>6, <4>1 DEF Whole
      <4>3. stack[x].elem # trace[i].id
        BY <4>1, <4>2 DEF WholeBlock
      <4>4. Match(stack[x]).words = 0
        BY <4>1, <4>3 DEF Match
      <4> QED
        BY <1>1, <4>2, <4>4, MatchIs
    <3>2. stack = stack \o <<>> /\ <<>> \in Seq(Block) /\ Len(stack) = (Len(stack) + 1) - 1
      BY <1>6, ConcatEmptySeq
    <3>3. Held(stack) \intersect {} = {} /\ size \in Int /\ Cardinality({}) + size = size
      BY <2>1
    <3>4. WalkAt(stack, <<>>, {})'
      BY <1>1, <1>3, <1>4, <2>2, <3>1, <3>2, <3>3 DEF WalkAt
    <3>5. {} \in SUBSET InHand
      OBVIOUS
    <3>6. PICK u, v, R : u = stack /\ v = <<>> /\ R = {}
      OBVIOUS
    <3>7. WalkAt(u, v, R)'
      BY <1>1, <3>4, <3>6
    <3> QED
      BY <1>6, <3>2, <3>5, <3>6, <3>7
  <2>3. CASE ~ Unknown(trace[i])
    <3>1. stack = <<>> \o stack /\ <<>> \in Seq(Block) /\ Len(<<>>) = 1 - 1
      BY <1>6, ConcatEmptySeq
    <3>2. Held(<<>>) = {}
      BY NoBlock
    <3>3. /\ Held(stack) \intersect {} = {} /\ size \in Int /\ Cardinality({}) + size = size
          /\ Held(<<>>) \intersect InHand = {}
          /\ CountsTo(0, Cardinality(Held(<<>>) \union {}))
      <4>1. Cardinality(Held(<<>>) \union {}) = 0
        BY <2>1, <3>2
      <4>2. CountsTo(0, Cardinality(Held(<<>>) \union {}))
        BY <4>1 DEF CountsTo
      <4> QED
        BY <2>1, <3>2, <4>2
    <3>4. Newer({}, Held(stack), Age)
      BY DEF Newer
    <3>5. WalkAt(<<>>, stack, {})'
      BY <1>1, <1>3, <1>4, <2>3, <3>1, <3>3, <3>4 DEF WalkAt
    <3>6. PICK u, v, R : u = <<>> /\ v = stack /\ R = {}
      OBVIOUS
    <3>7. WalkAt(u, v, R)'
      BY <1>1, <3>5, <3>6
    <3>8. {} \in SUBSET InHand
      OBVIOUS
    <3> QED
      BY <1>6, <3>1, <3>6, <3>7, <3>8
  <2> QED
    BY <2>2, <2>3
<1>9. pc' # "fetch" /\ (pc' = "probe" \/ pc' = "walk")
  BY <1>1
<1> QED
  BY <1>1, <1>3, <1>4, <1>5, <1>7, <1>8, <1>9 DEF InOrder

(* What the block at the cursor has to do with the entry in hand. *)
LEMMA AtCursor ==
  ASSUME JobInv, StackInv, pc \in {"walk", "probe"}, ~ WarmedBlind, at <= Len(stack), NEW s, s = stack[at],
         NEW m, m = Match(s)
  PROVE  /\ stack \in Seq(Block) /\ s \in Block /\ (job.disjoint => WholeBlock(s) /\ (m.words > 0 => m.words = size))
         /\ m.words \in Nat /\ m.start \in Int
         /\ m.words = 0 => Of(s) \intersect InHand = {}
         /\ m.words > 0 =>
              /\ Of(s) \intersect InHand = m.start .. m.start + m.words - 1
              /\ s.elem <= m.start /\ m.start + m.words <= s.elem + s.size
              /\ m.start = s.elem \/ m.start = trace[i].id
              /\ m.start + m.words = s.elem + s.size \/ m.start + m.words = trace[i].id + size
              /\ IsFiniteSet(Of(s) \intersect InHand) /\ Cardinality(Of(s) \intersect InHand) = m.words
<1>1. i <= Len(trace) /\ InOrder
  BY DEF JobInv, StackInv
<1>2. stack \in Seq(Block) /\ (job.disjoint => Whole(stack))
  BY <1>1 DEF InOrder, WalkAt, Sound
<1>3. at \in DOMAIN stack
  BY <1>2 DEF StackInv
<1>4. s \in Block /\ (job.disjoint => WholeBlock(s))
  BY <1>2, <1>3 DEF Whole
<1>5. /\ m.words \in Nat /\ m.start \in Int
      /\ m.words = 0 => Of(s) \intersect InHand = {}
      /\ m.words > 0 =>
           /\ Of(s) \intersect InHand = m.start .. m.start + m.words - 1
           /\ s.elem <= m.start /\ m.start + m.words <= s.elem + s.size
           /\ m.start = s.elem \/ m.start = trace[i].id
           /\ m.start + m.words = s.elem + s.size \/ m.start + m.words = trace[i].id + size
  BY <1>1, <1>4, MatchIs
<1>6. ASSUME m.words > 0
      PROVE  IsFiniteSet(Of(s) \intersect InHand) /\ Cardinality(Of(s) \intersect InHand) = m.words
  <2>1. PICK p \in Int, n \in Nat \ {0} : p = m.start /\ n = m.words
    BY <1>5, <1>6
  <2>2. p + n - 1 \in Int /\ ~ (p > p + n - 1) /\ (p + n - 1) - p + 1 = n
    OBVIOUS
  <2>3. IsFiniteSet(p .. p + n - 1) /\ Cardinality(p .. p + n - 1) = n
    BY <2>2, FS_Interval
  <2>4. Of(s) \intersect InHand = p .. p + n - 1
    BY ONLY <1>5, <1>6, <2>1
  <2> QED
    BY ONLY <2>1, <2>3, <2>4
<1>7. ASSUME job.disjoint, m.words > 0 PROVE m.words = size
  BY <1>7 DEF Match
<1> QED
  BY ONLY <1>2, <1>4, <1>5, <1>6, <1>7

(* A disjoint union. *)
LEMMA AddWords ==
  ASSUME NEW X, NEW Y, IsFiniteSet(X), IsFiniteSet(Y), X \intersect Y = {}
  PROVE  IsFiniteSet(X \union Y) /\ Cardinality(X \union Y) = Cardinality(X) + Cardinality(Y)
<1>1. Cardinality(X) \in Nat /\ Cardinality(Y) \in Nat /\ Cardinality(X \intersect Y) = 0
  BY FS_CardinalityType, FS_EmptySet
<1>2. IsFiniteSet(X \union Y)
      /\ Cardinality(X \union Y) = Cardinality(X) + Cardinality(Y) - Cardinality(X \intersect Y)
  BY FS_Union
<1> QED
  BY ONLY <1>1, <1>2

(* The block at the cursor has no word of the entry: its words are passed. *)
LEMMA PassStack ==
  ASSUME JobInv, StackInv, PassOver, ~ WarmedBlind PROVE InOrder'
<1>1. /\ pc = "walk" /\ at <= Len(stack) /\ Match(stack[at]).words = 0
      /\ distance' = Grown(distance, stack[at]) /\ at' = at + 1
      /\ trace' = trace /\ job' = job /\ i' = i /\ stack' = stack /\ pending' = pending
      /\ bloom' = bloom /\ pc' = pc
  BY DEF PassOver
<1>2. PICK s, m : s = stack[at] /\ m = Match(s)
  OBVIOUS
<1>3. s \in Block /\ Of(s) \intersect InHand = {}
  BY <1>1, <1>2, AtCursor
<1>4. /\ job.disjoint => Whole(stack) /\ trace[i].id \in bloom
      /\ \E a, b \in Seq(Block), R \in SUBSET InHand : WalkAt(a, b, R)
  BY <1>1 DEF StackInv, InOrder
<1>5. PICK a \in Seq(Block), b \in Seq(Block) : \E R \in SUBSET InHand : WalkAt(a, b, R)
  BY <1>4
<1>6. PICK R \in SUBSET InHand : WalkAt(a, b, R)
  BY <1>5
<1>7. /\ stack = a \o b /\ Len(a) = at - 1 /\ at \in Nat \ {0}
      /\ pending \in Int /\ Cardinality(R) + pending = size
      /\ Held(stack) \intersect R = {} /\ Held(a) \intersect InHand = {}
      /\ Sound(stack, Age, Hit, InHand, R)
      /\ b # <<>> =>
           /\ CountsTo(distance, Cardinality(Held(a) \union R))
           /\ \A w \in R : Age[w] > 0
           /\ Newer(R, Held(b), Age)
  BY <1>1, <1>6 DEF WalkAt, StackInv
<1>8. PICK c \in Seq(Block) : stack = a \o <<s>> \o c /\ b = <<s>> \o c /\ b # <<>>
  BY <1>1, <1>2, <1>7, Around
<1>9. PICK d, o : o = <<s>> /\ d = a \o o
  OBVIOUS
<1>10. o \in Seq(Block) /\ Len(o) = 1 /\ Held(o) = Of(s)
  BY <1>3, <1>9, OneBlock
<1>11. d \in Seq(Block) /\ Len(d) = at /\ Held(d) = Held(a) \union Of(s) /\ stack = d \o c
  <2>1. d \in Seq(Block) /\ Len(d) = Len(a) + Len(o)
    BY <1>9, <1>10, CatAt
  <2>2. Held(d) = Held(a) \union Held(o)
    BY <1>9, <1>10, CatHeld
  <2>3. Len(d) = at
    BY <1>7, <1>10, <2>1
  <2> QED
    BY <1>8, <1>9, <1>10, <2>1, <2>2, <2>3
<1>12. Held(d) \intersect InHand = {}
  BY <1>3, <1>7, <1>11
<1>13. Held(b) = Of(s) \union Held(c)
  BY <1>8, <1>9, <1>10, CatHeld
<1>14. CountsTo(Grown(distance, s), Cardinality(Held(d) \union R))
  <2>1. IsFiniteSet(Held(a) \union R) /\ CountsTo(distance, Cardinality(Held(a) \union R))
    <3>1. i <= Len(trace)
      BY <1>1 DEF JobInv
    <3>2. IsFiniteSet(R)
      BY <3>1, WordsInHand, FS_Subset
    <3> QED
      BY <1>7, <1>8, <3>2, HeldWords, FS_Union
  <2>2. Of(s) \intersect (Held(a) \union R) = {}
    <3>1. Separate(stack)
      BY <1>7 DEF Sound
    <3>2. Held(a) \intersect Held(b) = {}
      BY <1>7, <3>1, CatSeparate
    <3>3. Of(s) \intersect R = {}
      BY <1>3
    <3> QED
      BY <1>13, <3>2, <3>3
  <2>3. IsFiniteSet(Of(s)) /\ Cardinality(Of(s)) = s.size
    BY <1>3, WordsOf
  <2>4. Held(d) \union R = (Held(a) \union R) \union Of(s)
    BY <1>11
  <2>5. (Held(a) \union R) \intersect Of(s) = {}
    BY <2>2
  <2>6. Cardinality(Held(d) \union R) = Cardinality(Held(a) \union R) + s.size
    BY ONLY <2>1, <2>3, <2>4, <2>5, AddWords
  <2>7. Cardinality(Held(a) \union R) \in Nat /\ s.size \in Nat
    BY <2>1, <2>3, FS_CardinalityType
  <2> QED
    BY <2>1, <2>6, <2>7, GrownCounts
<1>15. Newer(R, Held(c), Age) /\ \A w \in R : Age[w] > 0
  BY <1>7, <1>8, <1>13 DEF Newer
<1>16. /\ Age' = Age /\ Hit' = Hit /\ InHand' = InHand /\ size' = size
  BY <1>1, Frame
<1>17. Len(d) = (at + 1) - 1
  BY <1>7, <1>11
<1>18. WalkAt(d, c, R)'
  BY <1>1, <1>2, <1>7, <1>11, <1>12, <1>14, <1>15, <1>16, <1>17 DEF WalkAt
<1>19. (job.disjoint => Whole(stack) /\ trace[i].id \in bloom)'
  BY <1>1, <1>4 DEF Whole, WholeBlock
<1>20. \E u, v \in Seq(Block), Q \in SUBSET InHand' : WalkAt(u, v, Q)'
  BY <1>11, <1>16, <1>18
<1> QED
  BY <1>1, <1>19, <1>20 DEF InOrder

-----------------------------------------------------------------------------
(* The stack without the words of block s that the entry covers; these are found. *)
Taking(a, c, R, s, m) ==
  /\ WalkAt(a, <<s>> \o c, R) /\ <<s>> \o c # <<>>
  /\ stack = a \o <<s>> \o c
  /\ Replace(at, Rest(s, m)) = a \o Rest(s, m) \o c
  /\ Sound(a \o Rest(s, m) \o c, Age, Hit, InHand, R \union (Of(s) \intersect InHand))
  /\ Cardinality(R \union (Of(s) \intersect InHand)) + pending = size + m.words
  /\ Held(a \o Rest(s, m) \o c) \intersect (R \union (Of(s) \intersect InHand)) = {}

(* What becomes of the stack when the block at the cursor has words of the entry. *)
LEMMA Takes ==
  ASSUME JobInv, StackInv, pc = "walk", ~ WarmedBlind, at <= Len(stack), NEW s, s = stack[at],
         NEW m, m = Match(s), m.words > 0
  PROVE  \E a, c \in Seq(Block), R \in SUBSET InHand : Taking(a, c, R, s, m)
<1>1. /\ stack \in Seq(Block) /\ s \in Block
      /\ m.words \in Nat /\ m.start \in Int
      /\ Of(s) \intersect InHand = m.start .. m.start + m.words - 1
      /\ s.elem <= m.start /\ m.start + m.words <= s.elem + s.size
      /\ IsFiniteSet(Of(s) \intersect InHand) /\ Cardinality(Of(s) \intersect InHand) = m.words
  BY AtCursor
<1>2. \E a, b \in Seq(Block), R \in SUBSET InHand : WalkAt(a, b, R)
  BY DEF StackInv, InOrder
<1>3. PICK a \in Seq(Block), b \in Seq(Block) : \E R \in SUBSET InHand : WalkAt(a, b, R)
  BY <1>2
<1>4. PICK R \in SUBSET InHand : WalkAt(a, b, R)
  BY <1>3
<1>5. /\ stack = a \o b /\ Len(a) = at - 1 /\ at \in Nat \ {0}
      /\ pending \in Int /\ Cardinality(R) + pending = size
      /\ Held(stack) \intersect R = {} /\ Held(a) \intersect InHand = {}
      /\ Sound(stack, Age, Hit, InHand, R)
  BY <1>4 DEF WalkAt, StackInv
<1>6. PICK c \in Seq(Block) :
        /\ stack = a \o <<s>> \o c /\ b = <<s>> \o c /\ b # <<>>
        /\ \A blocks : Replace(at, blocks) = a \o blocks \o c
  <2>1. /\ a \in Seq(Block) /\ b \in Seq(Block) /\ stack = a \o b /\ Len(a) = at - 1
        /\ at \in Nat \ {0} /\ at <= Len(stack)
    BY <1>5
  <2>2. PICK c \in Seq(Block) :
          /\ stack = a \o <<stack[at]>> \o c /\ b = <<stack[at]>> \o c /\ b # <<>>
          /\ \A blocks : Replace(at, blocks) = a \o blocks \o c
    BY ONLY <2>1, Around
  <2> QED
    BY <2>2
<1>7. PICK r : r = Rest(s, m)
  OBVIOUS
<1>8. /\ r \in Seq(Block) /\ Held(r) = Of(s) \ (m.start .. m.start + m.words - 1) /\ Separate(r)
      /\ \A S : (s.inv => Of(s) \subseteq S) => Marks(r, S)
  BY <1>1, <1>7, RestIs
<1>9. PICK o, f, Q : o = <<s>> /\ f = Of(s) \intersect InHand /\ Q = R \union f
  OBVIOUS
<1>10. o \in Seq(Block) /\ Held(o) = Of(s)
  BY <1>1, <1>9, OneBlock
<1>11. Held(r) = Of(s) \ f /\ f \subseteq Of(s)
  BY <1>1, <1>8, <1>9
<1>12. PICK T : T = Hit \union InHand
  OBVIOUS
<1>13. Marks(r, T)
  <2>1. Marks(stack, T)
    BY <1>5, <1>12 DEF Sound
  <2>2. at \in DOMAIN stack
    BY <1>1, <1>5
  <2>3. s.inv => Of(s) \subseteq T
    BY <2>1, <2>2 DEF Marks
  <2> QED
    BY <1>8, <2>3
<1>14. Sound(a \o r \o c, Age, Hit, InHand, Q)
  <2>1. Sound(a \o <<s>> \o c, Age, Hit, InHand, R)
    BY <1>5, <1>6
  <2>2. /\ Held(r) \subseteq Of(s) /\ R \subseteq Q /\ Q \subseteq InHand
        /\ Of(s) \subseteq Held(r) \union Q
    BY <1>9, <1>11
  <2>3. Marks(r, Hit \union InHand)
    BY <1>12, <1>13
  <2> QED
    BY <1>1, <1>8, <2>1, <2>2, <2>3, SoundReplace
<1>15. Held(stack) = Held(a) \union Held(o) \union Held(c)
  <2>1. stack = a \o o \o c
    BY <1>6, <1>9
  <2>2. Held(a \o o \o c) = Held(a) \union Held(o) \union Held(c)
    BY <1>10, ThreeHeld
  <2> QED
    BY ONLY <2>1, <2>2
<1>16. R \intersect f = {}
  BY <1>5, <1>10, <1>11, <1>15
<1>17. Cardinality(Q) + pending = size + m.words
  <2>1. i <= Len(trace)
    BY DEF JobInv
  <2>2. IsFiniteSet(R)
    BY <2>1, WordsInHand, FS_Subset
  <2>3. IsFiniteSet(f) /\ Cardinality(f) = m.words
    BY <1>1, <1>9
  <2>4. Cardinality(Q) = Cardinality(R) + m.words
    <3>1. Cardinality(R \union f) = Cardinality(R) + Cardinality(f)
      BY ONLY <1>16, <2>2, <2>3, AddWords
    <3> QED
      BY ONLY <1>9, <2>3, <3>1
  <2>5. Cardinality(R) \in Nat /\ size \in Nat
    BY <2>1, <2>2, FS_CardinalityType, WordsInHand
  <2>6. PICK k, n, p : k = Cardinality(R) /\ n = size /\ p = pending
    OBVIOUS
  <2>7. p = n - k
    <3>1. k + p = n
      BY <1>5, <2>6
    <3>2. p \in Int
      BY <1>5, <2>6
    <3> QED
      BY <2>5, <2>6, <3>1, <3>2
  <2> QED
    BY <1>1, <2>4, <2>5, <2>6, <2>7
<1>18. Held(a \o r \o c) \intersect Q = {}
  <2>1. Held(a \o r \o c) = Held(a) \union Held(r) \union Held(c)
    BY <1>8, ThreeHeld
  <2>2. Separate(stack)
    BY <1>5 DEF Sound
  <2>3. /\ Held(a) \intersect Held(o) = {} /\ Held(o) \intersect Held(c) = {}
    <3>1. stack = a \o o \o c
      BY <1>6, <1>9
    <3> QED
      BY <1>10, <2>2, <3>1, ThreeSeparate
  <2>4. Held(a) \intersect Q = {}
    BY <1>5, <1>9
  <2>5. Held(r) \intersect Q = {}
    <3>1. Held(r) \intersect R = {}
      BY ONLY <1>5, <1>10, <1>11, <1>15
    <3>2. Held(r) \intersect f = {}
      BY ONLY <1>11
    <3> QED
      BY ONLY <1>9, <3>1, <3>2
  <2>6. Held(c) \intersect Q = {}
    <3>1. Held(c) \intersect R = {}
      BY ONLY <1>5, <1>15
    <3>2. Held(c) \intersect f = {}
      BY ONLY <1>10, <1>11, <2>3
    <3> QED
      BY ONLY <1>9, <3>1, <3>2
  <2> QED
    BY ONLY <2>1, <2>4, <2>5, <2>6
<1>19. Taking(a, c, R, s, m)
  BY <1>4, <1>6, <1>7, <1>9, <1>14, <1>17, <1>18 DEF Taking
<1> QED
  BY <1>19

-----------------------------------------------------------------------------
(* Some words of the entry are found, and others are still to be found. *)
LEMMA TakeSomeStack ==
  ASSUME JobInv, StackInv, TakeSome, ~ WarmedBlind PROVE InOrder' /\ at' \in Nat \ {0}
<1>1. PICK s, m : s = stack[at] /\ m = Match(s)
  OBVIOUS
<1>2. /\ pc = "walk" /\ at <= Len(stack) /\ m.words > 0 /\ m.words # pending
      /\ pending' = pending - m.words /\ distance' = Grown(distance, s)
      /\ stack' = Replace(at, Rest(s, m))
      /\ at' = IF Rest(s, m) = <<>> THEN at ELSE at + 1
      /\ trace' = trace /\ job' = job /\ i' = i /\ bloom' = bloom /\ pc' = pc
  BY <1>1 DEF TakeSome
<1>3. /\ s \in Block /\ m.words \in Nat /\ m.start \in Int
      /\ job.disjoint => m.words = size
      /\ Of(s) \intersect InHand = m.start .. m.start + m.words - 1
      /\ s.elem <= m.start /\ m.start + m.words <= s.elem + s.size
      /\ m.start = s.elem \/ m.start = trace[i].id
      /\ m.start + m.words = s.elem + s.size \/ m.start + m.words = trace[i].id + size
      /\ IsFiniteSet(Of(s) \intersect InHand) /\ Cardinality(Of(s) \intersect InHand) = m.words
  BY <1>1, <1>2, AtCursor
<1>4. \E a, c \in Seq(Block), R \in SUBSET InHand : Taking(a, c, R, s, m)
  BY <1>1, <1>2, Takes
<1>5. PICK a \in Seq(Block), c \in Seq(Block) : \E R \in SUBSET InHand : Taking(a, c, R, s, m)
  BY <1>4
<1>6. PICK R \in SUBSET InHand : Taking(a, c, R, s, m)
  BY <1>5
<1>7. PICK b, r, f, Q, o : /\ b = <<s>> \o c /\ r = Rest(s, m) /\ o = <<s>>
                           /\ f = Of(s) \intersect InHand /\ Q = R \union f
  OBVIOUS
<1>8. /\ WalkAt(a, b, R) /\ b # <<>>
      /\ stack = a \o o \o c /\ stack' = a \o r \o c
      /\ Sound(a \o r \o c, Age, Hit, InHand, Q)
      /\ Cardinality(Q) + pending = size + m.words
      /\ Held(a \o r \o c) \intersect Q = {}
  BY <1>2, <1>6, <1>7 DEF Taking
<1>9. /\ stack = a \o b /\ Len(a) = at - 1 /\ pending \in Int
      /\ Cardinality(R) + pending = size
      /\ Held(stack) \intersect R = {} /\ Held(a) \intersect InHand = {}
      /\ Sound(stack, Age, Hit, InHand, R)
      /\ CountsTo(distance, Cardinality(Held(a) \union R))
      /\ \A w \in R : Age[w] > 0
      /\ Newer(R, Held(b), Age)
  BY <1>8 DEF WalkAt
<1>10. /\ i <= Len(trace) /\ IsFiniteSet(InHand) /\ Cardinality(InHand) = size /\ size \in Nat \ {0}
       /\ trace[i].id \in Nat
  BY <1>2, WordsInHand DEF JobInv
<1>11. IsFiniteSet(R) /\ IsFiniteSet(f) /\ Cardinality(f) = m.words /\ Cardinality(R) \in Nat
  BY <1>3, <1>7, <1>10, FS_Subset, FS_CardinalityType
<1>12. /\ r \in Seq(Block) /\ Held(r) = Of(s) \ f
       /\ s.elem = m.start \/ m.start + m.words = s.elem + s.size => Len(r) = 0 \/ Len(r) = 1
  BY <1>3, <1>7, RestIs
<1>13. o \in Seq(Block) /\ Held(o) = Of(s) /\ Held(b) = Of(s) \union Held(c)
  <2>1. o \in Seq(Block) /\ Held(o) = Of(s)
    BY <1>3, <1>7, OneBlock
  <2>2. Held(o \o c) = Held(o) \union Held(c)
    BY <2>1, CatHeld
  <2> QED
    BY <1>7, <2>1, <2>2
<1>14. Held(stack) = Held(a) \union Of(s) \union Held(c)
  <2>1. Held(a \o o \o c) = Held(a) \union Held(o) \union Held(c)
    BY <1>13, ThreeHeld
  <2> QED
    BY ONLY <1>8, <1>13, <2>1
<1>15. m.words # size
  <2> SUFFICES ASSUME m.words = size PROVE FALSE
    OBVIOUS
  <2>1. f = InHand
    BY <1>7, <1>10, <1>11, FS_Subset
  <2>2. R = {}
    BY <1>7, <1>9, <1>14, <2>1
  <2>3. Cardinality(R) = 0
    BY <2>2, FS_EmptySet
  <2> QED
    BY <1>2, <1>9, <1>10, <2>3
<1>16. ~ job.disjoint
  BY <1>3, <1>15
<1>17. Len(r) = 0 \/ Len(r) = 1
  <2>1. CASE s.elem = m.start \/ m.start + m.words = s.elem + s.size
    BY <1>12, <2>1
  <2>2. CASE ~ (s.elem = m.start \/ m.start + m.words = s.elem + s.size)
    <3>1. m.start = trace[i].id /\ m.start + m.words = trace[i].id + size
      BY <1>3, <2>2
    <3>2. m.words = size
      BY <1>3, <1>10, <3>1
    <3> QED
      BY <1>15, <3>2
  <2> QED
    BY <2>1, <2>2
<1>18. PICK d : d = a \o r
  OBVIOUS
<1>19. /\ d \in Seq(Block) /\ Len(d) = Len(a) + Len(r) /\ Held(d) = Held(a) \union Held(r)
       /\ stack' = d \o c
  BY <1>8, <1>12, <1>18, CatAt, CatHeld
<1>20. at' \in Nat \ {0} /\ Len(d) = at' - 1
  <2>1. at \in Nat \ {0} /\ Len(a) \in Nat
    BY <1>2 DEF StackInv
  <2>2. CASE Len(r) = 0
    <3>1. r = <<>>
      BY <1>12, <2>2
    <3> QED
      BY <1>2, <1>7, <1>9, <1>19, <2>1, <2>2, <3>1
  <2>3. CASE Len(r) = 1
    <3>1. r # <<>>
      BY <2>3
    <3> QED
      BY <1>2, <1>7, <1>9, <1>19, <2>1, <2>3, <3>1
  <2> QED
    BY <1>17, <2>2, <2>3
<1>21. pending' \in Int /\ Cardinality(Q) + pending' = size
  <2>1. Cardinality(Q) \in Nat
    BY <1>7, <1>11, FS_Union, FS_CardinalityType
  <2>2. PICK k, n, p, q, l : /\ k = Cardinality(Q) /\ n = size /\ p = pending /\ q = m.words
                             /\ l = pending'
    OBVIOUS
  <2>3. k \in Nat /\ n \in Nat /\ p \in Int /\ q \in Nat /\ k + p = n + q /\ l = p - q
    BY <1>2, <1>3, <1>8, <1>9, <1>10, <2>1, <2>2
  <2>4. l \in Int /\ k + l = n
    BY ONLY <2>3
  <2> QED
    BY ONLY <2>2, <2>4
<1>22. Held(d) \intersect InHand = {}
  BY <1>7, <1>9, <1>12, <1>19
<1>23. Separate(stack) /\ Ordered(stack, Age) /\ \A w \in Held(stack) : Age[w] > 0
  BY <1>9 DEF Sound
<1>24. CountsTo(distance', Cardinality(Held(d) \union Q))
  <2>1. IsFiniteSet(Held(a) \union R)
    BY <1>11, HeldWords, FS_Union
  <2>2. (Held(a) \union R) \intersect Of(s) = {}
    <3>1. Held(a) \intersect Held(b) = {}
      BY <1>9, <1>13, <1>7, <1>23, CatSeparate, CatAt
    <3>2. Held(a) \intersect Of(s) = {}
      BY <1>13, <3>1
    <3>3. R \intersect Of(s) = {}
      BY <1>9, <1>14
    <3> QED
      BY <3>2, <3>3
  <2>3. IsFiniteSet(Of(s)) /\ Cardinality(Of(s)) = s.size
    BY <1>3, WordsOf
  <2>4. Held(d) \union Q = (Held(a) \union R) \union Of(s)
    BY <1>7, <1>12, <1>19
  <2>5. Cardinality((Held(a) \union R) \union Of(s)) = Cardinality(Held(a) \union R) + Cardinality(Of(s))
    BY <2>1, <2>2, <2>3, AddWords
  <2>6. Cardinality(Held(d) \union Q) = Cardinality(Held(a) \union R) + s.size
    BY <2>3, <2>4, <2>5
  <2>7. Cardinality(Held(a) \union R) \in Nat /\ s.size \in Nat
    BY <2>1, <2>3, FS_CardinalityType
  <2> QED
    BY <1>2, <1>9, <2>6, <2>7, GrownCounts
<1>25. \A w \in Q : Age[w] > 0
  BY <1>7, <1>9, <1>14, <1>23
<1>26. Newer(Q, Held(c), Age)
  <2>1. Newer(Of(s), Held(c), Age)
    <3>1. Ordered(a \o o \o c, Age)
      BY <1>8, <1>23
    <3>2. Newer(Held(o), Held(c), Age)
      BY <1>13, <3>1, ThreeInOrder
    <3> QED
      BY <1>13, <3>2
  <2> QED
    BY <1>7, <1>9, <1>13, <2>1 DEF Newer
<1>27. /\ Age' = Age /\ Hit' = Hit /\ InHand' = InHand /\ size' = size
  BY <1>2, Frame
<1>28. stack' = d \o c /\ Held(stack') \intersect Q = {} /\ Sound(stack', Age, Hit, InHand, Q)
  BY <1>8, <1>19
<1>29. WalkAt(d, c, Q)'
  BY <1>20, <1>21, <1>22, <1>24, <1>25, <1>26, <1>27, <1>28 DEF WalkAt
<1>30. Q \subseteq InHand
  BY <1>7
<1>31. \E u, v \in Seq(Block), G \in SUBSET InHand' : WalkAt(u, v, G)'
  BY <1>19, <1>27, <1>29, <1>30
<1> QED
  BY <1>2, <1>16, <1>20, <1>31 DEF InOrder

(* The entry on top of a stack without its words. *)
LEMMA PushStack ==
  ASSUME JobInv, JobInv', NEW st \in Seq(Block), NEW R \in SUBSET InHand, pc = "walk",
         Sound(st, Age, Hit, InHand, R), Held(st) \intersect InHand = {},
         stack' = <<Top>> \o st, trace' = trace, job' = job, i' = i + 1, bloom' = bloom,
         pc' = "fetch",
         job.disjoint => Whole(st) /\ trace[i].id \in bloom
  PROVE  InOrder'
<1>1. i <= Len(trace) /\ i \in Nat /\ i > 0 /\ trace[i] \in OutEntry /\ ~ IsProbe(trace[i])
  <2>1. i <= Len(trace) /\ i \in Nat /\ i > 0 /\ trace[i].size > 0 /\ trace \in Seq(OutEntry)
    BY DEF JobInv
  <2>2. trace[i] \in OutEntry
    BY <2>1
  <2>3. ~ IsProbe(trace[i])
    <3>1. trace[i].size \in Int
      BY <2>2 DEF OutEntry
    <3> QED
      BY <2>1, <3>1 DEF IsProbe
  <2> QED
    BY <2>1, <2>2, <2>3
<1>2. PICK s : s = Top
  OBVIOUS
<1>3. s.elem = trace[i].id /\ s.size = size /\ s.inv = FALSE /\ s.core = trace[i].core
  BY <1>2 DEF Top
<1>4. s \in Block /\ Of(s) = InHand
  <2>1. trace[i].id \in Int /\ size \in Nat \ {0}
    BY <1>1, WordsInHand
  <2>2. trace[i].core \in Nat
    BY <1>1 DEF OutEntry
  <2>3. s = [elem |-> trace[i].id, size |-> size, inv |-> FALSE, core |-> trace[i].core]
    BY <1>2 DEF Top
  <2>4. s \in Block
    BY <2>1, <2>2, <2>3 DEF Block
  <2> QED
    BY <1>3, <2>4 DEF Of, InHand
<1>5. Age' = [w \in Int |-> IF w \in InHand THEN i ELSE Age[w]] /\ Hit' = Hit \ InHand
  BY <1>1, AgesGrow, HitsGrow
<1>6. AgesRight
  BY AgesAreRight
<1>7. Sound(<<s>> \o st, Age', Hit \ InHand, {}, {})
  <2>1. Age \in [Int -> Nat] /\ \A w \in Int : Age[w] < i
    BY <1>6 DEF AgesRight
  <2>2. PICK S : S = InHand
    OBVIOUS
  <2>3. S = Of(s) /\ R \subseteq S /\ Sound(st, Age, Hit, S, R) /\ Held(st) \intersect S = {}
    BY <1>4, <2>2
  <2>4. Age' = [w \in Int |-> IF w \in S THEN i ELSE Age[w]]
    BY <1>5, <2>2
  <2>5. Sound(<<s>> \o st, Age', Hit \ S, {}, {})
    <3>1. PICK age, H, young, n : age = Age /\ H = Hit /\ young = Age' /\ n = i
      OBVIOUS
    <3>2. /\ s \in Block /\ ~ s.inv /\ S = Of(s) /\ R \subseteq S
          /\ n \in Nat /\ n > 0 /\ age \in [Int -> 0 .. n - 1]
          /\ Sound(st, age, H, S, R) /\ Held(st) \intersect S = {}
          /\ young = Renewed(age, S, n)
      <4>1. n \in Nat /\ n > 0 /\ s \in Block /\ ~ s.inv
        BY <1>1, <1>3, <1>4, <3>1
      <4>2. age \in [Int -> 0 .. n - 1]
        <5>1. age \in [Int -> Nat] /\ \A w \in Int : age[w] < n
          BY <2>1, <3>1
        <5>2. ASSUME NEW w \in Int PROVE age[w] \in 0 .. n - 1
          <6>1. PICK a \in Nat : a = age[w]
            BY ONLY <5>1, w \in Int
          <6>2. a < n
            BY ONLY <5>1, <6>1, w \in Int
          <6> QED
            BY ONLY <4>1, <6>1, <6>2
        <5>3. age = [w \in Int |-> age[w]]
          BY ONLY <5>1
        <5> QED
          BY ONLY <5>2, <5>3
      <4>3. young = Renewed(age, S, n)
        BY <2>4, <3>1 DEF Renewed
      <4>4. S = Of(s) /\ R \subseteq S /\ Sound(st, age, H, S, R) /\ Held(st) \intersect S = {}
        BY <2>3, <3>1
      <4> QED
        BY ONLY <4>1, <4>2, <4>3, <4>4
    <3>3. Sound(<<s>> \o st, young, H \ S, {}, {})
      BY ONLY <3>2, SoundPush
    <3> QED
      BY ONLY <3>1, <3>3
  <2> QED
    BY <2>2, <2>5
<1>8. Sound(stack', Age', Hit', {}, {})
  BY <1>2, <1>5, <1>7
<1>9. job.disjoint => Whole(stack)'
  <2> SUFFICES ASSUME job.disjoint PROVE Whole(stack)'
    OBVIOUS
  <2>1. PICK o : o = <<s>>
    OBVIOUS
  <2>2. o \in Seq(Block) /\ DOMAIN o = {1} /\ o[1] = s
    BY <1>4, <2>1
  <2>3. WholeBlock(s)
    <3>1. i \in DOMAIN trace /\ size = Abs(trace[i].size)
      BY <1>1, WordsInHand DEF JobInv
    <3> QED
      BY <1>3, <3>1 DEF WholeBlock
  <2>4. Whole(o)
    BY <2>2, <2>3 DEF Whole
  <2>5. Whole(o \o st)
    BY <2>2, <2>4, CatWhole
  <2>6. PICK z : z = o \o st
    OBVIOUS
  <2>7. stack' = z /\ Whole(z)
    BY <1>2, <2>1, <2>5, <2>6
  <2> QED
    BY ONLY <2>7, trace' = trace, bloom' = bloom DEF Whole, WholeBlock
<1> QED
  BY <1>8, <1>9 DEF InOrder

-----------------------------------------------------------------------------
(* Without partial overlaps a block that is found is the whole entry. *)
LEMMA WholeMatch ==
  ASSUME JobInv, i <= Len(trace), job.disjoint, NEW s \in Block, WholeBlock(s),
         NEW m, m = Match(s), m.words > 0
  PROVE  m.start = s.elem /\ m.words = s.size
<1>1. s.elem = trace[i].id /\ m.start = trace[i].id /\ m.words = size
  BY DEF Match
<1>2. PICK k \in DOMAIN trace : trace[k].id = s.elem /\ Abs(trace[k].size) = s.size
  BY DEF WholeBlock
<1>3. i \in DOMAIN trace /\ Apart(trace)
  BY DEF JobInv
<1>4. size \in Nat \ {0} /\ size = Abs(trace[i].size) /\ trace[i].id \in Nat
  BY WordsInHand
<1>5. s.size \in Nat \ {0}
  BY DEF Block
<1>6. \/ trace[k].id = trace[i].id /\ Abs(trace[k].size) = Abs(trace[i].size)
      \/ trace[k].id + Abs(trace[k].size) <= trace[i].id
      \/ trace[i].id + Abs(trace[i].size) <= trace[k].id
  BY <1>3 DEF Apart
<1>7. s.size = size
  BY <1>1, <1>2, <1>4, <1>5, <1>6
<1> QED
  BY <1>1, <1>7

(* Without partial overlaps nothing of a block that is found is left. *)
LEMMA WholeParts ==
  ASSUME NEW s \in Block, NEW m, m.start = s.elem, m.words = s.size
  PROVE  Rest(s, m) = <<>> /\ (WholeBlock(s) => Whole(Marked(s, m)))
<1>1. PICK e \in Int, n \in Nat \ {0} : e = s.elem /\ n = s.size
  BY DEF Block
<1>2. Before(s, m) = <<>>
  <2>1. ~ (e < e)
    BY <1>1
  <2> QED
    BY <1>1, <2>1 DEF Before, Part
<1>3. Behind(s, m) = <<>>
  <2>1. ~ (e + n < e + n)
    BY <1>1
  <2> QED
    BY <1>1, <2>1 DEF Behind, Part
<1>4. Rest(s, m) = <<>>
  <2>1. <<>> \o <<>> = <<>>
    OBVIOUS
  <2> QED
    BY <1>2, <1>3, <2>1 DEF Rest
<1>5. PICK t : t = [s EXCEPT !.inv = TRUE, !.core = trace[i].core]
  OBVIOUS
<1>6. PICK p : p = [t EXCEPT !.elem = e, !.size = (e + n) - e]
  OBVIOUS
<1>7. p.elem = s.elem /\ p.size = s.size
  <2>1. DOMAIN s = {"elem", "size", "inv", "core"}
    BY DEF Block
  <2>2. DOMAIN t = {"elem", "size", "inv", "core"}
    BY <1>5, <2>1
  <2>3. p.elem = e /\ p.size = (e + n) - e
    BY <1>6, <2>2
  <2> QED
    BY <1>1, <2>3
<1>8. Marked(s, m) = <<>> \o <<p>> \o <<>>
  <2>1. Larger(e, e) = e /\ Smaller(e + n, e + n) = e + n /\ e < e + n
    BY <1>1 DEF Larger, Smaller
  <2>2. Part(t, e, e + n) = <<p>>
    BY <1>6, <2>1 DEF Part
  <2> QED
    BY <1>1, <1>2, <1>3, <1>5, <2>1, <2>2 DEF Marked
<1>9. ASSUME WholeBlock(s) PROVE Whole(Marked(s, m))
  <2>1. WholeBlock(p)
    BY <1>7, <1>9 DEF WholeBlock
  <2>2. <<>> \o <<p>> \o <<>> = <<p>>
    <3>1. <<p>> \in Seq({p})
      OBVIOUS
    <3>2. <<>> \o <<p>> = <<p>> /\ <<p>> \o <<>> = <<p>>
      BY <3>1, ConcatEmptySeq
    <3> QED
      BY <3>2
  <2>3. PICK o : o = <<p>>
    OBVIOUS
  <2>4. DOMAIN o = {1} /\ o[1] = p
    BY <2>3
  <2>5. Whole(o)
    BY <2>1, <2>4 DEF Whole
  <2> QED
    BY <1>8, <2>2, <2>3, <2>5
<1> QED
  BY <1>4, <1>9

(* The blocks around the cursor are whole. *)
LEMMA ThreeWhole ==
  ASSUME NEW a \in Seq(Block), NEW b \in Seq(Block), NEW c \in Seq(Block)
  PROVE  Whole(a \o b \o c) <=> Whole(a) /\ Whole(b) /\ Whole(c)
<1>1. PICK d : d = a \o b
  OBVIOUS
<1>2. d \in Seq(Block)
  BY <1>1, CatAt
<1>3. Whole(d) <=> Whole(a) /\ Whole(b)
  BY <1>1, CatWhole
<1>4. Whole(d \o c) <=> Whole(d) /\ Whole(c)
  BY <1>2, CatWhole
<1> QED
  BY <1>1, <1>3, <1>4

(* The last words of the entry are found: it goes to the top. *)
LEMMA TakeLastStack ==
  ASSUME JobInv, JobInv', StackInv, TakeLast, ~ WarmedBlind PROVE InOrder'
<1>1. PICK s, m : s = stack[at] /\ m = Match(s)
  OBVIOUS
<1>2. /\ pc = "walk" /\ at <= Len(stack) /\ m.words > 0 /\ m.words = pending
      /\ stack' = <<Top>> \o Replace(at, Rest(s, m))
      /\ trace' = trace /\ job' = job /\ i' = i + 1 /\ bloom' = bloom /\ pc' = "fetch"
  BY <1>1 DEF TakeLast, NextEntry
<1>3. /\ s \in Block /\ m.words \in Nat /\ m.start \in Int
      /\ job.disjoint => WholeBlock(s)
      /\ s.elem <= m.start /\ m.start + m.words <= s.elem + s.size
  BY <1>1, <1>2, AtCursor
<1>4. \E a, c \in Seq(Block), R \in SUBSET InHand : Taking(a, c, R, s, m)
  BY <1>1, <1>2, Takes
<1>5. PICK a \in Seq(Block), c \in Seq(Block) : \E R \in SUBSET InHand : Taking(a, c, R, s, m)
  BY <1>4
<1>6. PICK R \in SUBSET InHand : Taking(a, c, R, s, m)
  BY <1>5
<1>7. PICK r, Q, o : r = Rest(s, m) /\ o = <<s>> /\ Q = R \union (Of(s) \intersect InHand)
  OBVIOUS
<1>8. /\ stack = a \o o \o c /\ Replace(at, r) = a \o r \o c
      /\ Sound(a \o r \o c, Age, Hit, InHand, Q)
      /\ Cardinality(Q) + pending = size + m.words
      /\ Held(a \o r \o c) \intersect Q = {}
  BY <1>6, <1>7 DEF Taking
<1>9. /\ i <= Len(trace) /\ IsFiniteSet(InHand) /\ Cardinality(InHand) = size /\ size \in Nat \ {0}
  BY <1>2, WordsInHand DEF JobInv
<1>10. Q = InHand
  <2>1. Q \subseteq InHand
    BY <1>7
  <2>2. IsFiniteSet(Q)
    BY <1>9, <2>1, FS_Subset
  <2>3. Cardinality(Q) \in Nat
    BY <2>2, FS_CardinalityType
  <2>4. Cardinality(Q) = Cardinality(InHand)
    BY <1>2, <1>3, <1>8, <1>9, <2>3
  <2> QED
    BY <1>9, <2>1, <2>4, FS_Subset
<1>11. r \in Seq(Block) /\ o \in Seq(Block)
  BY <1>3, <1>7, RestIs, OneBlock
<1>12. PICK st : st = a \o r \o c
  OBVIOUS
<1>13. st \in Seq(Block)
  BY <1>11, <1>12, ThreeHeld
<1>14. ASSUME job.disjoint PROVE Whole(st) /\ trace[i].id \in bloom
  <2>1. Whole(stack) /\ trace[i].id \in bloom
    BY <1>2, <1>14 DEF StackInv, InOrder
  <2>2. Whole(a \o o \o c)
    BY <1>8, <2>1
  <2>3. Whole(a) /\ Whole(c)
    BY <1>11, <2>2, ThreeWhole
  <2>4. r = <<>>
    <3>1. m.start = s.elem /\ m.words = s.size
      BY <1>1, <1>2, <1>3, <1>9, <1>14, WholeMatch
    <3> QED
      BY <1>3, <1>7, <3>1, WholeParts
  <2>5. Whole(r)
    BY <2>4 DEF Whole
  <2> QED
    BY <1>11, <1>12, <2>1, <2>3, <2>5, ThreeWhole
<1>15. /\ Sound(st, Age, Hit, InHand, Q) /\ Held(st) \intersect InHand = {}
       /\ stack' = <<Top>> \o st
  BY <1>2, <1>7, <1>8, <1>10, <1>12
<1> QED
  BY <1>2, <1>7, <1>10, <1>13, <1>14, <1>15, PushStack

(* The end of the stack is reached, and the entry goes to the top. *)
LEMMA ColdMissStack ==
  ASSUME JobInv, JobInv', StackInv, ColdMiss, ~ WarmedBlind PROVE InOrder'
<1>1. /\ pc = "walk" /\ at > Len(stack) /\ stack' = <<Top>> \o stack
      /\ trace' = trace /\ job' = job /\ i' = i + 1 /\ bloom' = bloom /\ pc' = "fetch"
  BY DEF ColdMiss, NextEntry
<1>2. /\ job.disjoint => Whole(stack) /\ trace[i].id \in bloom
      /\ \E a, b \in Seq(Block), R \in SUBSET InHand : WalkAt(a, b, R)
  BY <1>1 DEF StackInv, InOrder
<1>3. PICK a \in Seq(Block), b \in Seq(Block) : \E R \in SUBSET InHand : WalkAt(a, b, R)
  BY <1>2
<1>4. PICK R \in SUBSET InHand : WalkAt(a, b, R)
  BY <1>3
<1>5. /\ stack = a \o b /\ Len(a) = at - 1 /\ at \in Nat \ {0}
      /\ Held(a) \intersect InHand = {} /\ Sound(stack, Age, Hit, InHand, R)
  BY <1>1, <1>4 DEF WalkAt, StackInv
<1>6. stack = a
  <2>1. Len(stack) = Len(a) + Len(b) /\ Len(b) \in Nat /\ Len(a) \in Nat
    <3>1. PICK z : z = a \o b
      OBVIOUS
    <3>2. Len(z) = Len(a) + Len(b)
      BY <3>1, CatAt
    <3> QED
      BY <1>5, <3>1, <3>2
  <2>2. Len(b) = 0
    BY <1>1, <1>5, <2>1
  <2>3. b = <<>>
    BY <2>2
  <2> QED
    BY <1>5, <2>3, ConcatEmptySeq
<1> QED
  BY <1>1, <1>2, <1>5, <1>6, PushStack

(* A probe divides a block and marks a part of it. *)
LEMMA MarkStack ==
  ASSUME JobInv, StackInv, pc = "probe", ~ WarmedBlind, at <= Len(stack), NEW s, s = stack[at],
         NEW m, m = Match(s), m.words > 0, NEW st, st = Replace(at, Marked(s, m))
  PROVE  Sound(st, Age, Hit, InHand, {}) /\ (job.disjoint => Whole(st))
<1>1. /\ s \in Block /\ m.words \in Nat /\ m.start \in Int /\ stack \in Seq(Block)
      /\ job.disjoint => WholeBlock(s)
      /\ s.elem <= m.start /\ m.start + m.words <= s.elem + s.size
      /\ Of(s) \intersect InHand = m.start .. m.start + m.words - 1
  BY AtCursor
<1>2. Sound(stack, Age, Hit, InHand, {}) /\ (job.disjoint => Whole(stack)) /\ at \in Nat \ {0}
  BY DEF StackInv, InOrder
<1>3. i <= Len(trace) /\ trace[i].core \in Nat
  <2>1. i <= Len(trace) /\ trace[i] \in OutEntry
    BY DEF JobInv
  <2> QED
    BY <2>1 DEF OutEntry
<1>4. at \in DOMAIN stack
  BY <1>1, <1>2
<1>5. PICK a \in Seq(Block), c \in Seq(Block) :
           /\ a = SubSeq(stack, 1, at - 1) /\ c = SubSeq(stack, at + 1, Len(stack))
           /\ stack = a \o <<s>> \o c
  BY <1>1, <1>4, SplitAt
<1>6. PICK b, o : b = Marked(s, m) /\ o = <<s>>
  OBVIOUS
<1>7. st = a \o b \o c
  BY <1>5, <1>6 DEF Replace
<1>8. /\ b \in Seq(Block) /\ Held(b) = Of(s) /\ Separate(b)
      /\ \A S : (s.inv => Of(s) \subseteq S) /\ m.start .. m.start + m.words - 1 \subseteq S => Marks(b, S)
  BY <1>1, <1>3, <1>6, MarkedIs
<1>9. Marks(b, Hit \union InHand)
  <2>1. PICK T : T = Hit \union InHand
    OBVIOUS
  <2>2. Marks(stack, T)
    BY <1>2, <2>1 DEF Sound
  <2>3. s.inv => Of(s) \subseteq T
    BY <1>4, <2>2 DEF Marks
  <2>4. m.start .. m.start + m.words - 1 \subseteq T
    BY <1>1, <2>1
  <2> QED
    BY <1>8, <2>1, <2>3, <2>4
<1>10. Sound(a \o b \o c, Age, Hit, InHand, {})
  <2>1. Sound(a \o <<s>> \o c, Age, Hit, InHand, {})
    BY <1>2, <1>5
  <2>2. /\ Held(b) \subseteq Of(s) /\ {} \subseteq {} /\ {} \subseteq InHand
        /\ Of(s) \subseteq Held(b) \union {}
    BY <1>8
  <2> QED
    BY <1>1, <1>8, <1>9, <2>1, <2>2, SoundReplace
<1>11. ASSUME job.disjoint PROVE Whole(a \o b \o c)
  <2>1. o \in Seq(Block)
    BY <1>1, <1>6, OneBlock
  <2>2. Whole(a \o o \o c)
    BY <1>2, <1>5, <1>6, <1>11
  <2>3. Whole(a) /\ Whole(c)
    BY <2>1, <2>2, ThreeWhole
  <2>4. m.start = s.elem /\ m.words = s.size
    BY <1>1, <1>3, <1>11, WholeMatch
  <2>5. Whole(b)
    BY <1>1, <1>6, <1>11, <2>4, WholeParts
  <2> QED
    BY <1>8, <2>3, <2>5, ThreeWhole
<1> QED
  BY <1>7, <1>10, <1>11

(* The probe is over. *)
LEMMA HitStack ==
  ASSUME JobInv, JobInv', pc = "probe", Sound(stack', Age, Hit, InHand, {}),
         trace' = trace, job' = job, i' = i + 1, bloom' = bloom, pc' = "fetch",
         NEW st, stack' = st, job.disjoint => Whole(st)
  PROVE  InOrder'
<1>1. i <= Len(trace) /\ trace[i].size < 0
  BY DEF JobInv
<1>2. IsProbe(trace[i])
  BY <1>1 DEF IsProbe
<1>3. Age' = Age
  <2>1. Age' = [w \in Int |-> Age[w]]
    BY <1>1, <1>2, AgesGrow
  <2>2. AgesRight
    BY AgesAreRight
  <2>3. Age \in [Int -> Nat]
    BY <2>2 DEF AgesRight
  <2> QED
    BY <2>1, <2>3
<1>4. Hit' = Hit \union InHand
  BY <1>1, <1>2, HitsGrow
<1>5. Sound(stack', Age', Hit', {}, {})
  <2>1. Sound(st, Age, Hit \union InHand, {}, {})
    BY SoundHit
  <2> QED
    BY <1>3, <1>4, <2>1
<1>6. job.disjoint => Whole(stack)'
  BY DEF Whole, WholeBlock
<1> QED
  BY <1>5, <1>6 DEF InOrder

(* A probe has met all of its words. *)
LEMMA ProbeLastStack ==
  ASSUME JobInv, JobInv', StackInv, ProbeLast, ~ WarmedBlind PROVE InOrder'
<1>1. PICK s, m : s = stack[at] /\ m = Match(s)
  OBVIOUS
<1>2. PICK st : st = Replace(at, Marked(s, m))
  OBVIOUS
<1>3. /\ pc = "probe" /\ at <= Len(stack) /\ m.words > 0 /\ stack' = st
      /\ trace' = trace /\ job' = job /\ i' = i + 1 /\ bloom' = bloom /\ pc' = "fetch"
  BY <1>1, <1>2 DEF ProbeLast, NextEntry
<1>4. Sound(st, Age, Hit, InHand, {}) /\ (job.disjoint => Whole(st))
  BY <1>1, <1>2, <1>3, MarkStack
<1> QED
  BY <1>3, <1>4, HitStack

(* A probe has reached the end of the stack. *)
LEMMA ProbeEndStack ==
  ASSUME JobInv, JobInv', StackInv, ProbeEnd, ~ WarmedBlind PROVE InOrder'
<1>1. /\ pc = "probe" /\ stack' = stack
      /\ trace' = trace /\ job' = job /\ i' = i + 1 /\ bloom' = bloom /\ pc' = "fetch"
  BY DEF ProbeEnd, NextEntry
<1>2. Sound(stack, Age, Hit, InHand, {}) /\ (job.disjoint => Whole(stack))
  BY <1>1 DEF StackInv, InOrder
<1> QED
  BY <1>1, <1>2, HitStack

(* A probe goes on down the stack. *)
LEMMA ProbeSomeStack ==
  ASSUME JobInv, StackInv, ProbeSome, ~ WarmedBlind PROVE InOrder'
<1>1. PICK s, m : s = stack[at] /\ m = Match(s)
  OBVIOUS
<1>2. PICK st : st = IF m.words = 0 THEN stack ELSE Replace(at, Marked(s, m))
  OBVIOUS
<1>3. /\ pc = "probe" /\ at <= Len(stack) /\ pc' = pc
      /\ trace' = trace /\ job' = job /\ i' = i /\ bloom' = bloom
      /\ IF UselessTail(st) THEN stack' = Front(st) ELSE stack' = st
  BY <1>1, <1>2 DEF ProbeSome
<1>4. Sound(st, Age, Hit, InHand, {}) /\ (job.disjoint => Whole(st))
  <2>1. CASE m.words = 0
    BY <1>2, <1>3, <2>1 DEF StackInv, InOrder
  <2>2. CASE m.words # 0
    <3>1. m.words > 0
      <4>1. m.words \in Nat
        BY <1>1, <1>3, AtCursor
      <4> QED
        BY <2>2, <4>1
    <3> QED
      BY <1>1, <1>2, <1>3, <2>2, <3>1, MarkStack
  <2> QED
    BY <2>1, <2>2
<1>5. Sound(stack', Age, Hit, InHand, {}) /\ \E u : stack' = u /\ (job.disjoint => Whole(u))
  <2>1. CASE ~ UselessTail(st)
    BY <1>3, <1>4, <2>1
  <2>2. CASE UselessTail(st)
    <3>1. st \in Seq(Block)
      BY <1>4 DEF Sound
    <3>2. PICK n : n = Len(st)
      OBVIOUS
    <3>3. n = at /\ at > 1 /\ st[n].inv /\ at \in Nat
      BY <1>3, <2>2, <3>2 DEF UselessTail, StackInv
    <3>4. n \in DOMAIN st /\ st[n] \in Block
      <4>1. DOMAIN st = 1 .. Len(st)
        BY <3>1
      <4>2. n \in 1 .. n
        BY <3>3
      <4>3. n \in DOMAIN st
        BY <3>2, <4>1, <4>2
      <4> QED
        BY <3>1, <4>3
    <3>5. PICK a \in Seq(Block), c \in Seq(Block) :
             /\ a = SubSeq(st, 1, n - 1) /\ c = SubSeq(st, n + 1, Len(st))
             /\ st = a \o <<st[n]>> \o c
      BY <3>1, <3>4, SplitAt
    <3>6. c = <<>>
      <4>1. n + 1 \in Int /\ n \in Int /\ n < n + 1
        BY <3>3
      <4>2. SubSeq(st, n + 1, n) = <<>>
        BY <4>1, SubSeqEmpty
      <4> QED
        BY <3>2, <3>5, <4>2
    <3>7. PICK t, o : t = st[n] /\ o = <<t>>
      OBVIOUS
    <3>8. t \in Block /\ t.inv /\ o \in Seq(Block)
      BY <3>3, <3>4, <3>7, OneBlock
    <3>9. st = a \o o
      <4>1. a \o o \in Seq(Block)
        BY <3>8, CatAt
      <4>2. (a \o o) \o <<>> = a \o o
        BY <4>1, ConcatEmptySeq
      <4> QED
        BY <3>5, <3>6, <3>7, <4>2
    <3>10. Sound(a, Age, Hit, InHand, {})
      <4>1. AgesRight
        BY AgesAreRight
      <4>2. Age \in [Int -> Nat]
        BY <4>1 DEF AgesRight
      <4>3. Sound(a \o <<t>>, Age, Hit, InHand, {})
        BY <1>4, <3>7, <3>9
      <4> QED
        BY <3>8, <4>2, <4>3, SoundDrop
    <3>11. job.disjoint => Whole(a)
      BY <1>4, <3>8, <3>9, CatWhole
    <3>12. stack' = a
      BY <1>3, <2>2, <3>2, <3>5 DEF Front
    <3> QED
      BY <3>10, <3>11, <3>12
  <2> QED
    BY <2>1, <2>2
<1>6. /\ Age' = Age /\ Hit' = Hit /\ InHand' = InHand
  BY <1>3, Frame
<1>7. job.disjoint => Whole(stack)'
  <2>1. PICK u : stack' = u /\ (job.disjoint => Whole(u))
    BY <1>5
  <2> QED
    BY <1>3, <2>1 DEF Whole, WholeBlock
<1> QED
  BY <1>3, <1>5, <1>6, <1>7 DEF InOrder

-----------------------------------------------------------------------------
(* Every step keeps the stack in order. *)
LEMMA StepStack == JobInv /\ JobInv' /\ StackInv /\ [Next]_vars => StackInv'
<1> SUFFICES ASSUME JobInv, JobInv', StackInv, [Next]_vars PROVE StackInv'
  OBVIOUS
<1>1. CASE UNCHANGED stackVars
  BY <1>1, FrameStack
<1>2. ASSUME NEW k \in Kernels, NEW d \in BOOLEAN, StartWhole(k, d) PROVE StackInv'
  BY <1>2, StartStack DEF StartWhole
<1>3. CASE StartPart
  BY <1>3, StartStack DEF StartPart
<1>4. ASSUME pc' \notin {"fetch", "walk", "probe"} PROVE StackInv'
  BY <1>4 DEF StackInv
<1>5. CASE StackStep
  <2> SUFFICES ASSUME ~ WarmedBlind, pc' \in {"fetch", "walk", "probe"}
               PROVE  (at \in Nat \ {0})' /\ InOrder'
    <3>1. CASE WarmedBlind
      <4>1. job' = job
        BY <1>5 DEF StackStep, Walk, Probe, Fetch, Finish, PassOver, TakeSome, TakeLast, ColdMiss,
           ProbeSome, ProbeLast, ProbeEnd
      <4> QED
        BY <3>1, <4>1 DEF StackInv, WarmedBlind
    <3>2. CASE ~ WarmedBlind
      BY <3>2 DEF StackInv
    <3> QED
      BY <3>1, <3>2
  <2>1. CASE Fetch
    <3>1. InOrder /\ stack \in Seq(Block)
      BY <2>1 DEF Fetch, StackInv, InOrder, Sound
    <3>2. at' = Len(stack) + 1 \/ at' = 1
      BY <2>1 DEF Fetch
    <3>3. Len(stack) \in Nat
      BY <3>1
    <3> QED
      BY <2>1, <3>2, <3>3, FetchStack
  <2>2. CASE Finish
    BY <2>2 DEF Finish
  <2>3. CASE PassOver
    <3>1. at \in Nat \ {0} /\ at' = at + 1
      BY <2>3 DEF PassOver, StackInv
    <3> QED
      BY <2>3, <3>1, PassStack
  <2>4. CASE TakeSome
    BY <2>4, TakeSomeStack
  <2>5. CASE TakeLast
    <3>1. at \in Nat \ {0} /\ at' = at
      BY <2>5 DEF TakeLast, NextEntry, walkVars, StackInv
    <3> QED
      BY <2>5, <3>1, TakeLastStack
  <2>6. CASE ColdMiss
    <3>1. at \in Nat \ {0} /\ at' = at
      BY <2>6 DEF ColdMiss, NextEntry, walkVars, StackInv
    <3> QED
      BY <2>6, <3>1, ColdMissStack
  <2>7. CASE ProbeLast
    <3>1. at \in Nat \ {0} /\ at' = at
      BY <2>7 DEF ProbeLast, NextEntry, walkVars, StackInv
    <3> QED
      BY <2>7, <3>1, ProbeLastStack
  <2>8. CASE ProbeEnd
    <3>1. at \in Nat \ {0} /\ at' = at
      BY <2>8 DEF ProbeEnd, NextEntry, walkVars, StackInv
    <3> QED
      BY <2>8, <3>1, ProbeEndStack
  <2>9. CASE ProbeSome
    <3>1. at \in Nat \ {0} /\ (at' = at \/ at' = at + 1)
      BY <2>9 DEF ProbeSome, StackInv
    <3> QED
      BY <2>9, <3>1, ProbeSomeStack
  <2> QED
    BY <1>5, <2>1, <2>2, <2>3, <2>4, <2>5, <2>6, <2>7, <2>8, <2>9 DEF StackStep, Walk, Probe
<1>6. CASE WriteHistogram
  BY <1>4, <1>6 DEF WriteHistogram
<1> QED
  BY <1>1, <1>2, <1>3, <1>5, <1>6 DEF Next, Accumulate, vars

(* An LRU stack. *)
LEMMA StackIsLRU == JobInv /\ StackInv => RecencyOrder
<1> SUFFICES ASSUME JobInv, StackInv, pc = "fetch", ~ WarmedBlind
             PROVE  /\ \A a, b \in DOMAIN stack : a < b => Of(stack[a]) \intersect Of(stack[b]) = {}
                    /\ \A a \in DOMAIN stack : \A w \in Of(stack[a]) :
                         /\ LastRef(w) > 0
                         /\ LastRef(w) = LastRef(stack[a].elem)
                         /\ \A b \in a .. Len(stack) : LastRef(w) >= LastRef(stack[b].elem)
                         /\ stack[a].inv => ProbedSince(w)
                    /\ \A w \in Words : LastRef(w) > 0 /\ ~ ProbedSince(w) =>
                         \E a \in DOMAIN stack : w \in Of(stack[a])
  BY DEF RecencyOrder
<1>1. AgesRight
  BY AgesAreRight
<1>2. /\ stack \in Seq(Block) /\ Separate(stack) /\ Ordered(stack, Age)
      /\ \A w \in Held(stack) : Age[w] > 0
      /\ Marks(stack, Hit \union {})
      /\ \A w \in Int : Age[w] > 0 => w \in Held(stack) \/ w \in Hit \/ w \in {}
  BY DEF StackInv, InOrder, Sound
<1>3. \A w \in Int : Age[w] = LastRef(w) /\ Age[w] \in Nat
  BY <1>1 DEF AgesRight
<1>4. \A a, b \in DOMAIN stack : a < b => Of(stack[a]) \intersect Of(stack[b]) = {}
  BY <1>2 DEF Separate
<1>5. ASSUME NEW a \in DOMAIN stack, NEW w \in Of(stack[a])
      PROVE  /\ LastRef(w) > 0
             /\ LastRef(w) = LastRef(stack[a].elem)
             /\ \A b \in a .. Len(stack) : LastRef(w) >= LastRef(stack[b].elem)
             /\ stack[a].inv => ProbedSince(w)
  <2>1. stack[a] \in Block
    BY <1>2
  <2>2. w \in Int /\ stack[a].elem \in Int /\ stack[a].elem \in Of(stack[a]) /\ w \in Held(stack)
    BY <1>2, <2>1, WordsOf, HeldWords
  <2>3. LastRef(w) > 0
    BY <1>2, <1>3, <2>2
  <2>4. ASSUME NEW b \in a .. Len(stack) PROVE LastRef(w) >= LastRef(stack[b].elem)
    <3>1. b \in DOMAIN stack /\ a <= b
      BY <1>2
    <3>2. stack[b] \in Block
      BY <1>2, <3>1
    <3>3. stack[b].elem \in Int /\ stack[b].elem \in Of(stack[b])
      BY <3>2, WordsOf
    <3>4. Newer(Of(stack[a]), Of(stack[b]), Age)
      BY <1>2, <3>1 DEF Ordered
    <3>5. Age[w] >= Age[stack[b].elem]
      BY <3>3, <3>4 DEF Newer
    <3> QED
      BY <1>3, <2>2, <3>3, <3>5
  <2>5. LastRef(w) = LastRef(stack[a].elem)
    <3>1. a <= a
      BY <1>2
    <3>2. Newer(Of(stack[a]), Of(stack[a]), Age)
      BY <1>2, <3>1 DEF Ordered
    <3>3. Age[w] >= Age[stack[a].elem] /\ Age[stack[a].elem] >= Age[w]
      BY <2>2, <3>2 DEF Newer
    <3> QED
      BY <1>3, <2>2, <3>3
  <2>6. ASSUME stack[a].inv PROVE ProbedSince(w)
    BY <1>2, <2>6 DEF Marks, Hit
  <2> QED
    BY <2>3, <2>4, <2>5, <2>6
<1>6. ASSUME NEW w \in Words, LastRef(w) > 0, ~ ProbedSince(w)
      PROVE  \E a \in DOMAIN stack : w \in Of(stack[a])
  <2>1. w \in Int
    <3>1. PICK k \in DOMAIN trace : w \in trace[k].id .. trace[k].id + Abs(trace[k].size) - 1
      BY DEF Words
    <3> QED
      BY <3>1
  <2>2. w \notin Hit
    BY <1>6 DEF Hit
  <2>3. w \in Held(stack)
    BY <1>2, <1>3, <1>6, <2>1, <2>2
  <2> QED
    BY <1>2, <2>3, HeldWords
<1> QED
  BY <1>4, <1>5, <1>6

(* The inductive invariants together. *)
LEMMA InvariantHolds == Spec => [](JobInv /\ StackInv)
<1>1. Init => OrderInv /\ CutInv /\ JobInv /\ StackInv
  BY InitOrder, InitCut, InitJob, InitStack
<1>2. OrderInv /\ CutInv /\ JobInv /\ StackInv /\ [Next]_vars
        => OrderInv' /\ CutInv' /\ JobInv' /\ StackInv'
  BY StepOrder, StepCut, StepJob, StepStack
<1> QED
  BY <1>1, <1>2, PTL DEF Spec

(* Between two entries of the trace the stack of the analysis is an LRU stack: its
   blocks are disjoint and in the order of last use, the words of one block were last
   used together, what is marked was invalidated since, and no word that was used is
   missing unless it was.  do_one_histogram_mem splits blocks, moves parts of them to
   the top and drops marked ones from the end, and none of this disturbs the order. *)
THEOREM StackIsInOrder == Spec => []RecencyOrder
<1>1. JobInv /\ StackInv => RecencyOrder
  BY StackIsLRU
<1> QED
  BY <1>1, InvariantHolds, PTL

-----------------------------------------------------------------------------
(* The words of the trace. *)
LEMMA WordsOfTrace ==
  ASSUME JobInv
  PROVE  /\ Words \subseteq Int /\ IsFiniteSet(Words)
         /\ i <= Len(trace) => \A w \in Int : Age[w] > 0 => w \in Words
<1>1. /\ trace \in Seq(OutEntry) /\ job.warmup \in Nat /\ i \in Nat
  BY DEF JobInv
<1>2. ASSUME NEW k \in DOMAIN trace
      PROVE  trace[k].id \in Nat /\ Abs(trace[k].size) \in Nat
  <2>1. trace[k] \in OutEntry
    BY <1>1
  <2>2. trace[k].id \in Nat /\ trace[k].size \in Int
    BY <2>1 DEF OutEntry
  <2> QED
    BY <2>2 DEF Abs
<1>3. PICK W : W = [k \in DOMAIN trace |-> trace[k].id .. trace[k].id + Abs(trace[k].size) - 1]
  OBVIOUS
<1>4. PICK T : T = {W[k] : k \in DOMAIN trace}
  OBVIOUS
<1>5. Words = UNION T
  BY <1>3, <1>4 DEF Words
<1>6. \A k \in DOMAIN trace : W[k] \subseteq Int
  BY <1>3
<1>7. Words \subseteq Int
  BY <1>4, <1>5, <1>6
<1>8. IsFiniteSet(Words)
  <2>1. IsFiniteSet(DOMAIN trace)
    <3>1. DOMAIN trace = 1 .. Len(trace) /\ Len(trace) \in Int
      BY <1>1
    <3> QED
      BY <3>1, FS_Interval
  <2>2. W \in Surjection(DOMAIN trace, T)
    BY <1>3, <1>4 DEF Surjection
  <2>3. IsFiniteSet(T)
    BY <2>1, <2>2, FS_Surjection
  <2>4. \A X \in T : IsFiniteSet(X)
    <3> SUFFICES ASSUME NEW k \in DOMAIN trace PROVE IsFiniteSet(W[k])
      BY <1>4
    <3>1. PICK e \in Nat, n \in Nat : e = trace[k].id /\ n = Abs(trace[k].size)
      BY <1>2
    <3>2. e \in Int /\ e + n - 1 \in Int
      OBVIOUS
    <3>3. IsFiniteSet(e .. e + n - 1)
      BY <3>2, FS_Interval
    <3> QED
      BY <1>3, <3>1, <3>3
  <2> QED
    BY <1>5, <2>3, <2>4, FS_UNION
<1>9. ASSUME i <= Len(trace), NEW w \in Int, Age[w] > 0 PROVE w \in Words
  <2>1. AgesRight
    BY AgesAreRight
  <2>2. PICK k : k = Age[w]
    OBVIOUS
  <2>3. k \in Uses(w) /\ k \in Nat
    BY <1>9, <2>1, <2>2 DEF AgesRight
  <2>4. k \in job.warmup + 1 .. i - 1 /\ Touches(k, w)
    BY <2>3 DEF Uses
  <2>5. k \in DOMAIN trace
    BY <1>1, <1>9, <2>4
  <2>6. w \in trace[k].id .. trace[k].id + Abs(trace[k].size) - 1
    <3>1. PICK e \in Nat, n \in Nat : e = trace[k].id /\ n = Abs(trace[k].size)
      BY <1>2, <2>5
    <3>2. e <= w /\ w < e + n
      BY <2>4, <3>1 DEF Touches
    <3> QED
      BY <3>1, <3>2
  <2> QED
    BY <2>5, <2>6 DEF Words
<1> QED
  BY <1>7, <1>8, <1>9

(* What has been passed is what was used since, but for the block itself. *)
LEMMA DistanceIsBounded == JobInv /\ StackInv => DistanceBounds
<1> SUFFICES ASSUME JobInv, StackInv, pc = "walk", ~ WarmedBlind, at <= Len(stack),
                    Match(stack[at]).words > 0
             PROVE  LET used  == LastRef(stack[at].elem)
                        newer == {w \in Words : LastRef(w) > used}
                        since == {w \in Words : LastRef(w) >= used}
                    IN  /\ Cardinality(since) < DistanceMod =>
                             Cardinality(newer) + Match(stack[at]).words
                               <= Grown(distance, stack[at])
                        /\ Grown(distance, stack[at]) <= Cardinality(since)
  BY DEF DistanceBounds
<1>1. PICK s, m, used, newer, since :
        /\ s = stack[at] /\ m = Match(s) /\ used = LastRef(s.elem)
        /\ newer = {w \in Words : LastRef(w) > used}
        /\ since = {w \in Words : LastRef(w) >= used}
  OBVIOUS
<1>2. /\ s \in Block /\ m.words \in Nat /\ m.start \in Int /\ m.words > 0
      /\ s.elem <= m.start /\ m.start + m.words <= s.elem + s.size
  BY <1>1, AtCursor
<1>3. /\ Of(s) \subseteq Int /\ s.elem \in Of(s) /\ s.elem \in Int /\ s.size \in Nat
      /\ IsFiniteSet(Of(s)) /\ Cardinality(Of(s)) = s.size
  BY <1>2, WordsOf
<1>4. AgesRight
  BY AgesAreRight
<1>5. /\ \A w \in Int : Age[w] = LastRef(w) /\ Age[w] \in Nat
      /\ used = Age[s.elem] /\ used \in Nat
  BY <1>1, <1>3, <1>4 DEF AgesRight
<1>6. at \in Nat \ {0} /\ \E a, b \in Seq(Block), R \in SUBSET InHand : WalkAt(a, b, R)
  BY DEF StackInv, InOrder
<1>7. PICK a \in Seq(Block), b \in Seq(Block) : \E R \in SUBSET InHand : WalkAt(a, b, R)
  BY <1>6
<1>8. PICK R \in SUBSET InHand : WalkAt(a, b, R)
  BY <1>7
<1>9. stack = a \o b /\ Len(a) = at - 1
  BY <1>8 DEF WalkAt
<1>10. PICK c \in Seq(Block) : stack = a \o <<s>> \o c /\ b = <<s>> \o c /\ b # <<>>
  BY <1>1, <1>6, <1>9, Around
<1>11. /\ Held(stack) \intersect R = {}
       /\ Sound(stack, Age, Hit, InHand, R)
       /\ CountsTo(distance, Cardinality(Held(a) \union R))
       /\ \A w \in R : Age[w] > 0
       /\ Newer(R, Held(b), Age)
  BY <1>8, <1>10 DEF WalkAt
<1>12. /\ Separate(stack) /\ Ordered(stack, Age)
       /\ \A w \in Held(stack) : Age[w] > 0
       /\ Remembered(stack, Age, R)
  BY <1>11 DEF Sound
<1>13. PICK o : o = <<s>>
  OBVIOUS
<1>14. o \in Seq(Block) /\ Held(o) = Of(s)
  BY <1>2, <1>13, OneBlock
<1>15. Held(b) = Of(s) \union Held(c)
  <2>1. Held(o \o c) = Held(o) \union Held(c)
    BY <1>14, CatHeld
  <2> QED
    BY <1>10, <1>13, <1>14, <2>1
<1>16. Held(stack) = Held(a) \union Of(s) \union Held(c)
  <2>1. Held(a \o b) = Held(a) \union Held(b)
    BY CatHeld
  <2> QED
    BY <1>9, <1>15, <2>1
<1>17. Held(a) \intersect Held(b) = {}
  <2>1. Separate(a \o b)
    BY <1>9, <1>12
  <2> QED
    BY <2>1, CatSeparate
<1>18. Newer(Held(a), Held(b), Age) /\ Ordered(b, Age)
  <2>1. Ordered(a \o b, Age)
    BY <1>9, <1>12
  <2> QED
    BY <2>1, CatOrdered
<1>19. Newer(Of(s), Of(s), Age) /\ Newer(Of(s), Held(c), Age)
  <2>1. Ordered(o \o c, Age)
    BY <1>10, <1>13, <1>18
  <2>2. Ordered(o, Age) /\ Newer(Held(o), Held(c), Age)
    BY <1>14, <2>1, CatOrdered
  <2> QED
    BY <1>2, <1>13, <1>14, <2>2, OneOrdered
<1>20. i <= Len(trace)
  BY DEF JobInv
<1>21. PICK P : P = Held(a) \union R
  OBVIOUS
<1>22. IsFiniteSet(P) /\ CountsTo(distance, Cardinality(P)) /\ P \subseteq Int
  <2>1. IsFiniteSet(R) /\ R \subseteq Int
    BY <1>20, WordsInHand, FS_Subset
  <2> QED
    BY <1>11, <1>21, <2>1, HeldWords, FS_Union
<1>23. newer \subseteq P
  <2> SUFFICES ASSUME NEW w \in newer, w \notin P PROVE FALSE
    OBVIOUS
  <2>1. w \in Int /\ Age[w] > used /\ Age[w] \in Nat
    BY <1>1, <1>5, WordsOfTrace
  <2>2. Age[w] > 0
    BY <1>5, <2>1
  <2>3. w \in Held(stack) \/ w \in R \/ \A v \in Held(stack) : Age[v] >= Age[w]
    BY <1>12, <2>1, <2>2 DEF Remembered
  <2>4. s.elem \in Held(stack) /\ ~ (Age[s.elem] >= Age[w])
    BY <1>3, <1>5, <1>16, <2>1
  <2>5. w \in Of(s) \/ w \in Held(c)
    BY <1>16, <1>21, <2>3, <2>4
  <2>6. Age[s.elem] >= Age[w]
    BY <1>3, <1>19, <2>5 DEF Newer
  <2> QED
    BY <2>4, <2>6
<1>24. P \union Of(s) \subseteq since
  <2> SUFFICES ASSUME NEW w \in P \union Of(s) PROVE w \in since
    OBVIOUS
  <2>1. w \in Int
    BY <1>3, <1>22
  <2>2. Age[w] >= Age[s.elem]
    <3>1. s.elem \in Held(b)
      BY <1>3, <1>15
    <3> QED
      BY <1>3, <1>11, <1>18, <1>19, <1>21, <3>1 DEF Newer
  <2>3. Age[w] > 0
    BY <1>11, <1>12, <1>16, <1>21
  <2>4. w \in Words
    BY <1>20, <2>1, <2>3, WordsOfTrace
  <2> QED
    BY <1>1, <1>5, <2>1, <2>2, <2>4
<1>25. PICK n \in Nat : /\ n = Cardinality(P \union Of(s)) /\ n = Cardinality(P) + s.size
                        /\ CountsTo(Grown(distance, s), n)
  <2>1. P \intersect Of(s) = {}
    BY <1>11, <1>15, <1>16, <1>17, <1>21
  <2>2. Cardinality(P \union Of(s)) = Cardinality(P) + s.size
    BY <1>3, <1>22, <2>1, AddWords
  <2>3. Cardinality(P) \in Nat
    BY <1>22, FS_CardinalityType
  <2> QED
    BY <1>3, <1>22, <2>2, <2>3, GrownCounts
<1>26. /\ Cardinality(newer) \in Nat /\ Cardinality(P) \in Nat
       /\ Cardinality(newer) <= Cardinality(P)
  BY <1>22, <1>23, FS_Subset, FS_CardinalityType
<1>27. n <= Cardinality(since) /\ Cardinality(since) \in Nat
  <2>1. IsFiniteSet(since)
    <3>1. since \subseteq Words
      BY <1>1
    <3> QED
      BY <3>1, WordsOfTrace, FS_Subset
  <2> QED
    BY <1>24, <1>25, <2>1, FS_Subset, FS_CardinalityType
<1>28. m.words <= s.size
  <2>1. PICK e, p, q, k : e = s.elem /\ p = m.start /\ q = s.size /\ k = m.words
    OBVIOUS
  <2>2. e \in Int /\ p \in Int /\ q \in Nat /\ k \in Nat /\ e <= p /\ p + k <= e + q
    BY <1>2, <1>3, <2>1
  <2>3. k <= q
    BY <2>2
  <2> QED
    BY <2>1, <2>3
<1>29. Cardinality(newer) + m.words <= n
  BY <1>2, <1>3, <1>25, <1>26, <1>28
<1>30. Grown(distance, s) <= Cardinality(since)
  BY <1>25, <1>27 DEF CountsTo
<1>31. ASSUME Cardinality(since) < DistanceMod
       PROVE  Cardinality(newer) + m.words <= Grown(distance, s)
  <2>1. n < DistanceMod
    BY <1>27, <1>31, DistanceAssumption
  <2> QED
    BY <1>25, <1>29, <2>1 DEF CountsTo
<1> QED
  BY <1>1, <1>30, <1>31

(* When the analysis finds words of an entry in a block, the distance it counts, the
   sizes of the blocks passed and of this one modulo 4 bytes, is at most the number of
   words used since the block was, the block included, and if that number fits into the
   4 bytes, at least that of the words used since with the words that are found. *)
THEOREM DistancesAreBounded == Spec => []DistanceBounds
<1>1. JobInv /\ StackInv => DistanceBounds
  BY DistanceIsBounded
<1> QED
  BY <1>1, InvariantHolds, PTL
-----------------------------------------------------------------------------
(* Sums. *)

(* the element of a set that a fold begins with *)
First(s) == CHOOSE x \in s : TRUE

(* g gives to each set of at most n elements of D the sum of the values of v *)
Small(D, n) == {s \in SUBSET D : IsFiniteSet(s) /\ Cardinality(s) <= n}

SumsOn(v, D, n, g) ==
  g = [s \in Small(D, n) |-> IF s = {} THEN 0 ELSE v[First(s)] + g[s \ {First(s)}]]

(* what SumBins adds up *)
Sums(v) == CHOOSE g : g = [s \in SUBSET DOMAIN v |->
                             IF s = {} THEN 0 ELSE v[First(s)] + g[s \ {First(s)}]]

(* SumBins is such a sum. *)
LEMMA SumIsSums == \A v : SumBins(v) = Sums(v)[DOMAIN v]
BY DEF SumBins, FoldFunction, FoldFunctionOnSet, MapThenFoldSet, Sums, First

(* A set without the element that is taken first. *)
LEMMA WithoutFirst ==
  ASSUME NEW s, IsFiniteSet(s), s # {}
  PROVE  /\ First(s) \in s /\ IsFiniteSet(s \ {First(s)})
         /\ Cardinality(s) \in Nat /\ Cardinality(s \ {First(s)}) = Cardinality(s) - 1
<1>1. First(s) \in s
  BY DEF First
<1> QED
  BY <1>1, FS_RemoveElement, FS_CardinalityType

(* What is true of sets of n elements if it is of sets of fewer is true of all. *)
LEMMA SumsExist ==
  ASSUME NEW v, NEW D, NEW n \in Nat
  PROVE  \E g : SumsOn(v, D, n, g)
<1>1. PICK B : B = {k \in Nat : ~ \E g : SumsOn(v, D, k, g)}
  OBVIOUS
<1>2. CASE B = {}
  BY <1>1, <1>2
<1>3. CASE B # {}
  <2>1. B \subseteq Nat
    BY <1>1
  <2>2. PICK m \in B : \A k \in B : m <= k
    BY ONLY <1>3, <2>1, Least
  <2>3. m # 0
    <3> SUFFICES ASSUME m = 0 PROVE FALSE
      OBVIOUS
    <3>1. PICK g : g = [s \in Small(D, 0) |-> 0]
      OBVIOUS
    <3>2. \A s \in Small(D, 0) : s = {}
      BY FS_EmptySet, FS_CardinalityType DEF Small
    <3>3. SumsOn(v, D, 0, g)
      BY <3>1, <3>2 DEF SumsOn
    <3> QED
      BY <1>1, <3>3
  <2>4. m \in Nat /\ m - 1 \in Nat /\ m - 1 \notin B
    BY <2>1, <2>2, <2>3
  <2>5. PICK g : SumsOn(v, D, m - 1, g)
    BY <1>1, <2>4
  <2>6. PICK f : f = [s \in Small(D, m) |-> IF s = {} THEN 0 ELSE v[First(s)] + g[s \ {First(s)}]]
    OBVIOUS
  <2>7. ASSUME NEW s \in Small(D, m), s # {} PROVE f[s \ {First(s)}] = g[s \ {First(s)}]
    <3>1. PICK r : r = s \ {First(s)}
      OBVIOUS
    <3>2. IsFiniteSet(s) /\ Cardinality(s) <= m /\ s \in SUBSET D
      BY DEF Small
    <3>3. IsFiniteSet(r) /\ Cardinality(s) \in Nat /\ Cardinality(r) = Cardinality(s) - 1
      BY ONLY <2>7, <3>1, <3>2, WithoutFirst
    <3>4. Cardinality(r) <= m - 1 /\ Cardinality(r) <= m
      BY ONLY <2>4, <3>2, <3>3
    <3>5. r \in Small(D, m - 1) /\ r \in Small(D, m)
      BY <3>1, <3>2, <3>3, <3>4 DEF Small
    <3>6. f[r] = IF r = {} THEN 0 ELSE v[First(r)] + g[r \ {First(r)}]
      BY <2>6, <3>5
    <3>7. g[r] = IF r = {} THEN 0 ELSE v[First(r)] + g[r \ {First(r)}]
      BY <2>5, <3>5 DEF SumsOn
    <3> QED
      BY <3>1, <3>6, <3>7
  <2>8. f = [s \in Small(D, m) |-> IF s = {} THEN 0 ELSE v[First(s)] + f[s \ {First(s)}]]
    BY <2>6, <2>7
  <2>9. SumsOn(v, D, m, f)
    BY <2>8 DEF SumsOn
  <2> QED
    BY <1>1, <2>2, <2>9
<1> QED
  BY <1>2, <1>3

(* The sum of a set is what is taken first and the sum of the rest. *)
LEMMA SumsAre ==
  ASSUME NEW v, IsFiniteSet(DOMAIN v)
  PROVE  /\ Sums(v)[{}] = 0
         /\ \A s \in SUBSET DOMAIN v : s # {} =>
              Sums(v)[s] = v[First(s)] + Sums(v)[s \ {First(s)}]
<1>1. PICK D, n : D = DOMAIN v /\ n = Cardinality(D)
  OBVIOUS
<1>2. n \in Nat /\ IsFiniteSet(D)
  BY <1>1, FS_CardinalityType
<1>3. PICK g : SumsOn(v, D, n, g)
  BY ONLY <1>2, SumsExist
<1>4. Small(D, n) = SUBSET D
  <2>1. \A s \in SUBSET D : IsFiniteSet(s) /\ Cardinality(s) <= n
    BY <1>1, <1>2, FS_Subset
  <2> QED
    BY <2>1 DEF Small
<1>5. g = [s \in SUBSET D |-> IF s = {} THEN 0 ELSE v[First(s)] + g[s \ {First(s)}]]
  BY <1>3, <1>4 DEF SumsOn
<1>6. Sums(v) = [s \in SUBSET D |-> IF s = {} THEN 0 ELSE v[First(s)] + Sums(v)[s \ {First(s)}]]
  BY <1>1, <1>5 DEF Sums
<1>7. PICK h : h = Sums(v)
  OBVIOUS
<1>8. h = [s \in SUBSET D |-> IF s = {} THEN 0 ELSE v[First(s)] + h[s \ {First(s)}]]
  BY ONLY <1>6, <1>7
<1>9. h[{}] = 0 /\ \A s \in SUBSET D : s # {} => h[s] = v[First(s)] + h[s \ {First(s)}]
  BY ONLY <1>8
<1> QED
  BY ONLY <1>1, <1>7, <1>9

(* What holds of the empty set, and of a set if of it without its first element. *)
LEMMA SumsInduct ==
  ASSUME NEW D, IsFiniteSet(D), NEW Good,
         {} \in Good,
         \A s \in SUBSET D : s # {} /\ s \ {First(s)} \in Good => s \in Good
  PROVE  \A s \in SUBSET D : s \in Good
<1>1. PICK B : B = {Cardinality(s) : s \in {r \in SUBSET D : r \notin Good}}
  OBVIOUS
<1>2. \A s \in SUBSET D : IsFiniteSet(s) /\ Cardinality(s) \in Nat
  BY FS_Subset, FS_CardinalityType
<1>3. B \subseteq Nat
  BY <1>1, <1>2
<1>4. SUFFICES ASSUME B # {} PROVE FALSE
  BY <1>1
<1>5. PICK m \in B : \A k \in B : m <= k
  BY ONLY <1>3, <1>4, Least
<1>6. PICK s \in SUBSET D : s \notin Good /\ m = Cardinality(s)
  BY <1>1, <1>5
<1>7. s # {} /\ IsFiniteSet(s) /\ Cardinality(s) \in Nat
  BY <1>2, <1>6
<1>8. PICK r : r = s \ {First(s)}
  OBVIOUS
<1>9. r \in SUBSET D /\ Cardinality(r) = m - 1
  BY <1>6, <1>7, <1>8, WithoutFirst
<1>10. r \notin Good
  BY <1>6, <1>7, <1>8
<1>11. Cardinality(r) \in B
  BY <1>1, <1>9, <1>10
<1>12. m - 1 >= m /\ m \in Nat
  BY <1>3, <1>5, <1>9, <1>11
<1> QED
  BY ONLY <1>12

(* w is the sum of v and u, element by element *)
Adds(w, v, u, D) == \A x \in D : w[x] = v[x] + u[x]

(* The sum of a sum is the sum of the sums, *)
LEMMA SumsAdd ==
  ASSUME NEW D, IsFiniteSet(D), NEW v \in [D -> Nat], NEW u \in [D -> Nat], NEW w \in [D -> Nat],
         Adds(w, v, u, D)
  PROVE  /\ Sums(v)[D] \in Nat /\ Sums(u)[D] \in Nat
         /\ Sums(w)[D] = Sums(v)[D] + Sums(u)[D]
<1>1. PICK a, b, c : a = Sums(v) /\ b = Sums(u) /\ c = Sums(w)
  OBVIOUS
<1>2. /\ a[{}] = 0 /\ \A s \in SUBSET D : s # {} => a[s] = v[First(s)] + a[s \ {First(s)}]
      /\ b[{}] = 0 /\ \A s \in SUBSET D : s # {} => b[s] = u[First(s)] + b[s \ {First(s)}]
      /\ c[{}] = 0 /\ \A s \in SUBSET D : s # {} => c[s] = w[First(s)] + c[s \ {First(s)}]
  <2>1. DOMAIN v = D /\ DOMAIN u = D /\ DOMAIN w = D
    OBVIOUS
  <2> QED
    BY <1>1, <2>1, SumsAre
<1>3. PICK Good : Good = {s \in SUBSET D : a[s] \in Nat /\ b[s] \in Nat /\ c[s] = a[s] + b[s]}
  OBVIOUS
<1>4. {} \in Good
  BY <1>2, <1>3
<1>5. ASSUME NEW s \in SUBSET D, s # {}, s \ {First(s)} \in Good PROVE s \in Good
  <2>1. First(s) \in D
    BY <1>5 DEF First
  <2>2. PICK x \in Nat, y \in Nat : x = v[First(s)] /\ y = u[First(s)] /\ w[First(s)] = x + y
    BY <2>1 DEF Adds
  <2>3. PICK p, q, r : p = a[s \ {First(s)}] /\ q = b[s \ {First(s)}] /\ r = c[s \ {First(s)}]
    OBVIOUS
  <2>4. p \in Nat /\ q \in Nat /\ r = p + q
    BY <1>3, <1>5, <2>3
  <2>5. a[s] = x + p /\ b[s] = y + q /\ c[s] = (x + y) + r
    BY <1>2, <1>5, <2>2, <2>3
  <2>6. a[s] \in Nat /\ b[s] \in Nat /\ c[s] = a[s] + b[s]
    BY ONLY <2>2, <2>4, <2>5
  <2> QED
    BY <1>3, <2>6
<1>6. \A s \in SUBSET D : s \in Good
  BY ONLY IsFiniteSet(D), <1>4, <1>5, SumsInduct
<1>7. D \in Good
  BY <1>6
<1> QED
  BY <1>1, <1>3, <1>7

(* and that of a function that is 0 but for one element is what it is there. *)
LEMMA SumsSpike ==
  ASSUME NEW D, IsFiniteSet(D), NEW b \in D, NEW d \in Nat,
         NEW v, v = [x \in D |-> IF x = b THEN d ELSE 0]
  PROVE  Sums(v)[D] = d
<1>1. PICK a : a = Sums(v)
  OBVIOUS
<1>2. a[{}] = 0 /\ \A s \in SUBSET D : s # {} => a[s] = v[First(s)] + a[s \ {First(s)}]
  <2>1. DOMAIN v = D
    OBVIOUS
  <2> QED
    BY <1>1, <2>1, SumsAre
<1>3. PICK Good : Good = {s \in SUBSET D : a[s] = IF b \in s THEN d ELSE 0}
  OBVIOUS
<1>4. {} \in Good
  BY <1>2, <1>3
<1>5. ASSUME NEW s \in SUBSET D, s # {}, s \ {First(s)} \in Good PROVE s \in Good
  <2>1. First(s) \in D /\ First(s) \in s
    BY <1>5 DEF First
  <2>2. a[s] = v[First(s)] + a[s \ {First(s)}]
    BY <1>2, <1>5
  <2>3. v[First(s)] = IF First(s) = b THEN d ELSE 0
    BY <2>1
  <2>4. a[s \ {First(s)}] = IF b \in s \ {First(s)} THEN d ELSE 0
    BY <1>3, <1>5
  <2>5. a[s] = IF b \in s THEN d ELSE 0
    BY ONLY d \in Nat, <2>1, <2>2, <2>3, <2>4
  <2> QED
    BY <1>3, <2>5
<1>6. \A s \in SUBSET D : s \in Good
  BY ONLY IsFiniteSet(D), <1>4, <1>5, SumsInduct
<1> QED
  BY <1>1, <1>3, <1>6

(* SumBins of the values of a histogram. *)
LEMMA BinsFinite == IsFiniteSet(Bins) /\ Bins \subseteq Nat
<1>1. PICK n \in Nat : n = 2^HistLen
  BY HistogramAssumption
<1>2. 0 \in Int /\ n - 1 \in Int
  OBVIOUS
<1>3. IsFiniteSet(0 .. n - 1) /\ 0 .. n - 1 \subseteq Nat
  BY ONLY <1>2, FS_Interval
<1> QED
  BY <1>1, <1>3 DEF Bins

(* what a vector of the histogram may be *)
Values == [Bins -> Nat]

(* The same for the vectors of the histogram. *)
LEMMA SumPlus ==
  ASSUME NEW v \in Values, NEW u \in Values, NEW w \in Values, Adds(w, v, u, Bins)
  PROVE  SumBins(v) \in Nat /\ SumBins(u) \in Nat /\ SumBins(w) = SumBins(v) + SumBins(u)
<1>1. v \in [Bins -> Nat] /\ u \in [Bins -> Nat] /\ w \in [Bins -> Nat]
  BY DEF Values
<1>2. PICK D : D = Bins
  OBVIOUS
<1>3. /\ Sums(v)[D] \in Nat /\ Sums(u)[D] \in Nat
      /\ Sums(w)[D] = Sums(v)[D] + Sums(u)[D]
  <2>1. /\ v \in [D -> Nat] /\ u \in [D -> Nat] /\ w \in [D -> Nat] /\ IsFiniteSet(D)
        /\ Adds(w, v, u, D)
    BY <1>1, <1>2, BinsFinite
  <2> QED
    BY ONLY <2>1, SumsAdd
<1>4. DOMAIN v = D /\ DOMAIN u = D /\ DOMAIN w = D
  BY <1>1, <1>2
<1> QED
  BY <1>3, <1>4, SumIsSums

(* The sum of a vector is a natural number. *)
LEMMA SumIsNat == \A v \in Values : SumBins(v) \in Nat
<1> SUFFICES ASSUME NEW v \in Values PROVE SumBins(v) \in Nat
  OBVIOUS
<1>1. v \in [Bins -> Nat]
  BY DEF Values
<1>2. PICK u, w : u = [b \in Bins |-> 0] /\ w = v
  OBVIOUS
<1>3. u \in Values /\ w \in Values /\ \A b \in Bins : v[b] \in Nat /\ w[b] = v[b] /\ u[b] = 0
  BY <1>1, <1>2 DEF Values
<1>4. Adds(w, v, u, Bins)
  BY <1>3 DEF Adds
<1>5. v \in Values /\ u \in Values /\ w \in Values /\ Adds(w, v, u, Bins)
  BY <1>3, <1>4
<1> QED
  BY ONLY <1>5, SumPlus

(* The sum of a vector with one count. *)
LEMMA SumSpike ==
  ASSUME NEW b \in Bins, NEW d \in Nat, NEW v, v = [x \in Bins |-> IF x = b THEN d ELSE 0]
  PROVE  v \in Values /\ SumBins(v) = d
<1>1. v \in Values /\ DOMAIN v = Bins
  BY DEF Values
<1>2. Sums(v)[Bins] = d
  <2>1. PICK D : D = Bins
    OBVIOUS
  <2>2. IsFiniteSet(D) /\ b \in D /\ d \in Nat /\ v = [x \in D |-> IF x = b THEN d ELSE 0]
    BY <2>1, BinsFinite
  <2> QED
    BY ONLY <2>1, <2>2, SumsSpike
<1> QED
  BY <1>1, <1>2, SumIsSums

(* Counting a number of words in a bin adds it to the sum. *)
LEMMA SumAddTo ==
  ASSUME NEW v \in Values, NEW b \in Bins, NEW d \in Nat, NEW w, w = [v EXCEPT ![b] = @ + d]
  PROVE  /\ w \in Values /\ SumBins(v) \in Nat /\ SumBins(w) = SumBins(v) + d
         /\ \A x \in Bins : v[x] <= w[x]
<1>1. PICK u : u = [x \in Bins |-> IF x = b THEN d ELSE 0]
  OBVIOUS
<1>2. u \in Values /\ SumBins(u) = d
  BY ONLY <1>1, b \in Bins, d \in Nat, SumSpike
<1>3. v \in [Bins -> Nat] /\ v[b] \in Nat
  BY DEF Values
<1>4. w \in Values
  BY <1>3 DEF Values
<1>5. ASSUME NEW x \in Bins PROVE w[x] = v[x] + u[x] /\ v[x] <= w[x]
  <2>1. v[x] \in Nat /\ u[x] = (IF x = b THEN d ELSE 0) /\ w[x] = IF x = b THEN v[b] + d ELSE v[x]
    BY <1>1, <1>3
  <2> QED
    BY <2>1, <1>3
<1>6. Adds(w, v, u, Bins)
  BY <1>5 DEF Adds
<1>7. SumBins(v) \in Nat /\ SumBins(w) = SumBins(v) + SumBins(u)
  BY ONLY v \in Values, <1>2, <1>4, <1>6, SumPlus
<1> QED
  BY <1>2, <1>4, <1>5, <1>7

(* The sum of the empty vector. *)
LEMMA SumNone == NoBins \in Values /\ SumBins(NoBins) = 0
<1>1. NoBins \in Values
  BY DEF NoBins, Values
<1>2. PICK v : v = NoBins
  OBVIOUS
<1>3. v \in Values /\ \A b \in Bins : v[b] = 0
  BY <1>1, <1>2 DEF NoBins
<1>4. Adds(v, v, v, Bins)
  BY <1>3 DEF Adds
<1>5. SumBins(v) \in Nat /\ SumBins(v) = SumBins(v) + SumBins(v)
  <2>1. PICK u, w : u = v /\ w = v
    OBVIOUS
  <2>2. v \in Values /\ u \in Values /\ w \in Values /\ Adds(w, v, u, Bins)
    BY <1>3, <1>4, <2>1
  <2>3. SumBins(v) \in Nat /\ SumBins(w) = SumBins(v) + SumBins(u)
    BY ONLY <2>2, SumPlus
  <2> QED
    BY ONLY <2>1, <2>3
<1>6. SumBins(v) = 0
  <2>1. PICK n \in Nat : n = SumBins(v)
    BY ONLY <1>5
  <2>2. n = n + n
    BY ONLY <1>5, <2>1
  <2>3. n - n = n
    BY ONLY <2>2
  <2>4. n = 0
    BY ONLY <2>3
  <2> QED
    BY ONLY <2>1, <2>4
<1> QED
  BY <1>1, <1>2, <1>6
-----------------------------------------------------------------------------
(* The words of a trace are words of what was recorded. *)

(* all sets of a sequence are finite *)
AllFinite(W) == \A k \in DOMAIN W : IsFiniteSet(W[k])

(* Finitely many finite sets have a finite union: *)
LEMMA UnionFinite ==
  ASSUME NEW n \in Nat, NEW W, DOMAIN W = 1 .. n, AllFinite(W)
  PROVE  IsFiniteSet(UNION {W[k] : k \in 1 .. n})
<1>1. PICK T : T = {W[k] : k \in 1 .. n}
  OBVIOUS
<1>2. PICK V : V = [k \in 1 .. n |-> W[k]]
  OBVIOUS
<1>3. V \in Surjection(1 .. n, T)
  BY <1>1, <1>2 DEF Surjection
<1>4. IsFiniteSet(1 .. n)
  BY FS_Interval
<1>5. IsFiniteSet(T)
  BY <1>3, <1>4, FS_Surjection
<1>6. \A X \in T : IsFiniteSet(X)
  BY <1>1 DEF AllFinite
<1> QED
  BY <1>1, <1>5, <1>6, FS_UNION

(* a program touches finitely many words. *)
LEMMA FootprintFinite ==
  ASSUME NEW r \in Seq(Seq(Entry))
  PROVE  IsFiniteSet(Footprint(r))
<1>1. ASSUME NEW t \in DOMAIN r
      PROVE  IsFiniteSet(UNION {r[t][k].id .. r[t][k].id + Abs(r[t][k].size) - 1 : k \in DOMAIN r[t]})
  <2>1. PICK s : s = r[t]
    OBVIOUS
  <2>2. s \in Seq(Entry)
    BY <2>1
  <2>3. PICK n \in Nat : n = Len(s) /\ DOMAIN s = 1 .. n
    BY <2>2
  <2>4. PICK W : W = [k \in 1 .. n |-> s[k].id .. s[k].id + Abs(s[k].size) - 1]
    OBVIOUS
  <2>5. ASSUME NEW k \in 1 .. n PROVE IsFiniteSet(W[k])
    <3>1. s[k] \in Entry
      BY <2>2, <2>3
    <3>2. s[k].id \in Nat /\ s[k].size \in Int
      BY <3>1 DEF Entry
    <3>3. PICK e \in Nat, z \in Int : e = s[k].id /\ z = Abs(s[k].size)
      BY <3>2 DEF Abs
    <3>4. e \in Int /\ e + z - 1 \in Int
      OBVIOUS
    <3>5. IsFiniteSet(e .. e + z - 1)
      BY <3>4, FS_Interval
    <3> QED
      BY <2>4, <3>3, <3>5
  <2>6. DOMAIN W = 1 .. n /\ AllFinite(W)
    BY <2>4, <2>5 DEF AllFinite
  <2>7. IsFiniteSet(UNION {W[k] : k \in 1 .. n})
    BY ONLY n \in Nat, <2>6, UnionFinite
  <2>8. {W[k] : k \in 1 .. n} = {s[k].id .. s[k].id + Abs(s[k].size) - 1 : k \in 1 .. n}
    BY <2>4
  <2> QED
    BY <2>1, <2>3, <2>7, <2>8
<1>2. PICK n \in Nat : n = Len(r) /\ DOMAIN r = 1 .. n
  OBVIOUS
<1>3. PICK W : W = [t \in 1 .. n |->
                      UNION {r[t][k].id .. r[t][k].id + Abs(r[t][k].size) - 1 : k \in DOMAIN r[t]}]
  OBVIOUS
<1>4. DOMAIN W = 1 .. n /\ AllFinite(W)
  BY <1>1, <1>2, <1>3 DEF AllFinite
<1>5. IsFiniteSet(UNION {W[k] : k \in 1 .. n})
  BY ONLY n \in Nat, <1>4, UnionFinite
<1>6. Footprint(r) = UNION {W[k] : k \in 1 .. n}
  BY <1>2, <1>3 DEF Footprint
<1> QED
  BY <1>5, <1>6

(* every entry has the block of one that was recorded *)
FromRaw(s) ==
  \A k \in DOMAIN s : \E t \in DOMAIN raw : \E l \in DOMAIN raw[t] :
    raw[t][l].id = s[k].id /\ Abs(raw[t][l].size) = Abs(s[k].size)

(* Each word of what the tools write is one of the recorded ones. *)
OriginInv == raw \in Recordings /\ FromRaw(out) /\ FromRaw(trace)

(* The traces that are read are the recorded ones. *)
LEMMA InitOrigin == Init => OriginInv
BY DEF Init, ToolInit, StackInit, OriginInv, FromRaw

(* Every step of the pipeline keeps the words recorded ones. *)
LEMMA StepOrigin == OrderInv /\ OriginInv /\ [Next]_vars => OriginInv'
<1> SUFFICES ASSUME OrderInv, OriginInv, [Next]_vars PROVE OriginInv'
  OBVIOUS
<1>1. ASSUME NEW t \in DOMAIN raw, NEW name, Round(name, t), NEW e, out' = Append(out, e),
             e.id = NextOf(t).id, Abs(e.size) = Abs(NextOf(t).size)
      PROVE  FromRaw(out)'
  <2>1. raw' = raw /\ t \in Unread
    BY <1>1 DEF Round
  <2>2. index[t] \in DOMAIN raw[t] /\ NextOf(t) = raw[t][index[t]]
    <3>1. index[t] \in Nat \ {0} /\ raw[t] \in Seq(Entry) /\ index[t] <= Len(raw[t])
      BY <2>1 DEF OrderInv, Unread
    <3> QED
      BY <3>1 DEF NextOf
  <2>3. out \in Seq(OutEntry) /\ FromRaw(out)
    BY DEF OrderInv, OriginInv
  <2>4. PICK n \in Nat : n = Len(out) /\ DOMAIN out = 1 .. n
    BY <2>3
  <2>5. /\ DOMAIN out' = 1 .. n + 1 /\ out'[n + 1] = e
        /\ \A k \in 1 .. n : out'[k] = out[k]
    BY <1>1, <2>3, <2>4
  <2> SUFFICES ASSUME NEW k \in 1 .. n + 1
               PROVE  \E u \in DOMAIN raw : \E l \in DOMAIN raw[u] :
                        raw[u][l].id = out'[k].id /\ Abs(raw[u][l].size) = Abs(out'[k].size)
    BY <2>1, <2>5 DEF FromRaw, Abs
  <2>6. CASE k = n + 1
    BY <1>1, <2>2, <2>5, <2>6
  <2>7. CASE k # n + 1
    <3>1. k \in DOMAIN out /\ out'[k] = out[k]
      BY <2>4, <2>5, <2>7
    <3> QED
      BY <2>3, <3>1 DEF FromRaw
  <2> QED
    BY <2>6, <2>7
<1>2. ASSUME NEW t \in DOMAIN raw, MergeOne(t) PROVE FromRaw(out)'
  <2>1. PICK e : e = [NextOf(t) EXCEPT !.core = t]
    OBVIOUS
  <2>2. Round("merge", t) /\ t \in Unread /\ out' = Append(out, e)
    BY <1>2, <2>1 DEF MergeOne, Round
  <2>3. NextOf(t) \in Entry
    BY <2>2, NextIsEntry
  <2>4. e.id = NextOf(t).id /\ e.size = NextOf(t).size
    BY <2>1, <2>3 DEF Entry
  <2> QED
    BY <1>1, <2>2, <2>4
<1>3. ASSUME NEW t \in DOMAIN raw, CopyOwn(t) PROVE FromRaw(out)'
  <2>1. PICK e : e = [NextOf(t) EXCEPT !.size = Abs(@)]
    OBVIOUS
  <2>2. Round("coherence", t) /\ t \in Unread /\ out' = Append(out, e)
    BY <1>3, <2>1 DEF CopyOwn, Round
  <2>3. NextOf(t) \in Entry
    BY <2>2, NextIsEntry
  <2>4. e.id = NextOf(t).id /\ e.size = Abs(NextOf(t).size)
    BY <2>1, <2>3 DEF Entry
  <2>5. PICK z \in Int : z = NextOf(t).size
    BY <2>3 DEF Entry
  <2>6. Abs(Abs(z)) = Abs(z)
    BY DEF Abs
  <2> QED
    BY <1>1, <2>2, <2>4, <2>5, <2>6
<1>4. ASSUME NEW t \in DOMAIN raw, AddInvalidation(t) PROVE FromRaw(out)'
  BY <1>1, <1>4 DEF AddInvalidation
<1>5. raw' = raw
  BY DEF Next, vars, toolVars, ToolNext, MergeOne, CopyOwn, AddInvalidation, SkipRead, Round, Save,
         StartCut, CutStep, EndCut, StartWhole, StartPart, WriteHistogram, Accumulate
<1>7. ASSUME out' = out PROVE FromRaw(out)'
  BY <1>5, <1>7 DEF OriginInv, FromRaw, Abs
<1>8. FromRaw(out)'
  <2>1. CASE out' = out
    BY <1>7, <2>1
  <2>2. CASE out' # out
    <3>1. \E t \in DOMAIN raw : MergeOne(t) \/ CopyOwn(t) \/ AddInvalidation(t)
      BY <2>2 DEF Next, vars, toolVars, ToolNext, SkipRead, Save,
         StartCut, CutStep, EndCut, StartWhole, StartPart, WriteHistogram, Accumulate
    <3> QED
      BY <1>2, <1>3, <1>4, <3>1
  <2> QED
    BY <2>1, <2>2
<1>9. trace' = trace \/ trace' = out
  BY DEF Next, vars, stackVars, StartWhole, StartPart, Start, StackStep, Fetch, Finish, Walk, PassOver,
         TakeSome, TakeLast, ColdMiss, Probe, ProbeSome, ProbeLast, ProbeEnd, WriteHistogram, Accumulate
<1>10. FromRaw(trace)'
  <2>1. \A k \in DOMAIN trace' : \E t \in DOMAIN raw : \E l \in DOMAIN raw[t] :
          raw[t][l].id = trace'[k].id /\ Abs(raw[t][l].size) = Abs(trace'[k].size)
    BY <1>9 DEF OriginInv, FromRaw
  <2> QED
    BY <1>5, <2>1 DEF FromRaw, Abs
<1> QED
  BY <1>5, <1>8, <1>10 DEF OriginInv

(* There is a bin for each number of words, in the half that is written. *)
LEMMA BinOf ==
  ASSUME OrderInv, OriginInv, NEW n \in Nat \ {0}, n <= Cardinality(Words)
  PROVE  CeilLog2(n) \in Bins /\ 2 * CeilLog2(n) < 2^HistLen
<1>1. raw \in Seq(Seq(Entry)) /\ raw \in Recordings
  BY DEF OrderInv, OriginInv
<1>2. IsFiniteSet(Footprint(raw))
  BY <1>1, FootprintFinite
<1>3. Words \subseteq Footprint(raw)
  <2> SUFFICES ASSUME NEW k \in DOMAIN trace,
                      NEW w \in trace[k].id .. trace[k].id + Abs(trace[k].size) - 1
               PROVE  w \in Footprint(raw)
    BY DEF Words
  <2>1. PICK t \in DOMAIN raw : \E l \in DOMAIN raw[t] :
          raw[t][l].id = trace[k].id /\ Abs(raw[t][l].size) = Abs(trace[k].size)
    BY DEF OriginInv, FromRaw
  <2>2. PICK l \in DOMAIN raw[t] :
          raw[t][l].id = trace[k].id /\ Abs(raw[t][l].size) = Abs(trace[k].size)
    BY <2>1
  <2>3. w \in raw[t][l].id .. raw[t][l].id + Abs(raw[t][l].size) - 1
    BY <2>2
  <2> QED
    BY <2>3 DEF Footprint
<1>4. Cardinality(Words) <= Cardinality(Footprint(raw)) /\ Cardinality(Words) \in Nat
      /\ Cardinality(Footprint(raw)) \in Nat
  BY <1>2, <1>3, FS_Subset, FS_CardinalityType
<1>5. n \in 1 .. Cardinality(Footprint(raw))
  BY ONLY <1>4, n \in Nat \ {0}, n <= Cardinality(Words)
<1> QED
  BY <1>1, <1>5, HistogramAssumption, StoredAssumption
-----------------------------------------------------------------------------
(* The stack after a warm-up that the bloom filter has not seen. *)

(* the block of an entry of the trace *)
Given(s) == \E k \in DOMAIN trace : trace[k].id = s.elem /\ Abs(trace[k].size) = s.size

(* the first n blocks are known to the bloom filter, and no two of them are the same *)
Known(st, n, B) ==
  /\ n \in 0 .. Len(st)
  /\ \A x \in 1 .. n : st[x].elem \in B
  /\ \A x, y \in 1 .. n : st[x].elem = st[y].elem => x = y

(* what the bloom filter knows is among them, unless they are the whole stack *)
Covers(st, n, B) == n < Len(st) => \A e \in B : \E x \in 1 .. n : st[x].elem = e

(* an access finds its block among them, if at all *)
Ahead(st, n, e, k) ==
  /\ \A x \in 1 .. n : x < k => st[x].elem # e
  /\ k > Len(st) \/ n = Len(st) \/ \E x \in 1 .. n : x >= k /\ st[x].elem = e

(* the words of the blocks above the cursor *)
Passed(st, k) == UNION {Of(st[x]) : x \in 1 .. k - 1}

(* Two sequences one behind the other. *)
LEMMA CatIs ==
  ASSUME NEW a \in Seq(Block), NEW b \in Seq(Block), NEW n \in Nat, NEW m \in Nat,
         n = Len(a), m = Len(b)
  PROVE  /\ a \o b \in Seq(Block) /\ Len(a \o b) = n + m
         /\ \A x \in 1 .. n : (a \o b)[x] = a[x]
         /\ \A x \in 1 .. m : (a \o b)[x + n] = b[x]
<1>1. PICK c : c = a \o b
  OBVIOUS
<1>2. /\ c \in Seq(Block) /\ Len(c) = Len(a) + Len(b)
      /\ \A x \in DOMAIN a : x \in DOMAIN c /\ c[x] = a[x]
      /\ \A x \in DOMAIN b : x + Len(a) \in DOMAIN c /\ c[x + Len(a)] = b[x]
  BY <1>1, CatAt
<1>3. DOMAIN a = 1 .. n /\ DOMAIN b = 1 .. m
  OBVIOUS
<1> QED
  BY <1>1, <1>2, <1>3

(* A block that is new to the filter is put on top. *)
LEMMA KnownPush ==
  ASSUME NEW st \in Seq(Block), NEW n, NEW B, NEW e \in B, NEW t \in Block, t.elem = e,
         Known(st, n, B), Covers(st, n, B \ {e}), \A x \in 1 .. n : st[x].elem # e,
         NEW u, u = <<t>> \o st
  PROVE  u \in Seq(Block) /\ Len(u) = Len(st) + 1
         /\ Known(u, n + 1, B) /\ Covers(u, n + 1, B)
<1>1. <<t>> \in Seq(Block) /\ Len(<<t>>) = 1 /\ <<t>>[1] = t
  OBVIOUS
<1>2. PICK o : o = <<t>>
  OBVIOUS
<1>3. /\ u \in Seq(Block) /\ Len(u) = 1 + Len(st) /\ u[1] = t
      /\ \A x \in DOMAIN st : u[x + 1] = st[x]
  <2>1. PICK l \in Nat : l = Len(st) /\ DOMAIN st = 1 .. l
    OBVIOUS
  <2>2. o \in Seq(Block) /\ 1 = Len(o) /\ 1 \in Nat /\ o[1] = t /\ u = o \o st
    BY <1>1, <1>2
  <2>3. /\ u \in Seq(Block) /\ Len(u) = 1 + l
        /\ \A x \in 1 .. 1 : u[x] = o[x]
        /\ \A x \in 1 .. l : u[x + 1] = st[x]
    BY <2>1, <2>2, CatIs
  <2>4. 1 \in 1 .. 1
    OBVIOUS
  <2> QED
    BY ONLY <2>1, <2>2, <2>3, <2>4
<1>4. PICK l \in Nat : l = Len(st) /\ DOMAIN st = 1 .. l
  OBVIOUS
<1>5. n \in Nat /\ n <= l
  BY <1>4 DEF Known
<1>6. \A y \in 1 .. n + 1 : y = 1 \/ (y - 1 \in 1 .. n /\ u[y] = st[y - 1])
  <2> SUFFICES ASSUME NEW y \in 1 .. n + 1, y # 1 PROVE y - 1 \in 1 .. n /\ u[y] = st[y - 1]
    OBVIOUS
  <2>1. y - 1 \in 1 .. n /\ y - 1 \in 1 .. l /\ (y - 1) + 1 = y
    BY <1>5
  <2> QED
    BY <1>3, <1>4, <2>1
<1>7. n + 1 \in 0 .. Len(u)
  BY ONLY <1>3, <1>4, <1>5
<1>8. \A y \in 1 .. n + 1 : u[y].elem \in B
  BY <1>3, <1>6 DEF Known
<1>9. ASSUME NEW x \in 1 .. n + 1, NEW y \in 1 .. n + 1, u[x].elem = u[y].elem PROVE x = y
  <2>1. CASE x = 1
    BY <1>3, <1>6, <1>9, <2>1
  <2>2. CASE y = 1
    BY <1>3, <1>6, <1>9, <2>2
  <2>3. CASE x # 1 /\ y # 1
    <3>1. x - 1 = y - 1
      BY <1>6, <1>9, <2>3 DEF Known
    <3> QED
      BY ONLY <3>1, <1>5, x \in 1 .. n + 1, y \in 1 .. n + 1
  <2> QED
    BY <2>1, <2>2, <2>3
<1>10. ASSUME n + 1 < Len(u), NEW d \in B PROVE \E y \in 1 .. n + 1 : u[y].elem = d
  <2>1. CASE d = e
    <3>1. 1 \in 1 .. n + 1
      BY <1>5
    <3> QED
      BY <1>3, <2>1, <3>1
  <2>2. CASE d # e
    <3>1. n < Len(st)
      BY ONLY <1>3, <1>4, <1>5, <1>10
    <3>2. PICK x \in 1 .. n : st[x].elem = d
      BY <2>2, <3>1 DEF Covers
    <3>3. x + 1 \in 1 .. n + 1 /\ x \in 1 .. l
      BY <1>5
    <3> QED
      BY <1>3, <1>4, <3>2, <3>3
  <2> QED
    BY <2>1, <2>2
<1>11. Known(u, n + 1, B)
  BY <1>7, <1>8, <1>9 DEF Known
<1>12. Covers(u, n + 1, B)
  BY <1>10 DEF Covers
<1> QED
  BY <1>3, <1>11, <1>12

(* A block between two sequences. *)
Middle(st, a, s, c, n, m) == st = a \o <<s>> \o c /\ n = Len(a) /\ m = Len(c)

(* The blocks of a stack that is divided at a block. *)
LEMMA MiddleIs ==
  ASSUME NEW a \in Seq(Block), NEW c \in Seq(Block), NEW s \in Block, NEW st,
         NEW n \in Nat, NEW m \in Nat, Middle(st, a, s, c, n, m)
  PROVE  /\ st \in Seq(Block) /\ Len(st) = n + 1 + m
         /\ \A x \in 1 .. n : st[x] = a[x]
         /\ st[n + 1] = s
         /\ \A x \in 1 .. m : st[x + (n + 1)] = c[x]
<1>1. PICK o : o = <<s>>
  OBVIOUS
<1>2. o \in Seq(Block) /\ Len(o) = 1 /\ o[1] = s
  BY <1>1
<1>3. PICK d : d = a \o o
  OBVIOUS
<1>4. st = d \o c
  BY <1>1, <1>3 DEF Middle
<1>5. /\ d \in Seq(Block) /\ Len(d) = n + 1
      /\ \A x \in 1 .. n : d[x] = a[x]
      /\ d[n + 1] = s
  <2>1. /\ d \in Seq(Block) /\ Len(d) = n + 1
        /\ \A x \in 1 .. n : d[x] = a[x]
        /\ \A x \in 1 .. 1 : d[x + n] = o[x]
    <3>1. PICK j \in Nat : j = 1
      OBVIOUS
    <3>2. /\ a \in Seq(Block) /\ o \in Seq(Block) /\ n \in Nat /\ j \in Nat
          /\ n = Len(a) /\ j = Len(o) /\ d = a \o o
      BY <1>2, <1>3, <3>1 DEF Middle
    <3>3. /\ d \in Seq(Block) /\ Len(d) = n + j
          /\ \A x \in 1 .. n : d[x] = a[x]
          /\ \A x \in 1 .. j : d[x + n] = o[x]
      BY ONLY <3>2, CatIs
    <3> QED
      BY ONLY <3>1, <3>3
  <2>2. 1 \in 1 .. 1 /\ 1 + n = n + 1
    OBVIOUS
  <2> QED
    BY <1>2, <2>1, <2>2
<1>6. PICK l \in Nat : l = n + 1
  OBVIOUS
<1>7. /\ st \in Seq(Block) /\ Len(st) = l + m
      /\ \A x \in 1 .. l : st[x] = d[x]
      /\ \A x \in 1 .. m : st[x + l] = c[x]
  <2>1. /\ d \in Seq(Block) /\ c \in Seq(Block) /\ l \in Nat /\ m \in Nat
        /\ l = Len(d) /\ m = Len(c) /\ st = d \o c
    BY <1>4, <1>5, <1>6 DEF Middle
  <2> QED
    BY ONLY <2>1, CatIs
<1>8. n + 1 \in 1 .. l /\ \A x \in 1 .. n : x \in 1 .. l
  BY <1>6
<1> QED
  BY <1>5, <1>6, <1>7, <1>8

(* Another block in the place of one. *)
LEMMA PutAt ==
  ASSUME NEW a \in Seq(Block), NEW c \in Seq(Block), NEW s \in Block, NEW p \in Block,
         NEW st, st = a \o <<s>> \o c, NEW u, u = a \o <<p>> \o c
  PROVE  /\ u \in Seq(Block) /\ Len(u) = Len(st) /\ Len(a) + 1 \in 1 .. Len(st)
         /\ \A x \in 1 .. Len(st) : u[x] = IF x = Len(a) + 1 THEN p ELSE st[x]
<1>1. PICK n \in Nat, m \in Nat : n = Len(a) /\ m = Len(c)
  OBVIOUS
<1>2. /\ st \in Seq(Block) /\ Len(st) = n + 1 + m
      /\ \A x \in 1 .. n : st[x] = a[x]
      /\ st[n + 1] = s
      /\ \A x \in 1 .. m : st[x + (n + 1)] = c[x]
  <2>1. /\ a \in Seq(Block) /\ c \in Seq(Block) /\ s \in Block /\ n \in Nat /\ m \in Nat
        /\ Middle(st, a, s, c, n, m)
    BY <1>1 DEF Middle
  <2> QED
    BY ONLY <2>1, MiddleIs
<1>3. /\ u \in Seq(Block) /\ Len(u) = n + 1 + m
      /\ \A x \in 1 .. n : u[x] = a[x]
      /\ u[n + 1] = p
      /\ \A x \in 1 .. m : u[x + (n + 1)] = c[x]
  <2>1. /\ a \in Seq(Block) /\ c \in Seq(Block) /\ p \in Block /\ n \in Nat /\ m \in Nat
        /\ Middle(u, a, p, c, n, m)
    BY <1>1 DEF Middle
  <2> QED
    BY ONLY <2>1, MiddleIs
<1>5. ASSUME NEW x \in 1 .. n + 1 + m, x # n + 1 PROVE u[x] = st[x]
  <2>1. CASE x <= n
    <3>1. x \in 1 .. n
      BY <2>1
    <3> QED
      BY <1>2, <1>3, <3>1
  <2>2. CASE ~ (x <= n)
    <3>1. PICK y \in 1 .. m : x = y + (n + 1)
      <4>1. x - (n + 1) \in 1 .. m /\ x = (x - (n + 1)) + (n + 1)
        BY <1>5, <2>2
      <4> QED
        BY <4>1
    <3>2. u[y + (n + 1)] = c[y] /\ st[y + (n + 1)] = c[y]
      BY <1>2, <1>3
    <3> QED
      BY <3>1, <3>2
  <2> QED
    BY <2>1, <2>2
<1> QED
  BY <1>1, <1>2, <1>3, <1>5

(* A block goes to the top, and those that were above it down by one. *)
Moved(k, x) == IF x = 1 THEN k ELSE IF x <= k THEN x - 1 ELSE x

(* u is st with t on top in place of s, which is behind a *)
Topped(st, u, a, c, s, t, k) ==
  /\ Middle(st, a, s, c, Len(a), Len(c))
  /\ u = <<t>> \o (a \o c) /\ k = Len(a) + 1

(* The stack after its block in hand has moved to the top. *)
LEMMA MoveAt ==
  ASSUME NEW a \in Seq(Block), NEW c \in Seq(Block), NEW s \in Block, NEW t \in Block,
         NEW st, NEW u, NEW k, Topped(st, u, a, c, s, t, k)
  PROVE  /\ u \in Seq(Block) /\ Len(u) = Len(st) /\ u[1] = t /\ st[k] = s /\ k \in 1 .. Len(st)
         /\ \A x \in 2 .. Len(st) : Moved(k, x) \in 1 .. Len(st) /\ u[x] = st[Moved(k, x)]
<1>1. PICK p : p = <<t>>
  OBVIOUS
<1>2. p \in Seq(Block) /\ Len(p) = 1 /\ p[1] = t
  BY <1>1
<1>3. PICK f : f = a \o c
  OBVIOUS
<1>5. PICK n \in Nat, m \in Nat : n = Len(a) /\ m = Len(c)
  OBVIOUS
<1>4. Middle(st, a, s, c, n, m) /\ u = p \o f /\ k = Len(a) + 1
  BY <1>1, <1>3, <1>5 DEF Topped
<1>7. /\ f \in Seq(Block) /\ Len(f) = n + m
      /\ \A x \in 1 .. n : f[x] = a[x]
      /\ \A x \in 1 .. m : f[x + n] = c[x]
  BY <1>3, <1>5, CatIs
<1>8. /\ st \in Seq(Block) /\ Len(st) = n + 1 + m
      /\ \A x \in 1 .. n : st[x] = a[x]
      /\ st[n + 1] = s
      /\ \A x \in 1 .. m : st[x + (n + 1)] = c[x]
  <2>1. /\ a \in Seq(Block) /\ c \in Seq(Block) /\ s \in Block /\ n \in Nat /\ m \in Nat
        /\ Middle(st, a, s, c, n, m)
    BY <1>4
  <2> QED
    BY ONLY <2>1, MiddleIs
<1>9. /\ u \in Seq(Block) /\ Len(u) = 1 + (n + m) /\ u[1] = t
      /\ \A x \in 1 .. n + m : u[x + 1] = f[x]
  <2>1. PICK l \in Nat, j \in Nat : l = n + m /\ j = 1
    OBVIOUS
  <2>2. /\ p \in Seq(Block) /\ f \in Seq(Block) /\ j \in Nat /\ l \in Nat
        /\ j = Len(p) /\ l = Len(f) /\ u = p \o f
    BY <1>2, <1>4, <1>7, <2>1
  <2>3. /\ u \in Seq(Block) /\ Len(u) = j + l
        /\ \A x \in 1 .. j : u[x] = p[x]
        /\ \A x \in 1 .. l : u[x + j] = f[x]
    BY ONLY <2>2, CatIs
  <2>4. 1 \in 1 .. 1
    OBVIOUS
  <2> QED
    BY <1>2, <2>1, <2>3, <2>4
<1>10. k = n + 1 /\ k \in 1 .. Len(st) /\ Len(u) = Len(st)
  BY ONLY <1>4, <1>5, <1>8, <1>9
<1>11. st[k] = s
  BY <1>8, <1>10
<1>12. ASSUME NEW x \in 2 .. Len(st)
       PROVE  Moved(k, x) \in 1 .. Len(st) /\ u[x] = st[Moved(k, x)]
  <2>1. x \in 2 .. n + 1 + m
    BY <1>8
  <2>2. x - 1 \in 1 .. n + m /\ (x - 1) + 1 = x
    BY <2>1
  <2>3. u[x] = f[x - 1]
    BY <1>9, <2>2
  <2>4. CASE x <= n + 1
    <3>1. x - 1 \in 1 .. n /\ x - 1 \in 1 .. n + 1 /\ x # 1
      BY <2>1, <2>4
    <3>2. Moved(k, x) = x - 1
      BY <1>10, <2>4, <3>1 DEF Moved
    <3>3. st[x - 1] = a[x - 1]
      BY <1>8, <3>1
    <3>4. f[x - 1] = a[x - 1]
      BY <1>7, <3>1
    <3>5. x - 1 \in 1 .. n + 1 + m
      BY <2>2
    <3> QED
      BY <1>8, <2>3, <3>2, <3>3, <3>4, <3>5
  <2>5. CASE ~ (x <= n + 1)
    <3>1. x # 1 /\ x - (n + 1) \in 1 .. m /\ (x - (n + 1)) + n = x - 1 /\ (x - (n + 1)) + (n + 1) = x
      BY <2>1, <2>5
    <3>2. Moved(k, x) = x
      BY <1>10, <2>5, <3>1 DEF Moved
    <3>3. f[x - 1] = c[x - (n + 1)]
      BY <1>7, <3>1
    <3>4. st[x] = c[x - (n + 1)]
      BY <1>8, <3>1
    <3>5. x \in 1 .. n + 1 + m
      BY <2>1
    <3> QED
      BY <1>8, <2>3, <3>2, <3>3, <3>4, <3>5
  <2> QED
    BY <2>4, <2>5
<1> QED
  BY <1>9, <1>10, <1>11, <1>12

(* A known block that moves to the top stays known. *)
LEMMA KnownMove ==
  ASSUME NEW st, NEW u, NEW k, NEW n, NEW B, NEW l \in Nat, Len(st) = l, Len(u) = l,
         k \in 1 .. n, u[1].elem = st[k].elem,
         \A x \in 2 .. l : Moved(k, x) \in 1 .. l /\ u[x] = st[Moved(k, x)],
         Known(st, n, B), Covers(st, n, B \ {st[k].elem})
  PROVE  Known(u, n, B) /\ Covers(u, n, B)
<1>1. n \in 0 .. l /\ n \in Nat /\ k \in Nat /\ 1 <= k /\ k <= n
  BY DEF Known
<1>2. ASSUME NEW x \in 1 .. n PROVE Moved(k, x) \in 1 .. n /\ u[x].elem = st[Moved(k, x)].elem
  <2>1. CASE x = 1
    BY <1>1, <2>1 DEF Moved
  <2>2. CASE x # 1
    <3>1. x \in 2 .. l
      BY <1>1, <2>2
    <3>2. Moved(k, x) \in 1 .. n
      BY <1>1, <2>2 DEF Moved
    <3> QED
      BY <3>1, <3>2
  <2> QED
    BY <2>1, <2>2
<1>3. ASSUME NEW x \in 1 .. n, NEW y \in 1 .. n, Moved(k, x) = Moved(k, y) PROVE x = y
  BY <1>1, <1>3 DEF Moved
<1>4. ASSUME NEW y \in 1 .. n PROVE \E x \in 1 .. n : Moved(k, x) = y
  <2>1. CASE y = k
    <3>1. 1 \in 1 .. n /\ Moved(k, 1) = y
      BY <1>1, <2>1 DEF Moved
    <3> QED
      BY <3>1
  <2>2. CASE y < k
    <3>1. y + 1 \in 1 .. n /\ Moved(k, y + 1) = y
      BY <1>1, <2>2 DEF Moved
    <3> QED
      BY <3>1
  <2>3. CASE y > k
    <3>1. Moved(k, y) = y
      BY <1>1, <2>3 DEF Moved
    <3> QED
      BY <3>1
  <2> QED
    BY <1>1, <2>1, <2>2, <2>3
<1>5. Known(u, n, B)
  <2>1. \A x \in 1 .. n : u[x].elem \in B
    BY <1>2 DEF Known
  <2>2. ASSUME NEW x \in 1 .. n, NEW y \in 1 .. n, u[x].elem = u[y].elem PROVE x = y
    <3>1. PICK p, q : p = Moved(k, x) /\ q = Moved(k, y)
      OBVIOUS
    <3>2. p \in 1 .. n /\ q \in 1 .. n /\ st[p].elem = st[q].elem
      BY <1>2, <2>2, <3>1
    <3>3. p = q
      BY ONLY <3>2, Known(st, n, B) DEF Known
    <3> QED
      BY <1>3, <3>1, <3>3
  <2> QED
    BY <1>1, <2>1, <2>2 DEF Known
<1>6. ASSUME n < l, NEW e \in B PROVE \E x \in 1 .. n : u[x].elem = e
  <2>1. PICK y \in 1 .. n : st[y].elem = e
    BY <1>6 DEF Covers
  <2>2. PICK x \in 1 .. n : Moved(k, x) = y
    BY <1>4
  <2> QED
    BY <1>2, <2>1, <2>2
<1> QED
  BY <1>5, <1>6 DEF Covers

(* Marks do not matter. *)
LEMMA KnownKept ==
  ASSUME NEW st, NEW u, NEW n, NEW B, NEW l \in Nat, Len(st) = l, Len(u) = l,
         \A x \in 1 .. l : u[x].elem = st[x].elem, Known(st, n, B), Covers(st, n, B)
  PROVE  Known(u, n, B) /\ Covers(u, n, B)
<1>1. n \in 0 .. l /\ \A x \in 1 .. n : x \in 1 .. l
  BY DEF Known
<1>2. \A x \in 1 .. n : u[x].elem = st[x].elem
  BY <1>1
<1> QED
  BY <1>1, <1>2 DEF Known, Covers

(* Without its last block the stack is not known further down, nor less. *)
LEMMA KnownDrop ==
  ASSUME NEW st, NEW u, NEW n, NEW B, NEW l \in Nat, Len(st) = l + 1, Len(u) = l,
         \A x \in 1 .. l : u[x] = st[x], Known(st, n, B), Covers(st, n, B)
  PROVE  \E m \in Nat : Known(u, m, B) /\ Covers(u, m, B)
<1>1. n \in 0 .. l + 1
  BY DEF Known
<1>2. CASE n = l + 1
  <2>1. \A x \in 1 .. l : x \in 1 .. n
    BY <1>2
  <2>2. Known(u, l, B) /\ Covers(u, l, B)
    BY <2>1 DEF Known, Covers
  <2> QED
    BY <2>2
<1>3. CASE n # l + 1
  <2>1. n \in 0 .. l /\ n \in Nat /\ n < l + 1 /\ \A x \in 1 .. n : x \in 1 .. l
    BY <1>1, <1>3
  <2>2. \A x \in 1 .. n : u[x] = st[x]
    BY <2>1
  <2>3. Known(u, n, B)
    BY <2>1, <2>2 DEF Known
  <2>4. Covers(u, n, B)
    BY <2>1, <2>2 DEF Covers
  <2> QED
    BY <2>1, <2>3, <2>4
<1> QED
  BY <1>2, <1>3

(* what an access to a block that may be there finds *)
Search(n) ==
  /\ warm \/ trace[i].id \in bloom
  /\ Covers(stack, n, bloom \ {trace[i].id})
  /\ Ahead(stack, n, trace[i].id, at)
  /\ at <= Len(stack) => CountsTo(distance, Cardinality(Passed(stack, at)))

(* the stack of a job whose bloom filter has not seen the warm-up *)
BlindInv ==
  pc \in {"fetch", "walk", "probe"} /\ WarmedBlind =>
    /\ stack \in Seq(Block) /\ at \in Nat \ {0}
    /\ \A x \in DOMAIN stack : Given(stack[x])
    /\ pc # "fetch" => pending = size
    /\ warm => bloom = {}
    /\ \E n \in Nat : Known(stack, n, bloom)
                      /\ IF pc = "walk" THEN Search(n) ELSE Covers(stack, n, bloom)

(* Nothing is analysed in the beginning. *)
LEMMA InitBlind == Init => BlindInv
BY DEF Init, StackInit, BlindInv

(* A block of the trace is found as a whole. *)
LEMMA GivenMatch ==
  ASSUME JobInv, i <= Len(trace), job.disjoint, NEW s \in Block, Given(s), NEW m, m = Match(s)
  PROVE  /\ m.words \in Nat
         /\ m.words = 0 => s.elem # trace[i].id
         /\ m.words > 0 => /\ s.elem = trace[i].id /\ s.size = size
                           /\ m.words = size /\ m.start = s.elem
<1>1. m = [start |-> trace[i].id, words |-> IF s.elem = trace[i].id THEN size ELSE 0]
  BY DEF Match
<1>2. PICK k \in DOMAIN trace : trace[k].id = s.elem /\ Abs(trace[k].size) = s.size
  BY DEF Given
<1>3. i \in DOMAIN trace /\ Apart(trace)
  BY DEF JobInv
<1>4. size \in Nat \ {0} /\ size = Abs(trace[i].size) /\ trace[i].id \in Nat
  BY WordsInHand
<1>5. s.size \in Nat \ {0}
  BY DEF Block
<1>6. \/ trace[k].id = trace[i].id /\ Abs(trace[k].size) = Abs(trace[i].size)
      \/ trace[k].id + Abs(trace[k].size) <= trace[i].id
      \/ trace[i].id + Abs(trace[i].size) <= trace[k].id
  BY <1>3 DEF Apart
<1>7. m.start = trace[i].id /\ m.words = IF s.elem = trace[i].id THEN size ELSE 0
  BY <1>1
<1>8. ASSUME s.elem = trace[i].id PROVE s.size = size
  BY <1>2, <1>4, <1>5, <1>6, <1>8
<1> QED
  BY ONLY <1>4, <1>7, <1>8

(* Blocks of the trace that begin at different words are apart. *)
LEMMA GivenApart ==
  ASSUME JobInv, job.disjoint, NEW s \in Block, NEW t \in Block, Given(s), Given(t),
         s.elem # t.elem
  PROVE  Of(s) \intersect Of(t) = {}
<1>1. PICK k \in DOMAIN trace : trace[k].id = s.elem /\ Abs(trace[k].size) = s.size
  BY DEF Given
<1>2. PICK l \in DOMAIN trace : trace[l].id = t.elem /\ Abs(trace[l].size) = t.size
  BY DEF Given
<1>3. Apart(trace)
  BY DEF JobInv
<1>4. s.elem + s.size <= t.elem \/ t.elem + t.size <= s.elem
  BY <1>1, <1>2, <1>3 DEF Apart
<1>5. /\ Of(s) = s.elem .. s.elem + s.size - 1 /\ s.elem \in Int /\ s.size \in Nat
      /\ Of(t) = t.elem .. t.elem + t.size - 1 /\ t.elem \in Int /\ t.size \in Nat
  BY WordsOf
<1>6. PICK d \in Int, e \in Int, n \in Nat, l1 \in Nat :
        d = s.elem /\ e = t.elem /\ n = s.size /\ l1 = t.size
  BY <1>5
<1>7. (d .. d + n - 1) \intersect (e .. e + l1 - 1) = {}
  BY <1>4, <1>6
<1> QED
  BY <1>5, <1>6, <1>7

(* The block an entry becomes is that of an entry. *)
LEMMA TopIsGiven ==
  ASSUME JobInv, i <= Len(trace), NEW t, t = Top
  PROVE  t \in Block /\ Given(t) /\ t.elem = trace[i].id /\ t.size = size
<1>1. i \in DOMAIN trace /\ trace[i] \in OutEntry
  BY DEF JobInv
<1>2. trace[i].id \in Nat /\ trace[i].core \in Nat
  BY <1>1 DEF OutEntry
<1>3. size \in Nat \ {0} /\ size = Abs(trace[i].size)
  BY WordsInHand
<1>4. t = [elem |-> trace[i].id, size |-> size, inv |-> FALSE, core |-> trace[i].core]
  BY DEF Top
<1>5. t \in Block
  BY <1>2, <1>3, <1>4 DEF Block
<1>6. t.elem = trace[i].id /\ t.size = size
  BY <1>4
<1> QED
  BY <1>1, <1>3, <1>5, <1>6 DEF Given

(* Reading the next entry. *)
LEMMA FetchBlind ==
  ASSUME JobInv, BlindInv, WarmedBlind, Fetch PROVE BlindInv'
<1>1. /\ pc = "fetch" /\ i <= Len(trace) /\ trace' = trace /\ job' = job /\ i' = i /\ stack' = stack
      /\ warm' = WarmAt(i) /\ pending' = size /\ distance' = 0
      /\ at' = IF Unknown(trace[i]) THEN Len(stack) + 1 ELSE 1
  BY DEF Fetch
<1>2. PICK e : e = trace[i].id
  OBVIOUS
<1>3. /\ stack \in Seq(Block) /\ \A x \in DOMAIN stack : Given(stack[x])
      /\ warm => bloom = {}
      /\ job.disjoint
  BY <1>1 DEF BlindInv, WarmedBlind
<1>4. PICK n \in Nat : Known(stack, n, bloom) /\ Covers(stack, n, bloom)
  BY <1>1 DEF BlindInv
<1>5. /\ stack' \in Seq(Block) /\ at' \in Nat \ {0} /\ pending' = size'
      /\ (\A x \in DOMAIN stack : Given(stack[x]))'
  <2>1. Len(stack) \in Nat
    BY <1>3
  <2>2. size' = size
    BY <1>1 DEF size
  <2>3. at' = Len(stack) + 1 \/ at' = 1
    BY <1>1
  <2> QED
    BY <1>1, <1>3, <2>1, <2>2, <2>3 DEF Given
<1>6. warm' => warm
  BY <1>1 DEF WarmAt
<1>7. CASE IsProbe(trace[i])
  <2>1. bloom' = bloom /\ pc' = "probe"
    BY <1>7 DEF Fetch
  <2>2. Known(stack', n, bloom') /\ Covers(stack', n, bloom')
    BY <1>1, <1>4, <2>1
  <2> QED
    BY <1>3, <1>5, <1>6, <2>1, <2>2 DEF BlindInv
<1>8. CASE ~ IsProbe(trace[i])
  <2>1. pc' = "walk" /\ bloom' = IF job.disjoint /\ ~ WarmAt(i) THEN bloom \union {trace[i].id} ELSE bloom
    BY <1>8 DEF Fetch
  <2>2. Unknown(trace[i]) <=> e \notin bloom
    BY <1>2, <1>3 DEF Unknown
  <2>3. n \in 0 .. Len(stack) /\ Len(stack) \in Nat
    BY <1>3, <1>4 DEF Known
  <2>4. CASE warm'
    <3>1. bloom = {} /\ bloom' = {} /\ e \notin bloom
      BY <1>1, <1>3, <1>6, <2>1, <2>4
    <3>2. at' = Len(stack) + 1
      BY <1>1, <2>2, <3>1
    <3>3. n = 0
      <4>1. \A x \in 1 .. n : FALSE
        BY <1>4, <3>1 DEF Known
      <4> QED
        BY <4>1
    <3>4. Known(stack', n, bloom') /\ Covers(stack', n, bloom' \ {e})
      BY <1>1, <1>4, <3>1 DEF Covers
    <3>5. Ahead(stack', n, e, at') /\ ~ (at' <= Len(stack'))
      <4>1. at' > Len(stack) /\ ~ (at' <= Len(stack)) /\ 1 .. n = {}
        BY <2>3, <3>2, <3>3
      <4> QED
        BY <1>1, <4>1 DEF Ahead
    <3>6. Search(n)'
      BY <1>1, <1>2, <2>4, <3>4, <3>5 DEF Search
    <3> QED
      BY <1>5, <2>1, <3>1, <3>4, <3>6 DEF BlindInv
  <2>5. CASE ~ warm'
    <3>1. bloom' = bloom \union {e}
      BY <1>1, <1>2, <1>3, <2>1, <2>5
    <3>2. Known(stack, n, bloom')
      BY <1>4, <3>1 DEF Known
    <3>3. Covers(stack, n, bloom' \ {e})
      BY <1>4, <3>1 DEF Covers
    <3>4. Ahead(stack, n, e, at')
      <4>1. CASE e \notin bloom
        <5>1. \A x \in 1 .. n : stack[x].elem # e
          BY <1>4, <4>1 DEF Known
        <5>2. at' = Len(stack) + 1
          BY <1>1, <2>2, <4>1
        <5>3. at' > Len(stack)
          BY <2>3, <5>2
        <5> QED
          BY <5>1, <5>3 DEF Ahead
      <4>2. CASE e \in bloom
        <5>1. at' = 1
          BY <1>1, <2>2, <4>2
        <5>2. n = Len(stack) \/ \E x \in 1 .. n : stack[x].elem = e
          <6>1. n = Len(stack) \/ n < Len(stack)
            BY <2>3
          <6> QED
            BY <1>4, <4>2, <6>1 DEF Covers
        <5>3. \A x \in 1 .. n : ~ (x < 1) /\ x >= 1
          BY <2>3
        <5> QED
          BY <5>1, <5>2, <5>3 DEF Ahead
      <4> QED
        BY <4>1, <4>2
    <3>5. ASSUME at' <= Len(stack) PROVE CountsTo(distance', Cardinality(Passed(stack, at')))
      <4>1. at' = 1
        BY <1>1, <2>3, <3>5
      <4>2. Passed(stack, at') = {}
        <5>1. 1 .. at' - 1 = {}
          BY <4>1
        <5> QED
          BY <5>1 DEF Passed
      <4>3. Cardinality(Passed(stack, at')) = 0
        BY <4>2, FS_EmptySet
      <4>4. CountsTo(0, 0)
        BY DEF CountsTo
      <4> QED
        BY <1>1, <4>3, <4>4
    <3>6. Search(n)'
      <4>1. trace'[i'].id = e /\ e \in bloom'
        BY <1>1, <1>2, <3>1
      <4> QED
        BY <1>1, <3>3, <3>4, <3>5, <4>1 DEF Search
    <3>7. Known(stack', n, bloom')
      BY <1>1, <3>2
    <3> QED
      BY <1>5, <2>1, <2>5, <3>6, <3>7 DEF BlindInv
  <2> QED
    BY <2>4, <2>5
<1> QED
  BY <1>7, <1>8

(* Each block down to the one in hand adds its words to what has been passed. *)
LEMMA PassedGrows ==
  ASSUME JobInv, BlindInv, WarmedBlind, pc = "walk", at <= Len(stack), NEW s, s = stack[at]
  PROVE  /\ s \in Block /\ Given(s)
         /\ CountsTo(Grown(distance, s), Cardinality(Passed(stack, at + 1)))
<1>1. PICK e, k : e = trace[i].id /\ k = at
  OBVIOUS
<1>2. k <= Len(stack)
  BY <1>1
<1>3. /\ stack \in Seq(Block) /\ k \in Nat \ {0} /\ \A x \in DOMAIN stack : Given(stack[x])
      /\ job.disjoint
  BY <1>1 DEF BlindInv, WarmedBlind
<1>4. PICK n \in Nat : Known(stack, n, bloom) /\ Search(n)
  BY DEF BlindInv
<1>5. PICK l \in Nat : l = Len(stack) /\ DOMAIN stack = 1 .. l
  BY <1>3
<1>6. k \in DOMAIN stack /\ s \in Block /\ Given(s)
  <2>1. k \in DOMAIN stack
    BY <1>2, <1>3, <1>5
  <2> QED
    BY <1>1, <1>3, <2>1
<1>7. n \in 0 .. l /\ Ahead(stack, n, e, k)
  BY <1>1, <1>4, <1>5 DEF Known, Search
<1>8. k <= n
  BY <1>2, <1>3, <1>5, <1>7 DEF Ahead
<1>9. CountsTo(Grown(distance, s), Cardinality(Passed(stack, k + 1)))
  <2>1. PICK P, S : P = Passed(stack, k) /\ S = Of(s)
    OBVIOUS
  <2>2. Passed(stack, k + 1) = P \union S
    <3>1. 1 .. (k + 1) - 1 = (1 .. k - 1) \union {k}
      BY <1>3
    <3> QED
      BY <1>1, <2>1, <3>1 DEF Passed
  <2>3. P \intersect S = {}
    <3> SUFFICES ASSUME NEW x \in 1 .. k - 1 PROVE Of(stack[x]) \intersect S = {}
      BY <2>1 DEF Passed
    <3>1. x \in DOMAIN stack /\ x \in 1 .. n /\ k \in 1 .. n /\ x # k
      BY <1>3, <1>5, <1>7, <1>8
    <3>2. stack[x].elem # s.elem
      BY <1>1, <1>4, <3>1 DEF Known
    <3>3. stack[x] \in Block /\ Given(stack[x])
      BY <1>3, <3>1
    <3> QED
      BY <1>3, <1>6, <2>1, <3>2, <3>3, GivenApart
  <2>4. IsFiniteSet(S) /\ Cardinality(S) = s.size
    BY <1>6, <2>1, WordsOf
  <2>5. IsFiniteSet(P)
    <3>1. PICK m \in Nat : m = k - 1
      BY <1>3
    <3>2. PICK W : W = [x \in 1 .. m |-> Of(stack[x])]
      OBVIOUS
    <3>3. \A x \in 1 .. m : x \in DOMAIN stack
      BY <1>2, <1>3, <1>5, <3>1
    <3>4. \A x \in 1 .. m : IsFiniteSet(Of(stack[x]))
      BY <1>3, <3>3, WordsOf
    <3>5. DOMAIN W = 1 .. m /\ AllFinite(W)
      BY <3>2, <3>4 DEF AllFinite
    <3>6. IsFiniteSet(UNION {W[x] : x \in 1 .. m})
      BY ONLY m \in Nat, <3>5, UnionFinite
    <3>7. P = UNION {W[x] : x \in 1 .. m}
      BY <2>1, <3>1, <3>2 DEF Passed
    <3> QED
      BY <3>6, <3>7
  <2>6. Cardinality(P \union S) = Cardinality(P) + Cardinality(S)
    BY ONLY <2>3, <2>4, <2>5, AddWords
  <2>7. CountsTo(distance, Cardinality(P)) /\ Cardinality(P) \in Nat /\ s.size \in Nat
    BY <1>1, <1>2, <1>4, <2>1, <2>4, <2>5, FS_CardinalityType DEF Search
  <2>8. CountsTo(Grown(distance, s), Cardinality(P) + s.size)
    BY <2>7, GrownCounts
  <2> QED
    BY <2>2, <2>4, <2>6, <2>8
<1> QED
  BY <1>1, <1>6, <1>9

(* The block that an access looks for is the only one of its kind down to the last
   known: each that is passed adds its words to the distance. *)
LEMMA PassBlind ==
  ASSUME JobInv, BlindInv, WarmedBlind, PassOver PROVE BlindInv'
<1>1. PICK e, s, k : e = trace[i].id /\ s = stack[at] /\ k = at
  OBVIOUS
<1>2. /\ pc = "walk" /\ k <= Len(stack) /\ Match(s).words = 0 /\ pc' = pc
      /\ trace' = trace /\ job' = job /\ i' = i /\ stack' = stack /\ warm' = warm /\ bloom' = bloom
      /\ pending' = pending /\ distance' = Grown(distance, s) /\ at' = k + 1
  BY <1>1 DEF PassOver
<1>3. /\ stack \in Seq(Block) /\ k \in Nat \ {0} /\ \A x \in DOMAIN stack : Given(stack[x])
      /\ pending = size /\ (warm => bloom = {}) /\ job.disjoint /\ i <= Len(trace)
  BY <1>1, <1>2 DEF BlindInv, WarmedBlind, JobInv
<1>4. PICK n \in Nat : Known(stack, n, bloom) /\ Search(n)
  BY <1>2 DEF BlindInv
<1>5. PICK l \in Nat : l = Len(stack) /\ DOMAIN stack = 1 .. l
  BY <1>3
<1>6. k \in DOMAIN stack /\ s \in Block /\ Given(s) /\ s.elem # e
  <2>1. k \in DOMAIN stack
    BY <1>2, <1>3, <1>5
  <2>2. s \in Block /\ Given(s)
    BY <1>1, <1>3, <2>1
  <2> QED
    BY <1>1, <1>2, <1>3, <2>1, <2>2, GivenMatch
<1>7. n \in 0 .. l /\ Ahead(stack, n, e, k)
  BY <1>1, <1>4, <1>5 DEF Known, Search
<1>8. k <= n
  BY <1>2, <1>3, <1>5, <1>7 DEF Ahead
<1>9. Ahead(stack, n, e, k + 1)
  <2>1. ASSUME NEW x \in 1 .. n, x < k + 1 PROVE stack[x].elem # e
    <3>1. x < k \/ x = k
      BY <1>3, <2>1
    <3> QED
      BY <1>1, <1>6, <1>7, <3>1 DEF Ahead
  <2>2. n = Len(stack) \/ \E x \in 1 .. n : x >= k + 1 /\ stack[x].elem = e
    <3>1. CASE n = Len(stack)
      BY <3>1
    <3>2. CASE n # Len(stack)
      <4>1. PICK x \in 1 .. n : x >= k /\ stack[x].elem = e
        BY <1>2, <1>3, <1>5, <1>7, <3>2 DEF Ahead
      <4>2. x # k
        BY <1>1, <1>6, <4>1
      <4>3. x >= k + 1
        BY <1>3, <4>1, <4>2
      <4> QED
        BY <4>1, <4>3
    <3> QED
      BY <3>1, <3>2
  <2> QED
    BY <2>1, <2>2 DEF Ahead
<1>10. CountsTo(Grown(distance, s), Cardinality(Passed(stack, k + 1)))
  BY <1>1, <1>2, PassedGrows
<1>11. Search(n)'
  <2>1. warm' \/ trace'[i'].id \in bloom'
    BY <1>2, <1>4 DEF Search
  <2>2. Covers(stack, n, bloom \ {trace[i].id})
    BY <1>4 DEF Search
  <2> QED
    BY <1>1, <1>2, <1>9, <1>10, <2>1, <2>2 DEF Search
<1>12. /\ stack' \in Seq(Block) /\ at' \in Nat \ {0} /\ pending' = size' /\ (warm' => bloom' = {})
       /\ (\A x \in DOMAIN stack : Given(stack[x]))' /\ Known(stack', n, bloom')
  <2>1. size' = size
    BY <1>2 DEF size
  <2> QED
    BY <1>2, <1>3, <1>4, <2>1 DEF Given
<1> QED
  BY <1>2, <1>11, <1>12 DEF BlindInv

(* A block that is found moves to the top. *)
LEMMA TakeLastBlind ==
  ASSUME JobInv, BlindInv, WarmedBlind, TakeLast PROVE BlindInv'
<1>1. PICK e, s, k, m : e = trace[i].id /\ s = stack[at] /\ k = at /\ m = Match(s)
  OBVIOUS
<1>2. /\ pc = "walk" /\ k <= Len(stack) /\ m.words > 0 /\ pc' = "fetch"
      /\ trace' = trace /\ job' = job /\ warm' = warm /\ bloom' = bloom /\ at' = at
      /\ stack' = <<Top>> \o Replace(at, Rest(s, m))
  BY <1>1 DEF TakeLast, NextEntry, walkVars
<1>3. /\ stack \in Seq(Block) /\ k \in Nat \ {0} /\ \A x \in DOMAIN stack : Given(stack[x])
      /\ (warm => bloom = {}) /\ job.disjoint /\ i <= Len(trace)
  BY <1>1, <1>2 DEF BlindInv, WarmedBlind, JobInv
<1>4. PICK n \in Nat : Known(stack, n, bloom) /\ Search(n)
  BY <1>2 DEF BlindInv
<1>5. PICK l \in Nat : l = Len(stack) /\ DOMAIN stack = 1 .. l
  BY <1>3
<1>6. k \in DOMAIN stack /\ s \in Block /\ Given(s) /\ s.elem = e /\ m.start = s.elem /\ m.words = s.size
  <2>1. k \in DOMAIN stack
    BY <1>2, <1>3, <1>5
  <2>2. s \in Block /\ Given(s)
    BY <1>1, <1>3, <2>1
  <2> QED
    BY <1>1, <1>2, <1>3, <2>1, <2>2, GivenMatch
<1>7. n \in 0 .. l /\ Ahead(stack, n, e, k)
  BY <1>1, <1>4, <1>5 DEF Known, Search
<1>8. k \in 1 .. n
  BY <1>2, <1>3, <1>5, <1>7 DEF Ahead
<1>9. PICK st : st = stack
  OBVIOUS
<1>10. PICK a, c \in Seq(Block) :
         /\ a = SubSeq(st, 1, k - 1) /\ c = SubSeq(st, k + 1, Len(st)) /\ Len(a) = k - 1
         /\ st = a \o <<st[k]>> \o c
  <2>1. st \in Seq(Block) /\ k \in DOMAIN st
    BY <1>3, <1>6, <1>9
  <2> QED
    BY ONLY <2>1, SplitAt
<1>11. PICK t, u : t = Top /\ u = stack'
  OBVIOUS
<1>12. t \in Block /\ Given(t) /\ t.elem = e
  BY <1>1, <1>3, <1>11, TopIsGiven
<1>13. u = <<t>> \o (a \o c) /\ st = a \o <<s>> \o c /\ k = Len(a) + 1
  <2>1. Rest(s, m) = <<>>
    BY <1>6, WholeParts
  <2>2. Replace(at, <<>>) = a \o <<>> \o c
    BY <1>1, <1>9, <1>10 DEF Replace
  <2>3. a \o <<>> = a
    BY ConcatEmptySeq
  <2>4. k = Len(a) + 1
    BY <1>3, <1>10
  <2> QED
    BY <1>1, <1>2, <1>9, <1>10, <1>11, <2>1, <2>2, <2>3, <2>4
<1>14. /\ u \in Seq(Block) /\ Len(u) = l /\ u[1] = t
       /\ \A x \in 2 .. l : Moved(k, x) \in 1 .. l /\ u[x] = st[Moved(k, x)]
  <2>1. /\ a \in Seq(Block) /\ c \in Seq(Block) /\ s \in Block /\ t \in Block
        /\ Topped(st, u, a, c, s, t, k)
    BY <1>6, <1>12, <1>13 DEF Topped, Middle
  <2>2. /\ u \in Seq(Block) /\ Len(u) = Len(st) /\ u[1] = t
        /\ \A x \in 2 .. Len(st) : Moved(k, x) \in 1 .. Len(st) /\ u[x] = st[Moved(k, x)]
    BY ONLY <2>1, MoveAt
  <2> QED
    BY <1>5, <1>9, <2>2
<1>15. Known(u, n, bloom) /\ Covers(u, n, bloom)
  <2>1. u[1].elem = st[k].elem /\ Len(st) = l /\ st[k].elem = e
    BY <1>1, <1>5, <1>6, <1>9, <1>12, <1>14
  <2>2. Known(st, n, bloom) /\ Covers(st, n, bloom \ {st[k].elem})
    BY <1>1, <1>4, <1>9, <2>1 DEF Search
  <2>3. PICK B : B = bloom
    OBVIOUS
  <2>4. Known(st, n, B) /\ Covers(st, n, B \ {st[k].elem})
    BY <2>2, <2>3
  <2>5. Known(u, n, B) /\ Covers(u, n, B)
    BY ONLY l \in Nat, <1>8, <1>14, <2>1, <2>4, KnownMove
  <2> QED
    BY <2>3, <2>5
<1>16. ASSUME NEW x \in DOMAIN u PROVE Given(u[x])
  <2>1. x \in 1 .. l
    BY <1>14
  <2>2. CASE x = 1
    BY <1>12, <1>14, <2>2
  <2>3. CASE x # 1
    <3>1. x \in 2 .. l
      BY <2>1, <2>3
    <3> QED
      BY <1>3, <1>5, <1>9, <1>14, <3>1
  <2> QED
    BY <2>2, <2>3
<1>17. (\A x \in DOMAIN stack : Given(stack[x]))'
  BY <1>2, <1>11, <1>16 DEF Given
<1>18. stack' \in Seq(Block) /\ at' \in Nat \ {0} /\ (warm' => bloom' = {})
       /\ Known(stack', n, bloom') /\ Covers(stack', n, bloom')
  BY <1>1, <1>2, <1>3, <1>11, <1>14, <1>15
<1> QED
  BY <1>2, <1>17, <1>18 DEF BlindInv

(* A block that is not found comes on top. *)
LEMMA ColdMissBlind ==
  ASSUME JobInv, BlindInv, WarmedBlind, ColdMiss PROVE BlindInv'
<1>1. PICK e, k : e = trace[i].id /\ k = at
  OBVIOUS
<1>2. /\ pc = "walk" /\ k > Len(stack) /\ pc' = "fetch"
      /\ trace' = trace /\ job' = job /\ warm' = warm /\ bloom' = bloom /\ at' = at
      /\ stack' = <<Top>> \o stack
  BY <1>1 DEF ColdMiss, NextEntry, walkVars
<1>3. /\ stack \in Seq(Block) /\ k \in Nat \ {0} /\ \A x \in DOMAIN stack : Given(stack[x])
      /\ (warm => bloom = {}) /\ job.disjoint /\ i <= Len(trace)
  BY <1>1, <1>2 DEF BlindInv, WarmedBlind, JobInv
<1>4. PICK n \in Nat : Known(stack, n, bloom) /\ Search(n)
  BY <1>2 DEF BlindInv
<1>5. PICK t, u, st, B : t = Top /\ u = stack' /\ st = stack /\ B = bloom
  OBVIOUS
<1>6. t \in Block /\ Given(t) /\ t.elem = e
  BY <1>1, <1>3, <1>5, TopIsGiven
<1>7. PICK l \in Nat : l = Len(st) /\ DOMAIN st = 1 .. l
  BY <1>3, <1>5
<1>8. PICK o : o = <<t>>
  OBVIOUS
<1>9. /\ u \in Seq(Block) /\ Len(u) = 1 + l /\ u[1] = t
      /\ \A x \in 1 .. l : u[x + 1] = st[x]
  <2>1. PICK j \in Nat : j = 1
    OBVIOUS
  <2>2. o \in Seq(Block) /\ Len(o) = 1 /\ o[1] = t
    BY <1>6, <1>8
  <2>3. /\ o \in Seq(Block) /\ st \in Seq(Block) /\ j \in Nat /\ l \in Nat
        /\ j = Len(o) /\ l = Len(st) /\ u = o \o st
    BY <1>2, <1>3, <1>5, <1>7, <1>8, <2>1, <2>2
  <2>4. /\ u \in Seq(Block) /\ Len(u) = j + l
        /\ \A x \in 1 .. j : u[x] = o[x]
        /\ \A x \in 1 .. l : u[x + j] = st[x]
    BY ONLY <2>3, CatIs
  <2>5. 1 \in 1 .. 1
    OBVIOUS
  <2> QED
    BY <2>1, <2>2, <2>4, <2>5
<1>10. ASSUME NEW x \in DOMAIN u PROVE Given(u[x])
  <2>1. x \in 1 .. 1 + l
    BY <1>9
  <2>2. CASE x = 1
    BY <1>6, <1>9, <2>2
  <2>3. CASE x # 1
    <3>1. x - 1 \in 1 .. l /\ (x - 1) + 1 = x
      BY <2>1, <2>3
    <3>2. u[x] = st[x - 1]
      BY <1>9, <3>1
    <3> QED
      BY <1>3, <1>5, <1>7, <3>1, <3>2
  <2> QED
    BY <2>2, <2>3
<1>11. (\A x \in DOMAIN stack : Given(stack[x]))'
  BY <1>2, <1>5, <1>10 DEF Given
<1>12. \E x \in Nat : Known(u, x, B) /\ Covers(u, x, B)
  <2>1. CASE warm
    <3>1. B = {}
      BY <1>3, <1>5, <2>1
    <3>2. 0 \in 0 .. Len(u) /\ 1 .. 0 = {}
      BY <1>9
    <3>3. Known(u, 0, B) /\ Covers(u, 0, B)
      BY <3>1, <3>2 DEF Known, Covers
    <3> QED
      BY <3>3
  <2>2. CASE ~ warm
    <3>1. e \in B /\ Known(st, n, B) /\ Covers(st, n, B \ {e}) /\ Ahead(st, n, e, k)
      BY <1>1, <1>4, <1>5, <2>2 DEF Search
    <3>2. \A x \in 1 .. n : x < k
      BY <1>2, <1>3, <1>5, <1>7, <3>1 DEF Known
    <3>3. \A x \in 1 .. n : st[x].elem # e
      BY <3>1, <3>2 DEF Ahead
    <3>4. st \in Seq(Block) /\ t \in Block /\ t.elem = e /\ u = <<t>> \o st
      BY <1>2, <1>3, <1>5, <1>6
    <3>5. Known(u, n + 1, B) /\ Covers(u, n + 1, B)
      BY ONLY <3>1, <3>3, <3>4, KnownPush
    <3>6. n + 1 \in Nat
      OBVIOUS
    <3> QED
      BY <3>5, <3>6
  <2> QED
    BY <2>1, <2>2
<1>13. /\ stack' \in Seq(Block) /\ at' \in Nat \ {0} /\ (warm' => bloom' = {})
       /\ \E x \in Nat : Known(stack', x, bloom') /\ Covers(stack', x, bloom')
  BY <1>1, <1>2, <1>3, <1>5, <1>9, <1>12
<1> QED
  BY <1>2, <1>11, <1>13 DEF BlindInv

(* A probe marks a block as a whole, *)
LEMMA MarkedWhole ==
  ASSUME NEW s \in Block, NEW m, m.start = s.elem, m.words = s.size, trace[i].core \in Nat
  PROVE  \E p \in Block : p.elem = s.elem /\ p.size = s.size /\ Marked(s, m) = <<p>>
<1>1. PICK e \in Int, n \in Nat \ {0} : e = s.elem /\ n = s.size
  BY DEF Block
<1>2. Before(s, m) = <<>>
  <2>1. ~ (e < e)
    BY <1>1
  <2> QED
    BY <1>1, <2>1 DEF Before, Part
<1>3. Behind(s, m) = <<>>
  <2>1. ~ (e + n < e + n)
    BY <1>1
  <2> QED
    BY <1>1, <2>1 DEF Behind, Part
<1>4. PICK t : t = [s EXCEPT !.inv = TRUE, !.core = trace[i].core]
  OBVIOUS
<1>5. PICK p : p = [t EXCEPT !.elem = e, !.size = (e + n) - e]
  OBVIOUS
<1>6. (e + n) - e = n
  OBVIOUS
<1>7. t \in Block
  BY <1>4 DEF Block
<1>8. p \in Block /\ p.elem = e /\ p.size = n
  BY <1>1, <1>5, <1>6, <1>7 DEF Block
<1>9. Marked(s, m) = <<>> \o <<p>> \o <<>>
  <2>1. Larger(e, e) = e /\ Smaller(e + n, e + n) = e + n /\ e < e + n
    BY <1>1 DEF Larger, Smaller
  <2>2. Part(t, e, e + n) = <<p>>
    BY <1>5, <2>1 DEF Part
  <2> QED
    BY <1>1, <1>2, <1>3, <1>4, <2>1, <2>2 DEF Marked
<1>10. <<>> \o <<p>> \o <<>> = <<p>>
  <2>1. <<p>> \in Seq({p})
    OBVIOUS
  <2>2. <<>> \o <<p>> = <<p>> /\ <<p>> \o <<>> = <<p>>
    BY <2>1, ConcatEmptySeq
  <2> QED
    BY <2>2
<1> QED
  BY <1>1, <1>8, <1>9, <1>10

(* a probe that finds its block marks it, *)
LEMMA ProbeLastBlind ==
  ASSUME JobInv, BlindInv, WarmedBlind, ProbeLast PROVE BlindInv'
<1>1. PICK s, k, m : s = stack[at] /\ k = at /\ m = Match(s)
  OBVIOUS
<1>2. /\ pc = "probe" /\ k <= Len(stack) /\ m.words > 0 /\ pc' = "fetch"
      /\ trace' = trace /\ job' = job /\ warm' = warm /\ bloom' = bloom /\ at' = at
      /\ stack' = Replace(at, Marked(s, m))
  BY <1>1 DEF ProbeLast, NextEntry, walkVars
<1>3. /\ stack \in Seq(Block) /\ k \in Nat \ {0} /\ \A x \in DOMAIN stack : Given(stack[x])
      /\ (warm => bloom = {}) /\ job.disjoint /\ i <= Len(trace)
  BY <1>1, <1>2 DEF BlindInv, WarmedBlind, JobInv
<1>4. PICK n \in Nat : Known(stack, n, bloom) /\ Covers(stack, n, bloom)
  BY <1>2 DEF BlindInv
<1>5. PICK l \in Nat : l = Len(stack) /\ DOMAIN stack = 1 .. l
  BY <1>3
<1>6. k \in DOMAIN stack /\ s \in Block /\ m.start = s.elem /\ m.words = s.size
  <2>1. k \in DOMAIN stack
    BY <1>2, <1>3, <1>5
  <2>2. s \in Block /\ Given(s)
    BY <1>1, <1>3, <2>1
  <2> QED
    BY <1>1, <1>2, <1>3, <2>1, <2>2, GivenMatch
<1>7. trace[i].core \in Nat
  <2>1. trace[i] \in OutEntry
    BY <1>3 DEF JobInv
  <2> QED
    BY <2>1 DEF OutEntry
<1>8. PICK p \in Block : p.elem = s.elem /\ p.size = s.size /\ Marked(s, m) = <<p>>
  BY <1>6, <1>7, MarkedWhole
<1>9. PICK st, u, B : st = stack /\ u = stack' /\ B = bloom
  OBVIOUS
<1>10. PICK a, c \in Seq(Block) :
         /\ a = SubSeq(st, 1, k - 1) /\ c = SubSeq(st, k + 1, Len(st)) /\ Len(a) = k - 1
         /\ st = a \o <<st[k]>> \o c
  <2>1. st \in Seq(Block) /\ k \in DOMAIN st
    BY <1>3, <1>6, <1>9
  <2> QED
    BY ONLY <2>1, SplitAt
<1>11. u = a \o <<p>> \o c /\ st = a \o <<s>> \o c
  BY <1>1, <1>2, <1>8, <1>9, <1>10 DEF Replace
<1>12. u \in Seq(Block) /\ Len(u) = l /\ u[k] = p /\ \A x \in 1 .. l : x # k => u[x] = st[x]
  <2>1. k = Len(a) + 1
    BY <1>3, <1>10
  <2>2. /\ u \in Seq(Block) /\ Len(u) = Len(st)
        /\ \A x \in 1 .. Len(st) : u[x] = IF x = Len(a) + 1 THEN p ELSE st[x]
    BY <1>6, <1>11, PutAt
  <2> QED
    BY <1>5, <1>6, <1>9, <2>1, <2>2
<1>13. \A x \in 1 .. l : u[x].elem = st[x].elem /\ u[x].size = st[x].size
  BY <1>1, <1>8, <1>9, <1>12
<1>14. Known(u, n, B) /\ Covers(u, n, B)
  <2>1. Len(st) = l /\ Known(st, n, B) /\ Covers(st, n, B) /\ Len(u) = l
        /\ \A x \in 1 .. l : u[x].elem = st[x].elem
    BY <1>4, <1>5, <1>9, <1>12, <1>13
  <2> QED
    BY ONLY l \in Nat, <2>1, KnownKept
<1>15. (\A x \in DOMAIN stack : Given(stack[x]))'
  <2>1. DOMAIN u = 1 .. l
    BY <1>12
  <2>2. \A x \in 1 .. l : Given(stack[x])
    BY <1>3, <1>5
  <2> QED
    BY <1>2, <1>9, <1>13, <2>1, <2>2 DEF Given
<1>16. /\ stack' \in Seq(Block) /\ at' \in Nat \ {0} /\ (warm' => bloom' = {})
       /\ Known(stack', n, bloom') /\ Covers(stack', n, bloom')
  BY <1>1, <1>2, <1>3, <1>9, <1>12, <1>14
<1> QED
  BY <1>2, <1>15, <1>16 DEF BlindInv

(* and one that reaches the end of the stack leaves it. *)
LEMMA ProbeEndBlind ==
  ASSUME JobInv, BlindInv, WarmedBlind, ProbeEnd PROVE BlindInv'
<1>1. /\ pc = "probe" /\ pc' = "fetch" /\ trace' = trace /\ warm' = warm /\ bloom' = bloom
      /\ at' = at /\ stack' = stack
  BY DEF ProbeEnd, NextEntry, walkVars
<1>2. (\A x \in DOMAIN stack : Given(stack[x]))'
  BY <1>1 DEF BlindInv, Given
<1>3. /\ stack' \in Seq(Block) /\ at' \in Nat \ {0} /\ (warm' => bloom' = {})
      /\ \E n \in Nat : Known(stack', n, bloom') /\ Covers(stack', n, bloom')
  BY <1>1 DEF BlindInv
<1> QED
  BY <1>1, <1>2, <1>3 DEF BlindInv

(* and goes on down the stack if it has not found it. *)
LEMMA ProbeSomeBlind ==
  ASSUME JobInv, BlindInv, WarmedBlind, ProbeSome PROVE BlindInv'
<1>1. PICK s, k, m, st, u, B : s = stack[at] /\ k = at /\ m = Match(s) /\ st = stack /\ u = stack' /\ B = bloom
  OBVIOUS
<1>2. /\ pc = "probe" /\ k <= Len(st) /\ pc' = "probe" /\ m.words # pending
      /\ pending' = pending - m.words
      /\ trace' = trace /\ job' = job /\ i' = i /\ warm' = warm /\ bloom' = bloom
  BY <1>1 DEF ProbeSome
<1>3. /\ st \in Seq(Block) /\ k \in Nat \ {0} /\ \A x \in DOMAIN st : Given(st[x])
      /\ (warm => B = {}) /\ job.disjoint /\ i <= Len(trace) /\ pending = size
  BY <1>1, <1>2 DEF BlindInv, WarmedBlind, JobInv
<1>4. PICK n \in Nat : Known(st, n, B) /\ Covers(st, n, B)
  BY <1>1, <1>2 DEF BlindInv
<1>5. PICK l \in Nat : l = Len(st) /\ DOMAIN st = 1 .. l
  BY <1>3
<1>6. m.words = 0
  <2>1. k \in DOMAIN st
    BY <1>2, <1>3, <1>5
  <2>2. s \in Block /\ Given(s)
    BY <1>1, <1>3, <2>1
  <2>3. m.words \in Nat /\ (m.words > 0 => m.words = size)
    BY <1>1, <1>3, <2>2, GivenMatch
  <2> QED
    BY <1>2, <1>3, <2>3
<1>7. IF UselessTail(st) THEN u = Front(st) /\ at' = at ELSE u = st /\ at' = at + 1
  BY <1>1, <1>6 DEF ProbeSome
<1>8. pending' = size' /\ at' \in Nat \ {0}
  <2>1. size' = size /\ size \in Nat \ {0}
    BY <1>2, <1>3, WordsInHand DEF size
  <2>2. at' = at \/ at' = at + 1
    BY <1>7
  <2> QED
    BY <1>1, <1>2, <1>3, <1>6, <2>1, <2>2
<1>9. /\ u \in Seq(Block) /\ \A x \in DOMAIN u : x \in DOMAIN st /\ u[x] = st[x]
      /\ \E x \in Nat : Known(u, x, B) /\ Covers(u, x, B)
  <2>1. CASE ~ UselessTail(st)
    BY <1>3, <1>4, <1>7, <2>1
  <2>2. CASE UselessTail(st)
    <3>1. l > 0 /\ l - 1 \in Nat
      BY <1>1, <1>2, <1>3, <1>5
    <3>2. PICK h \in Nat : h = l - 1
      BY <3>1
    <3>3. u = SubSeq(st, 1, h)
      BY <1>5, <1>7, <2>2, <3>2 DEF Front
    <3>4. \A x \in 1 .. h : x \in 1 .. l /\ st[x] \in Block
      <4>1. \A x \in 1 .. h : x \in 1 .. l
        BY <3>2
      <4> QED
        BY <1>3, <1>5, <4>1
    <3>5. u \in Seq(Block) /\ Len(u) = h /\ \A x \in 1 .. h : u[x] = st[x]
      <4>1. 1 \in Int /\ h \in Int
        OBVIOUS
      <4> QED
        BY <3>3, <3>4, <4>1, SubSeqProperties
    <3>6. Len(st) = h + 1 /\ Known(st, n, B) /\ Covers(st, n, B)
      BY <1>4, <1>5, <3>2
    <3>7. \E x \in Nat : Known(u, x, B) /\ Covers(u, x, B)
      BY ONLY h \in Nat, <3>5, <3>6, KnownDrop
    <3>8. DOMAIN u = 1 .. h
      BY <3>5
    <3> QED
      BY <1>5, <3>4, <3>5, <3>7, <3>8
  <2> QED
    BY <2>1, <2>2
<1>10. (\A x \in DOMAIN stack : Given(stack[x]))'
  BY <1>1, <1>2, <1>3, <1>9 DEF Given
<1>11. /\ stack' \in Seq(Block) /\ (warm' => bloom' = {})
       /\ \E x \in Nat : Known(stack', x, bloom') /\ Covers(stack', x, bloom')
  BY <1>1, <1>2, <1>3, <1>9
<1> QED
  BY <1>2, <1>8, <1>10, <1>11 DEF BlindInv

(* A call begins with an empty stack. *)
LEMMA StartBlind ==
  ASSUME NEW tr, NEW jb, Start(tr, jb)
  PROVE  BlindInv'
<1>1. pc' = "fetch" /\ stack' = <<>> /\ at' = 1 /\ bloom' = {}
  BY DEF Start
<1>2. PICK st : st = <<>>
  OBVIOUS
<1>3. st \in Seq(Block) /\ DOMAIN st = {} /\ Len(st) = 0
  BY <1>2
<1>4. Known(st, 0, {}) /\ Covers(st, 0, {})
  <2>1. 0 \in 0 .. 0 /\ 1 .. 0 = {}
    OBVIOUS
  <2> QED
    BY <1>3, <2>1 DEF Known, Covers
<1>5. (\A x \in DOMAIN stack : Given(stack[x]))'
  BY <1>1, <1>2, <1>3
<1>6. stack' \in Seq(Block) /\ Known(stack', 0, bloom') /\ Covers(stack', 0, bloom')
  BY <1>1, <1>2, <1>3, <1>4
<1> QED
  BY <1>1, <1>5, <1>6 DEF BlindInv

(* Every step of the pipeline keeps the stack of a blind job. *)
LEMMA StepBlind == JobInv /\ BlindInv /\ [Next]_vars => BlindInv'
<1> SUFFICES ASSUME JobInv, BlindInv, [Next]_vars PROVE BlindInv'
  OBVIOUS
<1>1. CASE UNCHANGED stackVars
  <2>1. /\ trace' = trace /\ job' = job /\ i' = i /\ pc' = pc /\ stack' = stack /\ at' = at
        /\ pending' = pending /\ distance' = distance /\ bloom' = bloom /\ warm' = warm
    BY <1>1 DEF stackVars, walkVars
  <2>2. size' = size /\ (WarmedBlind' <=> WarmedBlind)
    BY <2>1 DEF size, WarmedBlind
  <2>3. \A s : Given(s)' <=> Given(s)
    BY <2>1 DEF Given
  <2>4. \A n : Search(n)' <=> Search(n)
    BY <2>1 DEF Search
  <2>5. (\A x \in DOMAIN stack : Given(stack[x]))' <=> \A x \in DOMAIN stack : Given(stack[x])
    BY <2>1, <2>3
  <2> QED
    BY <2>1, <2>2, <2>4, <2>5 DEF BlindInv
<1>2. ASSUME NEW k \in Kernels, NEW d \in BOOLEAN, StartWhole(k, d) PROVE BlindInv'
  BY <1>2, StartBlind DEF StartWhole
<1>3. CASE StartPart
  BY <1>3, StartBlind DEF StartPart
<1>4. ASSUME pc' \notin {"fetch", "walk", "probe"} PROVE BlindInv'
  BY <1>4 DEF BlindInv
<1>5. CASE StackStep
  <2>1. CASE ~ WarmedBlind
    <3>1. job' = job
      BY <1>5 DEF StackStep, Walk, Probe, Fetch, Finish, PassOver, TakeSome, TakeLast, ColdMiss,
         ProbeSome, ProbeLast, ProbeEnd
    <3> QED
      BY <2>1, <3>1 DEF BlindInv, WarmedBlind
  <2>2. CASE WarmedBlind
    <3>1. ~ TakeSome
      <4> SUFFICES ASSUME TakeSome PROVE FALSE
        OBVIOUS
      <4>1. PICK s, m : s = stack[at] /\ m = Match(s)
        OBVIOUS
      <4>2. pc = "walk" /\ at <= Len(stack) /\ m.words > 0 /\ m.words # pending
        BY <4>1 DEF TakeSome
      <4>3. /\ stack \in Seq(Block) /\ at \in Nat \ {0} /\ \A x \in DOMAIN stack : Given(stack[x])
            /\ pending = size /\ i <= Len(trace) /\ job.disjoint
        BY <2>2, <4>2 DEF BlindInv, JobInv, WarmedBlind
      <4>4. at \in DOMAIN stack
        BY <4>2, <4>3
      <4>5. s \in Block /\ Given(s)
        BY <4>1, <4>3, <4>4
      <4> QED
        BY <4>1, <4>2, <4>3, <4>5, GivenMatch
    <3>2. CASE Finish
      BY <1>4, <3>2 DEF Finish
    <3> QED
      BY <1>5, <2>2, <3>1, <3>2, FetchBlind, PassBlind, TakeLastBlind, ColdMissBlind, ProbeLastBlind,
         ProbeEndBlind, ProbeSomeBlind DEF StackStep, Walk, Probe
  <2> QED
    BY <2>1, <2>2
<1>6. CASE WriteHistogram
  BY <1>4, <1>6 DEF WriteHistogram
<1> QED
  BY <1>1, <1>2, <1>3, <1>5, <1>6 DEF Next, Accumulate, vars
-----------------------------------------------------------------------------
(* Where a reuse is counted. *)

(* What an access finds has a distance that there is a bin for, and no more words are
   found than are missing. *)
LEMMA Found ==
  ASSUME OrderInv, JobInv, StackInv, BlindInv, OriginInv, pc = "walk", at <= Len(stack),
         NEW s, s = stack[at], Match(s).words > 0
  PROVE  /\ s \in Block /\ Match(s).words \in Nat
         /\ CeilLog2(Larger(Grown(distance, s), size)) \in Bins
         /\ 2 * CeilLog2(Larger(Grown(distance, s), size)) < 2^HistLen
<1>1. PICK m : m = Match(s)
  OBVIOUS
<1>2. i <= Len(trace) /\ i \in DOMAIN trace
  BY DEF JobInv
<1>3. size \in Nat \ {0} /\ size <= Cardinality(Words) /\ Cardinality(Words) \in Nat
  <2>1. /\ size = Abs(trace[i].size) /\ size \in Nat \ {0}
        /\ IsFiniteSet(InHand) /\ Cardinality(InHand) = size
    BY <1>2, WordsInHand
  <2>2. InHand \subseteq Words
    BY <1>2, <2>1 DEF InHand, Words
  <2>3. IsFiniteSet(Words)
    BY WordsOfTrace
  <2> QED
    BY <2>1, <2>2, <2>3, FS_Subset, FS_CardinalityType
<1>4. /\ s \in Block /\ m.words \in Nat /\ Grown(distance, s) \in Nat
      /\ Grown(distance, s) <= Cardinality(Words)
  <2>1. CASE WarmedBlind
    <3>1. /\ s \in Block /\ Given(s)
          /\ CountsTo(Grown(distance, s), Cardinality(Passed(stack, at + 1)))
      BY <2>1, PassedGrows
    <3>2. m.words \in Nat
      BY <1>1, <1>2, <2>1, <3>1, GivenMatch DEF WarmedBlind
    <3>3. Passed(stack, at + 1) \subseteq Words
      <4> SUFFICES ASSUME NEW x \in 1 .. (at + 1) - 1 PROVE Of(stack[x]) \subseteq Words
        BY DEF Passed
      <4>1. stack \in Seq(Block) /\ at \in Nat /\ \A y \in DOMAIN stack : Given(stack[y])
        BY <2>1 DEF BlindInv
      <4>2. x \in DOMAIN stack
        BY <4>1
      <4>3. PICK k \in DOMAIN trace : trace[k].id = stack[x].elem /\ Abs(trace[k].size) = stack[x].size
        BY <4>1, <4>2 DEF Given
      <4> QED
        BY <4>3 DEF Of, Words
    <3>4. /\ Cardinality(Passed(stack, at + 1)) <= Cardinality(Words)
          /\ Cardinality(Passed(stack, at + 1)) \in Nat
      BY <3>3, WordsOfTrace, FS_Subset, FS_CardinalityType
    <3> QED
      BY <1>3, <3>1, <3>2, <3>4 DEF CountsTo
  <2>2. CASE ~ WarmedBlind
    <3>1. s \in Block /\ m.words \in Nat
      BY <1>1, <2>2, AtCursor
    <3>2. PICK since : since = {w \in Words : LastRef(w) >= LastRef(s.elem)}
      OBVIOUS
    <3>3. Grown(distance, s) <= Cardinality(since)
      BY <2>2, <3>2, DistanceIsBounded DEF DistanceBounds
    <3>4. Cardinality(since) <= Cardinality(Words) /\ Cardinality(since) \in Nat
      <4>1. since \subseteq Words
        BY <3>2
      <4> QED
        BY <4>1, WordsOfTrace, FS_Subset, FS_CardinalityType
    <3>5. Grown(distance, s) \in Nat
      <4>1. at \in Nat \ {0} /\ \E a, b \in Seq(Block), R \in SUBSET InHand : WalkAt(a, b, R)
        BY <2>2 DEF StackInv, InOrder
      <4>2. PICK a \in Seq(Block), b \in Seq(Block) : \E R \in SUBSET InHand : WalkAt(a, b, R)
        BY <4>1
      <4>3. PICK R \in SUBSET InHand : WalkAt(a, b, R)
        BY <4>2
      <4>4. stack = a \o b /\ Len(a) = at - 1
        BY <4>3 DEF WalkAt
      <4>5. b # <<>>
        <5>1. PICK st : st = a \o b
          OBVIOUS
        <5>2. Len(st) = Len(a) + Len(b)
          BY <5>1, CatAt
        <5>3. Len(b) > 0
          BY <4>1, <4>4, <5>1, <5>2
        <5> QED
          BY <5>3
      <4>6. CountsTo(distance, Cardinality(Held(a) \union R))
        BY <4>3, <4>5 DEF WalkAt
      <4>7. IsFiniteSet(Held(a)) /\ IsFiniteSet(R)
        BY <1>2, HeldWords, WordsInHand, FS_Subset
      <4>8. Cardinality(Held(a) \union R) \in Nat /\ s.size \in Nat
        BY <3>1, <4>7, FS_Union, FS_CardinalityType DEF Block
      <4> QED
        BY <4>6, <4>8, GrownCounts DEF CountsTo
    <3> QED
      BY <1>3, <3>1, <3>3, <3>4, <3>5
  <2> QED
    BY <2>1, <2>2
<1>5. PICK z : z = Larger(Grown(distance, s), size)
  OBVIOUS
<1>6. z \in Nat \ {0} /\ z <= Cardinality(Words)
  BY <1>3, <1>4, <1>5 DEF Larger, Block
<1>7. CeilLog2(z) \in Bins /\ 2 * CeilLog2(z) < 2^HistLen
  BY <1>6, BinOf
<1> QED
  BY <1>1, <1>4, <1>5, <1>7

(* The words of an entry that have not been found are a number of words. *)
LEMMA PendingIsNat ==
  ASSUME JobInv, StackInv, BlindInv, pc = "walk" PROVE pending \in Nat
<1>1. i <= Len(trace)
  BY DEF JobInv
<1>2. size \in Nat /\ IsFiniteSet(InHand) /\ Cardinality(InHand) = size
  BY <1>1, WordsInHand
<1>3. CASE WarmedBlind
  BY <1>2, <1>3 DEF BlindInv
<1>4. CASE ~ WarmedBlind
  <2>1. \E a, b \in Seq(Block), R \in SUBSET InHand : WalkAt(a, b, R)
    BY <1>4 DEF StackInv, InOrder
  <2>2. PICK a \in Seq(Block), b \in Seq(Block) : \E R \in SUBSET InHand : WalkAt(a, b, R)
    BY <2>1
  <2>3. PICK R \in SUBSET InHand : WalkAt(a, b, R)
    BY <2>2
  <2>4. pending \in Int /\ Cardinality(R) + pending = size
    BY <2>3 DEF WalkAt
  <2>5. IsFiniteSet(R) /\ Cardinality(R) <= size /\ Cardinality(R) \in Nat
    BY <1>2, FS_Subset, FS_CardinalityType
  <2> QED
    BY <1>2, <2>4, <2>5
<1> QED
  BY <1>3, <1>4

-----------------------------------------------------------------------------
(* What is counted. *)

(* what a histogram in memory may be *)
Histogram == [dist : Values, shared : Values, lost : Values, cold : Nat, inv : Nat]

(* words lost by invalidation are cold misses, shared reuses are reuses *)
Consistent(h) ==
  /\ h \in Histogram
  /\ SumBins(h.lost) = h.inv /\ h.inv <= h.cold
  /\ \A b \in Bins : h.shared[b] <= h.dist[b]

(* the words of an access that no round of the walk has found yet are still to come *)
Missing == IF pc = "walk" /\ ~ warm THEN pending ELSE 0

(* what is counted, but for the words still missing, is in the histogram *)
CountInv ==
  /\ Consistent(hist) /\ counted \in Nat
  /\ job.kernel = AllKernels => SumBins(hist.dist) + hist.cold + Missing = counted

(* The empty histogram. *)
LEMMA EmptyIsConsistent ==
  Consistent(NoHistogram) /\ SumBins(NoHistogram.dist) + NoHistogram.cold = 0
<1>1. PICK v : v = NoBins
  OBVIOUS
<1>2. v \in Values /\ SumBins(v) = 0
  BY <1>1, SumNone
<1>3. PICK h : h = NoHistogram
  OBVIOUS
<1>4. h = [dist |-> v, shared |-> v, lost |-> v, cold |-> 0, inv |-> 0]
  BY <1>1, <1>3 DEF NoHistogram
<1>5. h.dist = v /\ h.shared = v /\ h.lost = v /\ h.cold = 0 /\ h.inv = 0
  BY <1>4
<1>6. h \in Histogram
  BY <1>2, <1>4 DEF Histogram
<1>7. \A b \in Bins : v[b] \in Nat
  BY <1>2 DEF Values
<1>8. Consistent(h)
  BY <1>2, <1>5, <1>6, <1>7 DEF Consistent
<1> QED
  BY <1>2, <1>3, <1>5, <1>8

(* What a count of m words in a bin changes. *)
LEMMA RecordedIs ==
  ASSUME Consistent(hist), NEW s \in Block, NEW words \in Nat, NEW d,
         CeilLog2(Larger(d, size)) \in Bins
  PROVE  /\ Consistent(Recorded(s, words, d))
         /\ SumBins(hist.dist) \in Nat /\ hist.cold \in Nat
         /\ SumBins(Recorded(s, words, d).dist) + Recorded(s, words, d).cold
              = SumBins(hist.dist) + hist.cold + words
<1>1. PICK h, g : h = hist /\ g = Recorded(s, words, d)
  OBVIOUS
<1>2. PICK b \in Bins : b = CeilLog2(Larger(d, size))
  OBVIOUS
<1>3. h \in Histogram
  BY <1>1 DEF Consistent
<1>4. /\ h.dist \in Values /\ h.shared \in Values /\ h.lost \in Values /\ h.cold \in Nat /\ h.inv \in Nat
      /\ SumBins(h.lost) = h.inv /\ h.inv <= h.cold /\ \A x \in Bins : h.shared[x] <= h.dist[x]
  BY <1>1, <1>3 DEF Histogram, Consistent
<1>5. PICK v, u, w : v = h.dist /\ u = h.shared /\ w = h.lost
  OBVIOUS
<1>6. v \in Values /\ u \in Values /\ w \in Values /\ words \in Nat
  BY <1>4, <1>5
<1>7. PICK v1, u1, w1 : v1 = [v EXCEPT ![b] = @ + words] /\ u1 = [u EXCEPT ![b] = @ + words]
                        /\ w1 = [w EXCEPT ![b] = @ + words]
  OBVIOUS
<1>8. v1 \in Values /\ SumBins(v) \in Nat /\ SumBins(v1) = SumBins(v) + words
      /\ \A x \in Bins : v[x] <= v1[x]
  <2>1. v \in Values /\ b \in Bins /\ words \in Nat /\ v1 = [v EXCEPT ![b] = @ + words]
    BY <1>6, <1>7
  <2> QED
    BY ONLY <2>1, SumAddTo
<1>9. u1 \in Values
  <2>1. u \in Values /\ b \in Bins /\ words \in Nat /\ u1 = [u EXCEPT ![b] = @ + words]
    BY <1>6, <1>7
  <2> QED
    BY ONLY <2>1, SumAddTo
<1>10. w1 \in Values /\ SumBins(w) \in Nat /\ SumBins(w1) = SumBins(w) + words
       /\ \A x \in Bins : w[x] <= w1[x]
  <2>1. w \in Values /\ b \in Bins /\ words \in Nat /\ w1 = [w EXCEPT ![b] = @ + words]
    BY <1>6, <1>7
  <2> QED
    BY ONLY <2>1, SumAddTo
<1>11. CASE s.inv
  <2>1. g = [h EXCEPT !.lost[b] = @ + words, !.inv = @ + words, !.cold = @ + words]
    BY <1>1, <1>2, <1>11 DEF Recorded
  <2>2. g = [dist |-> v, shared |-> u, lost |-> w1, cold |-> h.cold + words, inv |-> h.inv + words]
    BY <1>3, <1>5, <1>7, <2>1 DEF Histogram
  <2>3. g.dist = v /\ g.shared = u /\ g.lost = w1 /\ g.cold = h.cold + words /\ g.inv = h.inv + words
    BY <2>2
  <2>4. h.cold + words \in Nat /\ h.inv + words \in Nat /\ h.inv + words <= h.cold + words
    BY <1>4
  <2>5. g \in Histogram
    BY <1>6, <1>10, <2>2, <2>4 DEF Histogram
  <2>6. SumBins(g.lost) = g.inv
    BY <1>4, <1>5, <1>10, <2>3
  <2>7. Consistent(g)
    BY <1>4, <1>5, <2>3, <2>4, <2>5, <2>6 DEF Consistent
  <2>8. SumBins(g.dist) + g.cold = SumBins(h.dist) + h.cold + words /\ SumBins(h.dist) \in Nat
    BY <1>4, <1>5, <1>8, <2>3
  <2> QED
    BY <1>1, <1>4, <2>7, <2>8
<1>12. CASE ~ s.inv
  <2>1. g = [h EXCEPT !.dist[b] = @ + words,
                      !.shared[b] = IF s.core # trace[i].core THEN @ + words ELSE @]
    BY <1>1, <1>2, <1>12 DEF Recorded
  <2>2. PICK u2 : u2 = IF s.core # trace[i].core THEN u1 ELSE u
    OBVIOUS
  <2>3. g = [dist |-> v1, shared |-> u2, lost |-> w, cold |-> h.cold, inv |-> h.inv]
    <3>1. CASE s.core # trace[i].core
      <4>1. g = [h EXCEPT !.dist[b] = @ + words, !.shared[b] = @ + words]
        BY <2>1, <3>1
      <4> QED
        BY <1>3, <1>5, <1>7, <2>2, <3>1, <4>1 DEF Histogram
    <3>2. CASE s.core = trace[i].core
      <4>1. g = [h EXCEPT !.dist[b] = @ + words, !.shared[b] = @]
        BY <2>1, <3>2
      <4>2. [u EXCEPT ![b] = @] = u
        BY <1>6 DEF Values
      <4> QED
        BY <1>3, <1>5, <1>7, <2>2, <3>2, <4>1, <4>2 DEF Histogram
    <3> QED
      BY <3>1, <3>2
  <2>4. g.dist = v1 /\ g.shared = u2 /\ g.lost = w /\ g.cold = h.cold /\ g.inv = h.inv
    BY <2>3
  <2>5. u2 \in Values
    BY <1>6, <1>9, <2>2
  <2>6. g \in Histogram
    BY <1>4, <1>6, <1>8, <2>3, <2>5 DEF Histogram
  <2>7. ASSUME NEW x \in Bins PROVE u2[x] <= v1[x]
    <3>1. u[x] \in Nat /\ v[x] \in Nat /\ v1[x] \in Nat /\ u[x] <= v[x] /\ v[x] <= v1[x]
      BY <1>4, <1>5, <1>6, <1>8 DEF Values
    <3>2. CASE u2 = u
      BY <3>1, <3>2
    <3>3. CASE u2 = u1
      <4>1. u1[x] = (IF x = b THEN u[x] + words ELSE u[x]) /\ v1[x] = IF x = b THEN v[x] + words ELSE v[x]
        BY <1>6, <1>7 DEF Values
      <4> QED
        BY <3>1, <3>3, <4>1
    <3> QED
      BY <2>2, <3>2, <3>3
  <2>8. Consistent(g)
    BY <1>4, <1>5, <2>4, <2>6, <2>7 DEF Consistent
  <2>9. SumBins(g.dist) + g.cold = SumBins(h.dist) + h.cold + words /\ SumBins(h.dist) \in Nat
    BY <1>4, <1>5, <1>8, <2>4
  <2> QED
    BY <1>1, <1>4, <2>8, <2>9
<1> QED
  BY <1>11, <1>12

(* Nothing is counted in the beginning. *)
LEMMA InitCount == Init => CountInv
<1> SUFFICES ASSUME Init PROVE CountInv
  OBVIOUS
<1>1. hist = NoHistogram /\ counted = 0 /\ pc = "idle"
  BY DEF Init, StackInit
<1> QED
  BY <1>1, EmptyIsConsistent DEF CountInv, Missing

(* A round that finds words: they are no longer missing and have been counted. *)
LEMMA TakenIsCounted ==
  ASSUME OrderInv, JobInv, StackInv, BlindInv, OriginInv, CountInv, pc = "walk", at <= Len(stack),
         NEW s, s = stack[at], NEW m, m = Match(s), m.words > 0,
         hist' = IF Tracked THEN Recorded(s, m.words, Grown(distance, s)) ELSE hist,
         UNCHANGED <<job, warm, counted>>, Missing' = IF warm THEN 0 ELSE pending - m.words
  PROVE  CountInv'
<1>1. /\ s \in Block /\ m.words \in Nat
      /\ CeilLog2(Larger(Grown(distance, s), size)) \in Bins
  BY Found
<1>2. pending \in Nat
  BY PendingIsNat
<1>3. Consistent(hist) /\ counted \in Nat
      /\ (job.kernel = AllKernels => SumBins(hist.dist) + hist.cold + Missing = counted)
  BY DEF CountInv
<1>4. PICK d, g : d = Grown(distance, s) /\ g = Recorded(s, m.words, d)
  OBVIOUS
<1>5. /\ Consistent(g) /\ SumBins(hist.dist) \in Nat /\ hist.cold \in Nat
      /\ SumBins(g.dist) + g.cold = SumBins(hist.dist) + hist.cold + m.words
  BY <1>1, <1>3, <1>4, RecordedIs
<1>6. CASE Tracked
  <2>1. hist' = g
    BY <1>4, <1>6
  <2>2. ~ warm
    BY <1>6 DEF Tracked
  <2>3. Missing = pending /\ Missing' = pending - m.words
    BY <2>2 DEF Missing
  <2>4. PICK x, y : x = SumBins(g.dist) + g.cold /\ y = SumBins(hist.dist) + hist.cold
    OBVIOUS
  <2>5. y \in Nat /\ x = y + m.words
    BY ONLY <1>5, <2>4
  <2>6. x + (pending - m.words) = y + pending
    BY ONLY <1>1, <1>2, <2>5
  <2>7. ASSUME job.kernel = AllKernels
        PROVE  SumBins(g.dist) + g.cold + (pending - m.words) = counted
    BY ONLY <1>3, <2>3, <2>4, <2>6, <2>7
  <2> QED
    BY <1>3, <1>5, <2>1, <2>3, <2>7 DEF CountInv
<1>7. CASE ~ Tracked
  <2>1. hist' = hist
    BY <1>7
  <2>2. ASSUME job.kernel = AllKernels PROVE warm
    BY <1>7, <2>2 DEF Tracked
  <2>3. ASSUME job.kernel = AllKernels PROVE Missing = 0 /\ Missing' = 0
    BY <2>2, <2>3 DEF Missing
  <2> QED
    BY <1>3, <2>1, <2>3 DEF CountInv
<1> QED
  BY <1>6, <1>7

(* Every step of the pipeline keeps the count. *)
LEMMA StepCount ==
  OrderInv /\ JobInv /\ JobInv' /\ StackInv /\ BlindInv /\ OriginInv /\ CountInv /\ [Next]_vars => CountInv'
<1> SUFFICES ASSUME OrderInv, JobInv, JobInv', StackInv, BlindInv, OriginInv, CountInv, [Next]_vars
             PROVE  CountInv'
  OBVIOUS
<1>1. ASSUME hist' = hist, counted' = counted, job' = job, Missing' = Missing PROVE CountInv'
  BY <1>1 DEF CountInv
<1>2. ASSUME NEW tr, NEW jb, Start(tr, jb) PROVE CountInv'
  <2>1. hist' = NoHistogram /\ counted' = 0 /\ pc' = "fetch"
    BY <1>2 DEF Start
  <2>2. Missing' = 0
    BY <2>1 DEF Missing
  <2> QED
    BY <2>1, <2>2, EmptyIsConsistent DEF CountInv
<1>3. CASE UNCHANGED stackVars
  BY <1>1, <1>3 DEF stackVars, walkVars, Missing
<1>4. CASE StackStep
  <2>1. CASE Fetch
    <3>1. /\ pc = "fetch" /\ i <= Len(trace) /\ hist' = hist /\ job' = job /\ warm' = WarmAt(i) /\ pending' = size
          /\ IF IsProbe(trace[i])
             THEN pc' = "probe" /\ counted' = counted
             ELSE pc' = "walk" /\ counted' = IF WarmAt(i) THEN counted ELSE counted + size
      BY <2>1 DEF Fetch
    <3>2. Missing = 0
      BY <3>1 DEF Missing
    <3>3. CASE IsProbe(trace[i])
      <4>1. Missing' = 0
        BY <3>1, <3>3 DEF Missing
      <4> QED
        BY <1>1, <3>1, <3>2, <3>3, <4>1
    <3>4. CASE ~ IsProbe(trace[i])
      <4>1. CASE WarmAt(i)
        <5>1. Missing' = 0
          BY <3>1, <3>4, <4>1 DEF Missing
        <5> QED
          BY <1>1, <3>1, <3>2, <3>4, <4>1, <5>1
      <4>2. CASE ~ WarmAt(i)
        <5>1. Missing' = size /\ counted' = counted + size
          BY <3>1, <3>4, <4>2 DEF Missing
        <5>2. size \in Nat
          BY <3>1, WordsInHand
        <5>3. counted \in Nat /\ Consistent(hist)
              /\ (job.kernel = AllKernels => SumBins(hist.dist) + hist.cold + 0 = counted)
          BY <3>2 DEF CountInv
        <5>4. SumBins(hist.dist) \in Nat /\ hist.cold \in Nat
          <6>1. hist \in Histogram
            BY <5>3 DEF Consistent
          <6>2. hist.dist \in Values /\ hist.cold \in Nat
            BY <6>1 DEF Histogram
          <6> QED
            BY <6>2, SumIsNat
        <5>5. counted' \in Nat
              /\ (job.kernel = AllKernels => SumBins(hist.dist) + hist.cold + size = counted')
          BY ONLY <5>1, <5>2, <5>3, <5>4
        <5> QED
          BY <3>1, <5>1, <5>3, <5>5 DEF CountInv
      <4> QED
        BY <4>1, <4>2
    <3> QED
      BY <3>3, <3>4
  <2>2. CASE Finish
    BY <1>1, <2>2 DEF Finish, Missing
  <2>3. CASE PassOver
    BY <1>1, <2>3 DEF PassOver, Missing
  <2>4. CASE TakeSome
    <3>1. PICK s, m : s = stack[at] /\ m = Match(s)
      OBVIOUS
    <3>2. /\ pc = "walk" /\ at <= Len(stack) /\ m.words > 0 /\ pending' = pending - m.words /\ pc' = pc
          /\ hist' = IF Tracked THEN Recorded(s, m.words, Grown(distance, s)) ELSE hist
          /\ UNCHANGED <<job, warm, counted>>
      BY <2>4, <3>1 DEF TakeSome
    <3>3. Missing' = IF warm THEN 0 ELSE pending - m.words
      BY <3>2 DEF Missing
    <3> QED
      BY <3>1, <3>2, <3>3, TakenIsCounted
  <2>5. CASE TakeLast
    <3>1. PICK s, m : s = stack[at] /\ m = Match(s)
      OBVIOUS
    <3>2. /\ pc = "walk" /\ at <= Len(stack) /\ m.words > 0 /\ m.words = pending /\ pc' = "fetch"
          /\ hist' = IF Tracked THEN Recorded(s, m.words, Grown(distance, s)) ELSE hist
          /\ UNCHANGED <<job, warm, counted>>
      BY <2>5, <3>1 DEF TakeLast, NextEntry
    <3>3. Missing' = IF warm THEN 0 ELSE pending - m.words
      <4>1. pending \in Nat
        BY <3>2, PendingIsNat
      <4>2. pending - m.words = 0
        BY <3>2, <4>1
      <4> QED
        BY <3>2, <4>2 DEF Missing
    <3> QED
      BY <3>1, <3>2, <3>3, TakenIsCounted
  <2>6. CASE ColdMiss
    <3>1. /\ pc = "walk" /\ pc' = "fetch" /\ UNCHANGED <<job, warm, counted>>
          /\ hist' = IF warm THEN hist ELSE [hist EXCEPT !.cold = @ + pending]
      BY <2>6 DEF ColdMiss, NextEntry
    <3>2. Missing' = 0
      BY <3>1 DEF Missing
    <3>3. CASE warm
      BY <1>1, <3>1, <3>2, <3>3 DEF Missing
    <3>4. CASE ~ warm
      <4>1. PICK h, g : h = hist /\ g = hist'
        OBVIOUS
      <4>2. pending \in Nat
        BY <3>1, PendingIsNat
      <4>3. Consistent(h) /\ counted \in Nat
            /\ (job.kernel = AllKernels => SumBins(h.dist) + h.cold + pending = counted)
        BY <3>1, <3>4, <4>1 DEF CountInv, Missing
      <4>4. h \in Histogram /\ g = [h EXCEPT !.cold = @ + pending]
        BY <3>1, <3>4, <4>1, <4>3 DEF Consistent
      <4>5. h.cold \in Nat /\ h.inv \in Nat /\ h.dist \in Values /\ SumBins(h.dist) \in Nat
        BY <4>4, SumIsNat DEF Histogram
      <4>6. g \in Histogram /\ g.dist = h.dist /\ g.shared = h.shared /\ g.lost = h.lost /\ g.inv = h.inv
            /\ g.cold = h.cold + pending
        BY <4>2, <4>4, <4>5 DEF Histogram
      <4>7. Consistent(g)
        <5>1. SumBins(h.lost) = h.inv /\ h.inv <= h.cold /\ \A b \in Bins : h.shared[b] <= h.dist[b]
          BY <4>3 DEF Consistent
        <5>2. h.inv <= h.cold + pending
          BY <4>2, <4>5, <5>1
        <5> QED
          BY <4>6, <5>1, <5>2 DEF Consistent
      <4>8. job.kernel = AllKernels => SumBins(g.dist) + g.cold + 0 = counted
        BY ONLY <4>2, <4>3, <4>5, <4>6
      <4> QED
        BY <3>1, <3>2, <4>1, <4>3, <4>7, <4>8 DEF CountInv
    <3> QED
      BY <3>3, <3>4
  <2>7. CASE Probe
    <3>1. pc = "probe" /\ pc' \in {"probe", "fetch"} /\ hist' = hist /\ job' = job /\ counted' = counted
      BY <2>7 DEF Probe, ProbeSome, ProbeLast, ProbeEnd, NextEntry
    <3>2. Missing = 0 /\ Missing' = 0
      BY <3>1 DEF Missing
    <3> QED
      BY <1>1, <3>1, <3>2
  <2> QED
    BY <1>4, <2>1, <2>2, <2>3, <2>4, <2>5, <2>6, <2>7 DEF StackStep, Walk
<1>5. CASE WriteHistogram
  BY <1>1, <1>5 DEF WriteHistogram, Missing
<1>6. ASSUME NEW k \in Kernels, NEW d \in BOOLEAN, StartWhole(k, d) PROVE CountInv'
  BY <1>2, <1>6 DEF StartWhole
<1>7. CASE StartPart
  BY <1>2, <1>7 DEF StartPart
<1> QED
  BY <1>3, <1>4, <1>5, <1>6, <1>7 DEF Next, Accumulate, vars

(* The inductive invariant. *)
LEMMA CountingHolds ==
  Spec => [](OrderInv /\ CutInv /\ JobInv /\ StackInv /\ BlindInv /\ OriginInv /\ CountInv)
<1>1. Init => OrderInv /\ CutInv /\ JobInv /\ StackInv /\ BlindInv /\ OriginInv /\ CountInv
  BY InitOrder, InitCut, InitJob, InitStack, InitBlind, InitOrigin, InitCount
<1>2. OrderInv /\ CutInv /\ JobInv /\ StackInv /\ BlindInv /\ OriginInv /\ CountInv /\ [Next]_vars
        => OrderInv' /\ CutInv' /\ JobInv' /\ StackInv' /\ BlindInv' /\ OriginInv' /\ CountInv'
  BY StepOrder, StepCut, StepJob, StepStack, StepBlind, StepOrigin, StepCount
<1> QED
  BY <1>1, <1>2, PTL DEF Spec

(* Each word of an access that is counted enters the histogram once, as a reuse or as a
   cold miss, in however many rounds do_one_histogram_mem finds the words of an access:
   match_bytes_pending goes down by what a round counts, and what is left of it at the
   end of the stack is counted as cold.  Misses by invalidation are cold misses, and
   shared reuses are reuses. *)
THEOREM WordsAreCounted == Spec => []EveryWordCounted
<1>1. CountInv => EveryWordCounted
  <2> SUFFICES ASSUME CountInv, pc \in {"fetch", "done"}
               PROVE  /\ job.kernel = AllKernels => SumBins(hist.dist) + hist.cold = counted
                      /\ SumBins(hist.lost) = hist.inv /\ hist.inv <= hist.cold
                      /\ \A b \in Bins : hist.shared[b] <= hist.dist[b]
    BY DEF EveryWordCounted
  <2>1. Missing = 0 /\ Consistent(hist)
        /\ (job.kernel = AllKernels => SumBins(hist.dist) + hist.cold + Missing = counted)
    BY DEF CountInv, Missing
  <2>2. hist \in Histogram
    BY <2>1 DEF Consistent
  <2>3. SumBins(hist.dist) \in Nat /\ hist.cold \in Nat
    BY <2>2, SumIsNat DEF Histogram
  <2> QED
    BY <2>1, <2>3 DEF Consistent
<1> QED
  BY <1>1, CountingHolds, PTL

=============================================================================
