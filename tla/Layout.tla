------------------------------- MODULE Layout -------------------------------
(***************************************************************************)
(* The PTT layout: which widths a worker may lead (ptt_layout) and, derived *)
(* from it, which places include a worker (inclusive_partitions).           *)
(* xitao_init_hw fills both, from the file XITAO_LAYOUT_PATH names or with  *)
(* a default layout, and may be called again for another number of threads. *)
(*                                                                          *)
(* A file is the list of its lines, a line the list of its numbers, with    *)
(* what separates them.                                                     *)
(***************************************************************************)
EXTENDS Integers, Sequences, SequencesExt, FiniteSets

CONSTANTS
  MaxThreads,   \* XITAO_MAXTHREADS
  Files         \* the layout files it may find: [cpus, widths, commas]

Slots == 0 .. MaxThreads - 1

ASSUME MaxThreadsAssumption == MaxThreads \in Nat \ {0}
ASSUME FilesAssumption ==
  \A f \in Files : /\ f.cpus \in Seq(Nat) /\ Len(f.cpus) \in 1 .. MaxThreads
                   /\ f.widths \in Seq(Seq(Int)) /\ f.commas \in BOOLEAN

VARIABLES
  nthreads,   \* xitao_nthreads
  layout,     \* ptt_layout[leader]: the widths it may lead
  parts,      \* inclusive_partitions[i]: the <<leader, width>> that include i
  cores,      \* static_resource_mapper: the core of each thread
  lines,      \* the lines of the file that have not been read yet
  current,    \* current_thread_id
  file,       \* the file the layout comes from, NoFile for a default layout
  phase       \* "none", "reading", "ready", or "exited" by a fatal error

tables == <<layout, parts>>
vars == <<nthreads, tables, cores, lines, current, file, phase>>

NoLayout == [i \in Slots |-> <<>>]
NoFile == [cpus |-> <<>>, widths |-> <<>>, commas |-> TRUE]

Init ==
  /\ nthreads = 0
  /\ layout = NoLayout
  /\ parts = NoLayout
  /\ cores = [k \in 1 .. MaxThreads |-> 0]
  /\ lines = <<>>
  /\ current = -1
  /\ file = NoFile
  /\ phase = "none"

(* the numbers of S from the least on *)
Ascending(S) ==
  [k \in 1 .. Cardinality(S) |-> CHOOSE x \in S : Cardinality({y \in S : y <= x}) = k]

(* what stands in s at the positions K, in this order *)
Entries(s, K) == [k \in 1 .. Cardinality(K) |-> s[Ascending(K)[k]]]

(* the places worker l leads with widths ws, those of them that include i *)
Covering(l, ws, i) ==
  LET around == Entries(ws, {k \in DOMAIN ws : l <= i /\ i < l + ws[k]})
  IN  [k \in DOMAIN around |-> <<l, around[k]>>]

-----------------------------------------------------------------------------
(* prepare_default_layout: the divisors of n below its square root in        *)
(* ascending order, followed by their cofactors.                             *)

SmallWidths(n) == {i \in 1 .. n : i * i < n /\ n % i = 0}

DefaultWidths(n) ==
  LET temp == {n \div i : i \in SmallWidths(n)}
  IN  Ascending(SmallWidths(n)) \o Ascending(temp)

(* Mutant: every worker leads a place of every width. *)
DefaultLayout_Unaligned(n) ==
  LET ws == DefaultWidths(n)
  IN  [l \in Slots |-> IF l < n THEN Entries(ws, {k \in DOMAIN ws : l + ws[k] <= n}) ELSE <<>>]

DefaultLayout(n) ==
  LET ws == DefaultWidths(n)
  IN  [l \in Slots |-> IF l < n THEN Entries(ws, {k \in DOMAIN ws : l % ws[k] = 0}) ELSE <<>>]

DefaultPartitions(n) ==
  LET lay == DefaultLayout(n)
  IN  [i \in Slots |->
         FlattenSeq([l \in 1 .. n |-> Covering(l - 1, lay[l - 1], i)])]

(* the tables for n workers; an earlier layout is cleared first *)
DefaultTables(n) ==
  /\ phase \in {"none", "ready"}
  /\ nthreads' = n
  /\ layout' = DefaultLayout(n)
  /\ parts' = DefaultPartitions(n)
  /\ file' = NoFile
  /\ phase' = "ready"
  /\ UNCHANGED <<lines, current>>

(* xitao_init_hw without a layout file: thread i is for core i *)
InitDefault(n) ==
  /\ DefaultTables(n)
  /\ cores' = [k \in 1 .. MaxThreads |-> k - 1]

-----------------------------------------------------------------------------
(* read_layout_table.  Numbers are split at commas only, and stoi takes the  *)
(* first number of what it is given.                                         *)

Numbers(line) == IF file.commas \/ line = <<>> THEN line ELSE <<line[1]>>

(* Mutant: the layout of an earlier initialisation is kept. *)
OpenFile_KeepsLayout(f) ==
  /\ phase \in {"none", "ready"}
  /\ file' = f
  /\ lines' = f.widths
  /\ current' = -1
  /\ phase' = "reading"
  /\ UNCHANGED <<nthreads, tables, cores>>

OpenFile(f) ==
  /\ phase \in {"none", "ready"}
  /\ layout' = NoLayout
  /\ parts' = NoLayout
  /\ file' = f
  /\ lines' = f.widths
  /\ current' = -1
  /\ phase' = "reading"
  /\ UNCHANGED <<nthreads, cores>>

ReadCores ==
  /\ phase = "reading"
  /\ current = -1
  /\ cores' = [k \in 1 .. MaxThreads |->
                IF k <= Len(Numbers(file.cpus)) THEN Numbers(file.cpus)[k]
                                               ELSE cores[k]]
  /\ nthreads' = Len(Numbers(file.cpus))
  /\ current' = 0
  /\ UNCHANGED <<tables, lines, file, phase>>

(* the fatal errors of one line; only a number followed by a comma is
   compared with the number of threads *)
Fatal(ws) ==
  \/ current >= MaxThreads
  \/ Len(ws) > 1 /\ current + 1 >= nthreads
  \/ \E k \in DOMAIN ws : current + ws[k] > MaxThreads

(* Mutant: the last worker of a place is left out. *)
ReadWidths_Short ==
  /\ phase = "reading"
  /\ current >= 0
  /\ lines # <<>>
  /\ ~ Fatal(Numbers(Head(lines)))
  /\ layout' = [layout EXCEPT ![current] = @ \o Numbers(Head(lines))]
  /\ parts' = [i \in Slots |->
                 parts[i] \o Covering(current, Numbers(Head(lines)), i + 1)]
  /\ lines' = Tail(lines)
  /\ current' = current + 1
  /\ UNCHANGED <<nthreads, cores, file, phase>>

ReadWidths ==
  /\ phase = "reading"
  /\ current >= 0
  /\ lines # <<>>
  /\ ~ Fatal(Numbers(Head(lines)))
  /\ layout' = [layout EXCEPT ![current] = @ \o Numbers(Head(lines))]
  /\ parts' = [i \in Slots |->
                 parts[i] \o Covering(current, Numbers(Head(lines)), i)]
  /\ lines' = Tail(lines)
  /\ current' = current + 1
  /\ UNCHANGED <<nthreads, cores, file, phase>>

RefuseWidths ==
  /\ phase = "reading"
  /\ current >= 0
  /\ lines # <<>>
  /\ Fatal(Numbers(Head(lines)))
  /\ phase' = "exited"
  /\ UNCHANGED <<nthreads, tables, cores, lines, current, file>>

CloseFile ==
  /\ phase = "reading"
  /\ current >= 0
  /\ lines = <<>>
  /\ phase' = "ready"
  /\ UNCHANGED <<nthreads, tables, cores, lines, current, file>>

-----------------------------------------------------------------------------
(* Properties. *)

Occurrences(s, e) == Cardinality({k \in DOMAIN s : s[k] = e})

(* Both tables always describe the same places: a width that l may lead is
   listed, once for each time, by exactly the workers l .. l + width - 1. *)
TablesAgree ==
  \A i, l \in Slots : \A w \in 1 .. MaxThreads :
    Occurrences(parts[i], <<l, w>>) =
      IF l <= i /\ i < l + w THEN Occurrences(layout[l], w) ELSE 0

(* the widths of a default layout: all divisors but the square root *)
Divisors(n) == {d \in 1 .. n : n % d = 0 /\ d * d # n}

(* "symmetric resource partitions": in a default layout each width divides
   the machine into equal places that lie within it, and every worker is in
   one of them, the one at worker - worker % width, as the shortcut of
   history_mold_locally assumes. *)
DefaultIsSymmetric ==
  phase = "ready" /\ file = NoFile =>
    \A i \in 0 .. nthreads - 1 :
      /\ ToSet(parts[i]) = {<<i - (i % d), d>> : d \in Divisors(nthreads)}
      /\ \A d \in Divisors(nthreads) : i - (i % d) + d <= nthreads

(* What a layout file allows is exactly what its lines say, whatever layout
   was in force before. *)
FileIsLayout ==
  phase = "ready" /\ file # NoFile /\ file.commas =>
    \A l \in Slots :
      layout[l] = IF l < Len(file.widths) THEN file.widths[l + 1] ELSE <<>>
=============================================================================
