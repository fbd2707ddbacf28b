-------------------------- MODULE KrdParts_proofs --------------------------
(*****************************************************************************)
(* Proof that the parts into which a trace is divided cover it, and that     *)
(* with a warm-up from its beginning on they give together the histogram of  *)
(* the whole trace.                                                          *)
(*                                                                           *)
(* The words before a position of a trace whose accesses have one size are a *)
(* number of accesses times that size: the points between the parts are      *)
(* those before which there are as many partitions, a job counts from its    *)
(* point on until a partition is full, and its file holds what it has        *)
(* counted, since the bins that are not written are empty.  The sum of the   *)
(* files is that of the trace.                                               *)
(*                                                                           *)
(* What the parts are compared with is one run over the whole trace (After,  *)
(* Course).  If every warm-up reaches back to the beginning, each job is at  *)
(* a moment of it and has counted what the run has counted since the origin  *)
(* of the job.  Behind the same words the run has one histogram, whatever    *)
(* invalidations follow, so the sum of the files is that of the run.         *)
(*****************************************************************************)
EXTENDS KrdPipeline_proofs

(* The words that have been accessed when all accesses have one size. *)

Multiples(z) == {z * c : c \in Nat}

(* Multiples are closed under steps and products, and a step apart. *)
LEMMA MultiplesAre ==
  ASSUME NEW z \in Nat \ {0}
  PROVE  /\ Multiples(z) \subseteq Nat /\ 0 \in Multiples(z)
         /\ \A x \in Multiples(z) : x + z \in Multiples(z)
         /\ \A x, y \in Multiples(z) : x < y => x + z <= y
         /\ \A x \in Multiples(z) : \A m \in Nat : m * x \in Multiples(z)
<1>1. \A c \in Nat : z * c \in Nat
  OBVIOUS
<1>2. Multiples(z) \subseteq Nat
  BY <1>1 DEF Multiples
<1>3. PICK o \in Nat : o = 0
  OBVIOUS
<1>4. \A c \in Nat : z * c + z = z * (c + 1)
  OBVIOUS
<1>5. ASSUME NEW c \in Nat, NEW d \in Nat, z * c < z * d PROVE z * c + z <= z * d
  <2>1. c < d
    BY <1>5
  <2>2. PICK e \in Nat : d = (c + 1) + e
    <3>1. d - (c + 1) \in Nat /\ d = (c + 1) + (d - (c + 1))
      BY <2>1
    <3> QED
      BY <3>1
  <2>3. z * ((c + 1) + e) = (z * c + z) + z * e /\ z * e \in Nat
    OBVIOUS
  <2> QED
    BY <2>2, <2>3
<1>6. ASSUME NEW x \in Multiples(z), NEW m \in Nat PROVE m * x \in Multiples(z)
  <2>1. PICK c \in Nat : x = z * c
    BY DEF Multiples
  <2>2. m * (z * c) = z * (m * c) /\ m * c \in Nat
    OBVIOUS
  <2> QED
    BY <2>1, <2>2 DEF Multiples
<1>7. 0 \in Multiples(z)
  <2>1. z * o \in Multiples(z)
    BY DEF Multiples
  <2>2. z * o = 0
    BY <1>3
  <2> QED
    BY <2>1, <2>2
<1>8. ASSUME NEW x \in Multiples(z) PROVE x + z \in Multiples(z)
  <2>1. PICK d \in Nat : x = z * d
    BY DEF Multiples
  <2>2. PICK e \in Nat : e = d + 1
    OBVIOUS
  <2>3. x + z = z * e
    BY <1>4, <2>1, <2>2
  <2> QED
    BY <2>3 DEF Multiples
<1>9. \A x, y \in Multiples(z) : x < y => x + z <= y
  BY <1>5 DEF Multiples
<1> QED
  BY <1>2, <1>6, <1>7, <1>8, <1>9

(* A number that leaves no rest is a multiple. *)
LEMMA NoRest ==
  ASSUME NEW z \in Nat \ {0}, NEW n \in Nat, n % z = 0
  PROVE  n \in Multiples(z)
<1>1. n \div z \in Nat /\ n = z * (n \div z) + (n % z)
  OBVIOUS
<1> QED
  BY <1>1 DEF Multiples

(* The size that all accesses have, *)
Unit == IF Regulars = {} THEN 1 ELSE out[CHOOSE k \in Regulars : TRUE].size

(* if they do. *)
OneSize ==
  /\ \A k \in Regulars : out[k].size = Unit
  /\ cut.partition \in Multiples(Unit)

(* It is the size of something. *)
LEMMA UnitIs == OrderInv => Unit \in Nat \ {0}
<1> SUFFICES ASSUME OrderInv PROVE Unit \in Nat \ {0}
  OBVIOUS
<1>1. CASE Regulars = {}
  BY <1>1 DEF Unit
<1>2. CASE Regulars # {}
  <2>1. PICK k \in Regulars : k = CHOOSE j \in Regulars : TRUE
    BY <1>2
  <2>2. out[k] \in OutEntry /\ out[k].size > 0
    BY DEF Regulars, OrderInv
  <2>3. out[k].size \in Nat \ {0}
    BY <2>2 DEF OutEntry
  <2> QED
    BY <1>2, <2>1, <2>3 DEF Unit
<1> QED
  BY <1>1, <1>2

(* What Aligned says of the accesses. *)
LEMMA AlignedIs == OrderInv /\ CutInv /\ Aligned => OneSize
<1> SUFFICES ASSUME OrderInv, CutInv, Aligned PROVE OneSize
  OBVIOUS
<1>1. PICK z \in Nat \ {0}, n \in Nat : z = Unit /\ n = cut.partition
  BY UnitIs DEF CutInv, CutType
<1>2. CASE Regulars = {}
  <2>1. z = 1 /\ n = 1 * n
    BY <1>1, <1>2 DEF Unit
  <2>2. n \in Multiples(z)
    BY <2>1 DEF Multiples
  <2> QED
    BY <1>1, <1>2, <2>2 DEF OneSize
<1>3. CASE Regulars # {}
  <2>1. PICK k \in Regulars : k = CHOOSE j \in Regulars : TRUE
    BY <1>3
  <2>2. Unit = out[k].size
    BY <1>3, <2>1 DEF Unit
  <2>3. n % z = 0
    BY <1>1, <2>2 DEF Aligned
  <2>4. n \in Multiples(z)
    BY ONLY <2>3, n \in Nat, z \in Nat \ {0}, NoRest
  <2>5. \A j \in Regulars : out[j].size = Unit
    BY <2>2 DEF Aligned
  <2> QED
    BY <1>1, <2>4, <2>5 DEF OneSize
<1> QED
  BY <1>2, <1>3

(* the accesses among the first p entries, and their words *)
Accesses(p) == {k \in Regulars : k <= p}
Upto(p) == Unit * Cardinality(Accesses(p))

(* The accesses are positions of the trace. *)
LEMMA InAccesses ==
  ASSUME OrderInv
  PROVE  /\ Regulars \subseteq 1 .. Len(out) /\ Len(out) \in Nat
         /\ \A k, p : k \in Accesses(p) <=> k \in Regulars /\ k <= p
<1>1. PICK n \in Nat : n = Len(out) /\ DOMAIN out = 1 .. n
  BY DEF OrderInv
<1>2. Regulars \subseteq 1 .. n
  BY <1>1 DEF Regulars
<1>3. \A k, p : k \in Accesses(p) <=> k \in Regulars /\ k <= p
  BY Zenon DEF Accesses
<1> QED
  BY <1>1, <1>2, <1>3

(* They are finitely many. *)
LEMMA AccessesAre ==
  ASSUME OrderInv
  PROVE  /\ IsFiniteSet(Regulars) /\ Accesses(Len(out)) = Regulars /\ Accesses(0) = {}
         /\ \A p \in Nat : Accesses(p) \subseteq Regulars /\ IsFiniteSet(Accesses(p))
                          /\ Cardinality(Accesses(p)) \in Nat
<1>1. PICK n \in Nat : n = Len(out)
  BY InAccesses
<1>2. Regulars \subseteq 1 .. n /\ \A k \in Regulars : k \in 1 .. n
  BY <1>1, InAccesses
<1>3. IsFiniteSet(1 .. n)
  <2>1. 1 \in Int /\ n \in Int
    OBVIOUS
  <2> QED
    BY ONLY <2>1, FS_Interval
<1>4. IsFiniteSet(Regulars)
  BY ONLY <1>2, <1>3, FS_Subset
<1>5. \A p \in Nat : Accesses(p) \subseteq Regulars
  BY DEF Accesses
<1>6. \A p \in Nat : IsFiniteSet(Accesses(p))
  BY ONLY <1>4, <1>5, FS_Subset
<1>7. \A p \in Nat : Cardinality(Accesses(p)) \in Nat
  BY ONLY <1>6, FS_CardinalityType
<1>8. Accesses(n) = Regulars /\ Accesses(0) = {}
  <2>1. \A k \in Regulars : k \in Accesses(n)
    <3>1. \A k \in Regulars : k <= n
      BY <1>2
    <3> QED
      BY ONLY OrderInv, <3>1, InAccesses
  <2>2. \A k \in Accesses(n) : k \in Regulars
    BY InAccesses
  <2>3. \A k : k \notin Accesses(0)
    <3>1. \A k \in Regulars : ~ (k <= 0)
      BY <1>2
    <3> QED
      BY ONLY OrderInv, <3>1, InAccesses
  <2> QED
    BY ONLY <2>1, <2>2, <2>3
<1> QED
  BY <1>1, <1>4, <1>5, <1>6, <1>7, <1>8

(* One entry more, and entries that are no accesses. *)
LEMMA UptoIs ==
  ASSUME OrderInv, NEW p \in Nat
  PROVE  /\ Upto(p) \in Multiples(Unit) /\ Upto(p) \in Nat
         /\ p + 1 \in Regulars => Upto(p + 1) = Upto(p) + Unit
         /\ \A q \in Nat : p <= q /\ (\A k \in p + 1 .. q : k \notin Regulars) => Upto(q) = Upto(p)
         /\ \A q \in Nat : p <= q => Upto(p) <= Upto(q)
<1>1. PICK z \in Nat \ {0}, c \in Nat : z = Unit /\ c = Cardinality(Accesses(p))
  BY UnitIs, AccessesAre
<1>2. Upto(p) = z * c
  BY <1>1 DEF Upto
<1>3. Upto(p) \in Multiples(Unit) /\ Upto(p) \in Nat
  BY <1>1, <1>2 DEF Multiples
<1>7. \A k \in Regulars : k \in Nat
  <2>1. PICK n \in Nat : n = Len(out)
    BY InAccesses
  <2>2. \A k \in Regulars : k \in 1 .. n
    BY <2>1, InAccesses
  <2> QED
    BY <2>2
<1>4. ASSUME p + 1 \in Regulars PROVE Upto(p + 1) = Upto(p) + Unit
  <2>1. PICK q : q = p + 1
    OBVIOUS
  <2>2. \A k \in Regulars : (k <= q <=> k <= p \/ k = q) /\ (k = q => ~ (k <= p))
    BY <1>7, <2>1
  <2>3. Accesses(q) = Accesses(p) \union {q} /\ q \notin Accesses(p)
    <3>1. \A k : k \in Accesses(q) <=> k \in Accesses(p) \union {q}
      BY ONLY OrderInv, <1>4, <2>1, <2>2, InAccesses
    <3>2. q \notin Accesses(p)
      BY ONLY OrderInv, <1>4, <2>1, <2>2, InAccesses
    <3> QED
      BY ONLY <3>1, <3>2
  <2>4. Cardinality(Accesses(q)) = c + 1
    BY ONLY OrderInv, p \in Nat, <1>1, <2>3, AccessesAre, FS_AddElement
  <2>5. z * (c + 1) = z * c + z
    OBVIOUS
  <2> QED
    BY <1>1, <1>2, <2>1, <2>4, <2>5 DEF Upto
<1>5. ASSUME NEW q \in Nat, p <= q, \A k \in p + 1 .. q : k \notin Regulars PROVE Upto(q) = Upto(p)
  <2>1. \A k \in Regulars : k <= q <=> k <= p
    BY <1>5, <1>7
  <2>2. Accesses(q) = Accesses(p)
    <3>1. \A k : k \in Accesses(q) <=> k \in Accesses(p)
      BY ONLY OrderInv, <2>1, InAccesses
    <3> QED
      BY ONLY <3>1
  <2> QED
    BY <2>2 DEF Upto
<1>6. ASSUME NEW q \in Nat, p <= q PROVE Upto(p) <= Upto(q)
  <2>1. \A k \in Regulars : k <= p => k <= q
    BY <1>6, <1>7
  <2>2. Accesses(p) \subseteq Accesses(q)
    BY ONLY OrderInv, <2>1, InAccesses
  <2>3. PICK d \in Nat : d = Cardinality(Accesses(q))
    BY AccessesAre
  <2>4. IsFiniteSet(Accesses(q))
    BY AccessesAre
  <2>5. Cardinality(Accesses(p)) <= Cardinality(Accesses(q))
    BY ONLY <2>2, <2>4, FS_Subset
  <2>6. c <= d
    BY <1>1, <2>3, <2>5
  <2>7. z * c <= z * d
    <3>1. PICK e \in Nat : d = c + e
      <4>1. d - c \in Nat /\ d = c + (d - c)
        BY <2>6
      <4> QED
        BY <4>1
    <3>2. z * (c + e) = z * c + z * e /\ z * c \in Nat /\ z * e \in Nat
      OBVIOUS
    <3> QED
      BY <3>1, <3>2
  <2> QED
    BY <1>1, <1>2, <2>3, <2>7 DEF Upto
<1> QED
  BY <1>3, <1>4, <1>5, <1>6

(* All words of the trace have been accessed behind its last entry. *)
LEMMA AllWords ==
  ASSUME OrderInv, OneSize
  PROVE  /\ TraceWords = Upto(Len(out)) /\ Upto(0) = 0
         /\ \A p \in Nat : p >= Len(out) => Upto(p) = TraceWords
         /\ \A p \in Nat : Upto(p) <= TraceWords
<1>1. PICK z \in Nat \ {0}, n \in Nat : z = Unit /\ n = Len(out)
  BY UnitIs, InAccesses
<1>2. PICK D : D = Regulars
  OBVIOUS
<1>3. IsFiniteSet(D) /\ D = Accesses(n)
  BY <1>1, <1>2, AccessesAre
<1>4. PICK v : v = [k \in D |-> out[k].size]
  OBVIOUS
<1>5. DOMAIN v = D /\ \A k \in D : v[k] = z
  BY <1>1, <1>2, <1>4 DEF OneSize
<1>6. PICK f : /\ f = [s \in SUBSET D |-> IF s = {} THEN 0 ELSE v[First(s)] + f[s \ {First(s)}]]
              /\ TraceWords = f[D]
  <2>1. PICK m \in Nat : m = Cardinality(D)
    BY <1>3, FS_CardinalityType
  <2>2. PICK g : SumsOn(v, D, m, g)
    BY ONLY <2>1, SumsExist
  <2>3. Small(D, m) = SUBSET D
    <3>1. \A s \in SUBSET D : IsFiniteSet(s) /\ Cardinality(s) <= m
      BY <1>3, <2>1, FS_Subset
    <3> QED
      BY <3>1 DEF Small
  <2>4. g = [s \in SUBSET D |-> IF s = {} THEN 0 ELSE v[First(s)] + g[s \ {First(s)}]]
    BY ONLY <2>2, <2>3 DEF SumsOn
  <2>5. \A s \in SUBSET D : s # {} => First(s) \in D
    BY DEF First
  <2>6. \A s \in SUBSET D : s # {} => v[First(s)] = out[First(s)].size
    BY <1>4, <2>5
  <2>7. g = [s \in SUBSET D |-> IF s = {} THEN 0 ELSE out[First(s)].size + g[s \ {First(s)}]]
    BY ONLY <2>4, <2>6
  <2>8. PICK f : f = CHOOSE h : h = [s \in SUBSET D |->
                                       IF s = {} THEN 0 ELSE out[First(s)].size + h[s \ {First(s)}]]
    OBVIOUS
  <2>9. f = [s \in SUBSET D |-> IF s = {} THEN 0 ELSE out[First(s)].size + f[s \ {First(s)}]]
    BY ONLY <2>7, <2>8, Zenon
  <2>10. f = [s \in SUBSET D |-> IF s = {} THEN 0 ELSE v[First(s)] + f[s \ {First(s)}]]
    BY ONLY <2>6, <2>9
  <2>11. TraceWords = f[D]
    BY <1>2, <2>8 DEF TraceWords, MapThenSumSet, MapThenFoldSet, First
  <2> QED
    BY <2>10, <2>11
<1>7. f[{}] = 0 /\ \A s \in SUBSET D : s # {} => f[s] = v[First(s)] + f[s \ {First(s)}]
  BY ONLY <1>6
<1>8. PICK Good : Good = {s \in SUBSET D : f[s] = z * Cardinality(s)}
  OBVIOUS
<1>9. {} \in Good
  <2>1. z * 0 = 0 /\ Cardinality({}) = 0
    BY FS_EmptySet
  <2> QED
    BY <1>7, <1>8, <2>1
<1>10. ASSUME NEW s \in SUBSET D, s # {}, s \ {First(s)} \in Good PROVE s \in Good
  <2>1. PICK r : r = s \ {First(s)}
    OBVIOUS
  <2>2. IsFiniteSet(s)
    BY ONLY <1>3, s \in SUBSET D, FS_Subset
  <2>3. First(s) \in s /\ Cardinality(s) \in Nat /\ Cardinality(s \ {First(s)}) = Cardinality(s) - 1
    BY ONLY <1>10, <2>2, WithoutFirst
  <2>4. PICK c \in Nat, d \in Nat : c = Cardinality(s) /\ d = Cardinality(r) /\ c = d + 1
    <3>1. IsFiniteSet(r)
      BY ONLY <2>1, <2>2, FS_Subset
    <3>2. PICK d \in Nat : d = Cardinality(r)
      BY ONLY <3>1, FS_CardinalityType
    <3>3. Cardinality(s) = d + 1
      BY <2>1, <2>3, <3>2
    <3> QED
      BY <2>3, <3>2, <3>3
  <2>5. f[s] = z + f[r] /\ f[r] = z * d
    BY <1>5, <1>7, <1>8, <1>10, <2>1, <2>3, <2>4
  <2>6. z + z * d = z * (d + 1)
    OBVIOUS
  <2> QED
    BY <1>8, <2>4, <2>5, <2>6
<1>11. \A s \in SUBSET D : s \in Good
  BY ONLY <1>3, <1>9, <1>10, SumsInduct
<1>12. TraceWords = Upto(n)
  <2>1. D \in Good
    BY <1>11
  <2>2. TraceWords = z * Cardinality(D)
    BY <1>6, <1>8, <2>1
  <2> QED
    BY <1>1, <1>3, <2>2 DEF Upto
<1>13. Upto(0) = 0
  <2>1. Cardinality(Accesses(0)) = 0
    BY AccessesAre, FS_EmptySet
  <2>2. z * 0 = 0
    OBVIOUS
  <2> QED
    BY <1>1, <2>1, <2>2 DEF Upto
<1>14. ASSUME NEW p \in Nat, p >= n PROVE Upto(p) = Upto(n)
  <2>1. \A k \in n + 1 .. p : k \notin Regulars
    <3>1. Regulars \subseteq 1 .. n
      BY <1>1, InAccesses
    <3> QED
      BY <3>1
  <2> QED
    BY <1>14, <2>1, UptoIs
<1>15. ASSUME NEW p \in Nat PROVE Upto(p) <= Upto(n)
  <2>1. CASE p <= n
    BY <2>1, UptoIs
  <2>2. CASE p >= n
    BY <1>14, <2>2, UptoIs
  <2> QED
    BY <2>1, <2>2
<1> QED
  BY <1>1, <1>12, <1>13, <1>14, <1>15
-----------------------------------------------------------------------------
(* The parts that the partition tool makes. *)

(* The cursors of the partition tool stand on accesses or behind the trace. *)
Stop(p) == p + 1 \in Regulars \/ p >= Len(out)

(* What is at a cursor. *)
LEMMA StopIs ==
  ASSUME OrderInv, OneSize, NEW p \in Nat, Stop(p)
  PROVE  /\ p < Len(out) => SizeAt(p) = Unit /\ Upto(p + 1) = Upto(p) + Unit
         /\ ~ (p < Len(out)) => Upto(p) = TraceWords
<1>1. PICK n \in Nat : n = Len(out)
  BY InAccesses
<1>2. CASE p < n
  <2>1. p + 1 \in Regulars
    BY <1>1, <1>2 DEF Stop
  <2> QED
    BY <1>1, <1>2, <2>1, UptoIs DEF SizeAt, OneSize
<1>3. CASE ~ (p < n)
  BY <1>1, <1>3, AllWords
<1> QED
  BY <1>1, <1>2, <1>3

(* The next access is found without a word in between. *)
LEMMA NextStop ==
  ASSUME OrderInv, NEW k \in Nat
  PROVE  Regular(k) \in Nat /\ Stop(Regular(k)) /\ Upto(Regular(k)) = Upto(k)
<1>1. PICK n \in Nat : n = Len(out) /\ DOMAIN out = 1 .. n
  BY DEF OrderInv
<1>2. PICK r : r = Regular(k)
  OBVIOUS
<1>3. /\ r \in Nat /\ r >= k /\ SizeAt(r) >= 0
      /\ \A l \in k .. r - 1 : SizeAt(l) < 0
  BY <1>2, RegularFinds DEF OrderInv
<1>4. ASSUME r < n PROVE r + 1 \in Regulars
  <2>1. SizeAt(r) = out[r + 1].size /\ r + 1 \in DOMAIN out
    BY <1>1, <1>3, <1>4 DEF SizeAt
  <2>2. out[r + 1] \in OutEntry
    BY <2>1 DEF OrderInv
  <2>3. out[r + 1].size \in Int \ {0}
    BY <2>2 DEF OutEntry
  <2>4. out[r + 1].size > 0
    BY <1>3, <2>1, <2>3
  <2> QED
    BY <2>1, <2>4 DEF Regulars
<1>5. Stop(r)
  BY <1>1, <1>3, <1>4 DEF Stop
<1>6. ASSUME NEW x \in k + 1 .. r PROVE x \notin Regulars
  <2>1. PICK l \in k .. r - 1 : x = l + 1
    <3>1. x - 1 \in k .. r - 1 /\ x = (x - 1) + 1
      BY <1>3, <1>6
    <3> QED
      BY <3>1
  <2>2. SizeAt(l) < 0
    BY <1>3
  <2>3. SizeAt(l) = IF l < n THEN out[x].size ELSE 0
    BY <1>1, <2>1 DEF SizeAt
  <2>4. out[x].size < 0
    BY <2>2, <2>3
  <2>5. ASSUME x \in Regulars PROVE FALSE
    <3>1. out[x].size > 0 /\ out[x] \in OutEntry
      BY <2>5 DEF Regulars, OrderInv
    <3> QED
      BY <2>4, <3>1 DEF OutEntry
  <2> QED
    BY <2>5
<1>7. Upto(r) = Upto(k)
  BY <1>3, <1>6, UptoIs
<1> QED
  BY <1>2, <1>3, <1>5, <1>7

(* A job that begins to count behind so many words. *)
CountsFrom(j, words) ==
  /\ Upto(j.start + 1) = words
  /\ j.warmup <= j.start \/ Upto(j.warmup) = words
  /\ j.partition = cut.partition

(* and so for all jobs but the first, one partition after the other *)
AllCount(js) ==
  \A m \in 1 .. Len(js) - 1 : CountsFrom(js[m + 1], m * cut.partition)

(* the first is for the part from the beginning *)
FirstJob == [warmup |-> 0, start |-> 0, partition |-> cut.partition]

PartsInv ==
  phase \in {"cutting", "cut"} /\ OneSize =>
    /\ Stop(cut.p) /\ Stop(cut.w)
    /\ cut.pBytes = Upto(cut.p) /\ cut.wBytes = Upto(cut.w) /\ cut.wBytes <= cut.pBytes
    /\ Len(jobs) > 0 /\ jobs[1] = FirstJob
    /\ AllCount(jobs)
    /\ (Len(jobs) - 1) * cut.partition <= cut.pBytes
    /\ cut.pBytes < Len(jobs) * cut.partition
    /\ phase = "cut" => cut.p >= Len(out)

(* A quotient. *)
LEMMA QuotientIs ==
  ASSUME NEW p \in Nat \ {0}, NEW m \in Nat, NEW n \in Nat, m * p <= n, n < (m + 1) * p
  PROVE  n \div p = m
<1>1. PICK d \in Nat, r \in Nat : d = n \div p /\ n = p * d + r /\ r < p
  OBVIOUS
<1>2. CASE d < m
  <2>1. PICK e \in Nat : m = (d + 1) + e
    <3>1. m - (d + 1) \in Nat /\ m = (d + 1) + (m - (d + 1))
      BY <1>2
    <3> QED
      BY <3>1
  <2>2. ((d + 1) + e) * p = (p * d + p) + e * p /\ e * p \in Nat /\ p * d \in Nat
    OBVIOUS
  <2> QED
    BY <1>1, <2>1, <2>2
<1>3. CASE d > m
  <2>1. PICK e \in Nat : d = (m + 1) + e
    <3>1. d - (m + 1) \in Nat /\ d = (m + 1) + (d - (m + 1))
      BY <1>3
    <3> QED
      BY <3>1
  <2>2. p * ((m + 1) + e) = (m + 1) * p + p * e /\ p * e \in Nat /\ (m + 1) * p \in Nat
    OBVIOUS
  <2> QED
    BY <1>1, <2>1, <2>2
<1> QED
  BY <1>1, <1>2, <1>3

(* A step that leaves the trace and the partition alone leaves the words alone. *)
LEMMA SameWords ==
  ASSUME out' = out, cut'.partition = cut.partition
  PROVE  /\ OneSize' <=> OneSize
         /\ Unit' = Unit
         /\ \A p : Upto(p)' = Upto(p)
         /\ \A p : Stop(p)' <=> Stop(p)
         /\ \A j, w : CountsFrom(j, w)' <=> CountsFrom(j, w)
         /\ \A js : js = jobs' => (AllCount(jobs)' <=> AllCount(js))
         /\ TraceWords' = TraceWords
<1>1. Regulars' = Regulars
  BY DEF Regulars
<1>2. Unit' = Unit
  BY <1>1 DEF Unit
<1>3. OneSize' <=> OneSize
  BY <1>1, <1>2 DEF OneSize
<1>4. \A p : Upto(p)' = Upto(p)
  BY <1>1, <1>2 DEF Upto, Accesses
<1>5. \A p : Stop(p)' <=> Stop(p)
  BY <1>1 DEF Stop
<1>6. \A j, w : CountsFrom(j, w)' <=> CountsFrom(j, w)
  BY <1>4 DEF CountsFrom
<1>7. TraceWords' = TraceWords
  BY <1>1 DEF TraceWords, MapThenSumSet, MapThenFoldSet
<1>8. ASSUME NEW js, js = jobs' PROVE AllCount(jobs)' <=> AllCount(js)
  BY <1>1, <1>2, <1>8 DEF AllCount, CountsFrom, Upto, Accesses
<1> QED
  BY <1>2, <1>3, <1>4, <1>5, <1>6, <1>7, <1>8

(* The partition tool begins in front of the first access. *)
LEMMA StartsParts ==
  ASSUME OrderInv, NEW w \in Warmups, NEW p \in Partitions, StartCut(w, p)
  PROVE  PartsInv'
<1>1. /\ out' = out /\ phase' = "cutting"
      /\ cut' = [w |-> Regular(0), p |-> Regular(0), wBytes |-> 0, pBytes |-> 0,
                 warmup |-> w, partition |-> p]
      /\ jobs' = <<[warmup |-> 0, start |-> 0, partition |-> p]>>
  BY DEF StartCut
<1>2. PICK r : r = Regular(0)
  OBVIOUS
<1>3. Unit' = Unit /\ Regulars' = Regulars
  BY <1>1 DEF Unit, Regulars
<1>4. SUFFICES ASSUME OneSize' PROVE PartsInv'
  BY DEF PartsInv
<1>5. \A k \in Regulars : out[k].size = Unit
  BY <1>1, <1>3, <1>4 DEF OneSize
<1>6. Upto(0) = 0
  <2>1. PICK c : c = Cardinality(Accesses(0))
    OBVIOUS
  <2>2. c = 0
    BY <2>1, AccessesAre, FS_EmptySet
  <2>3. PICK z \in Nat : z = Unit
    BY UnitIs
  <2>4. z * c = 0
    BY <2>2
  <2> QED
    BY <2>1, <2>3, <2>4 DEF Upto
<1>7. r \in Nat /\ Stop(r) /\ Upto(r) = 0
  <2>1. PICK z \in Nat : z = 0
    OBVIOUS
  <2>2. Regular(z) \in Nat /\ Stop(Regular(z)) /\ Upto(Regular(z)) = Upto(z)
    BY ONLY OrderInv, z \in Nat, NextStop
  <2> QED
    BY <1>2, <1>6, <2>1, <2>2
<1>8. cut'.p = r /\ cut'.w = r /\ cut'.pBytes = 0 /\ cut'.wBytes = 0 /\ cut'.partition = p
  BY <1>1, <1>2
<1>9. Stop(r)' /\ Upto(r)' = 0
  BY <1>1, <1>3, <1>7 DEF Stop, Upto, Accesses
<1>10. Stop(cut.p)' /\ Stop(cut.w)' /\ Upto(cut.p)' = 0 /\ Upto(cut.w)' = 0
  BY <1>8, <1>9 DEF Stop, Upto, Accesses
<1>11. Len(jobs') = 1 /\ jobs'[1] = FirstJob'
  BY <1>1, <1>8 DEF FirstJob
<1>12. p \in Nat /\ p > 0
  BY CutAssumption
<1>13. (Len(jobs') - 1) * p = 0 /\ Len(jobs') * p = p
  BY <1>11, <1>12
<1>14. AllCount(jobs)'
  <2>1. \A m \in 1 .. Len(jobs') - 1 : FALSE
    BY <1>11
  <2> QED
    BY <2>1 DEF AllCount
<1>15. /\ cut'.pBytes = Upto(cut.p)' /\ cut'.wBytes = Upto(cut.w)' /\ cut'.wBytes <= cut'.pBytes
       /\ (Len(jobs') - 1) * cut'.partition <= cut'.pBytes
       /\ cut'.pBytes < Len(jobs') * cut'.partition
       /\ Len(jobs') > 0
  BY <1>8, <1>10, <1>11, <1>12, <1>13
<1> QED
  BY <1>1, <1>10, <1>11, <1>14, <1>15 DEF PartsInv

(* The cursors of the partition tool go on to the next access; the warm-up point does
   not overtake the other one. *)
LEMMA CutAdvances ==
  ASSUME OrderInv, CutInv, OneSize, PartsInv, CutStep
  PROVE  \E b, w \in Nat :
           /\ b = Upto(cut.p + 1) /\ b = cut.pBytes + Unit
           /\ cut'.p = Regular(cut.p + 1) /\ cut'.pBytes = b
           /\ cut'.w = w /\ cut'.wBytes = Upto(w) /\ Stop(w) /\ Upto(w) <= b
           /\ cut'.partition = cut.partition
           /\ jobs' = IF Full(b) THEN Append(jobs, [warmup |-> w, start |-> cut.p,
                                                    partition |-> cut.partition])
                      ELSE jobs
<1>1. PICK z \in Nat \ {0}, n \in Nat : z = Unit /\ n = Len(out)
  BY UnitIs, InAccesses
<1>2. PICK p \in Nat, v \in Nat, u \in Nat : p = cut.p /\ v = cut.w /\ u = cut.warmup
  BY DEF CutInv, CutType
<1>3. /\ phase = "cutting" /\ p < n
      /\ Stop(p) /\ Stop(v)
      /\ cut.pBytes = Upto(p) /\ cut.wBytes = Upto(v) /\ Upto(v) <= Upto(p)
  BY <1>1, <1>2 DEF CutStep, PartsInv
<1>4. SizeAt(p) = z /\ Upto(p + 1) = Upto(p) + z
  BY <1>1, <1>3, StopIs
<1>5. PICK x \in Nat, y \in Nat : x = Upto(p) /\ y = Upto(v)
  BY UptoIs
<1>6. PICK b \in Nat : b = x + z
  OBVIOUS
<1>7. b = cut.pBytes + SizeAt(cut.p) /\ b = Upto(p + 1)
  <2>1. cut.pBytes = x /\ SizeAt(cut.p) = z /\ Upto(p + 1) = x + z
    BY <1>2, <1>3, <1>4, <1>5
  <2> QED
    BY <1>6, <2>1
<1>8. PICK far : far = (b - cut.wBytes > cut.warmup)
  OBVIOUS
<1>9. PICK w : w = IF far THEN Regular(cut.w + 1) ELSE cut.w
  OBVIOUS
<1>10. PICK t : t = IF far THEN cut.wBytes + SizeAt(cut.w) ELSE cut.wBytes
  OBVIOUS
<1>11. /\ cut' = [cut EXCEPT !.p = Regular(cut.p + 1), !.pBytes = b, !.w = w, !.wBytes = t]
       /\ jobs' = IF Full(b) THEN Append(jobs, [warmup |-> w, start |-> cut.p,
                                                partition |-> cut.partition])
                  ELSE jobs
  BY ONLY CutStep, <1>7, <1>8, <1>9, <1>10 DEF CutStep
<1>17. (far <=> b - y > u) /\ w = (IF far THEN Regular(v + 1) ELSE v)
       /\ t = (IF far THEN y + SizeAt(v) ELSE y)
  BY <1>2, <1>3, <1>5, <1>8, <1>9, <1>10
<1>12. cut \in CutType
  BY DEF CutInv
<1>13. /\ cut'.p = Regular(cut.p + 1) /\ cut'.pBytes = b
       /\ cut'.w = w /\ cut'.wBytes = t /\ cut'.partition = cut.partition
  BY <1>11, <1>12 DEF CutType
<1>14. w \in Nat /\ Stop(w) /\ t = Upto(w) /\ Upto(w) <= b
  <2>1. CASE ~ far
    BY <1>3, <1>5, <1>6, <1>17, <2>1
  <2>2. CASE far
    <3>1. y < b
      BY <1>17, <2>2
    <3>2. v < n
      <4> SUFFICES ASSUME ~ (v < n) PROVE FALSE
        OBVIOUS
      <4>1. y = TraceWords
        BY <1>1, <1>3, <1>5, StopIs
      <4>2. b <= TraceWords
        <5>1. p + 1 \in Nat
          OBVIOUS
        <5> QED
          BY <1>7, <5>1, AllWords
      <4> QED
        BY <3>1, <4>1, <4>2
    <3>3. SizeAt(v) = z /\ Upto(v + 1) = y + z
      BY <1>1, <1>3, <1>5, <3>2, StopIs
    <3>4. y + z <= b
      <4>1. y \in Multiples(z) /\ b \in Multiples(z)
        <5>1. p + 1 \in Nat
          OBVIOUS
        <5> QED
          BY <1>1, <1>5, <1>7, <5>1, UptoIs
      <4> QED
        BY <3>1, <4>1, MultiplesAre
    <3>5. PICK k \in Nat : k = v + 1
      OBVIOUS
    <3>6. Regular(k) \in Nat /\ Stop(Regular(k)) /\ Upto(Regular(k)) = Upto(k)
      BY ONLY OrderInv, k \in Nat, NextStop
    <3>7. w = Regular(k) /\ t = y + z
      BY <1>17, <2>2, <3>3, <3>5
    <3> QED
      BY <3>3, <3>4, <3>5, <3>6, <3>7
  <2> QED
    BY <2>1, <2>2
<1>15. b = cut.pBytes + Unit
  BY <1>1, <1>3, <1>5, <1>6
<1>16. w \in Nat
  BY <1>14
<1> QED
  BY <1>2, <1>7, <1>11, <1>13, <1>14, <1>15, <1>16

(* A partition is full when its last word has been accessed. *)
LEMMA FullIs ==
  ASSUME OrderInv, CutInv, OneSize, PartsInv, CutStep, NEW b, b = cut.pBytes + Unit
  PROVE  /\ Full(b) <=> b = Len(jobs) * cut.partition
         /\ ~ Full(b) => b < Len(jobs) * cut.partition
<1>1. PICK z \in Nat \ {0}, q \in Nat \ {0}, x \in Nat : z = Unit /\ q = cut.partition /\ x = cut.pBytes
  <2>1. cut.pBytes = Upto(cut.p) /\ cut.p \in Nat
    BY DEF CutStep, PartsInv, CutInv, CutType
  <2>2. cut.pBytes \in Nat
    BY <2>1, UptoIs
  <2>3. cut.partition \in Nat \ {0}
    BY DEF CutInv, CutType
  <2> QED
    BY <2>2, <2>3, UnitIs
<1>2. PICK m \in Nat : Len(jobs) = m + 1
  <2>1. PICK n \in Nat : n = Len(jobs)
    BY DEF CutInv
  <2>2. n > 0
    BY <2>1 DEF PartsInv, CutStep
  <2>3. n - 1 \in Nat /\ n = (n - 1) + 1
    BY <2>2
  <2> QED
    BY <2>1, <2>3
<1>3. m * q <= x /\ x < (m + 1) * q
  <2>1. (Len(jobs) - 1) * cut.partition <= cut.pBytes /\ cut.pBytes < Len(jobs) * cut.partition
    BY DEF CutStep, PartsInv
  <2>2. Len(jobs) - 1 = m
    BY <1>2
  <2> QED
    BY <1>1, <1>2, <2>1, <2>2
<1>4. PICK y \in Nat : y = (m + 1) * q
  OBVIOUS
<1>5. x + z <= y
  <2>1. q \in Multiples(z)
    BY <1>1 DEF OneSize
  <2>2. y \in Multiples(z)
    <3>1. PICK k \in Nat : k = m + 1
      OBVIOUS
    <3>2. k * q \in Multiples(z)
      BY <2>1, MultiplesAre
    <3> QED
      BY <1>4, <3>1, <3>2
  <2>3. x \in Multiples(z)
    <3>1. cut.pBytes = Upto(cut.p) /\ cut.p \in Nat
      BY DEF CutStep, PartsInv, CutInv, CutType
    <3> QED
      BY <1>1, <3>1, UptoIs
  <2> QED
    BY <1>3, <1>4, <2>2, <2>3, MultiplesAre
<1>6. PICK d \in Nat : d = x + z
  OBVIOUS
<1>7. m * q <= d /\ d <= y /\ d = b
  <2>1. m * q \in Nat
    OBVIOUS
  <2> QED
    BY <1>1, <1>3, <1>5, <1>6, <2>1
<1>8. CASE d = y
  <2>1. PICK k \in Nat : k = m + 1
    OBVIOUS
  <2>2. k * q <= d /\ d < (k + 1) * q
    <3>1. (k + 1) * q = k * q + q /\ k * q \in Nat
      OBVIOUS
    <3> QED
      BY <1>4, <1>8, <2>1, <3>1
  <2>3. d \div q = k
    BY ONLY q \in Nat \ {0}, k \in Nat, d \in Nat, <2>2, QuotientIs
  <2>4. Full(b)
    BY <1>1, <1>2, <1>7, <2>1, <2>3 DEF Full
  <2> QED
    BY <1>1, <1>2, <1>4, <1>7, <1>8, <2>4
<1>9. CASE d # y
  <2>1. d < (m + 1) * q
    BY <1>4, <1>7, <1>9
  <2>2. d \div q = m
    BY ONLY q \in Nat \ {0}, m \in Nat, d \in Nat, <1>7, <2>1, QuotientIs
  <2>3. ~ Full(b)
    BY <1>1, <1>2, <1>7, <2>2 DEF Full
  <2> QED
    BY <1>1, <1>2, <1>4, <1>7, <1>9, <2>1, <2>3
<1> QED
  BY <1>8, <1>9

(* A round of the partition tool ends a part after as many partitions. *)
LEMMA CutsParts ==
  ASSUME OrderInv, CutInv, PartsInv, CutStep
  PROVE  PartsInv'
<1>1. out' = out /\ phase' = phase /\ phase = "cutting"
  BY DEF CutStep
<1>2. cut'.partition = cut.partition
  BY DEF CutStep, CutInv, CutType
<1>3. /\ OneSize' <=> OneSize
      /\ \A x : Upto(x)' = Upto(x)
      /\ \A x : Stop(x)' <=> Stop(x)
      /\ \A js : js = jobs' => (AllCount(jobs)' <=> AllCount(js))
  BY <1>1, <1>2, SameWords
<1>4. SUFFICES ASSUME OneSize PROVE PartsInv'
  BY <1>3 DEF PartsInv
<1>5. PICK b \in Nat, w \in Nat :
        /\ b = Upto(cut.p + 1) /\ b = cut.pBytes + Unit
        /\ cut'.p = Regular(cut.p + 1) /\ cut'.pBytes = b
        /\ cut'.w = w /\ cut'.wBytes = Upto(w) /\ Stop(w) /\ Upto(w) <= b
        /\ jobs' = IF Full(b) THEN Append(jobs, [warmup |-> w, start |-> cut.p,
                                                 partition |-> cut.partition])
                   ELSE jobs
  BY <1>4, CutAdvances
<1>6. PICK p \in Nat, q \in Nat \ {0}, m \in Nat :
        p = cut.p /\ q = cut.partition /\ Len(jobs) = m + 1
  <2>1. PICK n \in Nat : n = Len(jobs)
    BY DEF CutInv
  <2>2. n > 0
    BY <1>1, <1>4, <2>1 DEF PartsInv
  <2>3. n - 1 \in Nat /\ n = (n - 1) + 1
    BY <2>2
  <2>4. cut.p \in Nat /\ cut.partition \in Nat \ {0}
    BY DEF CutInv, CutType
  <2> QED
    BY <2>1, <2>3, <2>4
<1>20. PICK s : s = [warmup |-> w, start |-> p, partition |-> q]
  OBVIOUS
<1>7. /\ jobs[1] = FirstJob
      /\ \A x \in 1 .. m : CountsFrom(jobs[x + 1], x * q)
      /\ m * q <= cut.pBytes /\ cut.pBytes < (m + 1) * q
  <2>1. /\ jobs[1] = FirstJob
        /\ AllCount(jobs)
        /\ (Len(jobs) - 1) * cut.partition <= cut.pBytes
        /\ cut.pBytes < Len(jobs) * cut.partition
    BY <1>1, <1>4 DEF PartsInv
  <2>2. Len(jobs) - 1 = m
    BY <1>6, <1>20
  <2> QED
    BY <1>6, <1>20, <2>1, <2>2 DEF AllCount
<1>8. /\ Full(b) <=> b = (m + 1) * q
      /\ ~ Full(b) => b < (m + 1) * q
  BY <1>4, <1>5, <1>6, <1>20, FullIs
<1>9. Stop(cut.p)' /\ Upto(cut.p)' = b
  <2>1. PICK k \in Nat : k = cut.p + 1
    BY <1>6, <1>20
  <2>2. Regular(k) \in Nat /\ Stop(Regular(k)) /\ Upto(Regular(k)) = Upto(k)
    BY ONLY OrderInv, k \in Nat, NextStop
  <2>3. PICK r : r = Regular(k)
    OBVIOUS
  <2>4. Stop(r)' /\ Upto(r)' = b /\ cut'.p = r
    BY <1>3, <1>5, <2>1, <2>2, <2>3
  <2>5. cut.p' = r
    BY <2>4
  <2> QED
    BY <2>4, <2>5 DEF Stop, Upto, Accesses
<1>10. Stop(cut.w)' /\ Upto(cut.w)' = Upto(w) /\ cut'.w = w
  <2>1. Stop(w)' /\ Upto(w)' = Upto(w) /\ cut'.w = w
    BY <1>3, <1>5
  <2> QED
    BY <2>1 DEF Stop, Upto, Accesses
<1>11. /\ cut'.pBytes = Upto(cut.p)' /\ cut'.wBytes = Upto(cut.w)' /\ cut'.wBytes <= cut'.pBytes
  BY <1>5, <1>9, <1>10
<1>12. FirstJob' = FirstJob
  BY <1>2 DEF FirstJob
<1>13. CASE ~ Full(b)
  <2>1. jobs' = jobs /\ cut.pBytes <= b /\ b < (m + 1) * q
    <3>1. cut.pBytes \in Nat /\ Unit \in Nat
      <4>1. cut.pBytes = Upto(p)
        BY <1>1, <1>4, <1>6, <1>20 DEF PartsInv
      <4> QED
        BY <4>1, UnitIs, UptoIs
    <3> QED
      BY <1>5, <1>8, <1>13, <3>1
  <2>2. m * q <= b
    <3>1. m * q \in Nat /\ cut.pBytes \in Nat
      <4>1. cut.pBytes = Upto(p)
        BY <1>1, <1>4, <1>6, <1>20 DEF PartsInv
      <4> QED
        BY <4>1, UptoIs
    <3> QED
      BY <1>7, <2>1, <3>1
  <2>3. Len(jobs') = m + 1 /\ Len(jobs') - 1 = m
    BY <1>6, <1>20, <2>1
  <2>4. /\ Len(jobs') > 0 /\ jobs'[1] = FirstJob'
        /\ (Len(jobs') - 1) * cut'.partition <= cut'.pBytes
        /\ cut'.pBytes < Len(jobs') * cut'.partition
    BY <1>2, <1>5, <1>6, <1>20, <1>7, <1>12, <2>1, <2>2, <2>3
  <2>5. AllCount(jobs)'
    <3>1. PICK js : js = jobs'
      OBVIOUS
    <3>2. AllCount(js)
      BY <1>6, <1>20, <1>7, <2>3, <2>1, <3>1 DEF AllCount
    <3> QED
      BY <1>3, <3>1, <3>2
  <2> QED
    BY <1>1, <1>9, <1>10, <1>11, <2>4, <2>5 DEF PartsInv
<1>14. CASE Full(b)
  <2>1. jobs' = Append(jobs, s) /\ b = (m + 1) * q
    BY <1>5, <1>6, <1>20, <1>8, <1>14
  <2>2. /\ Len(jobs') = m + 2 /\ jobs'[m + 2] = s
        /\ \A x \in 1 .. m + 1 : jobs'[x] = jobs[x]
    <3>1. jobs \in Seq(CutJob)
      BY DEF CutInv
    <3> QED
      BY <1>6, <1>20, <2>1, <3>1
  <2>3. Len(jobs') - 1 = m + 1 /\ Len(jobs') > 0 /\ jobs'[1] = FirstJob'
    BY <1>7, <1>12, <2>2
  <2>4. (m + 1) * q <= b /\ b < (m + 2) * q
    <3>1. (m + 2) * q = (m + 1) * q + q /\ (m + 1) * q \in Nat
      OBVIOUS
    <3> QED
      BY <2>1, <3>1
  <2>5. /\ (Len(jobs') - 1) * cut'.partition <= cut'.pBytes
        /\ cut'.pBytes < Len(jobs') * cut'.partition
    BY <1>2, <1>5, <1>6, <1>20, <2>2, <2>3, <2>4
  <2>6. CountsFrom(s, (m + 1) * q)
    <3>1. s.start = p /\ s.warmup = w /\ s.partition = q
      BY <1>6, <1>20
    <3>2. Upto(p + 1) = b
      BY <1>5, <1>6, <1>20
    <3>3. w <= p \/ Upto(w) = b
      <4> SUFFICES ASSUME ~ (w <= p) PROVE Upto(w) = b
        OBVIOUS
      <4>1. PICK k \in Nat : k = p + 1
        OBVIOUS
      <4>2. Upto(k) <= Upto(w)
        BY <4>1, UptoIs
      <4>3. Upto(w) \in Nat
        BY UptoIs
      <4> QED
        BY <1>5, <3>2, <4>1, <4>2, <4>3
    <3> QED
      BY <1>6, <1>20, <2>1, <3>1, <3>2, <3>3 DEF CountsFrom
  <2>7. \A x \in 1 .. m + 1 : CountsFrom(jobs'[x + 1], x * q)
    <3> SUFFICES ASSUME NEW x \in 1 .. m + 1 PROVE CountsFrom(jobs'[x + 1], x * q)
      OBVIOUS
    <3>1. CASE x = m + 1
      BY <2>2, <2>6, <3>1
    <3>2. CASE x # m + 1
      <4>1. x \in 1 .. m /\ x + 1 \in 1 .. m + 1
        BY <3>2
      <4> QED
        BY <1>7, <2>2, <4>1
    <3> QED
      BY <3>1, <3>2
  <2>8. AllCount(jobs)'
    <3>1. PICK js : js = jobs'
      OBVIOUS
    <3>2. AllCount(js)
      BY <1>6, <1>20, <2>3, <2>7, <3>1 DEF AllCount
    <3> QED
      BY <1>3, <3>1, <3>2
  <2> QED
    BY <1>1, <1>9, <1>10, <1>11, <2>3, <2>5, <2>8 DEF PartsInv
<1> QED
  BY <1>13, <1>14

(* What does not change the trace, the cut or the jobs. *)
LEMMA SameParts ==
  ASSUME PartsInv, out' = out, cut' = cut, jobs' = jobs,
         phase' \in {"cutting", "cut"} => phase \in {"cutting", "cut"},
         phase' = "cut" => phase = "cut" \/ cut.p >= Len(out)
  PROVE  PartsInv'
<1>1. cut'.partition = cut.partition
  OBVIOUS
<1>2. /\ OneSize' <=> OneSize
      /\ \A x : Upto(x)' = Upto(x)
      /\ \A x : Stop(x)' <=> Stop(x)
      /\ \A js : js = jobs' => (AllCount(jobs)' <=> AllCount(js))
  BY <1>1, SameWords
<1>3. SUFFICES ASSUME phase' \in {"cutting", "cut"}, OneSize PROVE PartsInv'
  BY <1>2 DEF PartsInv
<1>4. /\ Stop(cut.p) /\ Stop(cut.w)
      /\ cut.pBytes = Upto(cut.p) /\ cut.wBytes = Upto(cut.w) /\ cut.wBytes <= cut.pBytes
      /\ Len(jobs) > 0 /\ jobs[1] = FirstJob
      /\ AllCount(jobs)
      /\ (Len(jobs) - 1) * cut.partition <= cut.pBytes
      /\ cut.pBytes < Len(jobs) * cut.partition
      /\ phase = "cut" => cut.p >= Len(out)
  BY <1>3 DEF PartsInv
<1>5. Regulars' = Regulars /\ Unit' = Unit
  BY DEF Regulars, Unit
<1>6. Stop(cut.p)' /\ Stop(cut.w)'
  BY <1>4, <1>5 DEF Stop
<1>7. Upto(cut.p)' = Upto(cut.p) /\ Upto(cut.w)' = Upto(cut.w)
  BY <1>5 DEF Upto, Accesses
<1>8. AllCount(jobs)'
  BY <1>2, <1>4
<1>9. FirstJob' = FirstJob
  BY DEF FirstJob
<1> QED
  BY <1>4, <1>6, <1>7, <1>8, <1>9 DEF PartsInv

(* Every step of the pipeline keeps what is said of the parts. *)
LEMMA StepParts == OrderInv /\ CutInv /\ PartsInv /\ [Next]_vars => PartsInv'
<1> SUFFICES ASSUME OrderInv, CutInv, PartsInv, [Next]_vars PROVE PartsInv'
  OBVIOUS
<1>1. CASE UNCHANGED toolVars
  BY <1>1, SameParts DEF toolVars
<1>2. ASSUME phase' \notin {"cutting", "cut"} PROVE PartsInv'
  BY <1>2 DEF PartsInv
<1>3. ASSUME NEW t \in DOMAIN raw, MergeOne(t) \/ CopyOwn(t) \/ AddInvalidation(t) \/ SkipRead(t)
      PROVE  PartsInv'
  <2>1. phase' = "merging"
    BY <1>3 DEF MergeOne, CopyOwn, AddInvalidation, SkipRead, Round
  <2> QED
    BY <1>2, <2>1
<1>4. CASE Save
  BY <1>2, <1>4 DEF Save
<1>5. ASSUME NEW w \in Warmups, NEW p \in Partitions, StartCut(w, p) PROVE PartsInv'
  BY <1>5, StartsParts
<1>6. CASE CutStep
  BY <1>6, CutsParts
<1>7. CASE EndCut
  <2>1. /\ out' = out /\ cut' = cut /\ jobs' = jobs /\ phase = "cutting" /\ cut.p >= Len(out)
    BY <1>7 DEF EndCut
  <2> QED
    BY <2>1, SameParts
<1> QED
  BY <1>1, <1>3, <1>4, <1>5, <1>6, <1>7
     DEF Next, vars, ToolNext, StartWhole, StartPart, WriteHistogram, Accumulate

(* Nothing has been cut in the beginning, *)
LEMMA InitParts == Init => PartsInv
BY DEF Init, ToolInit, PartsInv

(* Nothing is analysed before the trace has been cut. *)
QuietInv == phase # "cut" => pc = "idle" /\ files = <<>> /\ total = NoTotal

(* Nor has anything been analysed. *)
LEMMA InitQuiet == Init => QuietInv
BY DEF Init, StackInit, QuietInv

(* Every step of the pipeline keeps this order. *)
LEMMA StepQuiet == QuietInv /\ [Next]_vars => QuietInv'
<1> SUFFICES ASSUME QuietInv, [Next]_vars PROVE QuietInv'
  OBVIOUS
<1>1. CASE UNCHANGED vars
  BY <1>1 DEF vars, toolVars, stackVars, pipeVars, QuietInv
<1>2. CASE ToolNext /\ UNCHANGED <<stackVars, pipeVars>>
  <2>1. UNCHANGED <<pc, files, total>>
    BY <1>2 DEF stackVars, pipeVars
  <2>2. phase # "cut"
    BY <1>2 DEF ToolNext, MergeOne, CopyOwn, AddInvalidation, SkipRead, Round, Save, StartCut,
                CutStep, EndCut
  <2> QED
    BY <2>1, <2>2 DEF QuietInv
<1>3. ASSUME NEW k \in Kernels, NEW d \in BOOLEAN, StartWhole(k, d) PROVE QuietInv'
  BY <1>3 DEF StartWhole, toolVars, QuietInv
<1>4. CASE StartPart
  BY <1>4 DEF StartPart, toolVars, QuietInv
<1>5. CASE StackStep /\ UNCHANGED <<toolVars, pipeVars>>
  <2>1. pc # "idle" /\ phase' = phase
    BY <1>5 DEF StackStep, Fetch, Finish, Walk, Probe, PassOver, TakeSome, TakeLast, ColdMiss,
                ProbeSome, ProbeLast, ProbeEnd, toolVars
  <2> QED
    BY <2>1 DEF QuietInv
<1>6. CASE WriteHistogram
  BY <1>6 DEF WriteHistogram, toolVars, QuietInv
<1>7. CASE Accumulate
  BY <1>7 DEF Accumulate, toolVars, QuietInv
<1> QED
  BY <1>1, <1>2, <1>3, <1>4, <1>5, <1>6, <1>7 DEF Next
-----------------------------------------------------------------------------
(* What the jobs count. *)

(* the entries that a job has looked at, the one in hand included *)
Reached == IF pc \in {"walk", "probe"} THEN i ELSE i - 1

(* the words in front of those that the job counts *)
Skipped == (Len(files) - 1) * cut.partition

(* The analysis of a part counts the words behind those of the parts before. *)
RunInv ==
  phase = "cut" /\ Aligned /\ pc # "idle" /\ files # <<>> =>
    /\ trace = out /\ job.kernel = AllKernels /\ job.partition = cut.partition
    /\ Len(files) \in 1 .. Len(jobs)
    /\ job.warmup < job.start => Upto(job.start + 1) = Skipped
    /\ ~ (job.warmup < job.start) => Upto(job.warmup) = Skipped
    /\ warm <=> job.warmup < job.start /\ Reached <= job.start + 1
    /\ counted = Larger(Upto(Reached) - Skipped, 0)
    /\ counted <= cut.partition
    /\ pc = "done" => counted = Smaller(TraceWords - Skipped, cut.partition)

(* A step that looks at no other entry and counts nothing. *)
LEMMA SameRun ==
  ASSUME RunInv, UNCHANGED <<out, cut, jobs, phase, files, trace, job, warm, counted>>,
         Reached' = Reached, pc # "idle", pc' # "done" \/ pc' = pc
  PROVE  RunInv'
<1>1. cut'.partition = cut.partition
  OBVIOUS
<1>2. \A x : Upto(x)' = Upto(x)
  BY <1>1, SameWords
<1>3. Regulars' = Regulars /\ Unit' = Unit /\ TraceWords' = TraceWords
  BY <1>1, SameWords DEF Regulars
<1>4. Aligned' <=> Aligned
  BY <1>3 DEF Aligned
<1>5. Skipped' = Skipped
  BY DEF Skipped
<1>6. SUFFICES ASSUME phase = "cut", Aligned, files # <<>> PROVE RunInv'
  BY <1>4 DEF RunInv
<1>7. Upto(job.start + 1)' = Upto(job.start + 1) /\ Upto(job.warmup)' = Upto(job.warmup)
  BY <1>3 DEF Upto, Accesses
<1>8. Upto(Reached)' = Upto(Reached)
  <2>1. PICK r : r = Reached
    OBVIOUS
  <2>2. Upto(r)' = Upto(r) /\ Reached' = r
    BY <1>2, <2>1
  <2> HIDE DEF Reached
  <2>3. Upto(Reached)' = Upto(r)
    BY <1>3, <2>2 DEF Upto, Accesses
  <2> QED
    BY <2>1, <2>3
<1>9. /\ trace = out /\ job.kernel = AllKernels /\ job.partition = cut.partition
      /\ Len(files) \in 1 .. Len(jobs)
      /\ job.warmup < job.start => Upto(job.start + 1) = Skipped
      /\ ~ (job.warmup < job.start) => Upto(job.warmup) = Skipped
      /\ warm <=> job.warmup < job.start /\ Reached <= job.start + 1
      /\ counted = Larger(Upto(Reached) - Skipped, 0)
      /\ counted <= cut.partition
      /\ pc = "done" => counted = Smaller(TraceWords - Skipped, cut.partition)
  BY <1>6 DEF RunInv
<1> QED
  BY <1>3, <1>5, <1>7, <1>8, <1>9 DEF RunInv, Larger, Smaller

(* A job begins to count behind the words of the parts before. *)
LEMMA PartStarts ==
  ASSUME OrderInv, CutInv, PartsInv, StartPart, Aligned
  PROVE  RunInv'
<1>1. PICK n \in Nat : n = Len(files)
  <2>1. Len(files) \in 1 .. Len(jobs) /\ Len(jobs) \in Nat
    BY DEF StartPart, CutInv
  <2> QED
    BY <2>1
<1>2. PICK j : j = jobs[n]
  OBVIOUS
<1>3. n \in 1 .. Len(jobs) /\ phase = "cut" /\ job.kernel = AllKernels /\ pc = "idle"
  BY <1>1 DEF StartPart, Start
<1>4. /\ trace' = out /\ i' = j.warmup + 1 /\ warm' = (j.warmup < j.start)
      /\ counted' = 0 /\ pc' = "fetch"
      /\ job' = [warmup |-> j.warmup, start |-> j.start, partition |-> j.partition,
                 kernel |-> AllKernels, disjoint |-> job.disjoint]
  BY <1>1, <1>2 DEF StartPart, Start
<1>5. UNCHANGED <<out, cut, jobs, phase, files>>
  BY DEF StartPart, toolVars, pipeVars
<1>6. PICK q \in Nat \ {0} : q = cut.partition
  BY DEF CutInv, CutType
<1>7. j \in CutJob
  BY <1>2, <1>3 DEF CutInv
<1>8. j.warmup \in Nat /\ j.start \in Nat
  BY <1>7 DEF CutJob
<1>9. OneSize
  BY AlignedIs
<1>10. /\ jobs[1] = FirstJob /\ AllCount(jobs)
  BY <1>3, <1>9 DEF PartsInv
<1>11. PICK words \in Nat : words = (n - 1) * q
  <2>1. n - 1 \in Nat
    BY <1>3
  <2>2. \A a, b \in Nat : a * b \in Nat
    OBVIOUS
  <2> QED
    BY <2>1, <2>2
<1>12. /\ j.warmup < j.start => Upto(j.start + 1) = words
       /\ ~ (j.warmup < j.start) => Upto(j.warmup) = words
       /\ j.partition = q
  <2>1. CASE n = 1
    <3>1. j.warmup = 0 /\ j.start = 0 /\ j.partition = q
      BY <1>2, <1>6, <1>10, <2>1 DEF FirstJob
    <3>2. Upto(0) = 0
      BY <1>9, AllWords
    <3>3. words = 0
      BY <1>6, <1>11, <2>1
    <3> QED
      BY <3>1, <3>2, <3>3
  <2>2. CASE n # 1
    <3>1. PICK m \in 1 .. Len(jobs) - 1 : n = m + 1
      <4>1. n - 1 \in 1 .. Len(jobs) - 1 /\ n = (n - 1) + 1
        BY <1>3, <2>2 DEF CutInv
      <4> QED
        BY <4>1
    <3>2. CountsFrom(j, m * q)
      BY <1>2, <1>6, <1>10, <3>1 DEF AllCount
    <3>3. words = m * q
      BY <1>11, <3>1
    <3>4. j.warmup # j.start
      <4>1. n \in 2 .. Len(jobs)
        BY <1>3, <2>2
      <4> QED
        BY <1>2, <4>1 DEF Aligned
    <3>5. /\ Upto(j.start + 1) = words /\ j.partition = q
          /\ j.warmup <= j.start \/ Upto(j.warmup) = words
      BY <1>6, <3>2, <3>3 DEF CountsFrom
    <3> QED
      BY <1>8, <3>4, <3>5
  <2> QED
    BY <2>1, <2>2
<1>13. Skipped' = words
  BY <1>1, <1>5, <1>6, <1>11 DEF Skipped
<1>14. \A x : Upto(x)' = Upto(x)
  BY <1>5, SameWords
<1>15. Regulars' = Regulars /\ Unit' = Unit
  BY <1>5 DEF Regulars, Unit
<1>16. job'.warmup = j.warmup /\ job'.start = j.start /\ job'.partition = q /\ job'.kernel = AllKernels
  BY <1>4, <1>12
<1>17. Reached' = j.warmup
  <2>1. Reached' = i' - 1
    BY <1>4 DEF Reached
  <2> QED
    BY <1>4, <1>8, <2>1
<1>18. /\ Upto(job.start + 1)' = Upto(j.start + 1) /\ Upto(job.warmup)' = Upto(j.warmup)
  BY <1>15, <1>16 DEF Upto, Accesses
<1>19. Upto(Reached)' = Upto(j.warmup)
  BY <1>15, <1>17 DEF Upto, Accesses
<1>20. Larger(Upto(j.warmup) - words, 0) = 0
  <2>1. PICK x \in Nat : x = Upto(j.warmup)
    BY <1>8, UptoIs
  <2>2. x <= words
    <3>1. CASE j.warmup < j.start
      <4>1. j.start + 1 \in Nat /\ j.warmup <= j.start + 1
        BY <1>8, <3>1
      <4>2. Upto(j.warmup) <= Upto(j.start + 1)
        BY <1>8, <4>1, UptoIs
      <4> QED
        BY <1>12, <2>1, <3>1, <4>2
    <3>2. CASE ~ (j.warmup < j.start)
      BY <1>12, <2>1, <3>2
    <3> QED
      BY <3>1, <3>2
  <2> QED
    BY <2>1, <2>2 DEF Larger
<1>21. counted' = Larger(Upto(Reached)' - Skipped', 0)
  BY <1>4, <1>13, <1>19, <1>20
<1>22. warm' <=> job'.warmup < job'.start /\ Reached' <= job'.start + 1
  <2>1. PICK a \in Nat, b \in Nat : a = j.warmup /\ b = j.start
    BY <1>8
  <2>2. /\ warm' = (a < b) /\ job'.warmup = a /\ job'.start = b /\ Reached' = a
    BY <1>4, <1>16, <1>17, <2>1
  <2>3. (a < b) <=> (a < b /\ a <= b + 1)
    BY ONLY a \in Nat, b \in Nat
  <2> QED
    BY ONLY <2>2, <2>3
<1>23. counted' <= cut'.partition /\ pc' # "done"
  BY <1>4, <1>5, <1>6
<1>24. Len(files') \in 1 .. Len(jobs')
  BY <1>1, <1>3, <1>5
<1>25. /\ trace' = out' /\ job'.kernel = AllKernels /\ job'.partition = cut'.partition
       /\ job'.warmup < job'.start => Upto(job.start + 1)' = Skipped'
       /\ ~ (job'.warmup < job'.start) => Upto(job.warmup)' = Skipped'
  BY <1>4, <1>5, <1>6, <1>12, <1>13, <1>16, <1>18
<1> QED
  BY <1>21, <1>22, <1>23, <1>24, <1>25 DEF RunInv, Larger

(* Where a job may count, it has passed the words of the parts before; where it has
   not, it may not count. *)
LEMMA Passing ==
  ASSUME OrderInv, CutInv, JobInv, RunInv, OneSize,
         phase = "cut", Aligned, pc = "fetch", files # <<>>, NEW n \in Nat, n = i - 1
  PROVE  /\ counted = Larger(Upto(n) - Skipped, 0) /\ counted \in Nat
         /\ Skipped \in Multiples(Unit) /\ Skipped \in Nat /\ Skipped <= TraceWords
         /\ WarmAt(i) => Upto(n + 1) <= Skipped
         /\ ~ WarmAt(i) => Skipped <= Upto(n)
         /\ WarmAt(i) <=> job.warmup < job.start /\ n + 1 <= job.start + 1
<1>1. /\ job.warmup < job.start => Upto(job.start + 1) = Skipped
      /\ ~ (job.warmup < job.start) => Upto(job.warmup) = Skipped
      /\ warm <=> job.warmup < job.start /\ Reached <= job.start + 1
      /\ counted = Larger(Upto(Reached) - Skipped, 0)
  BY DEF RunInv
<1>2. PICK w \in Nat, s \in Nat : w = job.warmup /\ s = job.start /\ w <= n /\ i = n + 1
  BY DEF JobInv
<1>3. Reached = n
  BY <1>2 DEF Reached
<1>4. PICK a \in Nat, b \in Nat, c \in Nat, d \in Nat, t \in Nat :
        a = Upto(w) /\ b = Upto(s + 1) /\ c = Upto(n) /\ d = Upto(n + 1) /\ t = TraceWords
  <2>1. s + 1 \in Nat /\ n + 1 \in Nat
    OBVIOUS
  <2>2. TraceWords \in Nat
    <3>1. TraceWords = Upto(Len(out)) /\ Len(out) \in Nat
      BY AllWords, InAccesses
    <3> QED
      BY <3>1, UptoIs
  <2> QED
    BY <2>1, <2>2, UptoIs
<1>5. /\ a \in Multiples(Unit) /\ b \in Multiples(Unit) /\ a <= t /\ b <= t
      /\ a <= c /\ (s + 1 <= n => b <= c) /\ (n <= s => d <= b)
  <2>1. s + 1 \in Nat /\ n + 1 \in Nat
    OBVIOUS
  <2>2. a \in Multiples(Unit) /\ b \in Multiples(Unit) /\ a <= t /\ b <= t
    BY <1>4, <2>1, UptoIs, AllWords
  <2>3. a <= c
    BY <1>2, <1>4, UptoIs
  <2>4. s + 1 <= n => b <= c
    BY <1>4, <2>1, UptoIs
  <2>5. n <= s => d <= b
    <3>1. n <= s => n + 1 <= s + 1
      OBVIOUS
    <3> QED
      BY <1>4, <2>1, <3>1, UptoIs
  <2> QED
    BY <2>2, <2>3, <2>4, <2>5
<1>6. Skipped = IF w < s THEN b ELSE a
  BY <1>1, <1>2, <1>4
<1>7. WarmAt(i) <=> w < s /\ n <= s
  <2>1. warm <=> w < s /\ n <= s + 1
    BY <1>1, <1>2, <1>3
  <2>2. i - 1 = n
    BY <1>2
  <2> QED
    BY <1>2, <2>1, <2>2 DEF WarmAt
<1>8. counted = Larger(c - Skipped, 0) /\ counted = Larger(Upto(n) - Skipped, 0)
  BY <1>1, <1>3, <1>4
<1>9. counted \in Nat
  BY <1>6, <1>8 DEF Larger
<1>10. /\ Skipped \in Multiples(Unit) /\ Skipped \in Nat /\ Skipped <= TraceWords
  BY <1>4, <1>5, <1>6
<1>11. (WarmAt(i) => Upto(n + 1) <= Skipped) /\ (~ WarmAt(i) => Skipped <= Upto(n))
  BY <1>4, <1>5, <1>6, <1>7
<1>12. WarmAt(i) <=> job.warmup < job.start /\ n + 1 <= job.start + 1
  BY <1>2, <1>7
<1> QED
  BY <1>8, <1>9, <1>10, <1>11, <1>12

(* An entry is an access or a probe. *)
LEMMA EntryIs ==
  ASSUME OrderInv, OneSize, trace = out, NEW n \in Nat, i = n + 1, i <= Len(trace)
  PROVE  /\ IsProbe(trace[i]) => Upto(n + 1) = Upto(n)
         /\ ~ IsProbe(trace[i]) => size = Unit /\ Upto(n + 1) = Upto(n) + Unit
<1>1. i \in DOMAIN out
  BY DEF OrderInv
<1>2. out[i].size \in Int \ {0}
  <2>1. out[i] \in OutEntry
    BY <1>1 DEF OrderInv
  <2> QED
    BY <2>1 DEF OutEntry
<1>3. CASE IsProbe(trace[i])
  <2>1. \A k \in n + 1 .. n + 1 : k \notin Regulars
    BY <1>2, <1>3 DEF IsProbe, Regulars
  <2>2. PICK m \in Nat : m = n + 1
    OBVIOUS
  <2>3. Upto(m) = Upto(n)
    BY <2>1, <2>2, UptoIs
  <2> QED
    BY <1>3, <2>2, <2>3
<1>4. CASE ~ IsProbe(trace[i])
  <2>1. out[i].size > 0
    BY <1>2, <1>4 DEF IsProbe
  <2>2. n + 1 \in Regulars
    BY <1>1, <2>1 DEF Regulars
  <2>3. out[i].size = Unit
    BY <2>2 DEF OneSize
  <2>4. size = Unit
    BY <1>2, <2>1, <2>3 DEF size, Larger
  <2> QED
    BY <1>4, <2>2, <2>4, UptoIs
<1> QED
  BY <1>3, <1>4

(* Multiples are closed under sums. *)
LEMMA SumOfMultiples ==
  ASSUME NEW z \in Nat \ {0}, NEW x \in Multiples(z), NEW y \in Multiples(z)
  PROVE  x + y \in Multiples(z)
<1>1. PICK c \in Nat, d \in Nat : x = z * c /\ y = z * d
  BY DEF Multiples
<1>2. PICK e \in Nat : e = c + d
  OBVIOUS
<1>3. x + y = z * e
  BY <1>1, <1>2
<1> QED
  BY <1>3 DEF Multiples

(* The next entry: words are counted from where the parts before end. *)
LEMMA FetchRuns ==
  ASSUME OrderInv, CutInv, JobInv, RunInv, Fetch, UNCHANGED <<toolVars, pipeVars>>
  PROVE  RunInv'
<1>1. /\ UNCHANGED <<out, cut, jobs, phase, files, trace, job, i>> /\ pc = "fetch"
      /\ pc' \in {"walk", "probe"}
  BY DEF Fetch, toolVars, pipeVars
<1>2. cut'.partition = cut.partition /\ Skipped' = Skipped
  BY <1>1 DEF Skipped
<1>3. Regulars' = Regulars /\ Unit' = Unit
  BY <1>1 DEF Regulars, Unit
<1>4. Aligned' <=> Aligned
  BY <1>1, <1>3 DEF Aligned
<1>5. SUFFICES ASSUME phase = "cut", Aligned, files # <<>> PROVE RunInv'
  BY <1>1, <1>4 DEF RunInv
<1>6. OneSize
  BY <1>5, AlignedIs
<1>7. /\ trace = out /\ job.kernel = AllKernels /\ job.partition = cut.partition
      /\ Len(files) \in 1 .. Len(jobs)
      /\ job.warmup < job.start => Upto(job.start + 1) = Skipped
      /\ ~ (job.warmup < job.start) => Upto(job.warmup) = Skipped
      /\ counted <= cut.partition
  BY <1>1, <1>5 DEF RunInv
<1>8. PICK n \in Nat : n = i - 1 /\ i = n + 1 /\ i <= Len(trace)
  <2>1. i \in Nat /\ i >= job.warmup + 1 /\ job.warmup \in Nat
    BY DEF JobInv
  <2>2. i - 1 \in Nat /\ i = (i - 1) + 1
    BY <2>1
  <2> QED
    BY <2>2 DEF Fetch
<1>9. /\ counted = Larger(Upto(n) - Skipped, 0) /\ counted \in Nat
      /\ Skipped \in Multiples(Unit) /\ Skipped \in Nat /\ Skipped <= TraceWords
      /\ WarmAt(i) => Upto(n + 1) <= Skipped
      /\ ~ WarmAt(i) => Skipped <= Upto(n)
      /\ WarmAt(i) <=> job.warmup < job.start /\ n + 1 <= job.start + 1
  BY <1>1, <1>5, <1>6, <1>8, Passing
<1>10. /\ IsProbe(trace[i]) => Upto(n + 1) = Upto(n)
       /\ ~ IsProbe(trace[i]) => size = Unit /\ Upto(n + 1) = Upto(n) + Unit
  BY <1>6, <1>7, <1>8, EntryIs
<1>11. PICK x \in Nat, y \in Nat, s \in Nat, z \in Nat :
         x = Upto(n) /\ y = Upto(n + 1) /\ s = Skipped /\ z = Unit /\ x <= y
  <2>1. n + 1 \in Nat /\ n <= n + 1
    OBVIOUS
  <2> QED
    BY <1>9, <2>1, UptoIs, UnitIs
<1>12. counted' = Larger(y - s, 0) /\ counted' <= cut.partition
  <2>1. CASE IsProbe(trace[i]) \/ WarmAt(i)
    <3>1. counted' = counted
      BY <2>1 DEF Fetch
    <3>2. x = y \/ y <= s
      BY <1>9, <1>10, <1>11, <2>1
    <3>3. Larger(x - s, 0) = Larger(y - s, 0)
      BY <1>11, <3>2 DEF Larger
    <3> QED
      BY <1>7, <1>9, <1>11, <3>1, <3>3
  <2>2. CASE ~ IsProbe(trace[i]) /\ ~ WarmAt(i)
    <3>1. counted' = counted + size /\ ~ (counted + size > job.partition)
      BY <1>8, <2>2 DEF Fetch, PartitionFull
    <3>2. s <= x /\ y = x + z /\ size = z
      BY <1>9, <1>10, <1>11, <2>2
    <3>3. counted = x - s
      BY <1>9, <1>11, <3>2 DEF Larger
    <3>4. counted' = y - s /\ y - s >= 0
      BY <1>11, <3>1, <3>2, <3>3
    <3>5. counted' = Larger(y - s, 0)
      BY <3>4 DEF Larger
    <3>6. cut.partition \in Nat
      BY DEF CutInv, CutType
    <3>7. counted' <= cut.partition
      <4>1. PICK q \in Nat, c \in Nat : q = cut.partition /\ c = counted
        BY <1>9, <3>6
      <4>2. counted' = c + z /\ ~ (c + z > q)
        BY <1>7, <3>1, <3>2, <4>1
      <4> QED
        BY ONLY <1>11, <4>1, <4>2
    <3> QED
      BY <3>5, <3>7
  <2> QED
    BY <2>1, <2>2
<1>13. Reached' = n + 1
  BY <1>1, <1>8 DEF Reached
<1>14. Upto(Reached)' = y
  <2>1. Upto(Reached)' = Upto(n + 1)
    BY <1>3, <1>13 DEF Upto, Accesses
  <2> QED
    BY <1>11, <2>1
<1>15. Upto(job.start + 1)' = Upto(job.start + 1) /\ Upto(job.warmup)' = Upto(job.warmup)
  BY <1>1, <1>3 DEF Upto, Accesses
<1>16. warm' <=> job'.warmup < job'.start /\ Reached' <= job'.start + 1
  BY <1>1, <1>9, <1>13 DEF Fetch
<1>17. /\ counted' = Larger(Upto(Reached)' - Skipped', 0) /\ counted' <= cut'.partition /\ pc' # "done"
  BY <1>1, <1>2, <1>11, <1>12, <1>14
<1>18. /\ trace' = out' /\ job'.kernel = AllKernels /\ job'.partition = cut'.partition
       /\ Len(files') \in 1 .. Len(jobs')
       /\ job'.warmup < job'.start => Upto(job.start + 1)' = Skipped'
       /\ ~ (job'.warmup < job'.start) => Upto(job.warmup)' = Skipped'
  BY <1>1, <1>2, <1>7, <1>15
<1> QED
  BY <1>16, <1>17, <1>18 DEF RunInv, Larger

(* A job ends when it has counted a partition or all that is left. *)
LEMMA FinishRuns ==
  ASSUME OrderInv, CutInv, JobInv, RunInv, Finish, UNCHANGED <<toolVars, pipeVars>>
  PROVE  RunInv'
<1>1. /\ UNCHANGED <<out, cut, jobs, phase, files, trace, job, i, warm, counted>>
      /\ pc = "fetch" /\ pc' = "done"
  BY DEF Finish, toolVars, pipeVars
<1>2. cut'.partition = cut.partition /\ Skipped' = Skipped
  BY <1>1 DEF Skipped
<1>3. Regulars' = Regulars /\ Unit' = Unit /\ TraceWords' = TraceWords
  BY <1>1, <1>2, SameWords DEF Regulars
<1>4. Aligned' <=> Aligned
  BY <1>1, <1>3 DEF Aligned
<1>5. SUFFICES ASSUME phase = "cut", Aligned, files # <<>> PROVE RunInv'
  BY <1>1, <1>4 DEF RunInv
<1>6. OneSize
  BY <1>5, AlignedIs
<1>7. /\ trace = out /\ job.kernel = AllKernels /\ job.partition = cut.partition
      /\ Len(files) \in 1 .. Len(jobs)
      /\ job.warmup < job.start => Upto(job.start + 1) = Skipped
      /\ ~ (job.warmup < job.start) => Upto(job.warmup) = Skipped
      /\ warm <=> job.warmup < job.start /\ Reached <= job.start + 1
      /\ counted = Larger(Upto(Reached) - Skipped, 0)
      /\ counted <= cut.partition
  BY <1>1, <1>5 DEF RunInv
<1>8. PICK n \in Nat : n = i - 1 /\ i = n + 1
  <2>1. i \in Nat /\ i >= job.warmup + 1 /\ job.warmup \in Nat
    BY DEF JobInv
  <2>2. i - 1 \in Nat /\ i = (i - 1) + 1
    BY <2>1
  <2> QED
    BY <2>2
<1>9. /\ counted = Larger(Upto(n) - Skipped, 0) /\ counted \in Nat
      /\ Skipped \in Multiples(Unit) /\ Skipped \in Nat /\ Skipped <= TraceWords
      /\ WarmAt(i) => Upto(n + 1) <= Skipped
      /\ ~ WarmAt(i) => Skipped <= Upto(n)
      /\ WarmAt(i) <=> job.warmup < job.start /\ n + 1 <= job.start + 1
  BY <1>1, <1>5, <1>6, <1>8, Passing
<1>10. PICK x \in Nat, s \in Nat, z \in Nat \ {0}, q \in Nat, t \in Nat :
         /\ x = Upto(n) /\ s = Skipped /\ z = Unit /\ q = cut.partition /\ t = TraceWords
         /\ x <= t /\ s <= t
  <2>1. TraceWords \in Nat
    <3>1. TraceWords = Upto(Len(out)) /\ Len(out) \in Nat
      BY <1>6, AllWords, InAccesses
    <3> QED
      BY <3>1, UptoIs
  <2>2. cut.partition \in Nat
    BY DEF CutInv, CutType
  <2>3. Upto(n) \in Nat /\ Upto(n) <= TraceWords
    BY <1>6, UptoIs, AllWords
  <2> QED
    BY <1>9, <2>1, <2>2, <2>3, UnitIs
<1>11. counted = Larger(x - s, 0) /\ counted <= q
  BY <1>7, <1>9, <1>10
<1>12. counted = Smaller(t - s, q)
  <2>1. CASE i > Len(trace)
    <3>1. n >= Len(out)
      BY <1>7, <1>8, <2>1, InAccesses
    <3>2. x = t
      BY <1>6, <1>10, <3>1, AllWords
    <3> QED
      BY <1>10, <1>11, <3>2 DEF Larger, Smaller
  <2>2. CASE PartitionFull
    <3>1. i <= Len(trace) /\ ~ IsProbe(trace[i]) /\ ~ WarmAt(i) /\ counted + size > job.partition
      BY <2>2 DEF PartitionFull
    <3>2. size = Unit
      BY <1>6, <1>7, <1>8, <3>1, EntryIs
    <3>3. s <= x /\ counted = x - s /\ counted + z > q
      BY <1>7, <1>9, <1>10, <1>11, <3>1, <3>2 DEF Larger
    <3>4. s \in Multiples(z) /\ x \in Multiples(z) /\ q \in Multiples(z)
      BY <1>6, <1>9, <1>10, UptoIs DEF OneSize
    <3>5. s + q \in Multiples(z)
      BY <3>4, SumOfMultiples
    <3>6. ~ (x < s + q)
      <4> SUFFICES ASSUME x < s + q PROVE FALSE
        OBVIOUS
      <4>1. x + z <= s + q
        BY <3>4, <3>5, MultiplesAre
      <4> QED
        BY <3>3, <4>1
    <3>7. x = s + q
      BY <1>11, <3>3, <3>6
    <3> QED
      BY <1>10, <3>3, <3>7 DEF Smaller
  <2> QED
    BY <2>1, <2>2 DEF Finish
<1>13. Reached' = Reached
  BY <1>1 DEF Reached
<1>14. Upto(Reached)' = Upto(Reached)
  <2>1. PICK r : r = Reached
    OBVIOUS
  <2>2. Reached' = r
    BY <1>13, <2>1
  <2>3. Upto(Reached)' = Upto(r)
    BY <1>3, <2>2 DEF Upto, Accesses
  <2> QED
    BY <2>1, <2>3
<1>15. Upto(job.start + 1)' = Upto(job.start + 1) /\ Upto(job.warmup)' = Upto(job.warmup)
  BY <1>1, <1>3 DEF Upto, Accesses
<1>16. counted' = Smaller(TraceWords' - Skipped', cut'.partition)
  BY <1>1, <1>2, <1>3, <1>10, <1>12
<1> QED
  BY <1>1, <1>2, <1>7, <1>13, <1>14, <1>15, <1>16 DEF RunInv, Larger, Smaller

(* No job runs in the beginning. *)
LEMMA InitRun == Init => RunInv
BY DEF Init, StackInit, RunInv

(* Every step of the pipeline keeps what is said of the jobs. *)
LEMMA StepRun ==
  OrderInv /\ CutInv /\ PartsInv /\ JobInv /\ QuietInv /\ RunInv /\ [Next]_vars => RunInv'
<1> SUFFICES ASSUME OrderInv, CutInv, PartsInv, JobInv, QuietInv, RunInv, [Next]_vars PROVE RunInv'
  OBVIOUS
<1>1. ASSUME pc' = "idle" \/ files' = <<>> PROVE RunInv'
  BY <1>1 DEF RunInv
<1>2. CASE pc = "idle" /\ pc' = pc
  BY <1>1, <1>2
<1>3. CASE UNCHANGED vars
  <2>1. CASE pc = "idle"
    BY <1>2, <1>3, <2>1 DEF vars, stackVars
  <2>2. CASE pc # "idle"
    <3>1. UNCHANGED <<out, cut, jobs, phase, files, trace, job, warm, counted, pc, i>>
      BY <1>3 DEF vars, toolVars, stackVars, pipeVars
    <3>2. Reached' = Reached
      BY <3>1 DEF Reached
    <3> QED
      BY <2>2, <3>1, <3>2, SameRun
  <2> QED
    BY <2>1, <2>2
<1>4. CASE ToolNext /\ UNCHANGED <<stackVars, pipeVars>>
  <2>1. phase # "cut"
    BY <1>4 DEF ToolNext, MergeOne, CopyOwn, AddInvalidation, SkipRead, Round, Save, StartCut,
                CutStep, EndCut
  <2>2. pc' = "idle"
    BY <1>4, <2>1 DEF QuietInv, stackVars
  <2> QED
    BY <1>1, <2>2
<1>5. ASSUME NEW k \in Kernels, NEW d \in BOOLEAN, StartWhole(k, d) PROVE RunInv'
  BY <1>1, <1>5 DEF StartWhole, pipeVars
<1>6. CASE StartPart
  <2>1. CASE Aligned
    BY <1>6, <2>1, PartStarts
  <2>2. CASE ~ Aligned
    <3>1. UNCHANGED <<out, cut, jobs>>
      BY <1>6 DEF StartPart, toolVars
    <3>2. Regulars' = Regulars
      BY <3>1 DEF Regulars
    <3>3. ~ Aligned'
      BY <2>2, <3>1, <3>2 DEF Aligned
    <3> QED
      BY <3>3 DEF RunInv
  <2> QED
    BY <2>1, <2>2
<1>7. CASE StackStep /\ UNCHANGED <<toolVars, pipeVars>>
  <2>1. CASE Fetch
    BY <1>7, <2>1, FetchRuns
  <2>2. CASE Finish
    BY <1>7, <2>2, FinishRuns
  <2>3. ASSUME UNCHANGED <<trace, job, warm, counted>>, pc \in {"walk", "probe"},
               \/ pc' = pc /\ i' = i
               \/ pc' = "fetch" /\ i' = i + 1
        PROVE  RunInv'
    <3>1. i \in Nat
      BY DEF JobInv
    <3>2. Reached' = Reached
      <4>1. CASE pc' = pc /\ i' = i
        BY <2>3, <4>1 DEF Reached
      <4>2. CASE pc' = "fetch" /\ i' = i + 1
        <5>1. (i + 1) - 1 = i
          BY <3>1
        <5> QED
          BY <2>3, <4>2, <5>1 DEF Reached
      <4> QED
        BY <2>3, <4>1, <4>2
    <3>3. UNCHANGED <<out, cut, jobs, phase, files>>
      BY <1>7 DEF toolVars, pipeVars
    <3>4. pc # "idle" /\ pc' # "done"
      BY <2>3
    <3> QED
      BY <2>3, <3>2, <3>3, <3>4, SameRun
  <2>4. CASE PassOver \/ TakeSome \/ ProbeSome
    BY <2>3, <2>4 DEF PassOver, TakeSome, ProbeSome
  <2>5. CASE TakeLast \/ ColdMiss \/ ProbeLast \/ ProbeEnd
    BY <2>3, <2>5 DEF TakeLast, ColdMiss, ProbeLast, ProbeEnd, NextEntry
  <2> QED
    BY <1>7, <2>1, <2>2, <2>4, <2>5 DEF StackStep, Walk, Probe
<1>8. CASE WriteHistogram
  BY <1>1, <1>8 DEF WriteHistogram
<1>9. CASE Accumulate
  BY <1>2, <1>9 DEF Accumulate, stackVars
<1> QED
  BY <1>3, <1>4, <1>5, <1>6, <1>7, <1>8, <1>9 DEF Next
-----------------------------------------------------------------------------
(* What the histogram files hold. *)

(* the bins that are not written are empty *)
HalfInv == \A b \in Bins : 2 * b < 2^HistLen \/ hist.dist[b] = 0

(* The first histogram is empty. *)
LEMMA InitHalf == Init => HalfInv
BY DEF Init, StackInit, HalfInv, NoHistogram, NoBins

(* Words that are found are counted in a bin that is written. *)
LEMMA RecordedHalf ==
  ASSUME CountInv, HalfInv, NEW s, NEW words, NEW d,
         2 * CeilLog2(Larger(d, size)) < 2^HistLen,
         hist' = Recorded(s, words, d)
  PROVE  HalfInv'
<1>1. PICK h, g : h = hist /\ g = hist'
  OBVIOUS
<1>2. PICK b : b = CeilLog2(Larger(d, size))
  OBVIOUS
<1>3. h.dist \in Values /\ h \in Histogram
  BY <1>1 DEF CountInv, Consistent, Histogram
<1>4. PICK v : v = h.dist
  OBVIOUS
<1>5. g.dist = v \/ g.dist = [v EXCEPT ![b] = @ + words]
  <2>1. CASE s.inv
    <3>1. g = [h EXCEPT !.lost[b] = @ + words, !.inv = @ + words, !.cold = @ + words]
      BY <1>1, <1>2, <2>1 DEF Recorded
    <3> QED
      BY <1>3, <1>4, <3>1 DEF Histogram
  <2>2. CASE ~ s.inv
    <3>1. g = [h EXCEPT !.dist[b] = @ + words,
                        !.shared[b] = IF s.core # trace[i].core THEN @ + words ELSE @]
      BY <1>1, <1>2, <2>2 DEF Recorded
    <3> QED
      BY <1>3, <1>4, <3>1 DEF Histogram
  <2> QED
    BY <2>1, <2>2
<1>6. PICK n : n = 2^HistLen
  OBVIOUS
<1>7. 2 * b < n /\ \A x \in Bins : 2 * x < n \/ v[x] = 0
  BY <1>1, <1>2, <1>4, <1>6 DEF HalfInv
<1>8. ASSUME NEW x \in Bins PROVE 2 * x < n \/ g.dist[x] = 0
  <2>1. CASE x = b
    BY <1>7, <2>1
  <2>2. CASE x # b
    <3>1. g.dist[x] = v[x]
      BY <1>3, <1>4, <1>5, <2>2 DEF Values
    <3> QED
      BY <1>7, <3>1
  <2> QED
    BY <2>1, <2>2
<1> QED
  BY <1>1, <1>6, <1>8 DEF HalfInv

(* Every step of the pipeline keeps those bins empty. *)
LEMMA StepHalf ==
  OrderInv /\ JobInv /\ StackInv /\ BlindInv /\ OriginInv /\ CountInv /\ HalfInv /\ [Next]_vars
    => HalfInv'
<1> SUFFICES ASSUME OrderInv, JobInv, StackInv, BlindInv, OriginInv, CountInv, HalfInv, [Next]_vars
             PROVE  HalfInv'
  OBVIOUS
<1>1. ASSUME hist'.dist = hist.dist PROVE HalfInv'
  BY <1>1 DEF HalfInv
<1>2. ASSUME NEW tr, NEW jb, Start(tr, jb) PROVE HalfInv'
  BY <1>2 DEF Start, HalfInv, NoHistogram, NoBins
<1>3. ASSUME NEW s, s = stack[at], NEW m, m = Match(s), pc = "walk", at <= Len(stack), m.words > 0,
             hist' = IF Tracked THEN Recorded(s, m.words, Grown(distance, s)) ELSE hist
      PROVE  HalfInv'
  <2>1. CASE ~ Tracked
    BY <1>1, <1>3, <2>1
  <2>2. CASE Tracked
    <3>1. PICK d : d = Grown(distance, s)
      OBVIOUS
    <3>2. 2 * CeilLog2(Larger(d, size)) < 2^HistLen
      BY <1>3, <3>1, Found
    <3>3. hist' = Recorded(s, m.words, d)
      BY <1>3, <2>2, <3>1
    <3> QED
      BY <3>2, <3>3, RecordedHalf
  <2> QED
    BY <2>1, <2>2
<1>4. CASE StackStep
  <2>1. CASE Fetch \/ Finish \/ PassOver \/ Probe
    BY <1>1, <2>1 DEF Fetch, Finish, PassOver, Probe, ProbeSome, ProbeLast, ProbeEnd
  <2>2. CASE TakeSome
    BY <1>3, <2>2 DEF TakeSome
  <2>3. CASE TakeLast
    BY <1>3, <2>3 DEF TakeLast
  <2>4. CASE ColdMiss
    <3>1. PICK h, g : h = hist /\ g = hist'
      OBVIOUS
    <3>2. h \in Histogram /\ (g = h \/ g = [h EXCEPT !.cold = @ + pending])
      BY <2>4, <3>1 DEF ColdMiss, CountInv, Consistent
    <3>3. g.dist = h.dist
      BY <3>2 DEF Histogram
    <3> QED
      BY <1>1, <3>1, <3>3
  <2> QED
    BY <1>4, <2>1, <2>2, <2>3, <2>4 DEF StackStep, Walk
<1>5. CASE UNCHANGED stackVars
  BY <1>1, <1>5 DEF stackVars
<1>6. CASE WriteHistogram
  BY <1>1, <1>6 DEF WriteHistogram
<1>7. ASSUME NEW k \in Kernels, NEW d \in BOOLEAN, StartWhole(k, d) PROVE HalfInv'
  BY <1>2, <1>7 DEF StartWhole
<1>8. CASE StartPart
  BY <1>2, <1>8 DEF StartPart
<1> QED
  BY <1>4, <1>5, <1>6, <1>7, <1>8 DEF Next, Accumulate, vars

(* The histogram of a part holds so many words. *)
Holds(f, words) == SumBins(f.dist) + f.cold = words

FilesInv ==
  phase = "cut" /\ Aligned /\ TraceWords < CountMod =>
    /\ files \in Seq(Histogram) /\ Len(files) <= Len(jobs) + 1
    /\ \A m \in 1 .. Len(files) - 1 :
         Holds(files[m + 1], Smaller(TraceWords - (m - 1) * cut.partition, cut.partition))

(* What is written can be read. *)
LEMMA StoredIs ==
  ASSUME CountInv, HalfInv, NEW t \in Nat, t < CountMod
  PROVE  /\ Stored(hist) \in Histogram
         /\ Stored(hist).dist = hist.dist
         /\ hist.cold < CountMod => Stored(hist).cold = hist.cold
<1>1. PICK h, g : h = hist /\ g = Stored(h)
  OBVIOUS
<1>2. PICK n : n = 2^HistLen
  OBVIOUS
<1>3. h \in Histogram
  BY <1>1 DEF CountInv, Consistent
<1>4. /\ h.dist \in Values /\ h.shared \in Values /\ h.lost \in Values /\ h.cold \in Nat /\ h.inv \in Nat
  BY <1>3 DEF Histogram
<1>5. PICK v, u, w : /\ v = [b \in Bins |-> IF 2 * b < n THEN h.dist[b] ELSE 0]
                     /\ u = [b \in Bins |-> IF 2 * b < n THEN h.shared[b] ELSE 0]
                     /\ w = [b \in Bins |-> IF 2 * b < n THEN h.lost[b] ELSE 0]
  OBVIOUS
<1>6. v \in Values /\ u \in Values /\ w \in Values
  BY <1>4, <1>5 DEF Values
<1>7. CountMod \in Nat \ {0}
  BY StoredAssumption
<1>8. PICK c, d : c = h.cold % CountMod /\ d = h.inv % CountMod
  OBVIOUS
<1>9. c \in Nat /\ d \in Nat /\ (h.cold < CountMod => c = h.cold)
  BY ONLY <1>4, <1>7, <1>8
<1>10. g = [dist |-> v, shared |-> u, lost |-> w, cold |-> c, inv |-> d]
  BY <1>1, <1>2, <1>5, <1>8 DEF Stored
<1>11. g \in Histogram /\ g.dist = v /\ g.cold = c
  BY <1>6, <1>9, <1>10 DEF Histogram
<1>12. v = h.dist
  <2>1. \A b \in Bins : 2 * b < n \/ h.dist[b] = 0
    BY <1>1, <1>2 DEF HalfInv
  <2>2. \A b \in Bins : v[b] = h.dist[b]
    BY <1>5, <2>1
  <2> QED
    BY <1>4, <1>5, <2>2 DEF Values
<1> QED
  BY <1>1, <1>9, <1>11, <1>12

(* Of no files nothing is said. *)
LEMMA EmptyFiles ==
  ASSUME files' = <<>>, CutInv'
  PROVE  FilesInv'
<1>1. Len(files') = 0 /\ files' \in Seq(Histogram)
  OBVIOUS
<1>2. Len(jobs') \in Nat
  BY DEF CutInv
<1>3. 1 .. Len(files') - 1 = {}
  BY <1>1
<1> QED
  BY <1>1, <1>2, <1>3 DEF FilesInv

(* The file of a part holds the words that its job has counted. *)
LEMMA WritesWords ==
  ASSUME OrderInv, CutInv, CountInv, HalfInv, RunInv, FilesInv, WriteHistogram,
         phase = "cut", Aligned, TraceWords < CountMod
  PROVE  /\ files' \in Seq(Histogram) /\ Len(files') <= Len(jobs) + 1
         /\ \A m \in 1 .. Len(files') - 1 :
              Holds(files'[m + 1], Smaller(TraceWords - (m - 1) * cut.partition, cut.partition))
<1>1. PICK t \in Nat : t = TraceWords
  <2>1. OneSize
    BY AlignedIs
  <2>2. TraceWords = Upto(Len(out)) /\ Len(out) \in Nat
    BY <2>1, AllWords, InAccesses
  <2> QED
    BY <2>2, UptoIs
<1>2. PICK q \in Nat \ {0}, l \in Nat : q = cut.partition /\ l = Len(jobs)
  BY DEF CutInv, CutType
<1>3. PICK fs, h : fs = files /\ h = Stored(hist) /\ files' = Append(fs, h)
  BY DEF WriteHistogram
<1>4. /\ fs \in Seq(Histogram) /\ Len(fs) <= l + 1
      /\ \A m \in 1 .. Len(fs) - 1 : Holds(fs[m + 1], Smaller(t - (m - 1) * q, q))
  BY <1>1, <1>2, <1>3 DEF FilesInv
<1>5. /\ h \in Histogram /\ h.dist = hist.dist
      /\ hist.cold < CountMod => h.cold = hist.cold
  BY <1>1, <1>3, StoredIs
<1>6. PICK n \in Nat : n = Len(fs)
  BY <1>4
<1>7. /\ files' \in Seq(Histogram) /\ Len(files') = n + 1
      /\ files'[n + 1] = h /\ \A x \in 1 .. n : files'[x] = fs[x]
  BY <1>3, <1>4, <1>5, <1>6
<1>8. CASE n = 0
  <2>1. 1 .. Len(files') - 1 = {}
    BY <1>7, <1>8
  <2> QED
    BY <1>2, <1>7, <1>8, <2>1
<1>9. CASE n # 0
  <2>1. files # <<>> /\ pc = "done"
    BY <1>3, <1>6, <1>9 DEF WriteHistogram
  <2>2. /\ job.kernel = AllKernels /\ n \in 1 .. l
        /\ counted = Smaller(t - (n - 1) * q, q)
    BY <1>1, <1>2, <1>3, <1>6, <2>1 DEF RunInv, Skipped
  <2>3. SumBins(hist.dist) + hist.cold + Missing = counted /\ Missing = 0
        /\ SumBins(hist.dist) \in Nat /\ hist.cold \in Nat
    <3>1. hist \in Histogram
      BY DEF CountInv, Consistent
    <3>2. hist.dist \in Values /\ hist.cold \in Nat
      BY <3>1 DEF Histogram
    <3>3. SumBins(hist.dist) \in Nat
      BY <3>2, SumIsNat
    <3> QED
      BY <2>1, <2>2, <3>2, <3>3 DEF CountInv, Missing
  <2>4. PICK k \in Nat : k = (n - 1) * q
    <3>1. n - 1 \in Nat
      BY <2>2
    <3>2. \A a, b \in Nat : a * b \in Nat
      OBVIOUS
    <3> QED
      BY <3>1, <3>2
  <2>5. PICK a \in Nat, b \in Nat : a = SumBins(hist.dist) /\ b = hist.cold
    BY <2>3
  <2>6. a + b = counted
    BY ONLY <2>3, <2>5
  <2>7. counted <= t
    BY ONLY <2>2, <2>4, t \in Nat, k \in Nat, q \in Nat \ {0} DEF Smaller
  <2>8. hist.cold < CountMod
    BY <1>1, <2>5, <2>6, <2>7, StoredAssumption
  <2>9. Holds(h, Smaller(t - (n - 1) * q, q))
    BY <1>5, <2>2, <2>5, <2>6, <2>8 DEF Holds
  <2>10. ASSUME NEW m \in 1 .. Len(files') - 1
         PROVE  Holds(files'[m + 1], Smaller(t - (m - 1) * q, q))
    <3>1. CASE m = n
      BY <1>7, <2>9, <3>1
    <3>2. CASE m # n
      <4>1. m \in 1 .. n - 1 /\ m + 1 \in 1 .. n
        BY <1>7, <3>2
      <4> QED
        BY <1>4, <1>6, <1>7, <4>1
    <3> QED
      BY <3>1, <3>2
  <2>11. Len(files') <= l + 1
    BY <1>7, <2>2
  <2> QED
    BY <1>1, <1>2, <1>7, <2>10, <2>11
<1> QED
  BY <1>8, <1>9

(* Every step of the pipeline keeps what is said of the files. *)
LEMMA StepFiles ==
  OrderInv /\ CutInv /\ CutInv' /\ CountInv /\ HalfInv /\ QuietInv /\ RunInv /\ FilesInv /\ [Next]_vars
    => FilesInv'
<1> SUFFICES ASSUME OrderInv, CutInv, CutInv', CountInv, HalfInv, QuietInv, RunInv, FilesInv, [Next]_vars
             PROVE  FilesInv'
  OBVIOUS
<1>1. ASSUME UNCHANGED <<out, cut, jobs, phase>>
      PROVE  (TraceWords' = TraceWords) /\ (Aligned' <=> Aligned)
  <2>1. Regulars' = Regulars
    BY <1>1 DEF Regulars
  <2>2. cut'.partition = cut.partition
    BY <1>1
  <2>3. TraceWords' = TraceWords
    BY <1>1, <2>2, SameWords
  <2> QED
    BY <1>1, <2>1, <2>3 DEF Aligned
<1>2. ASSUME UNCHANGED <<out, cut, jobs, phase, files>> PROVE FilesInv'
  <2>1. (TraceWords' = TraceWords) /\ (Aligned' <=> Aligned)
    BY <1>1, <1>2
  <2> QED
    BY <1>2, <2>1 DEF FilesInv
<1>3. CASE ToolNext /\ UNCHANGED <<stackVars, pipeVars>>
  <2>1. phase # "cut"
    BY <1>3 DEF ToolNext, MergeOne, CopyOwn, AddInvalidation, SkipRead, Round, Save, StartCut,
                CutStep, EndCut
  <2>2. files' = <<>>
    BY <1>3, <2>1 DEF QuietInv, pipeVars
  <2> QED
    BY <2>2, EmptyFiles
<1>4. CASE WriteHistogram
  <2>1. UNCHANGED <<out, cut, jobs, phase>>
    BY <1>4 DEF WriteHistogram, toolVars
  <2>2. (TraceWords' = TraceWords) /\ (Aligned' <=> Aligned)
    BY <1>1, <2>1
  <2>3. SUFFICES ASSUME phase = "cut", Aligned, TraceWords < CountMod PROVE FilesInv'
    BY <2>1, <2>2 DEF FilesInv
  <2>4. /\ files' \in Seq(Histogram) /\ Len(files') <= Len(jobs) + 1
        /\ \A m \in 1 .. Len(files') - 1 :
             Holds(files'[m + 1], Smaller(TraceWords - (m - 1) * cut.partition, cut.partition))
    BY <1>4, <2>3, WritesWords
  <2> QED
    BY <2>1, <2>2, <2>4 DEF FilesInv
<1>5. CASE UNCHANGED <<toolVars, pipeVars>>
  BY <1>2, <1>5 DEF toolVars, pipeVars
<1>6. ASSUME NEW k \in Kernels, NEW d \in BOOLEAN, StartWhole(k, d) PROVE FilesInv'
  BY <1>2, <1>6 DEF StartWhole, toolVars, pipeVars
<1>7. CASE Accumulate
  BY <1>2, <1>7 DEF Accumulate, toolVars
<1> QED
  BY <1>3, <1>4, <1>5, <1>6, <1>7 DEF Next, StartPart, vars
-----------------------------------------------------------------------------
(* The sum of the files. *)

(* A finite set of numbers has a greatest one. *)
LEMMA WithoutMax ==
  ASSUME NEW l \in Nat, NEW s \in SUBSET (1 .. l), s # {}
  PROVE  Max(s) \in s /\ \A y \in s : Max(s) >= y
<1>1. PICK U : U = {k \in Nat : \A y \in s : k >= y}
  OBVIOUS
<1>2. l \in U /\ U \subseteq Nat
  BY <1>1
<1>3. PICK m \in U : \A k \in U : m <= k
  BY ONLY <1>2, Least
<1>4. m \in Nat /\ \A y \in s : m >= y
  BY <1>1, <1>3
<1>5. m \in s
  <2> SUFFICES ASSUME m \notin s PROVE FALSE
    OBVIOUS
  <2>1. PICK x : x \in s
    OBVIOUS
  <2>2. m - 1 \in Nat
    <3>1. x \in 1 .. l
      BY <2>1
    <3> QED
      BY <1>4, <2>1, <3>1
  <2>3. \A y \in s : m - 1 >= y
    BY <1>4
  <2>4. m - 1 \in U
    BY <1>1, <2>2, <2>3
  <2> QED
    BY <1>3, <1>4, <2>4
<1> QED
  BY <1>4, <1>5 DEF Max

(* g gives to each set of at most n positions the sum of the histograms there *)
FoldsOn(b, sq, D, n, g) ==
  g = [s \in Small(D, n) |-> IF s = {} THEN b ELSE Plus(g[s \ {Max(s)}], sq[Max(s)])]

(* There is such a sum for sets of any size. *)
LEMMA FoldsExist ==
  ASSUME NEW b, NEW sq, NEW l \in Nat, NEW D, D = 1 .. l, NEW n \in Nat
  PROVE  \E g : FoldsOn(b, sq, D, n, g)
<1>1. PICK B : B = {k \in Nat : ~ \E g : FoldsOn(b, sq, D, k, g)}
  OBVIOUS
<1>2. CASE B = {}
  BY <1>1, <1>2
<1>3. CASE B # {}
  <2>1. B \subseteq Nat
    BY <1>1
  <2>2. PICK m \in B : \A k \in B : m <= k
    BY ONLY <1>3, <2>1, Least
  <2>3. m # 0
    <3> SUFFICES ASSUME m = 0 PROVE FALSE
      OBVIOUS
    <3>1. PICK g : g = [s \in Small(D, 0) |-> b]
      OBVIOUS
    <3>2. \A s \in Small(D, 0) : s = {}
      BY FS_EmptySet, FS_CardinalityType DEF Small
    <3>3. FoldsOn(b, sq, D, 0, g)
      BY <3>1, <3>2 DEF FoldsOn
    <3> QED
      BY <1>1, <3>3
  <2>4. m \in Nat /\ m - 1 \in Nat /\ m - 1 \notin B
    BY <2>1, <2>2, <2>3
  <2>5. PICK g : FoldsOn(b, sq, D, m - 1, g)
    BY <1>1, <2>4
  <2>6. PICK f : f = [s \in Small(D, m) |-> IF s = {} THEN b ELSE Plus(g[s \ {Max(s)}], sq[Max(s)])]
    OBVIOUS
  <2>7. ASSUME NEW s \in Small(D, m), s # {} PROVE f[s \ {Max(s)}] = g[s \ {Max(s)}]
    <3>1. PICK r : r = s \ {Max(s)}
      OBVIOUS
    <3>2. IsFiniteSet(s) /\ Cardinality(s) <= m /\ s \in SUBSET D
      BY DEF Small
    <3>3. Max(s) \in s
      BY ONLY <2>7, <3>2, l \in Nat, D = 1 .. l, WithoutMax
    <3>4. IsFiniteSet(r) /\ Cardinality(s) \in Nat /\ Cardinality(r) = Cardinality(s) - 1
      BY ONLY <3>1, <3>2, <3>3, FS_RemoveElement, FS_CardinalityType
    <3>5. Cardinality(r) <= m - 1 /\ Cardinality(r) <= m
      BY ONLY <2>4, <3>2, <3>4
    <3>6. r \in Small(D, m - 1) /\ r \in Small(D, m)
      BY <3>1, <3>2, <3>4, <3>5 DEF Small
    <3>7. f[r] = IF r = {} THEN b ELSE Plus(g[r \ {Max(r)}], sq[Max(r)])
      BY <2>6, <3>6
    <3>8. g[r] = IF r = {} THEN b ELSE Plus(g[r \ {Max(r)}], sq[Max(r)])
      BY <2>5, <3>6 DEF FoldsOn
    <3> QED
      BY <3>1, <3>7, <3>8
  <2>8. f = [s \in Small(D, m) |-> IF s = {} THEN b ELSE Plus(f[s \ {Max(s)}], sq[Max(s)])]
    BY <2>6, <2>7
  <2>9. FoldsOn(b, sq, D, m, f)
    BY <2>8 DEF FoldsOn
  <2> QED
    BY <1>1, <2>2, <2>9
<1> QED
  BY <1>2, <1>3

(* What accum_tool adds up, one file after the other. *)
LEMMA FoldIs ==
  ASSUME NEW sq, NEW l \in Nat, DOMAIN sq = 1 .. l
  PROVE  \E g : /\ FoldLeft(Plus, NoHistogram, sq) = g[1 .. l]
                /\ g[1 .. 0] = NoHistogram
                /\ \A k \in 1 .. l : g[1 .. k] = Plus(g[1 .. k - 1], sq[k])
<1>1. PICK D, b : D = 1 .. l /\ b = NoHistogram
  OBVIOUS
<1>2. PICK n \in Nat : n = Cardinality(D)
  BY <1>1, FS_Interval, FS_CardinalityType
<1>3. IsFiniteSet(D)
  BY <1>1, FS_Interval
<1>4. \A s \in SUBSET D : IsFiniteSet(s) /\ Cardinality(s) <= n
  BY <1>2, <1>3, FS_Subset
<1>5. Small(D, n) = SUBSET D
  BY <1>4 DEF Small
<1>6. PICK f : FoldsOn(b, sq, D, n, f)
  BY <1>1, FoldsExist
<1>7. f = [s \in SUBSET D |-> IF s = {} THEN b ELSE Plus(f[s \ {Max(s)}], sq[Max(s)])]
  BY ONLY <1>5, <1>6 DEF FoldsOn
<1>8. PICK g : g = CHOOSE h : h = [s \in SUBSET D |->
                                     IF s = {} THEN b ELSE Plus(h[s \ {Max(s)}], sq[Max(s)])]
  OBVIOUS
<1>9. g = [s \in SUBSET D |-> IF s = {} THEN b ELSE Plus(g[s \ {Max(s)}], sq[Max(s)])]
  BY ONLY <1>7, <1>8, Zenon
<1>10. FoldLeft(Plus, NoHistogram, sq) = g[D]
  BY <1>1, <1>8 DEF FoldLeft, MapThenFoldSet
<1>11. g[{}] = b
  BY ONLY <1>9
<1>12. ASSUME NEW k \in 1 .. l PROVE g[1 .. k] = Plus(g[1 .. k - 1], sq[k])
  <2>1. PICK s : s = 1 .. k
    OBVIOUS
  <2>2. s \in SUBSET D /\ s # {} /\ k \in s /\ \A y \in s : k >= y
    BY <1>1, <2>1
  <2>3. Max(s) \in s /\ \A y \in s : Max(s) >= y
    BY ONLY l \in Nat, <1>1, <2>2, WithoutMax
  <2>4. Max(s) = k
    BY <2>1, <2>2, <2>3
  <2>5. s \ {k} = 1 .. k - 1
    BY <2>1
  <2>6. g[s] = Plus(g[s \ {Max(s)}], sq[Max(s)])
    BY ONLY <1>9, <2>2
  <2> QED
    BY <2>1, <2>4, <2>5, <2>6
<1>13. 1 .. 0 = {}
  OBVIOUS
<1> QED
  BY <1>1, <1>10, <1>11, <1>12, <1>13

(* Two histograms together hold the words of both. *)
LEMMA PlusHolds ==
  ASSUME NEW h \in Histogram, NEW g \in Histogram, NEW a, NEW b, Holds(h, a), Holds(g, b)
  PROVE  /\ Plus(h, g) \in Histogram /\ Holds(Plus(h, g), a + b)
         /\ a \in Nat /\ b \in Nat
<1>1. /\ h.dist \in Values /\ h.shared \in Values /\ h.lost \in Values /\ h.cold \in Nat /\ h.inv \in Nat
      /\ g.dist \in Values /\ g.shared \in Values /\ g.lost \in Values /\ g.cold \in Nat /\ g.inv \in Nat
  BY DEF Histogram
<1>2. \A v, u \in Values : PlusBins(v, u) \in Values
  BY DEF Values, PlusBins
<1>3. PICK v, u, w, x, y : /\ v = h.dist /\ u = g.dist /\ w = PlusBins(v, u)
                           /\ x = PlusBins(h.shared, g.shared) /\ y = PlusBins(h.lost, g.lost)
  OBVIOUS
<1>4. v \in Values /\ u \in Values /\ w \in Values /\ x \in Values /\ y \in Values
  BY <1>1, <1>2, <1>3
<1>5. Adds(w, v, u, Bins)
  BY <1>3 DEF Adds, PlusBins
<1>6. SumBins(v) \in Nat /\ SumBins(u) \in Nat /\ SumBins(w) = SumBins(v) + SumBins(u)
  BY ONLY <1>4, <1>5, SumPlus
<1>7. PICK c, d : c = h.cold + g.cold /\ d = h.inv + g.inv
  OBVIOUS
<1>8. c \in Nat /\ d \in Nat
  BY <1>1, <1>7
<1>9. Plus(h, g) = [dist |-> w, shared |-> x, lost |-> y, cold |-> c, inv |-> d]
  BY <1>3, <1>7 DEF Plus
<1>10. Plus(h, g) \in Histogram /\ Plus(h, g).dist = w /\ Plus(h, g).cold = c
  BY <1>4, <1>8, <1>9 DEF Histogram
<1>11. a = SumBins(v) + h.cold /\ b = SumBins(u) + g.cold
  BY <1>3 DEF Holds
<1>12. a \in Nat /\ b \in Nat /\ SumBins(w) + c = a + b
  <2>1. PICK e \in Nat, f \in Nat, m \in Nat, n \in Nat :
          e = SumBins(v) /\ f = SumBins(u) /\ m = h.cold /\ n = g.cold
    BY <1>1, <1>6
  <2> QED
    BY <1>6, <1>7, <1>11, <2>1
<1> QED
  BY <1>10, <1>12 DEF Holds

(* The files of all parts together hold all words. *)
LEMMA AddsUp ==
  ASSUME NEW sq \in Seq(Histogram), NEW l \in Nat, l = Len(sq), NEW q \in Nat \ {0}, NEW t \in Nat,
         (l - 1) * q <= t,
         \A m \in 1 .. l : Holds(sq[m], Smaller(t - (m - 1) * q, q))
  PROVE  /\ FoldLeft(Plus, NoHistogram, sq) \in Histogram
         /\ Holds(FoldLeft(Plus, NoHistogram, sq), Smaller(t, l * q))
<1>1. PICK g : /\ FoldLeft(Plus, NoHistogram, sq) = g[1 .. l]
               /\ g[1 .. 0] = NoHistogram
               /\ \A k \in 1 .. l : g[1 .. k] = Plus(g[1 .. k - 1], sq[k])
  <2>1. DOMAIN sq = 1 .. l
    OBVIOUS
  <2> QED
    BY ONLY l \in Nat, <2>1, FoldIs
<1>2. PICK B : B = {k \in 0 .. l : ~ (g[1 .. k] \in Histogram /\ Holds(g[1 .. k], Smaller(t, k * q)))}
  OBVIOUS
<1>3. B = {}
  <2> SUFFICES ASSUME B # {} PROVE FALSE
    OBVIOUS
  <2>1. B \subseteq Nat
    BY <1>2
  <2>2. PICK k \in B : \A j \in B : k <= j
    BY ONLY <2>1, B # {}, Least
  <2>3. k \in 0 .. l /\ ~ (g[1 .. k] \in Histogram /\ Holds(g[1 .. k], Smaller(t, k * q)))
    BY <1>2
  <2>4. CASE k = 0
    <3>1. Consistent(NoHistogram) /\ SumBins(NoHistogram.dist) + NoHistogram.cold = 0
      BY EmptyIsConsistent
    <3>2. Smaller(t, k * q) = 0
      BY <2>4 DEF Smaller
    <3>3. g[1 .. k] = NoHistogram
      BY <1>1, <2>4
    <3> QED
      BY <2>3, <3>1, <3>2, <3>3 DEF Consistent, Holds
  <2>5. CASE k # 0
    <3>1. PICK j \in Nat : j = k - 1 /\ k = j + 1 /\ j \in 0 .. l /\ k \in 1 .. l
      <4>1. k - 1 \in Nat /\ k = (k - 1) + 1 /\ k - 1 \in 0 .. l /\ k \in 1 .. l
        BY <2>3, <2>5
      <4> QED
        BY <4>1
    <3>2. j \notin B
      BY <2>2, <3>1
    <3>3. g[1 .. j] \in Histogram /\ Holds(g[1 .. j], Smaller(t, j * q))
      BY <1>2, <3>1, <3>2
    <3>4. sq[k] \in Histogram /\ Holds(sq[k], Smaller(t - j * q, q))
      BY <3>1
    <3>5. g[1 .. k] = Plus(g[1 .. j], sq[k])
      BY <1>1, <3>1
    <3>6. PICK x, y, a, b : /\ x = g[1 .. j] /\ y = sq[k]
                            /\ a = Smaller(t, j * q) /\ b = Smaller(t - j * q, q)
      OBVIOUS
    <3>7. x \in Histogram /\ y \in Histogram /\ Holds(x, a) /\ Holds(y, b)
      BY <3>3, <3>4, <3>6
    <3>8. Plus(x, y) \in Histogram /\ Holds(Plus(x, y), a + b)
      BY ONLY <3>7, PlusHolds
    <3>9. PICK c \in Nat, d \in Nat : c = j * q /\ d = (l - 1) * q /\ k * q = c + q /\ c <= d
      <4>1. PICK e \in Nat : l = (j + 1) + e
        <5>1. l - k \in Nat /\ l = (j + 1) + (l - k)
          BY <3>1
        <5> QED
          BY <5>1
      <4>2. l - 1 = j + e
        BY <4>1
      <4>3. (j + e) * q = j * q + e * q /\ (j + 1) * q = j * q + q
        OBVIOUS
      <4>4. \A m, n \in Nat : m * n \in Nat
        OBVIOUS
      <4>5. PICK u \in Nat, v \in Nat : u = j * q /\ v = e * q
        BY <4>4
      <4>6. (l - 1) * q = u + v /\ k * q = u + q
        BY <3>1, <4>2, <4>3, <4>5
      <4>7. u + v \in Nat /\ u <= u + v
        OBVIOUS
      <4> QED
        BY <4>5, <4>6, <4>7
    <3>10. a + b = Smaller(t, k * q)
      <4>1. c <= t
        BY <3>9
      <4>2. a = c
        BY <3>6, <3>9, <4>1 DEF Smaller
      <4>3. b = IF t - c < q THEN t - c ELSE q
        BY <3>6, <3>9 DEF Smaller
      <4>4. Smaller(t, k * q) = IF t < c + q THEN t ELSE c + q
        BY <3>9 DEF Smaller
      <4> QED
        BY ONLY <4>1, <4>2, <4>3, <4>4, t \in Nat, c \in Nat, q \in Nat \ {0}
    <3> QED
      BY <2>3, <3>5, <3>6, <3>8, <3>10
  <2> QED
    BY <2>4, <2>5
<1>4. l \in 0 .. l
  OBVIOUS
<1> QED
  BY <1>1, <1>2, <1>3, <1>4

(* What accum_tool has added up are the words of the trace. *)
TotalInv ==
  phase = "cut" /\ total # NoTotal /\ Aligned /\ TraceWords < CountMod => total.refs = TraceWords

(* The sum of the files is that of the trace. *)
LEMMA AddsAll ==
  ASSUME OrderInv, CutInv, PartsInv, FilesInv, Accumulate, Aligned, TraceWords < CountMod
  PROVE  total'.refs = TraceWords
<1>1. OneSize
  BY AlignedIs
<1>2. PICK t \in Nat : t = TraceWords
  <2>1. TraceWords = Upto(Len(out)) /\ Len(out) \in Nat
    BY <1>1, AllWords, InAccesses
  <2> QED
    BY <2>1, UptoIs
<1>3. PICK q \in Nat \ {0}, l \in Nat : q = cut.partition /\ l = Len(jobs)
  BY DEF CutInv, CutType
<1>4. phase = "cut" /\ Len(files) = l + 1
  BY <1>3 DEF Accumulate
<1>5. (l - 1) * q <= t /\ t < l * q
  <2>1. /\ cut.pBytes = Upto(cut.p) /\ cut.p >= Len(out)
        /\ (l - 1) * q <= cut.pBytes /\ cut.pBytes < l * q
    BY <1>1, <1>3, <1>4 DEF PartsInv
  <2>2. cut.p \in Nat
    BY DEF CutInv, CutType
  <2>3. Upto(cut.p) = t
    BY <1>1, <1>2, <2>1, <2>2, AllWords
  <2> QED
    BY <2>1, <2>3
<1>6. PICK fs, sq : fs = files /\ sq = Tail(fs)
  OBVIOUS
<1>7. /\ fs \in Seq(Histogram) /\ Len(fs) = l + 1
      /\ \A m \in 1 .. l : Holds(fs[m + 1], Smaller(t - (m - 1) * q, q))
  BY <1>2, <1>3, <1>4, <1>6 DEF FilesInv
<1>8. /\ sq \in Seq(Histogram) /\ Len(sq) = l /\ \A m \in 1 .. l : sq[m] = fs[m + 1]
  <2>1. fs # <<>>
    BY <1>7
  <2> QED
    BY <1>6, <1>7, <2>1
<1>9. \A m \in 1 .. l : Holds(sq[m], Smaller(t - (m - 1) * q, q))
  BY <1>7, <1>8
<1>10. PICK h : h = FoldLeft(Plus, NoHistogram, sq)
  OBVIOUS
<1>11. Holds(h, Smaller(t, l * q))
  BY ONLY <1>5, <1>8, <1>9, <1>10, q \in Nat \ {0}, l \in Nat, t \in Nat, AddsUp
<1>12. Smaller(t, l * q) = t
  BY <1>5 DEF Smaller
<1>13. total' = [hist |-> h, refs |-> SumBins(h.dist) + h.cold]
  BY <1>6, <1>10 DEF Accumulate
<1> QED
  BY <1>2, <1>11, <1>12, <1>13 DEF Holds

(* Every step of the pipeline keeps the total. *)
LEMMA StepTotal ==
  OrderInv /\ CutInv /\ PartsInv /\ QuietInv /\ FilesInv /\ TotalInv /\ [Next]_vars => TotalInv'
<1> SUFFICES ASSUME OrderInv, CutInv, PartsInv, QuietInv, FilesInv, TotalInv, [Next]_vars
             PROVE  TotalInv'
  OBVIOUS
<1>1. ASSUME UNCHANGED <<out, cut, jobs, phase>>
      PROVE  (TraceWords' = TraceWords) /\ (Aligned' <=> Aligned)
  <2>1. Regulars' = Regulars
    BY <1>1 DEF Regulars
  <2>2. cut'.partition = cut.partition
    BY <1>1
  <2>3. TraceWords' = TraceWords
    BY <1>1, <2>2, SameWords
  <2> QED
    BY <1>1, <2>1, <2>3 DEF Aligned
<1>2. ASSUME UNCHANGED <<out, cut, jobs, phase, total>> PROVE TotalInv'
  <2>1. (TraceWords' = TraceWords) /\ (Aligned' <=> Aligned)
    BY <1>1, <1>2
  <2> QED
    BY <1>2, <2>1 DEF TotalInv
<1>3. CASE ToolNext /\ UNCHANGED <<stackVars, pipeVars>>
  <2>1. phase # "cut"
    BY <1>3 DEF ToolNext, MergeOne, CopyOwn, AddInvalidation, SkipRead, Round, Save, StartCut,
                CutStep, EndCut
  <2>2. total' = NoTotal
    BY <1>3, <2>1 DEF QuietInv, pipeVars
  <2> QED
    BY <2>2 DEF TotalInv, NoTotal, NoHistogram, NoBins
<1>4. CASE Accumulate
  <2>1. UNCHANGED <<out, cut, jobs, phase>>
    BY <1>4 DEF Accumulate, toolVars
  <2>2. (TraceWords' = TraceWords) /\ (Aligned' <=> Aligned)
    BY <1>1, <2>1
  <2>3. SUFFICES ASSUME Aligned, TraceWords < CountMod PROVE TotalInv'
    BY <2>2 DEF TotalInv
  <2>4. total'.refs = TraceWords
    BY <1>4, <2>3, AddsAll
  <2> QED
    BY <2>2, <2>4 DEF TotalInv
<1>5. CASE UNCHANGED vars
  BY <1>2, <1>5 DEF vars, toolVars, pipeVars
<1>6. ASSUME NEW k \in Kernels, NEW d \in BOOLEAN, StartWhole(k, d) PROVE TotalInv'
  BY <1>2, <1>6 DEF StartWhole, toolVars, pipeVars
<1>7. CASE StartPart
  BY <1>2, <1>7 DEF StartPart, toolVars, pipeVars
<1>8. CASE StackStep /\ UNCHANGED <<toolVars, pipeVars>>
  BY <1>2, <1>8 DEF toolVars, pipeVars
<1>9. CASE WriteHistogram
  BY <1>2, <1>9 DEF WriteHistogram, toolVars
<1> QED
  BY <1>3, <1>4, <1>5, <1>6, <1>7, <1>8, <1>9 DEF Next

(* The invariant of the stack and the count, and what the parts add to it. *)
Analysed == OrderInv /\ CutInv /\ JobInv /\ StackInv /\ BlindInv /\ OriginInv /\ CountInv
Covered == PartsInv /\ QuietInv /\ RunInv /\ HalfInv /\ FilesInv /\ TotalInv

(* All that is said of the parts holds. *)
LEMMA CoveringHolds == Spec => []Covered
<1>1. Init => Covered
  <2> SUFFICES ASSUME Init PROVE Covered
    OBVIOUS
  <2>1. phase # "cut"
    BY DEF Init, ToolInit
  <2>2. FilesInv /\ TotalInv
    BY <2>1 DEF FilesInv, TotalInv
  <2> QED
    BY <2>2, InitParts, InitQuiet, InitRun, InitHalf DEF Covered
<1>2. Analysed /\ Analysed' /\ Covered /\ [Next]_vars => Covered'
  <2> SUFFICES ASSUME Analysed, Analysed', Covered, [Next]_vars PROVE Covered'
    OBVIOUS
  <2>1. /\ OrderInv /\ CutInv /\ CutInv' /\ JobInv /\ StackInv /\ BlindInv /\ OriginInv /\ CountInv
        /\ PartsInv /\ QuietInv /\ RunInv /\ HalfInv /\ FilesInv /\ TotalInv
    BY DEF Analysed, Covered
  <2> QED
    BY <2>1, StepParts, StepQuiet, StepRun, StepHalf, StepFiles, StepTotal DEF Covered
<1>3. Spec => []Analysed
  BY CountingHolds DEF Analysed
<1> QED
  BY <1>1, <1>2, <1>3, PTL DEF Spec

(* If all accesses are of one size that divides the partitions, and no warm-up begins
   where the part before ends, the totals that accum_tool prints are the words of the
   trace: the partition tool cuts between accesses, the call of krd_tool for a part begins
   to count behind the parts before and stops where the next begins, whatever the
   invalidations in between and the warm-up, and no count is lost on the way through the
   files, as long as the words can be counted in 4 bytes. *)
THEOREM PartsAreCovered == Spec => []PartsCover
<1>1. QuietInv /\ TotalInv => PartsCover
  BY DEF QuietInv, TotalInv, PartsCover
<1>2. Covered => PartsCover
  BY <1>1 DEF Covered
<1> QED
  BY <1>2, CoveringHolds, PTL
-----------------------------------------------------------------------------
(* One run over the whole trace: what krd_tool would do with it if it were not told to *)
(* warm up or to stop.                                                                 *)

(* the words of entry n *)
SizeOf(n) == Larger(out[n].size, -out[n].size)

(* the block an access puts on top *)
TopOf(n) == [elem |-> out[n].id, size |-> SizeOf(n), inv |-> FALSE, core |-> out[n].core]

(* the words of block s that entry n covers *)
Overlap(n, s) ==
  LET from == Larger(s.elem, out[n].id)
      to   == Smaller(s.elem + s.size, out[n].id + SizeOf(n))
  IN  [start |-> from, words |-> IF from < to THEN to - from ELSE 0]

(* block s, divided where an invalidation has hit it *)
MarkedBy(n, s, m) ==
  Before(s, m)
    \o Part([s EXCEPT !.inv = TRUE, !.core = out[n].core],
            Larger(m.start, s.elem), Smaller(m.start + m.words, s.elem + s.size))
    \o Behind(s, m)

(* stack st with these blocks in the place of the k-th *)
Put(st, k, blocks) == SubSeq(st, 1, k - 1) \o blocks \o SubSeq(st, k + 1, Len(st))

(* a last block that is invalid is dropped *)
Useless(st, k) == k = Len(st) /\ k > 1 /\ st[k].inv

(* words of entry n found in block s at distance d are entered in histogram h *)
Entered(h, n, s, words, d) ==
  LET b == CeilLog2(Larger(d, SizeOf(n)))
  IN  IF s.inv THEN [h EXCEPT !.lost[b] = @ + words, !.inv = @ + words, !.cold = @ + words]
      ELSE [h EXCEPT !.dist[b] = @ + words,
                     !.shared[b] = IF s.core # out[n].core THEN @ + words ELSE @]

(* A moment of the run. *)
Moment(p, n, st, k, pend, d, h) ==
  [pc |-> p, n |-> n, stack |-> st, at |-> k, pending |-> pend, distance |-> d, hist |-> h]

(* the moment before entry n *)
Between(n, st, h) == Moment("fetch", n, st, 1, 0, 0, h)

(* the entry is looked up; behind the last one the run stays where it is *)
AfterFetch(c) ==
  IF c.n <= Len(out)
  THEN Moment(IF IsProbe(out[c.n]) THEN "probe" ELSE "walk", c.n, c.stack, 1, SizeOf(c.n), 0, c.hist)
  ELSE c

(* one block of the stack is compared with an access *)
AfterWalk(c) ==
  LET s == c.stack[c.at]
      m == Overlap(c.n, s)
      d == Grown(c.distance, s)
      h == Entered(c.hist, c.n, s, m.words, d)
  IN  IF c.at > Len(c.stack)
      THEN Between(c.n + 1, <<TopOf(c.n)>> \o c.stack, [c.hist EXCEPT !.cold = @ + c.pending])
      ELSE IF m.words = 0
      THEN Moment("walk", c.n, c.stack, c.at + 1, c.pending, d, c.hist)
      ELSE IF m.words = c.pending
      THEN Between(c.n + 1, <<TopOf(c.n)>> \o Put(c.stack, c.at, Rest(s, m)), h)
      ELSE Moment("walk", c.n, Put(c.stack, c.at, Rest(s, m)),
                  IF Rest(s, m) = <<>> THEN c.at ELSE c.at + 1, c.pending - m.words, d, h)

(* one block of the stack is compared with an invalidation *)
AfterProbe(c) ==
  LET s  == c.stack[c.at]
      m  == Overlap(c.n, s)
      st == IF m.words = 0 THEN c.stack ELSE Put(c.stack, c.at, MarkedBy(c.n, s, m))
  IN  IF c.at > Len(c.stack)
      THEN Between(c.n + 1, c.stack, c.hist)
      ELSE IF m.words > 0 /\ m.words = c.pending
      THEN Between(c.n + 1, st, c.hist)
      ELSE IF Useless(st, c.at)
      THEN Moment("probe", c.n, Front(st), c.at, c.pending - m.words, c.distance, c.hist)
      ELSE Moment("probe", c.n, st, c.at + 1, c.pending - m.words, c.distance, c.hist)

(* the moment after c *)
After(c) ==
  IF c.pc = "fetch" THEN AfterFetch(c) ELSE IF c.pc = "walk" THEN AfterWalk(c) ELSE AfterProbe(c)

(* r is the beginning of the run, up to its moment k *)
Course(r, k) ==
  /\ r[0] = Between(1, <<>>, NoHistogram)
  /\ \A j \in 0 .. k - 1 : r[j + 1] = After(r[j])

(* c is a moment of the run *)
Attained(c) == \E k \in Nat : \E r : Course(r, k) /\ r[k] = c

(* Where a moment leads to. *)
LEMMA AfterIs ==
  ASSUME NEW c
  PROVE  /\ c.pc = "fetch" /\ ~ (c.n <= Len(out)) => After(c) = c
         /\ c.pc = "fetch" /\ c.n <= Len(out) =>
              /\ After(c).n = c.n /\ After(c).hist = c.hist
              /\ After(c).pc = IF IsProbe(out[c.n]) THEN "probe" ELSE "walk"
         /\ c.pc = "walk" => \/ After(c).pc = "walk" /\ After(c).n = c.n
                             \/ After(c).pc = "fetch" /\ After(c).n = c.n + 1
         /\ c.pc = "probe" => /\ After(c).hist = c.hist
                              /\ \/ After(c).pc = "probe" /\ After(c).n = c.n
                                 \/ After(c).pc = "fetch" /\ After(c).n = c.n + 1
<1>1. CASE c.pc = "fetch"
  BY <1>1 DEF After, AfterFetch, Moment
<1>2. CASE c.pc = "walk"
  <2>1. After(c) = AfterWalk(c)
    BY <1>2 DEF After
  <2>2. \/ AfterWalk(c).pc = "walk" /\ AfterWalk(c).n = c.n
        \/ AfterWalk(c).pc = "fetch" /\ AfterWalk(c).n = c.n + 1
    BY DEF AfterWalk, Between, Moment
  <2> QED
    BY <1>2, <2>1, <2>2
<1>3. CASE c.pc = "probe"
  <2>1. After(c) = AfterProbe(c)
    BY <1>3 DEF After
  <2>2. /\ AfterProbe(c).hist = c.hist
        /\ \/ AfterProbe(c).pc = "probe" /\ AfterProbe(c).n = c.n
           \/ AfterProbe(c).pc = "fetch" /\ AfterProbe(c).n = c.n + 1
    BY DEF AfterProbe, Between, Moment
  <2> QED
    BY <1>3, <2>1, <2>2
<1> QED
  BY <1>1, <1>2, <1>3

(* The run goes on. *)
LEMMA Goes == ASSUME NEW c, Attained(c) PROVE Attained(After(c))
<1>1. PICK k \in Nat : \E r : Course(r, k) /\ r[k] = c
  BY DEF Attained
<1>2. PICK r : Course(r, k) /\ r[k] = c
  BY <1>1
<1>3. PICK d : d = After(c)
  OBVIOUS
<1>4. PICK f : f = [j \in 0 .. k + 1 |-> IF j <= k THEN r[j] ELSE d]
  OBVIOUS
<1>5. (\A j \in 0 .. k : f[j] = r[j]) /\ f[k + 1] = d
  BY <1>4
<1>6. f[0] = Between(1, <<>>, NoHistogram)
  BY <1>2, <1>5 DEF Course
<1>7. ASSUME NEW j \in 0 .. (k + 1) - 1 PROVE f[j + 1] = After(f[j])
  <2>1. CASE j = k
    <3>1. f[j] = c /\ f[j + 1] = d
      BY <1>2, <1>5, <2>1
    <3> QED
      BY <1>3, <3>1
  <2>2. CASE j # k
    <3>1. j \in 0 .. k - 1 /\ j \in 0 .. k /\ j + 1 \in 0 .. k
      BY <2>2
    <3>2. r[j + 1] = After(r[j]) /\ f[j] = r[j] /\ f[j + 1] = r[j + 1]
      BY <1>2, <1>5, <3>1 DEF Course
    <3> QED
      BY <3>2
  <2> QED
    BY <2>1, <2>2
<1>8. PICK l \in Nat : l = k + 1
  OBVIOUS
<1>9. Course(f, l) /\ f[l] = d
  BY <1>5, <1>6, <1>7, <1>8 DEF Course
<1>10. Attained(d)
  BY <1>9 DEF Attained
<1> QED
  BY <1>3, <1>10

(* It begins. *)
LEMMA Begins == Attained(Between(1, <<>>, NoHistogram))
<1>1. PICK c : c = Between(1, <<>>, NoHistogram)
  OBVIOUS
<1>2. PICK r : r = [j \in 0 .. 0 |-> c]
  OBVIOUS
<1>3. r[0] = c /\ 0 .. 0 - 1 = {}
  BY <1>2
<1>4. Course(r, 0)
  BY <1>1, <1>3 DEF Course
<1> QED
  BY <1>1, <1>3, <1>4 DEF Attained

(* There is only one run. *)
LEMMA OneCourse ==
  ASSUME NEW k \in Nat, NEW l \in Nat, k <= l, NEW r, NEW f, Course(r, k), Course(f, l)
  PROVE  \A j \in 0 .. k : r[j] = f[j]
<1>1. PICK B : B = {j \in 0 .. k : r[j] # f[j]}
  OBVIOUS
<1>2. SUFFICES ASSUME B # {} PROVE FALSE
  BY <1>1
<1>3. B \subseteq Nat
  BY <1>1
<1>4. PICK m \in B : \A j \in B : m <= j
  BY ONLY <1>2, <1>3, Least
<1>5. m \in 0 .. k /\ r[m] # f[m]
  BY <1>1
<1>6. m # 0
  BY <1>5 DEF Course
<1>7. PICK j \in Nat : m = j + 1 /\ j \in 0 .. k - 1 /\ j \in 0 .. l - 1 /\ j \in 0 .. k
  <2>1. m - 1 \in Nat /\ m = (m - 1) + 1 /\ m - 1 \in 0 .. k - 1 /\ m - 1 \in 0 .. l - 1 /\ m - 1 \in 0 .. k
    BY <1>5, <1>6
  <2> QED
    BY <2>1
<1>8. j \notin B
  BY <1>4, <1>7
<1>9. r[j] = f[j]
  BY <1>1, <1>7, <1>8
<1>10. r[j + 1] = After(r[j]) /\ f[j + 1] = After(f[j])
  BY <1>7 DEF Course
<1> QED
  BY <1>5, <1>7, <1>9, <1>10

(* the histogram of the run between two entries, behind so many words *)
AtWords(h, words) ==
  h \in Histogram /\ \E c : /\ Attained(c) /\ c.pc = "fetch" /\ c.n \in Nat \ {0}
                            /\ Upto(c.n - 1) = words /\ c.hist = h

(* d is not before the moment with so many words behind it and histogram h *)
NotBefore(d, words, h) ==
  /\ d.n \in Nat \ {0} /\ d.pc \in {"fetch", "walk", "probe"}
  /\ \/ /\ d.pc # "walk" /\ Upto(d.n - 1) = words /\ d.hist = h
        /\ d.pc = "probe" => d.n \notin Regulars
     \/ d.pc = "walk" /\ d.n \in Regulars /\ Upto(d.n - 1) = words
     \/ Upto(d.n - 1) > words

(* The run does not go back behind such a moment. *)
LEMMA StaysBehind ==
  ASSUME OrderInv, OneSize, NEW words \in Nat, NEW h, NEW d, NotBefore(d, words, h)
  PROVE  NotBefore(After(d), words, h)
<1>1. PICK e : e = After(d)
  OBVIOUS
<1> SUFFICES NotBefore(e, words, h)
  BY <1>1
<1>2. PICK n \in Nat : d.n = n + 1
  <2>1. d.n - 1 \in Nat /\ d.n = (d.n - 1) + 1
    BY DEF NotBefore
  <2> QED
    BY <2>1
<1>3. PICK x \in Nat, y \in Nat, z \in Nat \ {0} : x = Upto(n) /\ y = Upto(n + 1) /\ z = Unit /\ x <= y
  <2>1. n + 1 \in Nat /\ n <= n + 1
    OBVIOUS
  <2> QED
    BY <2>1, UptoIs, UnitIs
<1>4. n + 1 \in Regulars => y = x + z
  BY <1>3, UptoIs
<1>5. n + 1 \notin Regulars => y = x
  <2> SUFFICES ASSUME n + 1 \notin Regulars PROVE y = x
    OBVIOUS
  <2>1. PICK m \in Nat : m = n + 1
    OBVIOUS
  <2>2. \A k \in n + 1 .. m : k \notin Regulars
    BY <2>1
  <2>3. Upto(m) = Upto(n)
    BY <2>1, <2>2, UptoIs
  <2> QED
    BY <1>3, <2>1, <2>3
<1>6. d.n - 1 = n /\ d.n + 1 - 1 = n + 1 /\ d.n + 1 \in Nat \ {0}
  BY <1>2
<1>7. /\ d.pc \in {"fetch", "walk", "probe"}
      /\ \/ d.pc # "walk" /\ x = words /\ d.hist = h /\ (d.pc = "probe" => n + 1 \notin Regulars)
         \/ d.pc = "walk" /\ n + 1 \in Regulars /\ x = words
         \/ x > words
  BY <1>2, <1>3, <1>6 DEF NotBefore
<1>8. ASSUME e.n = d.n, e.pc \in {"fetch", "walk", "probe"},
             (/\ e.pc # "walk" /\ x = words /\ e.hist = h
              /\ e.pc = "probe" => n + 1 \notin Regulars)
             \/ (e.pc = "walk" /\ n + 1 \in Regulars /\ x = words)
             \/ x > words
      PROVE  NotBefore(e, words, h)
  <2>1. e.n - 1 = n /\ e.n \in Nat \ {0} /\ e.n = n + 1
    BY <1>2, <1>6, <1>8
  <2>2. Upto(e.n - 1) = x
    BY <1>3, <2>1
  <2> QED
    BY <1>8, <2>1, <2>2 DEF NotBefore
<1>9. ASSUME e.n = d.n + 1, e.pc = "fetch", y > words \/ (y = words /\ e.hist = h)
      PROVE  NotBefore(e, words, h)
  <2>1. e.n - 1 = n + 1 /\ e.n \in Nat \ {0}
    BY <1>2, <1>9
  <2>2. Upto(e.n - 1) = y
    BY <1>3, <2>1
  <2> QED
    BY <1>9, <2>2, <2>1 DEF NotBefore
<1>10. CASE d.pc = "fetch"
  <2>1. CASE ~ (d.n <= Len(out))
    <3>1. e = d
      BY <1>1, <1>10, <2>1, AfterIs
    <3> QED
      BY <1>1, <3>1
  <2>2. CASE d.n <= Len(out)
    <3>1. /\ e.n = d.n /\ e.hist = d.hist
          /\ e.pc = IF IsProbe(out[d.n]) THEN "probe" ELSE "walk"
      BY <1>1, <1>10, <2>2, AfterIs
    <3>2. n + 1 \in DOMAIN out /\ out[n + 1] \in OutEntry
      BY <1>2, <2>2 DEF OrderInv
    <3>3. n + 1 \in Regulars <=> ~ IsProbe(out[n + 1])
      BY <3>2 DEF Regulars, IsProbe, OutEntry
    <3>4. e.pc \in {"walk", "probe"} /\ (e.pc = "walk" <=> n + 1 \in Regulars)
      BY <1>2, <3>1, <3>3
    <3>5. \/ x = words /\ d.hist = h
          \/ x > words
      BY <1>7, <1>10
    <3> QED
      BY <1>8, <3>1, <3>4, <3>5
  <2> QED
    BY <2>1, <2>2
<1>11. CASE d.pc = "walk"
  <2>1. \/ e.pc = "walk" /\ e.n = d.n
        \/ e.pc = "fetch" /\ e.n = d.n + 1
    BY <1>1, <1>11, AfterIs
  <2>2. \/ n + 1 \in Regulars /\ x = words
        \/ x > words
    BY <1>7, <1>11
  <2>3. y > words
    BY <1>3, <1>4, <2>2
  <2>4. CASE e.pc = "walk" /\ e.n = d.n
    BY <1>8, <2>2, <2>4
  <2>5. CASE e.pc = "fetch" /\ e.n = d.n + 1
    BY <1>9, <2>3, <2>5
  <2> QED
    BY <2>1, <2>4, <2>5
<1>12. CASE d.pc = "probe"
  <2>1. /\ e.hist = d.hist
        /\ \/ e.pc = "probe" /\ e.n = d.n
           \/ e.pc = "fetch" /\ e.n = d.n + 1
    BY <1>1, <1>12, AfterIs
  <2>2. x > words => y > words
    BY <1>3
  <2>3. \/ x = words /\ d.hist = h /\ n + 1 \notin Regulars
        \/ x > words
    BY <1>7, <1>12
  <2>4. CASE e.pc = "probe" /\ e.n = d.n
    BY <1>8, <2>1, <2>3, <2>4
  <2>5. CASE e.pc = "fetch" /\ e.n = d.n + 1
    BY <1>5, <1>9, <2>1, <2>2, <2>3, <2>5
  <2> QED
    BY <2>1, <2>4, <2>5
<1> QED
  BY <1>1, <1>7, <1>10, <1>11, <1>12

(* A moment with as many words behind it, but later, has the same histogram. *)
LEMMA SameLater ==
  ASSUME OrderInv, OneSize, NEW words \in Nat, NEW k \in Nat, NEW l \in Nat, k <= l, NEW r, NEW f,
         Course(r, k), Course(f, l), r[k].pc = "fetch", f[l].pc = "fetch",
         r[k].n \in Nat \ {0}, Upto(r[k].n - 1) = words, Upto(f[l].n - 1) = words
  PROVE  r[k].hist = f[l].hist
<1>1. k \in 0 .. k
  OBVIOUS
<1>2. r[k] = f[k]
  <2>1. k \in Nat /\ l \in Nat /\ k <= l /\ Course(r, k) /\ Course(f, l)
    OBVIOUS
  <2>2. \A j \in 0 .. k : r[j] = f[j]
    BY ONLY <2>1, OneCourse
  <2> QED
    BY ONLY <1>1, <2>2
<1>3. PICK h : h = r[k].hist
  OBVIOUS
<1>4. NotBefore(f[k], words, h)
  BY <1>2, <1>3 DEF NotBefore
<1>5. PICK B : B = {j \in k .. l : ~ NotBefore(f[j], words, h)}
  OBVIOUS
<1>6. B = {}
  <2> SUFFICES ASSUME B # {} PROVE FALSE
    OBVIOUS
  <2>1. B \subseteq Nat
    BY <1>5
  <2>2. PICK m \in B : \A j \in B : m <= j
    BY ONLY B # {}, <2>1, Least
  <2>3. m \in k .. l /\ ~ NotBefore(f[m], words, h)
    BY <1>5
  <2>4. PICK j \in Nat : m = j + 1 /\ j \in k .. l /\ j \in 0 .. l - 1
    <3>1. m - 1 \in Nat /\ m = (m - 1) + 1 /\ m - 1 \in k .. l /\ m - 1 \in 0 .. l - 1
      BY <1>4, <2>3
    <3> QED
      BY <3>1
  <2>5. j \notin B
    BY <2>2, <2>4
  <2>6. NotBefore(f[j], words, h)
    BY <1>5, <2>4, <2>5
  <2>7. f[j + 1] = After(f[j])
    BY <2>4 DEF Course
  <2>8. NotBefore(After(f[j]), words, h)
    BY <2>6, StaysBehind
  <2> QED
    BY <2>3, <2>4, <2>7, <2>8
<1>7. l \in k .. l
  OBVIOUS
<1>8. NotBefore(f[l], words, h)
  BY <1>5, <1>6, <1>7
<1> QED
  BY <1>3, <1>8 DEF NotBefore

(* Between the same words there is the same histogram, whatever invalidations are
   in between. *)
LEMMA OneHistogram ==
  ASSUME OrderInv, OneSize, NEW words \in Nat, NEW h, NEW g, AtWords(h, words), AtWords(g, words)
  PROVE  h = g
<1>1. PICK c : Attained(c) /\ c.pc = "fetch" /\ c.n \in Nat \ {0} /\ Upto(c.n - 1) = words /\ c.hist = h
  BY DEF AtWords
<1>2. PICK d : Attained(d) /\ d.pc = "fetch" /\ d.n \in Nat \ {0} /\ Upto(d.n - 1) = words /\ d.hist = g
  BY DEF AtWords
<1>3. PICK k \in Nat : \E r : Course(r, k) /\ r[k] = c
  BY <1>1 DEF Attained
<1>4. PICK r : Course(r, k) /\ r[k] = c
  BY <1>3
<1>5. PICK l \in Nat : \E f : Course(f, l) /\ f[l] = d
  BY <1>2 DEF Attained
<1>6. PICK f : Course(f, l) /\ f[l] = d
  BY <1>5
<1>7. CASE k <= l
  <2>2. /\ r[k].pc = "fetch" /\ f[l].pc = "fetch" /\ r[k].n \in Nat \ {0} /\ Upto(r[k].n - 1) = words
        /\ Upto(f[l].n - 1) = words /\ Course(r, k) /\ Course(f, l) /\ k \in Nat /\ l \in Nat /\ words \in Nat
        /\ OrderInv /\ OneSize
    BY <1>1, <1>2, <1>4, <1>6
  <2>3. r[k].hist = f[l].hist
    BY ONLY <1>7, <2>2, SameLater
  <2> QED
    BY <1>1, <1>2, <1>4, <1>6, <2>3
<1>8. CASE l <= k
  <2>2. /\ r[k].pc = "fetch" /\ f[l].pc = "fetch" /\ f[l].n \in Nat \ {0} /\ Upto(r[k].n - 1) = words
        /\ Upto(f[l].n - 1) = words /\ Course(r, k) /\ Course(f, l) /\ k \in Nat /\ l \in Nat /\ words \in Nat
        /\ OrderInv /\ OneSize
    BY <1>1, <1>2, <1>4, <1>6
  <2>3. f[l].hist = r[k].hist
    BY ONLY <1>8, <2>2, SameLater
  <2> QED
    BY <1>1, <1>2, <1>4, <1>6, <2>3
<1> QED
  BY <1>7, <1>8
-----------------------------------------------------------------------------
(* Sums of histograms. *)

(* The empty histogram adds nothing, and a sum is a histogram. *)
LEMMA PlusIs ==
  ASSUME NEW h \in Histogram
  PROVE  /\ NoHistogram \in Histogram /\ Plus(h, NoHistogram) = h /\ Plus(NoHistogram, h) = h
         /\ \A g \in Histogram : Plus(h, g) \in Histogram
<1>1. /\ h.dist \in Values /\ h.shared \in Values /\ h.lost \in Values /\ h.cold \in Nat /\ h.inv \in Nat
      /\ h = [dist |-> h.dist, shared |-> h.shared, lost |-> h.lost, cold |-> h.cold, inv |-> h.inv]
  BY DEF Histogram
<1>2. PICK v : v = NoBins
  OBVIOUS
<1>3. v \in Values /\ \A x \in Bins : v[x] = 0
  BY <1>2 DEF NoBins, Values
<1>4. ASSUME NEW u \in Values PROVE PlusBins(u, v) = u /\ PlusBins(v, u) = u
  <2>1. \A x \in Bins : u[x] \in Nat /\ u[x] + v[x] = u[x] /\ v[x] + u[x] = u[x]
    BY <1>3 DEF Values
  <2>2. u = [x \in Bins |-> u[x]]
    BY DEF Values
  <2> QED
    BY <2>1, <2>2 DEF PlusBins
<1>5. PICK g : g = NoHistogram
  OBVIOUS
<1>6. g = [dist |-> v, shared |-> v, lost |-> v, cold |-> 0, inv |-> 0]
  BY <1>2, <1>5 DEF NoHistogram
<1>7. g \in Histogram
  BY <1>3, <1>6 DEF Histogram
<1>8. g.dist = v /\ g.shared = v /\ g.lost = v /\ g.cold = 0 /\ g.inv = 0
  BY <1>6
<1>9. PICK x, y, z, c, d : x = h.dist /\ y = h.shared /\ z = h.lost /\ c = h.cold /\ d = h.inv
  OBVIOUS
<1>10. c + 0 = c /\ d + 0 = d /\ 0 + c = c /\ 0 + d = d
  BY <1>1, <1>9
<1>11. Plus(h, g) = [dist |-> PlusBins(x, v), shared |-> PlusBins(y, v), lost |-> PlusBins(z, v),
                     cold |-> c + 0, inv |-> d + 0]
  BY <1>8, <1>9 DEF Plus
<1>12. Plus(g, h) = [dist |-> PlusBins(v, x), shared |-> PlusBins(v, y), lost |-> PlusBins(v, z),
                     cold |-> 0 + c, inv |-> 0 + d]
  BY <1>8, <1>9 DEF Plus
<1>13. Plus(h, g) = h /\ Plus(g, h) = h
  BY <1>1, <1>4, <1>9, <1>10, <1>11, <1>12
<1>14. ASSUME NEW f \in Histogram PROVE Plus(h, f) \in Histogram
  <2>1. /\ f.dist \in Values /\ f.shared \in Values /\ f.lost \in Values /\ f.cold \in Nat /\ f.inv \in Nat
    BY DEF Histogram
  <2>2. \A u, w \in Values : PlusBins(u, w) \in Values
    BY DEF Values, PlusBins
  <2>3. h.cold + f.cold \in Nat /\ h.inv + f.inv \in Nat
    BY <1>1, <2>1
  <2> QED
    BY <1>1, <2>1, <2>2, <2>3 DEF Plus, Histogram
<1> QED
  BY <1>5, <1>7, <1>13, <1>14

(* A sum in which more words are entered. *)
LEMMA PlusAdded ==
  ASSUME NEW u \in Values, NEW v \in Values, NEW b \in Bins, NEW words \in Nat
  PROVE  /\ PlusBins(u, [v EXCEPT ![b] = @ + words]) = [PlusBins(u, v) EXCEPT ![b] = @ + words]
         /\ PlusBins(u, v) \in Values /\ [v EXCEPT ![b] = @ + words] \in Values
<1>1. PICK w : w = [v EXCEPT ![b] = @ + words]
  OBVIOUS
<1>2. w = [x \in Bins |-> IF x = b THEN v[b] + words ELSE v[x]]
  BY <1>1 DEF Values
<1>3. w \in Values
  BY <1>2 DEF Values
<1>4. PICK p : p = PlusBins(u, v)
  OBVIOUS
<1>5. p \in Values /\ \A x \in Bins : p[x] = u[x] + v[x]
  BY <1>4 DEF Values, PlusBins
<1>7. [p EXCEPT ![b] = @ + words] = [x \in Bins |-> IF x = b THEN p[b] + words ELSE p[x]]
  BY <1>5 DEF Values
<1>8. \A x \in Bins : u[x] + w[x] = IF x = b THEN p[b] + words ELSE p[x]
  BY <1>2, <1>5 DEF Values
<1>9. PlusBins(u, w) = [p EXCEPT ![b] = @ + words]
  BY <1>7, <1>8 DEF PlusBins
<1> QED
  BY <1>1, <1>3, <1>4, <1>5, <1>9

(* It does not matter whether words are entered in a sum or in what is added. *)
LEMMA PlusEntered ==
  ASSUME NEW a \in Histogram, NEW h \in Histogram, NEW n, NEW s, NEW words \in Nat, NEW d,
         CeilLog2(Larger(d, SizeOf(n))) \in Bins
  PROVE  /\ Plus(a, Entered(h, n, s, words, d)) = Entered(Plus(a, h), n, s, words, d)
         /\ Entered(h, n, s, words, d) \in Histogram
<1>1. PICK b \in Bins : b = CeilLog2(Larger(d, SizeOf(n)))
  OBVIOUS
<1>2. PICK p, g, f : p = Plus(a, h) /\ g = Entered(h, n, s, words, d) /\ f = Entered(p, n, s, words, d)
  OBVIOUS
<1>3. p \in Histogram
  BY <1>2, PlusIs
<1>4. PICK a1, a2, a3, ac, ai : a1 = a.dist /\ a2 = a.shared /\ a3 = a.lost /\ ac = a.cold /\ ai = a.inv
  OBVIOUS
<1>5. PICK h1, h2, h3, hc, hi : h1 = h.dist /\ h2 = h.shared /\ h3 = h.lost /\ hc = h.cold /\ hi = h.inv
  OBVIOUS
<1>6. /\ a1 \in Values /\ a2 \in Values /\ a3 \in Values /\ ac \in Nat /\ ai \in Nat
      /\ h1 \in Values /\ h2 \in Values /\ h3 \in Values /\ hc \in Nat /\ hi \in Nat
  BY <1>4, <1>5 DEF Histogram
<1>7. PICK p1, p2, p3 : p1 = PlusBins(a1, h1) /\ p2 = PlusBins(a2, h2) /\ p3 = PlusBins(a3, h3)
  OBVIOUS
<1>8. p = [dist |-> p1, shared |-> p2, lost |-> p3, cold |-> ac + hc, inv |-> ai + hi]
  BY <1>2, <1>4, <1>5, <1>7 DEF Plus
<1>9. /\ h = [dist |-> h1, shared |-> h2, lost |-> h3, cold |-> hc, inv |-> hi]
  BY <1>5 DEF Histogram
<1>10. PICK k1, k2, k3 : /\ k1 = [h1 EXCEPT ![b] = @ + words] /\ k2 = [h2 EXCEPT ![b] = @ + words]
                         /\ k3 = [h3 EXCEPT ![b] = @ + words]
  OBVIOUS
<1>11. PICK q1, q2, q3 : /\ q1 = [p1 EXCEPT ![b] = @ + words] /\ q2 = [p2 EXCEPT ![b] = @ + words]
                         /\ q3 = [p3 EXCEPT ![b] = @ + words]
  OBVIOUS
<1>12. /\ PlusBins(a1, k1) = q1 /\ PlusBins(a2, k2) = q2 /\ PlusBins(a3, k3) = q3
       /\ k1 \in Values /\ k2 \in Values /\ k3 \in Values /\ p2 \in Values
  <2>1. \A u, v \in Values : /\ PlusBins(u, [v EXCEPT ![b] = @ + words]) = [PlusBins(u, v) EXCEPT ![b] = @ + words]
                             /\ PlusBins(u, v) \in Values /\ [v EXCEPT ![b] = @ + words] \in Values
    BY PlusAdded
  <2> QED
    BY <1>6, <1>7, <1>10, <1>11, <2>1
<1>13. CASE s.inv
  <2>1. g = [h EXCEPT !.lost[b] = @ + words, !.inv = @ + words, !.cold = @ + words]
    BY <1>1, <1>2, <1>13 DEF Entered
  <2>2. f = [p EXCEPT !.lost[b] = @ + words, !.inv = @ + words, !.cold = @ + words]
    BY <1>1, <1>2, <1>13 DEF Entered
  <2>3. g = [dist |-> h1, shared |-> h2, lost |-> k3, cold |-> hc + words, inv |-> hi + words]
    BY <1>9, <1>10, <2>1
  <2>4. f = [dist |-> p1, shared |-> p2, lost |-> q3, cold |-> (ac + hc) + words, inv |-> (ai + hi) + words]
    BY <1>8, <1>11, <2>2
  <2>5. g.dist = h1 /\ g.shared = h2 /\ g.lost = k3 /\ g.cold = hc + words /\ g.inv = hi + words
    BY <2>3
  <2>6. ac + (hc + words) = (ac + hc) + words /\ ai + (hi + words) = (ai + hi) + words
        /\ hc + words \in Nat /\ hi + words \in Nat
    BY <1>6
  <2>7. Plus(a, g) = [dist |-> p1, shared |-> p2, lost |-> q3,
                      cold |-> ac + (hc + words), inv |-> ai + (hi + words)]
    BY <1>4, <1>7, <1>12, <2>5 DEF Plus
  <2>8. Plus(a, g) = f
    BY <2>4, <2>6, <2>7
  <2>9. g \in Histogram
    BY <1>6, <1>12, <2>3, <2>6 DEF Histogram
  <2> QED
    BY <1>2, <2>8, <2>9
<1>14. CASE ~ s.inv
  <2>1. g = [h EXCEPT !.dist[b] = @ + words,
                      !.shared[b] = IF s.core # out[n].core THEN @ + words ELSE @]
    BY <1>1, <1>2, <1>14 DEF Entered
  <2>2. f = [p EXCEPT !.dist[b] = @ + words,
                      !.shared[b] = IF s.core # out[n].core THEN @ + words ELSE @]
    BY <1>1, <1>2, <1>14 DEF Entered
  <2>3. PICK l2, r2 : /\ l2 = IF s.core # out[n].core THEN k2 ELSE h2
                      /\ r2 = IF s.core # out[n].core THEN q2 ELSE p2
    OBVIOUS
  <2>4. [h2 EXCEPT ![b] = @] = h2 /\ [p2 EXCEPT ![b] = @] = p2
    BY <1>6, <1>12 DEF Values
  <2>5. g = [dist |-> k1, shared |-> l2, lost |-> h3, cold |-> hc, inv |-> hi]
    <3>1. CASE s.core # out[n].core
      <4>1. g = [h EXCEPT !.dist[b] = @ + words, !.shared[b] = @ + words]
        BY <2>1, <3>1
      <4> QED
        BY <1>9, <1>10, <2>3, <3>1, <4>1
    <3>2. CASE s.core = out[n].core
      <4>1. g = [h EXCEPT !.dist[b] = @ + words, !.shared[b] = @]
        BY <2>1, <3>2
      <4> QED
        BY <1>9, <1>10, <2>3, <2>4, <3>2, <4>1
    <3> QED
      BY <3>1, <3>2
  <2>6. f = [dist |-> q1, shared |-> r2, lost |-> p3, cold |-> ac + hc, inv |-> ai + hi]
    <3>1. CASE s.core # out[n].core
      <4>1. f = [p EXCEPT !.dist[b] = @ + words, !.shared[b] = @ + words]
        BY <2>2, <3>1
      <4> QED
        BY <1>8, <1>11, <2>3, <3>1, <4>1
    <3>2. CASE s.core = out[n].core
      <4>1. f = [p EXCEPT !.dist[b] = @ + words, !.shared[b] = @]
        BY <2>2, <3>2
      <4> QED
        BY <1>8, <1>11, <2>3, <2>4, <3>2, <4>1
    <3> QED
      BY <3>1, <3>2
  <2>7. g.dist = k1 /\ g.shared = l2 /\ g.lost = h3 /\ g.cold = hc /\ g.inv = hi
    BY <2>5
  <2>8. PlusBins(a2, l2) = r2 /\ l2 \in Values
    BY <1>6, <1>7, <1>12, <2>3
  <2>9. Plus(a, g) = f
    BY <1>4, <1>7, <1>12, <2>6, <2>7, <2>8 DEF Plus
  <2>10. g \in Histogram
    BY <1>6, <1>12, <2>5, <2>8 DEF Histogram
  <2> QED
    BY <1>2, <2>9, <2>10
<1> QED
  BY <1>13, <1>14

(* Nor does it for cold misses. *)
LEMMA PlusCold ==
  ASSUME NEW a \in Histogram, NEW h \in Histogram, NEW words \in Nat
  PROVE  /\ Plus(a, [h EXCEPT !.cold = @ + words]) = [Plus(a, h) EXCEPT !.cold = @ + words]
         /\ [h EXCEPT !.cold = @ + words] \in Histogram
<1>1. PICK p, g, f : p = Plus(a, h) /\ g = [h EXCEPT !.cold = @ + words] /\ f = [p EXCEPT !.cold = @ + words]
  OBVIOUS
<1>2. PICK x, y, z, c, d : /\ x = PlusBins(a.dist, h.dist) /\ y = PlusBins(a.shared, h.shared)
                           /\ z = PlusBins(a.lost, h.lost) /\ c = h.cold /\ d = a.inv + h.inv
  OBVIOUS
<1>3. a.cold \in Nat /\ c \in Nat
  BY <1>2 DEF Histogram
<1>4. p = [dist |-> x, shared |-> y, lost |-> z, cold |-> a.cold + c, inv |-> d]
  BY <1>1, <1>2 DEF Plus
<1>5. f = [dist |-> x, shared |-> y, lost |-> z, cold |-> (a.cold + c) + words, inv |-> d]
  BY <1>1, <1>4
<1>6. g = [dist |-> h.dist, shared |-> h.shared, lost |-> h.lost, cold |-> c + words, inv |-> h.inv]
  BY <1>1, <1>2 DEF Histogram
<1>7. /\ g.dist = h.dist /\ g.shared = h.shared /\ g.lost = h.lost /\ g.cold = c + words /\ g.inv = h.inv
  BY <1>6
<1>8. Plus(a, g) = [dist |-> x, shared |-> y, lost |-> z, cold |-> a.cold + (c + words), inv |-> d]
  BY <1>2, <1>7 DEF Plus
<1>9. a.cold + (c + words) = (a.cold + c) + words /\ c + words \in Nat
  BY <1>3
<1>10. g \in Histogram
  BY <1>6, <1>9 DEF Histogram
<1> QED
  BY <1>1, <1>5, <1>8, <1>9, <1>10

(* What a job does with an entry is what the run over the whole trace does with it. *)
LEMMA SameEntry ==
  ASSUME trace = out, ~ job.disjoint
  PROVE  /\ size = SizeOf(i) /\ Top = TopOf(i)
         /\ \A s : Match(s) = Overlap(i, s)
         /\ \A s, m : Marked(s, m) = MarkedBy(i, s, m)
         /\ \A s, words, d : Recorded(s, words, d) = Entered(hist, i, s, words, d)
         /\ \A k, blocks : Replace(k, blocks) = Put(stack, k, blocks)
         /\ \A st : UselessTail(st) <=> Useless(st, at)
<1>1. size = SizeOf(i)
  BY DEF size, SizeOf
<1>2. Top = TopOf(i)
  BY <1>1 DEF Top, TopOf
<1>3. \A s : Match(s) = Overlap(i, s)
  BY <1>1 DEF Match, Overlap
<1>4. \A s, m : Marked(s, m) = MarkedBy(i, s, m)
  BY DEF Marked, MarkedBy
<1>5. ASSUME NEW s, NEW words, NEW d PROVE Recorded(s, words, d) = Entered(hist, i, s, words, d)
  BY <1>1 DEF Recorded, Entered
<1>6. \A k, blocks : Replace(k, blocks) = Put(stack, k, blocks)
  BY DEF Replace, Put
<1>7. \A st : UselessTail(st) <=> Useless(st, at)
  BY DEF UselessTail, Useless
<1> QED
  BY <1>1, <1>2, <1>3, <1>4, <1>5, <1>6, <1>7
-----------------------------------------------------------------------------
(* A job and the run over the whole trace. *)

(* The job is at moment c of the run. *)
Agrees(c) ==
  /\ c.pc = (IF pc = "done" THEN "fetch" ELSE pc) /\ c.n = i /\ c.stack = stack
  /\ pc \in {"walk", "probe"} => c.at = at /\ c.pending = pending
  /\ pc = "walk" => c.distance = distance

(* A step from c to d, after which the job is at d; if it counts, it counts what the
   run does. *)
Follows(c, d) ==
  /\ Agrees(d)' /\ d.hist \in Histogram
  /\ pc # "walk" => hist' = hist /\ d.hist = c.hist
  /\ pc = "walk" /\ warm => hist' = hist
  /\ pc = "walk" /\ ~ warm =>
       \A b \in Histogram : Plus(b, hist) = c.hist => Plus(b, hist') = d.hist

(* What the steps of a walk and those of a probe have in common. *)
LEMMA AtBlock ==
  ASSUME JobInv, StackInv, trace = out, ~ job.disjoint, pc \in {"walk", "probe"}, at <= Len(stack)
  PROVE  ~ (at > Len(stack))
<1>1. ~ WarmedBlind
  BY DEF WarmedBlind
<1>2. PICK s, m : s = stack[at] /\ m = Match(s)
  OBVIOUS
<1>3. stack \in Seq(Block)
  BY <1>1, <1>2, AtCursor
<1>4. at \in Nat \ {0}
  BY <1>1 DEF StackInv
<1> QED
  BY <1>3, <1>4

(* The next entry. *)
LEMMA FetchFollows ==
  ASSUME trace = out, ~ job.disjoint, NEW c, Agrees(c), c.hist \in Histogram,
         NEW d, d = After(c), Fetch
  PROVE  Follows(c, d)
<1>1. /\ pc = "fetch" /\ i <= Len(out) /\ UNCHANGED <<i, stack, hist>>
      /\ pending' = size /\ distance' = 0 /\ at' = 1
      /\ pc' = IF IsProbe(out[i]) THEN "probe" ELSE "walk"
  BY DEF Fetch, Unknown
<1>2. size = SizeOf(i)
  BY SameEntry
<1>3. c.pc = "fetch" /\ c.n = i /\ c.stack = stack
  BY <1>1 DEF Agrees
<1>4. d = Moment(IF IsProbe(out[i]) THEN "probe" ELSE "walk", i, stack, 1, SizeOf(i), 0, c.hist)
  BY <1>1, <1>3 DEF After, AfterFetch
<1>5. /\ d.pc = pc' /\ d.n = i /\ d.stack = stack /\ d.at = 1 /\ d.pending = SizeOf(i) /\ d.distance = 0
      /\ d.hist = c.hist
  BY <1>1, <1>4 DEF Moment
<1> QED
  BY <1>1, <1>2, <1>5 DEF Follows, Agrees

(* A block that is passed. *)
LEMMA PassFollows ==
  ASSUME JobInv, StackInv, trace = out, ~ job.disjoint, NEW c, Agrees(c), c.hist \in Histogram,
         NEW d, d = After(c), PassOver
  PROVE  Follows(c, d)
<1>1. PICK s, m : s = stack[at] /\ m = Match(s)
  OBVIOUS
<1>2. /\ pc = "walk" /\ at <= Len(stack) /\ m.words = 0 /\ UNCHANGED <<i, stack, hist, pc, pending>>
      /\ distance' = Grown(distance, s) /\ at' = at + 1
  BY <1>1 DEF PassOver
<1>3. m = Overlap(i, s)
  BY <1>1, SameEntry
<1>4. ~ (at > Len(stack))
  BY <1>2, AtBlock
<1>5. /\ c.pc = "walk" /\ c.n = i /\ c.stack = stack /\ c.at = at /\ c.pending = pending
      /\ c.distance = distance
  BY <1>2 DEF Agrees
<1>6. d = Moment("walk", i, stack, at + 1, pending, Grown(distance, s), c.hist)
  BY <1>1, <1>2, <1>3, <1>4, <1>5 DEF After, AfterWalk
<1>7. /\ d.pc = "walk" /\ d.n = i /\ d.stack = stack /\ d.at = at + 1 /\ d.pending = pending
      /\ d.distance = Grown(distance, s) /\ d.hist = c.hist
  BY <1>6 DEF Moment
<1> QED
  BY <1>2, <1>7 DEF Follows, Agrees

(* Words that are found are entered in both histograms. *)
LEMMA EnteredFollows ==
  ASSUME OrderInv, JobInv, StackInv, BlindInv, OriginInv, CountInv, trace = out, ~ job.disjoint,
         job.kernel = AllKernels, pc = "walk", at <= Len(stack), NEW s, s = stack[at],
         NEW m, m = Match(s), m.words > 0, NEW h \in Histogram, NEW g, NEW d, d = Grown(distance, s),
         g = Entered(h, i, s, m.words, d),
         hist' = IF Tracked THEN Recorded(s, m.words, d) ELSE hist
  PROVE  /\ g \in Histogram /\ (warm => hist' = hist)
         /\ ~ warm => \A b \in Histogram : Plus(b, hist) = h => Plus(b, hist') = g
<1>1. /\ m.words \in Nat /\ CeilLog2(Larger(d, size)) \in Bins
  BY Found
<1>2. size = SizeOf(i) /\ Recorded(s, m.words, d) = Entered(hist, i, s, m.words, d)
  BY SameEntry
<1>3. PICK w \in Nat : w = m.words
  BY <1>1
<1>4. PICK u, v : u = hist /\ v = hist'
  OBVIOUS
<1>5. u \in Histogram
  BY <1>4 DEF CountInv, Consistent
<1>6. CeilLog2(Larger(d, SizeOf(i))) \in Bins
  BY <1>1, <1>2
<1>7. PICK n : n = i
  OBVIOUS
<1>8. g \in Histogram
  BY <1>3, <1>6, PlusEntered
<1>9. warm => v = u
  BY <1>4 DEF Tracked
<1>10. ASSUME ~ warm, NEW b \in Histogram, Plus(b, u) = h PROVE Plus(b, v) = g
  <2>1. v = Entered(u, i, s, w, d)
    BY <1>2, <1>3, <1>4, <1>10 DEF Tracked
  <2>2. Plus(b, Entered(u, i, s, w, d)) = Entered(Plus(b, u), i, s, w, d)
    BY <1>5, <1>6, PlusEntered
  <2> QED
    BY <1>3, <1>10, <2>1, <2>2
<1> QED
  BY <1>4, <1>8, <1>9, <1>10

(* Words that are found while others are still missing. *)
LEMMA TakeSomeFollows ==
  ASSUME OrderInv, JobInv, StackInv, BlindInv, OriginInv, CountInv, trace = out, ~ job.disjoint,
         job.kernel = AllKernels, NEW c, Agrees(c), c.hist \in Histogram, NEW d, d = After(c), TakeSome
  PROVE  Follows(c, d)
<1>1. PICK s, m, e : s = stack[at] /\ m = Match(s) /\ e = Grown(distance, s)
  OBVIOUS
<1>2. /\ pc = "walk" /\ at <= Len(stack) /\ m.words > 0 /\ m.words # pending /\ UNCHANGED <<i, pc>>
      /\ pending' = pending - m.words /\ distance' = e
      /\ hist' = IF Tracked THEN Recorded(s, m.words, e) ELSE hist
      /\ stack' = Replace(at, Rest(s, m))
      /\ at' = IF Rest(s, m) = <<>> THEN at ELSE at + 1
  BY <1>1 DEF TakeSome
<1>3. m = Overlap(i, s) /\ stack' = Put(stack, at, Rest(s, m))
  BY <1>1, <1>2, SameEntry
<1>4. ~ (at > Len(stack))
  BY <1>2, AtBlock
<1>5. /\ c.pc = "walk" /\ c.n = i /\ c.stack = stack /\ c.at = at /\ c.pending = pending
      /\ c.distance = distance
  BY <1>2 DEF Agrees
<1>6. PICK h, g : h = c.hist /\ g = Entered(h, i, s, m.words, e)
  OBVIOUS
<1>7. m.words # 0
  BY <1>2
<1>8. d = Moment("walk", i, Put(stack, at, Rest(s, m)), IF Rest(s, m) = <<>> THEN at ELSE at + 1,
                 pending - m.words, e, g)
  BY <1>1, <1>2, <1>3, <1>4, <1>5, <1>6, <1>7 DEF After, AfterWalk
<1>9. /\ d.pc = "walk" /\ d.n = i /\ d.stack = stack' /\ d.at = at' /\ d.pending = pending'
      /\ d.distance = distance' /\ d.hist = g
  BY <1>2, <1>3, <1>8 DEF Moment
<1>10. /\ g \in Histogram /\ (warm => hist' = hist)
       /\ ~ warm => \A b \in Histogram : Plus(b, hist) = h => Plus(b, hist') = g
  <2>1. /\ OrderInv /\ JobInv /\ StackInv /\ BlindInv /\ OriginInv /\ CountInv /\ trace = out /\ ~ job.disjoint
        /\ job.kernel = AllKernels /\ pc = "walk" /\ at <= Len(stack) /\ s = stack[at] /\ m = Match(s)
        /\ m.words > 0 /\ h \in Histogram /\ e = Grown(distance, s) /\ g = Entered(h, i, s, m.words, e)
        /\ hist' = IF Tracked THEN Recorded(s, m.words, e) ELSE hist
    BY <1>1, <1>2, <1>6
  <2> QED
    BY ONLY <2>1, EnteredFollows
<1> QED
  BY <1>2, <1>6, <1>9, <1>10 DEF Follows, Agrees

(* The last words of the entry. *)
LEMMA TakeLastFollows ==
  ASSUME OrderInv, JobInv, StackInv, BlindInv, OriginInv, CountInv, trace = out, ~ job.disjoint,
         job.kernel = AllKernels, NEW c, Agrees(c), c.hist \in Histogram, NEW d, d = After(c), TakeLast
  PROVE  Follows(c, d)
<1>1. PICK s, m, e : s = stack[at] /\ m = Match(s) /\ e = Grown(distance, s)
  OBVIOUS
<1>2. /\ pc = "walk" /\ at <= Len(stack) /\ m.words > 0 /\ m.words = pending /\ pc' = "fetch" /\ i' = i + 1
      /\ hist' = IF Tracked THEN Recorded(s, m.words, e) ELSE hist
      /\ stack' = <<Top>> \o Replace(at, Rest(s, m))
  BY <1>1 DEF TakeLast, NextEntry
<1>3. m = Overlap(i, s) /\ stack' = <<TopOf(i)>> \o Put(stack, at, Rest(s, m))
  BY <1>1, <1>2, SameEntry
<1>4. ~ (at > Len(stack))
  BY <1>2, AtBlock
<1>5. /\ c.pc = "walk" /\ c.n = i /\ c.stack = stack /\ c.at = at /\ c.pending = pending
      /\ c.distance = distance
  BY <1>2 DEF Agrees
<1>6. PICK h, g : h = c.hist /\ g = Entered(h, i, s, m.words, e)
  OBVIOUS
<1>7. m.words # 0
  BY <1>2
<1>8. d = Between(i + 1, <<TopOf(i)>> \o Put(stack, at, Rest(s, m)), g)
  BY <1>1, <1>2, <1>3, <1>4, <1>5, <1>6, <1>7 DEF After, AfterWalk
<1>9. d.pc = "fetch" /\ d.n = i' /\ d.stack = stack' /\ d.hist = g
  BY <1>2, <1>3, <1>8 DEF Between, Moment
<1>10. /\ g \in Histogram /\ (warm => hist' = hist)
       /\ ~ warm => \A b \in Histogram : Plus(b, hist) = h => Plus(b, hist') = g
  <2>1. /\ OrderInv /\ JobInv /\ StackInv /\ BlindInv /\ OriginInv /\ CountInv /\ trace = out /\ ~ job.disjoint
        /\ job.kernel = AllKernels /\ pc = "walk" /\ at <= Len(stack) /\ s = stack[at] /\ m = Match(s)
        /\ m.words > 0 /\ h \in Histogram /\ e = Grown(distance, s) /\ g = Entered(h, i, s, m.words, e)
        /\ hist' = IF Tracked THEN Recorded(s, m.words, e) ELSE hist
    BY <1>1, <1>2, <1>6
  <2> QED
    BY ONLY <2>1, EnteredFollows
<1> QED
  BY <1>2, <1>6, <1>9, <1>10 DEF Follows, Agrees

(* Words that are not found. *)
LEMMA ColdMissFollows ==
  ASSUME JobInv, StackInv, BlindInv, CountInv, trace = out, ~ job.disjoint,
         NEW c, Agrees(c), c.hist \in Histogram, NEW d, d = After(c), ColdMiss
  PROVE  Follows(c, d)
<1>1. PICK u, v, p, h, g : /\ u = hist /\ v = hist' /\ p = pending /\ h = c.hist
                           /\ g = [h EXCEPT !.cold = @ + p]
  OBVIOUS
<1>2. /\ pc = "walk" /\ at > Len(stack) /\ pc' = "fetch" /\ i' = i + 1
      /\ v = (IF warm THEN u ELSE [u EXCEPT !.cold = @ + p])
      /\ stack' = <<TopOf(i)>> \o stack
  BY <1>1, SameEntry DEF ColdMiss, NextEntry
<1>3. /\ c.pc = "walk" /\ c.n = i /\ c.stack = stack /\ c.at = at /\ c.pending = p
  BY <1>1, <1>2 DEF Agrees
<1>4. d = Between(i + 1, <<TopOf(i)>> \o stack, g)
  BY <1>1, <1>2, <1>3 DEF After, AfterWalk
<1>5. d.pc = "fetch" /\ d.n = i' /\ d.stack = stack' /\ d.hist = g
  BY <1>2, <1>4 DEF Between, Moment
<1>6. p \in Nat /\ u \in Histogram /\ h \in Histogram
  BY <1>1, <1>2, PendingIsNat DEF CountInv, Consistent
<1>7. g \in Histogram
  BY <1>1, <1>6, PlusCold
<1>8. ASSUME ~ warm, NEW b \in Histogram, Plus(b, u) = h PROVE Plus(b, v) = g
  <2>1. Plus(b, [u EXCEPT !.cold = @ + p]) = [Plus(b, u) EXCEPT !.cold = @ + p]
    BY <1>6, PlusCold
  <2> QED
    BY <1>1, <1>2, <1>8, <2>1
<1> QED
  BY <1>1, <1>2, <1>5, <1>7, <1>8 DEF Follows, Agrees

(* The last words of an invalidation. *)
LEMMA ProbeLastFollows ==
  ASSUME JobInv, StackInv, trace = out, ~ job.disjoint, NEW c, Agrees(c), c.hist \in Histogram,
         NEW d, d = After(c), ProbeLast
  PROVE  Follows(c, d)
<1>1. PICK s, m : s = stack[at] /\ m = Match(s)
  OBVIOUS
<1>2. /\ pc = "probe" /\ at <= Len(stack) /\ m.words > 0 /\ m.words = pending
      /\ stack' = Replace(at, Marked(s, m)) /\ pc' = "fetch" /\ i' = i + 1 /\ hist' = hist
  BY <1>1 DEF ProbeLast, NextEntry
<1>3. m = Overlap(i, s) /\ stack' = Put(stack, at, MarkedBy(i, s, m))
  BY <1>1, <1>2, SameEntry
<1>4. ~ (at > Len(stack))
  BY <1>2, AtBlock
<1>5. /\ c.pc = "probe" /\ c.n = i /\ c.stack = stack /\ c.at = at /\ c.pending = pending
  BY <1>2 DEF Agrees
<1>6. m.words # 0
  BY <1>2
<1>7. d = Between(i + 1, Put(stack, at, MarkedBy(i, s, m)), c.hist)
  BY <1>1, <1>2, <1>3, <1>4, <1>5, <1>6 DEF After, AfterProbe
<1>8. d.pc = "fetch" /\ d.n = i' /\ d.stack = stack' /\ d.hist = c.hist
  BY <1>2, <1>3, <1>7 DEF Between, Moment
<1> QED
  BY <1>2, <1>8 DEF Follows, Agrees

(* The end of the stack. *)
LEMMA ProbeEndFollows ==
  ASSUME NEW c, Agrees(c), c.hist \in Histogram, NEW d, d = After(c), ProbeEnd
  PROVE  Follows(c, d)
<1>1. /\ pc = "probe" /\ at > Len(stack) /\ pc' = "fetch" /\ i' = i + 1 /\ UNCHANGED <<stack, hist>>
  BY DEF ProbeEnd, NextEntry
<1>2. /\ c.pc = "probe" /\ c.n = i /\ c.stack = stack /\ c.at = at
  BY <1>1 DEF Agrees
<1>3. d = Between(i + 1, stack, c.hist)
  BY <1>1, <1>2 DEF After, AfterProbe
<1>4. d.pc = "fetch" /\ d.n = i' /\ d.stack = stack /\ d.hist = c.hist
  BY <1>1, <1>3 DEF Between, Moment
<1> QED
  BY <1>1, <1>4 DEF Follows, Agrees

(* A block that is passed or marked. *)
LEMMA ProbeSomeFollows ==
  ASSUME JobInv, StackInv, trace = out, ~ job.disjoint, NEW c, Agrees(c), c.hist \in Histogram,
         NEW d, d = After(c), ProbeSome
  PROVE  Follows(c, d)
<1>1. PICK s, m, st : /\ s = stack[at] /\ m = Match(s)
                      /\ st = IF m.words = 0 THEN stack ELSE Replace(at, Marked(s, m))
  OBVIOUS
<1>2. /\ pc = "probe" /\ at <= Len(stack) /\ m.words # pending /\ UNCHANGED <<i, pc, hist>>
      /\ pending' = pending - m.words
      /\ IF UselessTail(st) THEN stack' = Front(st) /\ at' = at ELSE stack' = st /\ at' = at + 1
  BY <1>1 DEF ProbeSome
<1>3. /\ m = Overlap(i, s) /\ st = IF m.words = 0 THEN stack ELSE Put(stack, at, MarkedBy(i, s, m))
      /\ UselessTail(st) <=> Useless(st, at)
  BY <1>1, SameEntry
<1>4. ~ (at > Len(stack))
  BY <1>2, AtBlock
<1>5. /\ c.pc = "probe" /\ c.n = i /\ c.stack = stack /\ c.at = at /\ c.pending = pending
  BY <1>2 DEF Agrees
<1>6. d = IF Useless(st, at)
          THEN Moment("probe", i, Front(st), at, pending - m.words, c.distance, c.hist)
          ELSE Moment("probe", i, st, at + 1, pending - m.words, c.distance, c.hist)
  BY <1>1, <1>2, <1>3, <1>4, <1>5 DEF After, AfterProbe
<1>7. /\ d.pc = "probe" /\ d.n = i /\ d.stack = stack' /\ d.at = at' /\ d.pending = pending'
      /\ d.hist = c.hist
  BY <1>2, <1>3, <1>6 DEF Moment
<1> QED
  BY <1>2, <1>7 DEF Follows, Agrees

(* Each round of the loops is the next moment of the run. *)
LEMMA StepFollows ==
  ASSUME OrderInv, JobInv, StackInv, BlindInv, OriginInv, CountInv, trace = out, ~ job.disjoint,
         job.kernel = AllKernels, NEW c, Agrees(c), c.hist \in Histogram, NEW d, d = After(c),
         Fetch \/ Walk \/ Probe
  PROVE  Follows(c, d)
<1>1. CASE Fetch
  BY <1>1, FetchFollows
<1>2. CASE Walk
  BY <1>2, PassFollows, TakeSomeFollows, TakeLastFollows, ColdMissFollows DEF Walk
<1>3. CASE Probe
  BY <1>3, ProbeSomeFollows, ProbeLastFollows, ProbeEndFollows DEF Probe
<1> QED
  BY <1>1, <1>2, <1>3
-----------------------------------------------------------------------------
(* A warm-up that reaches back to the beginning. *)

(* the first w entries have no access *)
Early(w) == w \in Nat /\ w <= Len(out) /\ Upto(w) = 0

(* then every warm-up begins there. *)
WarmInv ==
  phase \in {"cutting", "cut"} /\ OneSize /\ cut.warmup >= TraceWords =>
    /\ Early(cut.w)
    /\ \A m \in DOMAIN jobs : Early(jobs[m].warmup)

(* No access is in front of the first one. *)
LEMMA NoneBefore == OrderInv => Early(0) /\ Early(Regular(0))
<1> SUFFICES ASSUME OrderInv PROVE Early(0) /\ Early(Regular(0))
  OBVIOUS
<1>1. PICK n \in Nat, z \in Nat : n = Len(out) /\ z = 0
  BY InAccesses
<1>7. PICK r : r = Regular(z)
  OBVIOUS
<1>2. Upto(z) = 0
  <2>1. PICK c : c = Cardinality(Accesses(0))
    OBVIOUS
  <2>2. c = 0
    BY <2>1, AccessesAre, FS_EmptySet
  <2>3. PICK u \in Nat : u = Unit
    BY UnitIs
  <2>4. u * c = 0
    BY <2>2
  <2> QED
    BY <1>1, <2>1, <2>3, <2>4 DEF Upto
<1>3. r \in Nat /\ Upto(r) = Upto(z)
  BY <1>7, NextStop
<1>4. \A l \in z .. r - 1 : SizeAt(l) < 0
  BY <1>7, RegularFinds DEF OrderInv
<1>5. SizeAt(n) = 0
  BY <1>1 DEF SizeAt
<1>6. r <= n
  <2> SUFFICES ASSUME ~ (r <= n) PROVE FALSE
    OBVIOUS
  <2>1. n \in z .. r - 1
    BY <1>1, <1>3
  <2> QED
    BY <1>4, <1>5, <2>1
<1> QED
  BY <1>1, <1>2, <1>3, <1>6, <1>7 DEF Early

(* A step that leaves the trace alone leaves what is in front of the first access. *)
LEMMA SameEarly ==
  ASSUME out' = out
  PROVE  (\A w : Early(w)' <=> Early(w)) /\ TraceWords' = TraceWords
<1>1. Regulars' = Regulars
  BY DEF Regulars
<1>2. Unit' = Unit
  BY <1>1 DEF Unit
<1>3. \A p : Upto(p)' = Upto(p)
  BY <1>1, <1>2 DEF Upto, Accesses
<1>4. TraceWords' = TraceWords
  BY <1>1 DEF TraceWords, MapThenSumSet, MapThenFoldSet
<1> QED
  BY <1>3, <1>4 DEF Early

(* The warm-up point stays where it is. *)
LEMMA CutsWarm ==
  ASSUME OrderInv, CutInv, PartsInv, WarmInv, CutStep
  PROVE  WarmInv'
<1>1. out' = out /\ phase' = phase /\ phase = "cutting"
  BY DEF CutStep
<1>2. cut'.partition = cut.partition /\ cut'.warmup = cut.warmup
  BY DEF CutStep, CutInv, CutType
<1>3. (OneSize' <=> OneSize) /\ TraceWords' = TraceWords /\ \A w : Early(w)' <=> Early(w)
  BY <1>1, <1>2, SameWords, SameEarly
<1>4. SUFFICES ASSUME OneSize, cut.warmup >= TraceWords PROVE WarmInv'
  BY <1>2, <1>3 DEF WarmInv
<1>5. Early(cut.w) /\ \A m \in DOMAIN jobs : Early(jobs[m].warmup)
  BY <1>1, <1>4 DEF WarmInv
<1>6. PICK p \in Nat, v \in Nat, u \in Nat : p = cut.p /\ v = cut.w /\ u = cut.warmup
  BY DEF CutInv, CutType
<1>7. /\ p < Len(out) /\ Stop(p) /\ cut.pBytes = Upto(p) /\ cut.wBytes = Upto(v)
  BY <1>1, <1>4, <1>6 DEF PartsInv, CutStep
<1>8. SizeAt(p) = Unit /\ Upto(p + 1) = Upto(p) + Unit
  BY <1>4, <1>7, StopIs
<1>9. PICK b : b = cut.pBytes + SizeAt(cut.p)
  OBVIOUS
<1>10. b = Upto(p + 1)
  BY <1>6, <1>7, <1>8, <1>9
<1>11. b \in Nat /\ b <= TraceWords
  <2>1. p + 1 \in Nat
    OBVIOUS
  <2> QED
    BY <1>4, <1>10, <2>1, UptoIs, AllWords
<1>12. Upto(v) = 0
  BY <1>5, <1>6 DEF Early
<1>13. TraceWords \in Nat
  <2>1. TraceWords = Upto(Len(out)) /\ Len(out) \in Nat
    BY <1>4, AllWords, InAccesses
  <2> QED
    BY <2>1, UptoIs
<1>14. ~ (b - cut.wBytes > cut.warmup)
  BY <1>4, <1>6, <1>7, <1>11, <1>12, <1>13
<1>15. /\ cut' = [cut EXCEPT !.p = Regular(@ + 1), !.pBytes = b, !.w = v, !.wBytes = @]
       /\ jobs' = IF Full(b) THEN Append(jobs, [warmup |-> v, start |-> p, partition |-> cut.partition])
                  ELSE jobs
  BY <1>6, <1>9, <1>14 DEF CutStep
<1>16. cut'.w = v
  BY <1>15 DEF CutInv, CutType
<1>17. PICK js, e : js = jobs /\ e = [warmup |-> v, start |-> p, partition |-> cut.partition]
  OBVIOUS
<1>18. js \in Seq(CutJob) /\ e.warmup = v
  BY <1>17 DEF CutInv
<1>19. ASSUME NEW m \in DOMAIN jobs' PROVE Early(jobs'[m].warmup)
  <2>1. CASE jobs' = js
    BY <1>5, <1>17, <1>19, <2>1
  <2>2. CASE jobs' = Append(js, e)
    <3>1. (m \in DOMAIN js /\ jobs'[m] = js[m]) \/ jobs'[m] = e
      BY <1>18, <1>19, <2>2
    <3> QED
      BY <1>5, <1>6, <1>17, <1>18, <3>1
  <2> QED
    BY <1>15, <1>17, <2>1, <2>2
<1>20. Early(cut.w)'
  <2>1. Early(v)'
    BY <1>3, <1>5, <1>6
  <2> QED
    BY <1>16, <2>1 DEF Early, Upto, Accesses
<1>21. \A m \in DOMAIN jobs' : Early(jobs[m].warmup)'
  <2> SUFFICES ASSUME NEW m \in DOMAIN jobs' PROVE Early(jobs[m].warmup)'
    OBVIOUS
  <2>1. PICK w : w = jobs'[m].warmup
    OBVIOUS
  <2>2. Early(w)'
    BY <1>3, <1>19, <2>1
  <2> QED
    BY <2>1, <2>2 DEF Early, Upto, Accesses
<1> QED
  BY <1>20, <1>21 DEF WarmInv

(* It is in front of the first access in the beginning. *)
LEMMA StartsWarm ==
  ASSUME OrderInv, NEW w \in Warmups, NEW p \in Partitions, StartCut(w, p)
  PROVE  WarmInv'
<1>1. /\ out' = out
      /\ cut' = [w |-> Regular(0), p |-> Regular(0), wBytes |-> 0, pBytes |-> 0,
                 warmup |-> w, partition |-> p]
      /\ jobs' = <<[warmup |-> 0, start |-> 0, partition |-> p]>>
  BY DEF StartCut
<1>2. PICK r, z : r = Regular(0) /\ z = 0
  OBVIOUS
<1>3. cut'.w = r /\ DOMAIN jobs' = {1} /\ jobs'[1].warmup = z
  BY <1>1, <1>2
<1>4. Early(r)' /\ Early(z)'
  BY <1>1, <1>2, NoneBefore, SameEarly
<1>5. Early(cut.w)' /\ Early(jobs[1].warmup)'
  BY <1>3, <1>4 DEF Early, Upto, Accesses
<1>6. \A m \in DOMAIN jobs' : Early(jobs[m].warmup)'
  <2> SUFFICES ASSUME NEW m \in DOMAIN jobs' PROVE Early(jobs[m].warmup)'
    OBVIOUS
  <2>1. m = 1
    BY <1>3
  <2> QED
    BY <1>5, <2>1
<1> QED
  BY <1>5, <1>6 DEF WarmInv

(* A step that leaves the points alone. *)
LEMMA SameWarm ==
  ASSUME WarmInv, UNCHANGED <<out, cut, jobs>>,
         phase' \in {"cutting", "cut"} => phase \in {"cutting", "cut"}
  PROVE  WarmInv'
<1>1. (OneSize' <=> OneSize) /\ TraceWords' = TraceWords /\ \A w : Early(w)' <=> Early(w)
  <2>1. out' = out /\ cut'.partition = cut.partition
    OBVIOUS
  <2> QED
    BY <2>1, SameWords, SameEarly
<1>2. SUFFICES ASSUME OneSize, phase \in {"cutting", "cut"}, cut.warmup >= TraceWords PROVE WarmInv'
  BY <1>1 DEF WarmInv
<1>3. PICK v, js : v = cut.w /\ js = jobs
  OBVIOUS
<1>4. Early(v) /\ \A m \in DOMAIN js : Early(js[m].warmup)
  BY <1>2, <1>3 DEF WarmInv
<1>5. Early(v)' /\ \A m \in DOMAIN js : Early(js[m].warmup)'
  BY <1>1, <1>4
<1>6. Early(cut.w)'
  <2>1. cut'.w = v
    BY <1>3
  <2> QED
    BY <1>5, <2>1 DEF Early, Upto, Accesses
<1>7. ASSUME NEW m \in DOMAIN jobs' PROVE Early(jobs[m].warmup)'
  <2>1. PICK w : w = js[m].warmup
    OBVIOUS
  <2>2. Early(w)' /\ jobs'[m].warmup = w
    BY <1>3, <1>5, <1>7, <2>1
  <2> QED
    BY <2>2 DEF Early, Upto, Accesses
<1> QED
  BY <1>6, <1>7 DEF WarmInv

(* Nothing has been cut in the beginning. *)
LEMMA InitWarm == Init => WarmInv
BY DEF Init, ToolInit, WarmInv

(* Every step of the pipeline keeps what is said of the warm-up. *)
LEMMA StepWarm == OrderInv /\ CutInv /\ PartsInv /\ WarmInv /\ [Next]_vars => WarmInv'
<1> SUFFICES ASSUME OrderInv, CutInv, PartsInv, WarmInv, [Next]_vars PROVE WarmInv'
  OBVIOUS
<1>1. CASE UNCHANGED toolVars
  BY <1>1, SameWarm DEF toolVars
<1>2. ASSUME phase' \notin {"cutting", "cut"} PROVE WarmInv'
  BY <1>2 DEF WarmInv
<1>3. ASSUME NEW t \in DOMAIN raw, MergeOne(t) \/ CopyOwn(t) \/ AddInvalidation(t) \/ SkipRead(t)
      PROVE  WarmInv'
  <2>1. phase' = "merging"
    BY <1>3 DEF MergeOne, CopyOwn, AddInvalidation, SkipRead, Round
  <2> QED
    BY <1>2, <2>1
<1>4. CASE Save
  BY <1>2, <1>4 DEF Save
<1>5. ASSUME NEW w \in Warmups, NEW p \in Partitions, StartCut(w, p) PROVE WarmInv'
  BY <1>5, StartsWarm
<1>6. CASE CutStep
  BY <1>6, CutsWarm
<1>7. CASE EndCut
  BY <1>7, SameWarm DEF EndCut
<1> QED
  BY <1>1, <1>3, <1>4, <1>5, <1>6, <1>7
     DEF Next, vars, ToolNext, StartWhole, StartPart, WriteHistogram, Accumulate

(* Invalidations in front of the first access leave the stack empty: a job that begins
   behind them begins at a moment of the run over the whole trace. *)
LEMMA LeadIn ==
  ASSUME OrderInv, OneSize, NEW w, Early(w)
  PROVE  Attained(Between(w + 1, <<>>, NoHistogram))
<1>1. PICK B : B = {n \in Nat : Early(n) /\ ~ Attained(Between(n + 1, <<>>, NoHistogram))}
  OBVIOUS
<1>2. SUFFICES ASSUME B # {} PROVE FALSE
  BY <1>1 DEF Early
<1>3. B \subseteq Nat
  BY <1>1
<1>4. PICK m \in B : \A k \in B : m <= k
  BY ONLY <1>2, <1>3, Least
<1>5. m \in Nat /\ Early(m) /\ ~ Attained(Between(m + 1, <<>>, NoHistogram))
  BY <1>1
<1>6. m # 0
  <2> SUFFICES ASSUME m = 0 PROVE FALSE
    OBVIOUS
  <2>1. m + 1 = 1
    OBVIOUS
  <2> QED
    BY <1>5, <2>1, Begins
<1>7. PICK n \in Nat : m = n + 1
  <2>1. m - 1 \in Nat /\ m = (m - 1) + 1
    BY <1>5, <1>6
  <2> QED
    BY <2>1
<1>8. PICK l \in Nat, x \in Nat, z \in Nat \ {0} : l = Len(out) /\ x = Upto(n) /\ z = Unit
  BY InAccesses, UptoIs, UnitIs
<1>9. m <= l /\ Upto(m) = 0
  BY <1>5, <1>8 DEF Early
<1>10. x = 0
  <2>1. n <= m
    BY <1>7
  <2>2. \A q \in Nat : n <= q => Upto(n) <= Upto(q)
    BY UptoIs
  <2> QED
    BY <1>5, <1>8, <1>9, <2>1, <2>2
<1>11. m \notin Regulars
  <2> SUFFICES ASSUME m \in Regulars PROVE FALSE
    OBVIOUS
  <2>1. Upto(n + 1) = Upto(n) + Unit
    BY <1>7, UptoIs
  <2> QED
    BY <1>7, <1>8, <1>9, <1>10, <2>1
<1>12. IsProbe(out[m])
  <2>1. m \in DOMAIN out
    BY <1>7, <1>8, <1>9 DEF OrderInv
  <2>2. out[m] \in OutEntry
    BY <2>1 DEF OrderInv
  <2>3. out[m].size \in Int \ {0}
    BY <2>2 DEF OutEntry
  <2> QED
    BY <1>11, <2>1, <2>3 DEF IsProbe, Regulars
<1>13. Early(n)
  BY <1>7, <1>8, <1>9, <1>10 DEF Early
<1>14. n \notin B
  BY <1>4, <1>7
<1>15. Attained(Between(m, <<>>, NoHistogram))
  BY <1>1, <1>7, <1>13, <1>14
<1>16. PICK c, d, e, h : /\ c = Between(m, <<>>, h) /\ d = After(c) /\ e = After(d) /\ h = NoHistogram
  OBVIOUS
<1>17. Attained(e)
  BY <1>15, <1>16, Goes
<1>18. c.pc = "fetch" /\ c.n = m /\ c.stack = <<>> /\ c.hist = h
  BY <1>16 DEF Between, Moment
<1>19. d = Moment("probe", m, <<>>, 1, SizeOf(m), 0, h)
  BY <1>8, <1>9, <1>12, <1>16, <1>18 DEF After, AfterFetch
<1>20. d.pc = "probe" /\ d.n = m /\ d.stack = <<>> /\ d.at = 1 /\ d.hist = h
  BY <1>19 DEF Moment
<1>21. 1 > Len(<<>>)
  OBVIOUS
<1>22. e = Between(m + 1, <<>>, h)
  <2>1. e = AfterProbe(d) /\ d.at > Len(d.stack)
    BY <1>16, <1>20, <1>21 DEF After
  <2> QED
    BY <1>20, <2>1 DEF AfterProbe
<1> QED
  BY <1>5, <1>16, <1>17, <1>22
-----------------------------------------------------------------------------
(* The call for the whole trace. *)

(* It counts every access, and does not stop at a partition. *)
WholeInv ==
  phase = "cut" /\ Aligned /\ pc # "idle" /\ files = <<>> =>
    /\ trace = out /\ job.start = 0 /\ job.partition = Unlimited
    /\ ~ warm /\ counted = Upto(Reached)

(* A step that looks at no other entry and counts nothing. *)
LEMMA SameWhole ==
  ASSUME WholeInv, UNCHANGED <<out, cut, jobs, phase, files, trace, job, warm, counted>>,
         Reached' = Reached, pc # "idle"
  PROVE  WholeInv'
<1>1. Regulars' = Regulars /\ Unit' = Unit
  BY DEF Regulars, Unit
<1>2. Aligned' <=> Aligned
  BY <1>1 DEF Aligned
<1>3. SUFFICES ASSUME phase = "cut", Aligned, files = <<>> PROVE WholeInv'
  BY <1>2 DEF WholeInv
<1>4. Upto(Reached)' = Upto(Reached)
  <2>1. PICK r : r = Reached
    OBVIOUS
  <2>2. Reached' = r
    BY <2>1
  <2>3. Upto(Reached)' = Upto(r)
    BY <1>1, <2>2 DEF Upto, Accesses
  <2> QED
    BY <2>1, <2>3
<1>5. /\ trace = out /\ job.start = 0 /\ job.partition = Unlimited
      /\ ~ warm /\ counted = Upto(Reached)
  BY <1>3 DEF WholeInv
<1>6. /\ trace' = out' /\ job'.start = 0 /\ job'.partition = Unlimited
      /\ ~ warm' /\ counted' = Upto(Reached)'
  BY <1>4, <1>5
<1> QED
  BY <1>6 DEF WholeInv

(* It has counted nothing when it begins. *)
LEMMA WholeStarts ==
  ASSUME OrderInv, NEW k \in Kernels, NEW d \in BOOLEAN, StartWhole(k, d)
  PROVE  WholeInv'
<1>1. /\ trace' = out' /\ i' = 1 /\ counted' = 0 /\ pc' = "fetch"
      /\ job' = [warmup |-> 0, start |-> 0, partition |-> Unlimited, kernel |-> k, disjoint |-> d]
      /\ out' = out /\ warm' = (0 < 0)
  BY DEF StartWhole, Start, toolVars
<1>2. Reached' = 0
  BY <1>1 DEF Reached
<1>3. PICK z : z = 0
  OBVIOUS
<1>4. Upto(z) = 0
  BY <1>3, NoneBefore DEF Early
<1>5. Upto(Reached)' = Upto(z)
  BY <1>1, <1>2, <1>3 DEF Upto, Accesses, Unit, Regulars
<1>6. /\ trace' = out' /\ job'.start = 0 /\ job'.partition = Unlimited
      /\ ~ warm' /\ counted' = Upto(Reached)'
  <2>1. ~ warm'
    <3>1. warm' = (0 < 0)
      BY <1>1
    <3>2. ~ (0 < 0)
      OBVIOUS
    <3> QED
      BY ONLY <3>1, <3>2, Zenon
  <2>2. Upto(Reached)' = 0
    BY <1>3, <1>4, <1>5
  <2>3. job'.start = 0 /\ job'.partition = Unlimited
    BY <1>1
  <2> QED
    BY <1>1, <2>1, <2>2, <2>3
<1> QED
  BY <1>6 DEF WholeInv

(* It counts the words of the next entry. *)
LEMMA FetchWhole ==
  ASSUME OrderInv, CutInv, JobInv, WholeInv, Fetch, UNCHANGED <<toolVars, pipeVars>>
  PROVE  WholeInv'
<1>1. /\ UNCHANGED <<out, cut, jobs, phase, files, trace, job, i>> /\ pc = "fetch"
      /\ pc' \in {"walk", "probe"}
  BY DEF Fetch, toolVars, pipeVars
<1>2. Regulars' = Regulars /\ Unit' = Unit
  BY <1>1 DEF Regulars, Unit
<1>3. Aligned' <=> Aligned
  BY <1>1, <1>2 DEF Aligned
<1>4. SUFFICES ASSUME phase = "cut", Aligned, files = <<>> PROVE WholeInv'
  BY <1>1, <1>3 DEF WholeInv
<1>5. /\ trace = out /\ job.start = 0 /\ job.partition = Unlimited
      /\ ~ warm /\ counted = Upto(Reached)
  BY <1>1, <1>4 DEF WholeInv
<1>6. PICK n \in Nat : n = i - 1 /\ i = n + 1 /\ i <= Len(trace)
  <2>1. i \in Nat /\ i >= job.warmup + 1 /\ job.warmup \in Nat
    BY DEF JobInv
  <2>2. i - 1 \in Nat /\ i = (i - 1) + 1
    BY <2>1
  <2> QED
    BY <2>2 DEF Fetch
<1>7. OneSize
  BY <1>4, AlignedIs
<1>8. /\ IsProbe(trace[i]) => Upto(n + 1) = Upto(n)
      /\ ~ IsProbe(trace[i]) => size = Unit /\ Upto(n + 1) = Upto(n) + Unit
  BY <1>5, <1>6, <1>7, EntryIs
<1>9. Reached = n
  BY <1>1, <1>6 DEF Reached
<1>10. ~ WarmAt(i)
  BY <1>5 DEF WarmAt
<1>11. ~ warm' /\ counted' = IF IsProbe(trace[i]) THEN counted ELSE counted + size
  BY <1>10 DEF Fetch
<1>12. Reached' = n + 1
  BY <1>1, <1>6 DEF Reached
<1>13. Upto(Reached)' = Upto(n + 1)
  BY <1>2, <1>12 DEF Upto, Accesses
<1>14. counted = Upto(n)
  <2> HIDE DEF Upto
  <2> QED
    BY <1>5, <1>9
<1>15. counted' = Upto(n + 1)
  BY <1>8, <1>11, <1>14
<1>16. /\ trace' = out' /\ job'.start = 0 /\ job'.partition = Unlimited
       /\ ~ warm' /\ counted' = Upto(Reached)'
  BY <1>1, <1>5, <1>11, <1>13, <1>15
<1> QED
  BY <1>16 DEF WholeInv

(* Nothing has been called in the beginning. *)
LEMMA InitWhole == Init => WholeInv
BY DEF Init, StackInit, WholeInv

(* Every step of the pipeline keeps what is said of that call. *)
LEMMA StepWhole ==
  OrderInv /\ CutInv /\ JobInv /\ QuietInv /\ WholeInv /\ [Next]_vars => WholeInv'
<1> SUFFICES ASSUME OrderInv, CutInv, JobInv, QuietInv, WholeInv, [Next]_vars PROVE WholeInv'
  OBVIOUS
<1>1. ASSUME pc' = "idle" \/ files' # <<>> PROVE WholeInv'
  BY <1>1 DEF WholeInv
<1>2. CASE pc = "idle" /\ pc' = pc
  BY <1>1, <1>2
<1>3. CASE UNCHANGED vars
  <2>1. CASE pc = "idle"
    BY <1>2, <1>3, <2>1 DEF vars, stackVars
  <2>2. CASE pc # "idle"
    <3>1. UNCHANGED <<out, cut, jobs, phase, files, trace, job, warm, counted, pc, i>>
      BY <1>3 DEF vars, toolVars, stackVars, pipeVars
    <3>2. Reached' = Reached
      BY <3>1 DEF Reached
    <3> QED
      BY <2>2, <3>1, <3>2, SameWhole
  <2> QED
    BY <2>1, <2>2
<1>4. CASE ToolNext /\ UNCHANGED <<stackVars, pipeVars>>
  <2>1. phase # "cut"
    BY <1>4 DEF ToolNext, MergeOne, CopyOwn, AddInvalidation, SkipRead, Round, Save, StartCut,
                CutStep, EndCut
  <2>2. pc' = "idle"
    BY <1>4, <2>1 DEF QuietInv, stackVars
  <2> QED
    BY <1>1, <2>2
<1>5. ASSUME NEW k \in Kernels, NEW d \in BOOLEAN, StartWhole(k, d) PROVE WholeInv'
  BY <1>5, WholeStarts
<1>6. CASE StartPart
  <2>1. files' # <<>>
    BY <1>6 DEF StartPart, pipeVars
  <2> QED
    BY <1>1, <2>1
<1>7. CASE StackStep /\ UNCHANGED <<toolVars, pipeVars>>
  <2>1. CASE Fetch
    BY <1>7, <2>1, FetchWhole
  <2>2. UNCHANGED <<out, cut, jobs, phase, files>>
    BY <1>7 DEF toolVars, pipeVars
  <2>3. ASSUME UNCHANGED <<trace, job, warm, counted>>, pc \in {"walk", "probe"},
               \/ pc' = pc /\ i' = i
               \/ pc' = "fetch" /\ i' = i + 1
        PROVE  WholeInv'
    <3>1. i \in Nat
      BY DEF JobInv
    <3>2. Reached' = Reached
      <4>1. CASE pc' = pc /\ i' = i
        BY <2>3, <4>1 DEF Reached
      <4>2. CASE pc' = "fetch" /\ i' = i + 1
        <5>1. (i + 1) - 1 = i
          BY <3>1
        <5> QED
          BY <2>3, <4>2, <5>1 DEF Reached
      <4> QED
        BY <2>3, <4>1, <4>2
    <3>3. pc # "idle"
      BY <2>3
    <3> QED
      BY <2>2, <2>3, <3>2, <3>3, SameWhole
  <2>4. CASE PassOver \/ TakeSome \/ ProbeSome
    BY <2>3, <2>4 DEF PassOver, TakeSome, ProbeSome
  <2>5. CASE TakeLast \/ ColdMiss \/ ProbeLast \/ ProbeEnd
    BY <2>3, <2>5 DEF TakeLast, ColdMiss, ProbeLast, ProbeEnd, NextEntry
  <2>6. CASE Finish
    <3>1. UNCHANGED <<trace, job, i, warm, counted>> /\ pc = "fetch" /\ pc' = "done"
      BY <2>6 DEF Finish
    <3>2. Reached' = Reached
      BY <3>1 DEF Reached
    <3> QED
      BY <2>2, <3>1, <3>2, SameWhole
  <2> QED
    BY <1>7, <2>1, <2>4, <2>5, <2>6 DEF StackStep, Walk, Probe
<1>8. CASE WriteHistogram
  BY <1>1, <1>8 DEF WriteHistogram
<1>9. CASE Accumulate
  BY <1>2, <1>9 DEF Accumulate, stackVars
<1> QED
  BY <1>3, <1>4, <1>5, <1>6, <1>7, <1>8, <1>9 DEF Next
-----------------------------------------------------------------------------
(* What the jobs have in common with one run over the whole trace. *)

(* what the parts are compared with is there, and so are they *)
Comparable ==
  /\ phase = "cut" /\ Aligned /\ TraceWords < CountMod /\ cut.warmup >= TraceWords
  /\ job.kernel = AllKernels /\ ~ job.disjoint

(* the words in front of what a job counts, and behind it *)
Origin == IF files = <<>> THEN 0 ELSE Skipped
Target == IF files = <<>> THEN TraceWords ELSE Smaller(TraceWords, Skipped + cut.partition)

(* The histogram is what the run has counted since the origin. *)
Counts(c) ==
  /\ Origin \in Nat
  /\ Upto(Reached) <= Origin => hist = NoHistogram
  /\ Upto(Reached) > Origin => \E b : AtWords(b, Origin) /\ Plus(b, hist) = c.hist
  /\ pc = "walk" => (warm <=> Upto(i) <= Origin)
  /\ pc = "done" => Upto(Reached) = Target /\ Origin <= Target

(* Whatever runs is at a moment of the run over the whole trace. *)
CourseInv ==
  Comparable /\ pc # "idle" =>
    trace = out /\ \E c : Attained(c) /\ c.hist \in Histogram /\ Agrees(c) /\ Counts(c)

(* A step that leaves the trace alone leaves the run over it alone. *)
LEMMA SameCourse ==
  ASSUME out' = out
  PROVE  /\ \A c : Attained(c)' <=> Attained(c)
         /\ \A h, words : AtWords(h, words)' <=> AtWords(h, words)
<1>1. \A n : SizeOf(n)' = SizeOf(n)
  BY DEF SizeOf
<1>2. \A n : TopOf(n)' = TopOf(n)
  BY <1>1 DEF TopOf
<1>3. \A n, s : Overlap(n, s)' = Overlap(n, s)
  BY <1>1 DEF Overlap
<1>4. \A n, s, m : MarkedBy(n, s, m)' = MarkedBy(n, s, m)
  BY DEF MarkedBy
<1>5. \A h, n, s, words, d : Entered(h, n, s, words, d)' = Entered(h, n, s, words, d)
  <2> SUFFICES ASSUME NEW h, NEW n, NEW s, NEW words, NEW d
               PROVE  Entered(h, n, s, words, d)' = Entered(h, n, s, words, d)
    OBVIOUS
  <2>1. PICK x : x = SizeOf(n)
    OBVIOUS
  <2>2. SizeOf(n) = x /\ SizeOf(n)' = x /\ out' = out
    BY <1>1, <2>1
  <2> QED
    BY <2>2 DEF Entered
<1>6. \A c : AfterFetch(c)' = AfterFetch(c)
  BY <1>1 DEF AfterFetch
<1>7. \A c : AfterWalk(c)' = AfterWalk(c)
  BY <1>2, <1>3, <1>5 DEF AfterWalk
<1>8. \A c : AfterProbe(c)' = AfterProbe(c)
  BY <1>3, <1>4 DEF AfterProbe
<1>9. \A c : After(c)' = After(c)
  BY <1>6, <1>7, <1>8 DEF After
<1>10. \A r, k : Course(r, k)' <=> Course(r, k)
  BY <1>9 DEF Course
<1>11. \A c : Attained(c)' <=> Attained(c)
  BY <1>10 DEF Attained
<1>12. Regulars' = Regulars
  BY DEF Regulars
<1>13. Unit' = Unit
  BY <1>12 DEF Unit
<1>14. \A p : Upto(p)' = Upto(p)
  BY <1>12, <1>13 DEF Upto, Accesses
<1>15. \A h, words : AtWords(h, words)' <=> AtWords(h, words)
  BY <1>11, <1>14 DEF AtWords
<1> QED
  BY <1>11, <1>15

(* Nor does it move the origin. *)
LEMMA SameOrigin ==
  ASSUME UNCHANGED <<out, cut, jobs, phase, files>>, job'.kernel = job.kernel, job'.disjoint = job.disjoint
  PROVE  (Comparable' <=> Comparable) /\ Origin' = Origin /\ Target' = Target
<1>1. TraceWords' = TraceWords
  BY SameEarly
<1>2. Regulars' = Regulars
  BY DEF Regulars
<1>3. Aligned' <=> Aligned
  BY <1>2 DEF Aligned
<1>4. Comparable' <=> Comparable
  BY <1>1, <1>3 DEF Comparable
<1>5. Skipped' = Skipped
  BY DEF Skipped
<1>6. Origin' = Origin /\ Target' = Target
  BY <1>1, <1>5 DEF Origin, Target, Smaller
<1> QED
  BY <1>4, <1>6

(* A job may count from the origin on. *)
LEMMA CountsBehind ==
  ASSUME OrderInv, CutInv, JobInv, RunInv, WholeInv, OneSize, phase = "cut", Aligned, pc = "fetch",
         NEW n \in Nat, n = i - 1
  PROVE  /\ Origin \in Multiples(Unit) /\ Origin \in Nat /\ Origin <= TraceWords
         /\ WarmAt(i) => Upto(n + 1) <= Origin
         /\ ~ WarmAt(i) => Origin <= Upto(n)
<1>1. TraceWords \in Nat
  <2>1. TraceWords = Upto(Len(out)) /\ Len(out) \in Nat
    BY AllWords, InAccesses
  <2> QED
    BY <2>1, UptoIs
<1>2. CASE files = <<>>
  <2>1. ~ warm
    BY <1>2 DEF WholeInv
  <2>2. ~ WarmAt(i) /\ Origin = 0
    BY <1>2, <2>1 DEF WarmAt, Origin
  <2>3. PICK z \in Nat \ {0} : z = Unit
    BY UnitIs
  <2>4. 0 \in Multiples(z)
    BY MultiplesAre
  <2>5. Upto(n) \in Nat
    BY UptoIs
  <2> QED
    BY <1>1, <2>2, <2>3, <2>4, <2>5
<1>3. CASE files # <<>>
  <2>1. Origin = Skipped
    BY <1>3 DEF Origin
  <2>2. /\ Skipped \in Multiples(Unit) /\ Skipped \in Nat /\ Skipped <= TraceWords
        /\ WarmAt(i) => Upto(n + 1) <= Skipped
        /\ ~ WarmAt(i) => Skipped <= Upto(n)
    BY <1>3, Passing
  <2> QED
    BY <2>1, <2>2
<1> QED
  BY <1>2, <1>3

(* The words a job has reached. *)
LEMMA ReachedWords ==
  ASSUME UNCHANGED out, NEW r, Reached' = r
  PROVE  Upto(Reached)' = Upto(r)
<1>1. Regulars' = Regulars /\ Unit' = Unit
  BY DEF Regulars, Unit
<1> QED
  BY <1>1 DEF Upto, Accesses

(* The next entry is the next entry of the run. *)
LEMMA FetchCourse ==
  ASSUME OrderInv, CutInv, JobInv, StackInv, BlindInv, OriginInv, CountInv, RunInv, WholeInv, CourseInv,
         Fetch, UNCHANGED <<toolVars, pipeVars>>
  PROVE  CourseInv'
<1>1. /\ UNCHANGED <<out, cut, jobs, phase, files, trace, job, i>> /\ pc = "fetch"
      /\ pc' \in {"walk", "probe"} /\ (pc' = "walk" => ~ IsProbe(trace[i])) /\ warm' = WarmAt(i)
      /\ hist' = hist
  BY DEF Fetch, toolVars, pipeVars
<1>2. PICK o, t : o = Origin /\ t = Target
  OBVIOUS
<1>3. (Comparable' <=> Comparable) /\ Origin' = o /\ Target' = t
  BY <1>1, <1>2, SameOrigin
<1>4. SUFFICES ASSUME Comparable PROVE CourseInv'
  BY <1>3 DEF CourseInv
<1>5. trace = out
  BY <1>1, <1>4 DEF CourseInv
<1>6. PICK c : Attained(c) /\ c.hist \in Histogram /\ Agrees(c) /\ Counts(c)
  BY <1>1, <1>4 DEF CourseInv
<1>7. PICK d : d = After(c)
  OBVIOUS
<1>8. Attained(d)' /\ Attained(d)
  BY <1>1, <1>6, <1>7, Goes, SameCourse
<1>9. Follows(c, d)
  BY <1>1, <1>4, <1>5, <1>6, <1>7, FetchFollows DEF Comparable
<1>10. Agrees(d)' /\ d.hist \in Histogram /\ d.hist = c.hist
  BY <1>1, <1>9 DEF Follows
<1>11. PICK n \in Nat : n = i - 1 /\ i = n + 1 /\ i <= Len(trace)
  <2>1. i \in Nat /\ i >= job.warmup + 1 /\ job.warmup \in Nat
    BY DEF JobInv
  <2>2. i - 1 \in Nat /\ i = (i - 1) + 1
    BY <2>1
  <2> QED
    BY <2>2 DEF Fetch
<1>12. OneSize /\ phase = "cut" /\ Aligned
  BY <1>4, AlignedIs DEF Comparable
<1>13. /\ o \in Multiples(Unit) /\ o \in Nat
       /\ WarmAt(i) => Upto(n + 1) <= o
       /\ ~ WarmAt(i) => o <= Upto(n)
  BY <1>1, <1>2, <1>11, <1>12, CountsBehind
<1>14. /\ IsProbe(trace[i]) => Upto(n + 1) = Upto(n)
       /\ ~ IsProbe(trace[i]) => Upto(n + 1) = Upto(n) + Unit
  BY <1>5, <1>11, <1>12, EntryIs
<1>15. PICK x \in Nat, y \in Nat, z \in Nat \ {0} : x = Upto(n) /\ y = Upto(n + 1) /\ z = Unit
  <2>1. n + 1 \in Nat
    OBVIOUS
  <2> QED
    BY <2>1, UptoIs, UnitIs
<1>16. Reached = n
  BY <1>1, <1>11 DEF Reached
<1>17. Upto(Reached)' = y /\ Upto(i)' = y
  <2>1. Reached' = n + 1 /\ i' = n + 1
    BY <1>1, <1>11 DEF Reached
  <2>2. Upto(Reached)' = Upto(n + 1)
    BY <1>1, <2>1, ReachedWords
  <2>3. Upto(i)' = Upto(n + 1)
    BY <1>1, <2>1 DEF Upto, Accesses, Unit, Regulars
  <2> QED
    BY <1>15, <2>2, <2>3
<1>18. /\ x <= o => hist = NoHistogram
       /\ x > o => \E b : AtWords(b, o) /\ Plus(b, hist) = c.hist
  BY <1>2, <1>6, <1>15, <1>16 DEF Counts
<1>19. x = y \/ (y = x + z /\ (x < o => y <= o))
  <2>1. CASE IsProbe(trace[i])
    BY <1>14, <1>15, <2>1
  <2>2. CASE ~ IsProbe(trace[i])
    <3>1. x \in Multiples(z) /\ o \in Multiples(z)
      BY <1>13, <1>15, UptoIs
    <3>2. x < o => x + z <= o
      BY <3>1, MultiplesAre
    <3> QED
      BY <1>14, <1>15, <2>2, <3>2
  <2> QED
    BY <2>1, <2>2
<1>20. y <= o => hist = NoHistogram
  BY <1>13, <1>18, <1>19
<1>21. ASSUME y > o PROVE \E b : AtWords(b, o) /\ Plus(b, hist) = c.hist
  <2>1. CASE x > o
    BY <1>18, <2>1
  <2>2. CASE ~ (x > o)
    <3>1. x = o
      BY <1>13, <1>19, <1>21, <2>2
    <3>2. hist = NoHistogram
      BY <1>18, <3>1
    <3>3. c.pc = "fetch" /\ c.n = i
      BY <1>1, <1>6 DEF Agrees
    <3>4. c.n \in Nat \ {0} /\ c.n - 1 = n
      BY <1>11, <3>3
    <3>5. PICK h : h = c.hist
      OBVIOUS
    <3>6. Upto(c.n - 1) = o
      BY <1>15, <3>1, <3>4
    <3>7. AtWords(h, o)
      BY <1>6, <3>3, <3>4, <3>5, <3>6 DEF AtWords
    <3>8. Plus(h, NoHistogram) = h
      BY <1>6, <3>5, PlusIs
    <3> QED
      BY <3>2, <3>5, <3>7, <3>8
  <2> QED
    BY <2>1, <2>2
<1>22. pc' = "walk" => (warm' <=> y <= o)
  <2> SUFFICES ASSUME pc' = "walk" PROVE warm' <=> y <= o
    OBVIOUS
  <2>1. y = x + z
    BY <1>1, <1>14, <1>15
  <2>2. (WarmAt(i) => y <= o) /\ (~ WarmAt(i) => o <= x)
    BY <1>13, <1>15
  <2>3. WarmAt(i) <=> y <= o
    BY <1>13, <2>1, <2>2
  <2> QED
    BY ONLY <1>1, <2>3, Zenon
<1>23. y > o => \E b : AtWords(b, o)' /\ Plus(b, hist') = d.hist
  BY <1>1, <1>10, <1>21, SameCourse
<1>24. /\ Upto(Reached)' <= Origin' => hist' = NoHistogram
       /\ Upto(Reached)' > Origin' => \E b : AtWords(b, o)' /\ Plus(b, hist') = d.hist
       /\ pc' = "walk" => (warm' <=> Upto(i)' <= Origin')
       /\ pc' # "done"
  <2>1. pc' # "done"
    BY <1>1
  <2> QED
    BY <1>1, <1>3, <1>17, <1>20, <1>22, <1>23, <2>1
<1>25. Counts(d)'
  BY <1>3, <1>13, <1>24 DEF Counts
<1> QED
  BY <1>1, <1>5, <1>8, <1>10, <1>25 DEF CourseInv

(* A round of a walk or a probe is a moment of the run. *)
LEMMA RoundCourse ==
  ASSUME OrderInv, CutInv, JobInv, StackInv, BlindInv, OriginInv, CountInv, CourseInv,
         Walk \/ Probe, UNCHANGED <<toolVars, pipeVars>>
  PROVE  CourseInv'
<1>1. /\ UNCHANGED <<out, cut, jobs, phase, files, trace, job, warm>> /\ pc \in {"walk", "probe"}
      /\ \/ pc' = pc /\ i' = i
         \/ pc' = "fetch" /\ i' = i + 1
  BY DEF Walk, Probe, PassOver, TakeSome, ProbeSome, TakeLast, ColdMiss, ProbeLast, ProbeEnd, NextEntry,
         toolVars, pipeVars
<1>2. PICK o, t : o = Origin /\ t = Target
  OBVIOUS
<1>3. (Comparable' <=> Comparable) /\ Origin' = o /\ Target' = t
  BY <1>1, <1>2, SameOrigin
<1>4. SUFFICES ASSUME Comparable PROVE CourseInv'
  BY <1>3 DEF CourseInv
<1>5. trace = out
  BY <1>1, <1>4 DEF CourseInv
<1>6. PICK c : Attained(c) /\ c.hist \in Histogram /\ Agrees(c) /\ Counts(c)
  BY <1>1, <1>4 DEF CourseInv
<1>7. PICK d : d = After(c)
  OBVIOUS
<1>8. Attained(d)' /\ Attained(d)
  BY <1>1, <1>6, <1>7, Goes, SameCourse
<1>9. Follows(c, d)
  BY <1>1, <1>4, <1>5, <1>6, <1>7, StepFollows DEF Comparable
<1>10. i \in Nat
  BY DEF JobInv
<1>11. Reached = i /\ Reached' = i
  <2>1. (i + 1) - 1 = i
    BY <1>10
  <2> QED
    BY <1>1, <2>1 DEF Reached
<1>12. PICK y : y = Upto(i)
  OBVIOUS
<1>13. Upto(Reached)' = y
  <2>1. PICK r : r = i
    OBVIOUS
  <2>2. Upto(Reached)' = Upto(r)
    BY <1>1, <1>11, <2>1, ReachedWords
  <2> QED
    BY <1>12, <2>1, <2>2
<1>14. /\ o \in Nat
       /\ y <= o => hist = NoHistogram
       /\ y > o => \E b : AtWords(b, o) /\ Plus(b, hist) = c.hist
       /\ pc = "walk" => (warm <=> y <= o)
  BY <1>2, <1>6, <1>11, <1>12 DEF Counts
<1>15. /\ Agrees(d)' /\ d.hist \in Histogram
       /\ pc # "walk" => hist' = hist /\ d.hist = c.hist
       /\ pc = "walk" /\ warm => hist' = hist
       /\ pc = "walk" /\ ~ warm =>
            \A b \in Histogram : Plus(b, hist) = c.hist => Plus(b, hist') = d.hist
  BY <1>9 DEF Follows
<1>16. y <= o => hist' = NoHistogram
  BY <1>14, <1>15
<1>17. ASSUME y > o PROVE \E b : AtWords(b, o) /\ Plus(b, hist') = d.hist
  <2>1. PICK b : AtWords(b, o) /\ Plus(b, hist) = c.hist
    BY <1>14, <1>17
  <2>2. b \in Histogram
    BY <2>1 DEF AtWords
  <2>3. CASE pc = "walk"
    <3>1. ~ warm
      <4>1. y \in Nat
        BY <1>10, <1>12, UptoIs
      <4> QED
        BY <1>14, <1>17, <2>3, <4>1
    <3>2. Plus(b, hist') = d.hist
      BY <1>15, <2>1, <2>2, <2>3, <3>1
    <3> QED
      BY <2>1, <3>2
  <2>4. CASE pc # "walk"
    BY <1>15, <2>1, <2>4
  <2> QED
    BY <2>3, <2>4
<1>18. y > o => \E b : AtWords(b, o)' /\ Plus(b, hist') = d.hist
  BY <1>1, <1>17, SameCourse
<1>19. pc' = "walk" => (warm' <=> Upto(i)' <= o)
  <2> SUFFICES ASSUME pc' = "walk" PROVE warm' <=> Upto(i)' <= o
    OBVIOUS
  <2>1. pc = "walk" /\ i' = i
    BY <1>1
  <2>2. PICK r : r = i
    OBVIOUS
  <2>3. Upto(i)' = Upto(r)
    BY <1>1, <2>1, <2>2 DEF Upto, Accesses, Unit, Regulars
  <2>4. Upto(i)' = y
    BY <1>12, <2>2, <2>3
  <2>5. (warm <=> y <= o) /\ warm' = warm
    BY <1>1, <1>14, <2>1
  <2> QED
    BY ONLY <2>4, <2>5, Zenon
<1>20. /\ Upto(Reached)' <= Origin' => hist' = NoHistogram
       /\ Upto(Reached)' > Origin' => \E b : AtWords(b, o)' /\ Plus(b, hist') = d.hist
       /\ pc' = "walk" => (warm' <=> Upto(i)' <= Origin')
       /\ pc' # "done"
  <2>1. pc' # "done"
    BY <1>1
  <2> QED
    BY <1>3, <1>13, <1>16, <1>18, <1>19, <2>1
<1>21. Counts(d)'
  BY <1>3, <1>14, <1>20 DEF Counts
<1>22. pc' # "idle"
  BY <1>1
<1> QED
  BY <1>1, <1>5, <1>8, <1>15, <1>21 DEF CourseInv

(* A job that ends has reached the beginning of the next, and that for the whole trace
   its end. *)
LEMMA EndsAt ==
  ASSUME OrderInv, CutInv, JobInv, RunInv, RunInv', WholeInv, Finish, UNCHANGED <<toolVars, pipeVars>>,
         Comparable, NEW n \in Nat, n = i - 1
  PROVE  Upto(n) = Target /\ Origin <= Upto(n)
<1>1. /\ UNCHANGED <<out, cut, jobs, phase, files, trace, job, i, warm, counted>>
      /\ pc = "fetch" /\ pc' = "done"
  BY DEF Finish, toolVars, pipeVars
<1>2. phase = "cut" /\ Aligned /\ OneSize /\ TraceWords < CountMod
  BY AlignedIs DEF Comparable
<1>3. PICK x \in Nat, t \in Nat, z \in Nat \ {0} : x = Upto(n) /\ t = TraceWords /\ z = Unit /\ x <= t
  <2>1. TraceWords \in Nat
    <3>1. TraceWords = Upto(Len(out)) /\ Len(out) \in Nat
      BY <1>2, AllWords, InAccesses
    <3> QED
      BY <3>1, UptoIs
  <2> QED
    BY <1>2, <2>1, UptoIs, AllWords, UnitIs
<1>4. i = n + 1 /\ Reached = n
  <2>1. i \in Nat
    BY DEF JobInv
  <2> QED
    BY <1>1, <2>1 DEF Reached
<1>5. /\ Origin \in Nat /\ Origin <= t /\ (~ WarmAt(i) => Origin <= x)
  BY <1>1, <1>2, <1>3, CountsBehind
<1>6. trace = out
  BY <1>1, <1>2 DEF RunInv, WholeInv
<1>7. i > Len(trace) => x = t
  <2> SUFFICES ASSUME i > Len(trace) PROVE x = t
    OBVIOUS
  <2>1. n >= Len(out)
    BY <1>4, <1>6, InAccesses
  <2> QED
    BY <1>2, <1>3, <2>1, AllWords
<1>8. PartitionFull => /\ i <= Len(trace) /\ ~ IsProbe(trace[i]) /\ ~ WarmAt(i)
                       /\ counted + size > job.partition
  BY DEF PartitionFull
<1>9. Origin <= x
  <2>1. CASE i > Len(trace)
    BY <1>5, <1>7, <2>1
  <2>2. CASE PartitionFull
    BY <1>5, <1>8, <2>2
  <2> QED
    BY <2>1, <2>2 DEF Finish
<1>10. CASE files = <<>>
  <2>1. counted = x /\ job.partition = Unlimited
    <3>1. job.partition = Unlimited /\ counted = Upto(Reached)
      BY <1>1, <1>2, <1>10 DEF WholeInv
    <3>2. Upto(Reached) = Upto(n)
      BY <1>4
    <3> QED
      BY <1>3, <3>1, <3>2
  <2>2. ~ PartitionFull
    <3> SUFFICES ASSUME PartitionFull PROVE FALSE
      OBVIOUS
    <3>1. size = z /\ Upto(n + 1) = x + z
      BY <1>2, <1>3, <1>4, <1>6, <1>8, EntryIs
    <3>2. x + z <= t
      <4>1. n + 1 \in Nat
        OBVIOUS
      <4>2. Upto(n + 1) <= TraceWords
        BY <1>2, <4>1, AllWords
      <4> QED
        BY <1>3, <3>1, <4>2
    <3>3. CountMod \in Nat /\ Unlimited \in Nat /\ CountMod - 1 <= Unlimited
      BY StoredAssumption, UnlimitedAssumption
    <3>4. x + z > Unlimited
      BY <1>8, <2>1, <3>1
    <3> QED
      BY <1>2, <1>3, <3>2, <3>3, <3>4
  <2>3. x = t
    BY <1>7, <2>2 DEF Finish
  <2> QED
    BY <1>3, <1>9, <1>10, <2>3 DEF Target
<1>11. CASE files # <<>>
  <2>1. PICK s \in Nat, q \in Nat : s = Skipped /\ q = cut.partition /\ s = Origin
    <3>1. Origin = Skipped
      BY <1>11 DEF Origin
    <3> QED
      BY <1>5, <3>1 DEF CutInv, CutType
  <2>2. counted = Larger(Upto(Reached) - Skipped, 0)
    BY <1>1, <1>2, <1>11 DEF RunInv
  <2>3. counted = x - s
    <3>1. Upto(Reached) = x
      BY <1>3, <1>4
    <3>2. counted = Larger(x - s, 0) /\ s <= x
      BY <1>9, <2>1, <2>2, <3>1
    <3>3. x - s \in Nat
      BY <1>3, <2>1, <3>2
    <3> QED
      BY ONLY <3>2, <3>3 DEF Larger
  <2>4. Aligned' /\ TraceWords' = TraceWords /\ Skipped' = Skipped
    <3>1. Regulars' = Regulars
      BY <1>1 DEF Regulars
    <3>2. Aligned'
      BY <1>1, <1>2, <3>1 DEF Aligned
    <3>3. TraceWords' = TraceWords
      BY <1>1, SameEarly
    <3> QED
      BY <1>1, <3>2, <3>3 DEF Skipped
  <2>5. counted' = Smaller(TraceWords' - Skipped', cut'.partition)
    <3>1. phase' = "cut" /\ pc' # "idle" /\ files' # <<>>
      BY <1>1, <1>2, <1>11
    <3> QED
      BY <1>1, <2>4, <3>1 DEF RunInv
  <2>6. x - s = Smaller(t - s, q)
    BY <1>1, <1>3, <2>1, <2>3, <2>4, <2>5
  <2>7. x = Smaller(t, s + q)
    BY ONLY <1>3, <2>6, s \in Nat, q \in Nat, x \in Nat, t \in Nat DEF Smaller
  <2> QED
    BY <1>3, <1>9, <1>11, <2>1, <2>7 DEF Target
<1> QED
  BY <1>3, <1>9, <1>10, <1>11

(* A job that ends stays where it is. *)
LEMMA FinishCourse ==
  ASSUME OrderInv, CutInv, JobInv, RunInv, RunInv', WholeInv, CourseInv,
         Finish, UNCHANGED <<toolVars, pipeVars>>
  PROVE  CourseInv'
<1>1. /\ UNCHANGED <<out, cut, jobs, phase, files, trace, job, i, warm, stack, hist>>
      /\ pc = "fetch" /\ pc' = "done"
  BY DEF Finish, toolVars, pipeVars
<1>2. PICK o, t : o = Origin /\ t = Target
  OBVIOUS
<1>3. (Comparable' <=> Comparable) /\ Origin' = o /\ Target' = t
  BY <1>1, <1>2, SameOrigin
<1>4. SUFFICES ASSUME Comparable PROVE CourseInv'
  BY <1>3 DEF CourseInv
<1>5. trace = out
  BY <1>1, <1>4 DEF CourseInv
<1>6. PICK c : Attained(c) /\ c.hist \in Histogram /\ Agrees(c) /\ Counts(c)
  BY <1>1, <1>4 DEF CourseInv
<1>7. Attained(c)'
  BY <1>1, <1>6, SameCourse
<1>8. Agrees(c)'
  BY <1>1, <1>6 DEF Agrees
<1>9. PICK n \in Nat : n = i - 1
  <2>1. i \in Nat /\ i >= job.warmup + 1 /\ job.warmup \in Nat
    BY DEF JobInv
  <2>2. i - 1 \in Nat
    BY <2>1
  <2> QED
    BY <2>2
<1>10. Upto(n) = t /\ o <= t
  BY <1>2, <1>4, <1>9, EndsAt
<1>11. Upto(Reached)' = t /\ Upto(Reached) = t
  <2>1. Reached' = n /\ Reached = n
    BY <1>1, <1>9 DEF Reached
  <2>2. Upto(Reached)' = Upto(n)
    BY <1>1, <2>1, ReachedWords
  <2> QED
    BY <1>10, <2>1, <2>2
<1>12. /\ o \in Nat
       /\ t <= o => hist = NoHistogram
       /\ t > o => \E b : AtWords(b, o) /\ Plus(b, hist) = c.hist
  BY <1>2, <1>6, <1>11 DEF Counts
<1>13. t > o => \E b : AtWords(b, o)' /\ Plus(b, hist') = c.hist
  BY <1>1, <1>12, SameCourse
<1>14. Counts(c)'
  BY <1>1, <1>3, <1>10, <1>11, <1>12, <1>13 DEF Counts
<1> QED
  BY <1>1, <1>5, <1>6, <1>7, <1>8, <1>14 DEF CourseInv

(* A job begins at a moment of the run. *)
LEMMA StartsAt ==
  ASSUME OrderInv, OneSize, NEW w, Early(w), trace' = out, out' = out, i' = w + 1, stack' = <<>>,
         hist' = NoHistogram, pc' = "fetch", Origin' \in Nat
  PROVE  CourseInv'
<1>1. PICK c : c = Between(w + 1, <<>>, NoHistogram)
  OBVIOUS
<1>2. Attained(c)'
  BY <1>1, LeadIn, SameCourse
<1>3. w \in Nat /\ Upto(w) = 0
  BY DEF Early
<1>4. /\ c.pc = "fetch" /\ c.n = w + 1 /\ c.stack = <<>> /\ c.hist = NoHistogram
  BY <1>1 DEF Between, Moment
<1>5. Agrees(c)'
  BY <1>4 DEF Agrees
<1>6. NoHistogram \in Histogram
  BY EmptyIsConsistent DEF Consistent
<1>7. Reached' = w
  BY <1>3 DEF Reached
<1>8. Upto(Reached)' = 0
  <2>1. Upto(Reached)' = Upto(w)
    BY <1>7, ReachedWords
  <2> QED
    BY <1>3, <2>1
<1>9. ~ (Upto(Reached)' > Origin')
  BY <1>8
<1>10. Counts(c)'
  BY <1>9 DEF Counts
<1> QED
  BY <1>2, <1>4, <1>5, <1>6, <1>10 DEF CourseInv

(* The call for the whole trace begins at its beginning. *)
LEMMA WholeCourse ==
  ASSUME OrderInv, CutInv, NEW k \in Kernels, NEW d \in BOOLEAN, StartWhole(k, d)
  PROVE  CourseInv'
<1>1. /\ trace' = out /\ i' = 0 + 1 /\ stack' = <<>> /\ hist' = NoHistogram /\ pc' = "fetch"
      /\ UNCHANGED <<out, cut, jobs, phase, files>> /\ files = <<>>
  BY DEF StartWhole, Start, toolVars, pipeVars
<1>2. SUFFICES ASSUME Comparable' PROVE CourseInv'
  BY DEF CourseInv
<1>3. Aligned
  <2>1. Regulars' = Regulars
    BY <1>1 DEF Regulars
  <2> QED
    BY <1>1, <1>2, <2>1 DEF Comparable, Aligned
<1>4. OneSize
  BY <1>3, AlignedIs
<1>5. PICK w : w = 0
  OBVIOUS
<1>6. Early(w)
  BY <1>5, NoneBefore
<1>7. Origin' \in Nat
  BY <1>1 DEF Origin
<1> QED
  BY <1>1, <1>4, <1>5, <1>6, <1>7, StartsAt

(* A part begins with its warm-up, which is that of the whole trace. *)
LEMMA PartCourse ==
  ASSUME OrderInv, CutInv, WarmInv, StartPart
  PROVE  CourseInv'
<1>1. PICK n \in Nat : n = Len(files) /\ n \in 1 .. Len(jobs)
  <2>1. Len(files) \in 1 .. Len(jobs) /\ Len(jobs) \in Nat
    BY DEF StartPart, CutInv
  <2> QED
    BY <2>1
<1>2. PICK w : w = jobs[n].warmup
  OBVIOUS
<1>3. /\ trace' = out /\ i' = w + 1 /\ stack' = <<>> /\ hist' = NoHistogram /\ pc' = "fetch"
      /\ UNCHANGED <<out, cut, jobs, phase, files>>
      /\ job'.kernel = job.kernel /\ job'.disjoint = job.disjoint
  BY <1>1, <1>2 DEF StartPart, Start, toolVars, pipeVars
<1>4. SUFFICES ASSUME Comparable' PROVE CourseInv'
  BY DEF CourseInv
<1>5. Comparable
  BY <1>3, <1>4, SameOrigin
<1>6. OneSize
  BY <1>5, AlignedIs DEF Comparable
<1>7. Early(w)
  <2>1. DOMAIN jobs = 1 .. Len(jobs)
    BY DEF CutInv
  <2> QED
    BY <1>1, <1>2, <1>5, <1>6, <2>1 DEF WarmInv, Comparable
<1>8. Origin' \in Nat
  <2>1. PICK q \in Nat : q = cut.partition
    BY DEF CutInv, CutType
  <2>2. PICK x \in Nat : x = (n - 1) * q
    <3>1. n - 1 \in Nat
      BY <1>1
    <3>2. \A a, b \in Nat : a * b \in Nat
      OBVIOUS
    <3> QED
      BY <3>1, <3>2
  <2>3. Skipped' = x
    BY <1>1, <1>3, <2>1, <2>2 DEF Skipped
  <2>4. Origin' = 0 \/ Origin' = Skipped'
    BY DEF Origin
  <2> QED
    BY <2>2, <2>3, <2>4
<1> QED
  BY <1>3, <1>6, <1>7, <1>8, StartsAt

(* A step that does nothing stays where it is. *)
LEMMA StaysCourse ==
  ASSUME CourseInv, UNCHANGED vars
  PROVE  CourseInv'
<1>1. UNCHANGED <<out, cut, jobs, phase, files, trace, job, i, stack, at, pending, distance, warm, hist, pc>>
  BY DEF vars, toolVars, stackVars, walkVars, pipeVars
<1>2. PICK o, t : o = Origin /\ t = Target
  OBVIOUS
<1>3. (Comparable' <=> Comparable) /\ Origin' = o /\ Target' = t
  BY <1>1, <1>2, SameOrigin
<1>4. SUFFICES ASSUME Comparable, pc # "idle" PROVE CourseInv'
  BY <1>1, <1>3 DEF CourseInv
<1>5. trace = out
  BY <1>4 DEF CourseInv
<1>6. PICK c : Attained(c) /\ c.hist \in Histogram /\ Agrees(c) /\ Counts(c)
  BY <1>4 DEF CourseInv
<1>7. Attained(c)'
  BY <1>1, <1>6, SameCourse
<1>8. Agrees(c)'
  BY <1>1, <1>6 DEF Agrees
<1>9. PICK r, j : r = Reached /\ j = i
  OBVIOUS
<1>10. Reached' = r /\ i' = j
  BY <1>1, <1>9 DEF Reached
<1>11. Upto(Reached)' = Upto(r) /\ Upto(i)' = Upto(j)
  <2>1. Upto(i)' = Upto(j)
    BY <1>1, <1>10 DEF Upto, Accesses, Unit, Regulars
  <2> QED
    BY <1>1, <1>10, <2>1, ReachedWords
<1>12. /\ o \in Nat
       /\ Upto(r) <= o => hist = NoHistogram
       /\ Upto(r) > o => \E b : AtWords(b, o) /\ Plus(b, hist) = c.hist
       /\ pc = "walk" => (warm <=> Upto(j) <= o)
       /\ pc = "done" => Upto(r) = t /\ o <= t
  BY <1>2, <1>6, <1>9 DEF Counts
<1>13. Upto(r) > o => \E b : AtWords(b, o)' /\ Plus(b, hist') = c.hist
  BY <1>1, <1>12, SameCourse
<1>14. Counts(c)'
  BY <1>1, <1>3, <1>11, <1>12, <1>13 DEF Counts
<1> QED
  BY <1>1, <1>5, <1>6, <1>7, <1>8, <1>14 DEF CourseInv

(* Nothing runs in the beginning. *)
LEMMA InitCourse == Init => CourseInv
BY DEF Init, StackInit, CourseInv

(* Every step of the pipeline keeps a job on the course of the run over the whole trace. *)
LEMMA StepCourse ==
  OrderInv /\ CutInv /\ JobInv /\ StackInv /\ BlindInv /\ OriginInv /\ CountInv /\ RunInv /\ RunInv'
    /\ QuietInv /\ WarmInv /\ WholeInv /\ CourseInv /\ [Next]_vars => CourseInv'
<1> SUFFICES ASSUME OrderInv, CutInv, JobInv, StackInv, BlindInv, OriginInv, CountInv, RunInv, RunInv',
                    QuietInv, WarmInv, WholeInv, CourseInv, [Next]_vars
             PROVE  CourseInv'
  OBVIOUS
<1>1. ASSUME pc' = "idle" PROVE CourseInv'
  BY <1>1 DEF CourseInv
<1>2. CASE UNCHANGED vars
  BY <1>2, StaysCourse
<1>3. CASE ToolNext /\ UNCHANGED <<stackVars, pipeVars>>
  <2>1. phase # "cut"
    BY <1>3 DEF ToolNext, MergeOne, CopyOwn, AddInvalidation, SkipRead, Round, Save, StartCut,
                CutStep, EndCut
  <2>2. pc' = "idle"
    BY <1>3, <2>1 DEF QuietInv, stackVars
  <2> QED
    BY <1>1, <2>2
<1>4. ASSUME NEW k \in Kernels, NEW d \in BOOLEAN, StartWhole(k, d) PROVE CourseInv'
  BY <1>4, WholeCourse
<1>5. CASE StartPart
  BY <1>5, PartCourse
<1>6. CASE StackStep /\ UNCHANGED <<toolVars, pipeVars>>
  <2>1. CASE Fetch
    BY <1>6, <2>1, FetchCourse
  <2>2. CASE Walk \/ Probe
    BY <1>6, <2>2, RoundCourse
  <2>3. CASE Finish
    BY <1>6, <2>3, FinishCourse
  <2> QED
    BY <1>6, <2>1, <2>2, <2>3 DEF StackStep
<1>7. CASE WriteHistogram
  BY <1>1, <1>7 DEF WriteHistogram
<1>8. CASE Accumulate
  BY <1>1, <1>8 DEF Accumulate, stackVars
<1> QED
  BY <1>2, <1>3, <1>4, <1>5, <1>6, <1>7, <1>8 DEF Next
-----------------------------------------------------------------------------
(* A histogram file holds all of the histogram. *)

(* the bins that are not written have no invalidation misses either *)
MissInv == \A b \in Bins : 2 * b < 2^HistLen \/ hist.lost[b] = 0

(* Nothing has been missed in the beginning. *)
LEMMA InitMiss == Init => MissInv
BY DEF Init, StackInit, MissInv, NoHistogram, NoBins

(* Words that were invalidated are counted in a bin that is written. *)
LEMMA RecordedMiss ==
  ASSUME CountInv, MissInv, NEW s, NEW words, NEW d,
         2 * CeilLog2(Larger(d, size)) < 2^HistLen,
         hist' = Recorded(s, words, d)
  PROVE  MissInv'
<1>1. PICK h, g : h = hist /\ g = hist'
  OBVIOUS
<1>2. PICK b : b = CeilLog2(Larger(d, size))
  OBVIOUS
<1>3. h.lost \in Values /\ h \in Histogram
  BY <1>1 DEF CountInv, Consistent, Histogram
<1>4. PICK v : v = h.lost
  OBVIOUS
<1>5. g.lost = v \/ g.lost = [v EXCEPT ![b] = @ + words]
  <2>1. CASE s.inv
    <3>1. g = [h EXCEPT !.lost[b] = @ + words, !.inv = @ + words, !.cold = @ + words]
      BY <1>1, <1>2, <2>1 DEF Recorded
    <3> QED
      BY <1>3, <1>4, <3>1 DEF Histogram
  <2>2. CASE ~ s.inv
    <3>1. g = [h EXCEPT !.dist[b] = @ + words,
                        !.shared[b] = IF s.core # trace[i].core THEN @ + words ELSE @]
      BY <1>1, <1>2, <2>2 DEF Recorded
    <3> QED
      BY <1>3, <1>4, <3>1 DEF Histogram
  <2> QED
    BY <2>1, <2>2
<1>6. PICK n : n = 2^HistLen
  OBVIOUS
<1>7. 2 * b < n /\ \A x \in Bins : 2 * x < n \/ v[x] = 0
  BY <1>1, <1>2, <1>4, <1>6 DEF MissInv
<1>8. ASSUME NEW x \in Bins PROVE 2 * x < n \/ g.lost[x] = 0
  <2>1. CASE x = b
    BY <1>7, <2>1
  <2>2. CASE x # b
    <3>1. g.lost[x] = v[x]
      BY <1>3, <1>4, <1>5, <2>2 DEF Values
    <3> QED
      BY <1>7, <3>1
  <2> QED
    BY <2>1, <2>2
<1> QED
  BY <1>1, <1>6, <1>8 DEF MissInv

(* Every step of the pipeline keeps the others empty. *)
LEMMA StepMiss ==
  OrderInv /\ JobInv /\ StackInv /\ BlindInv /\ OriginInv /\ CountInv /\ MissInv /\ [Next]_vars
    => MissInv'
<1> SUFFICES ASSUME OrderInv, JobInv, StackInv, BlindInv, OriginInv, CountInv, MissInv, [Next]_vars
             PROVE  MissInv'
  OBVIOUS
<1>1. ASSUME hist'.lost = hist.lost PROVE MissInv'
  BY <1>1 DEF MissInv
<1>2. ASSUME NEW tr, NEW jb, Start(tr, jb) PROVE MissInv'
  BY <1>2 DEF Start, MissInv, NoHistogram, NoBins
<1>3. ASSUME NEW s, s = stack[at], NEW m, m = Match(s), pc = "walk", at <= Len(stack), m.words > 0,
             hist' = IF Tracked THEN Recorded(s, m.words, Grown(distance, s)) ELSE hist
      PROVE  MissInv'
  <2>1. CASE ~ Tracked
    BY <1>1, <1>3, <2>1
  <2>2. CASE Tracked
    <3>1. PICK d : d = Grown(distance, s)
      OBVIOUS
    <3>2. 2 * CeilLog2(Larger(d, size)) < 2^HistLen
      BY <1>3, <3>1, Found
    <3>3. hist' = Recorded(s, m.words, d)
      BY <1>3, <2>2, <3>1
    <3> QED
      BY <3>2, <3>3, RecordedMiss
  <2> QED
    BY <2>1, <2>2
<1>4. CASE StackStep
  <2>1. CASE Fetch \/ Finish \/ PassOver \/ Probe
    BY <1>1, <2>1 DEF Fetch, Finish, PassOver, Probe, ProbeSome, ProbeLast, ProbeEnd
  <2>2. CASE TakeSome
    BY <1>3, <2>2 DEF TakeSome
  <2>3. CASE TakeLast
    BY <1>3, <2>3 DEF TakeLast
  <2>4. CASE ColdMiss
    <3>1. PICK h, g : h = hist /\ g = hist'
      OBVIOUS
    <3>2. h \in Histogram /\ (g = h \/ g = [h EXCEPT !.cold = @ + pending])
      BY <2>4, <3>1 DEF ColdMiss, CountInv, Consistent
    <3>3. g.lost = h.lost
      BY <3>2 DEF Histogram
    <3> QED
      BY <1>1, <3>1, <3>3
  <2> QED
    BY <1>4, <2>1, <2>2, <2>3, <2>4 DEF StackStep, Walk
<1>5. CASE UNCHANGED stackVars
  BY <1>1, <1>5 DEF stackVars
<1>6. CASE WriteHistogram
  BY <1>1, <1>6 DEF WriteHistogram
<1>7. ASSUME NEW k \in Kernels, NEW d \in BOOLEAN, StartWhole(k, d) PROVE MissInv'
  BY <1>2, <1>7 DEF StartWhole
<1>8. CASE StartPart
  BY <1>2, <1>8 DEF StartPart
<1> QED
  BY <1>4, <1>5, <1>6, <1>7, <1>8 DEF Next, Accumulate, vars

(* What is read is what was written. *)
LEMMA StoredSame ==
  ASSUME CountInv, HalfInv, MissInv, hist.cold < CountMod
  PROVE  Stored(hist) = hist /\ hist \in Histogram
<1>1. PICK h, n : h = hist /\ n = 2^HistLen
  OBVIOUS
<1>2. h \in Histogram /\ h.inv <= h.cold /\ \A b \in Bins : h.shared[b] <= h.dist[b]
  BY <1>1 DEF CountInv, Consistent
<1>3. /\ h.dist \in Values /\ h.shared \in Values /\ h.lost \in Values /\ h.cold \in Nat /\ h.inv \in Nat
      /\ h = [dist |-> h.dist, shared |-> h.shared, lost |-> h.lost, cold |-> h.cold, inv |-> h.inv]
  BY <1>2 DEF Histogram
<1>4. ASSUME NEW v \in Values, \A b \in Bins : 2 * b < n \/ v[b] = 0
      PROVE  [b \in Bins |-> IF 2 * b < n THEN v[b] ELSE 0] = v
  <2>1. \A b \in Bins : (IF 2 * b < n THEN v[b] ELSE 0) = v[b]
    BY <1>4
  <2>2. v = [b \in Bins |-> v[b]]
    BY DEF Values
  <2> QED
    BY <2>1, <2>2
<1>5. \A b \in Bins : 2 * b < n \/ h.dist[b] = 0
  BY <1>1 DEF HalfInv
<1>6. \A b \in Bins : 2 * b < n \/ h.lost[b] = 0
  BY <1>1 DEF MissInv
<1>7. \A b \in Bins : 2 * b < n \/ h.shared[b] = 0
  <2>1. \A b \in Bins : h.shared[b] \in Nat /\ h.shared[b] <= h.dist[b]
    BY <1>2, <1>3 DEF Values
  <2> QED
    BY <1>5, <2>1
<1>8. PICK v, u, w, c, d : v = h.dist /\ u = h.shared /\ w = h.lost /\ c = h.cold /\ d = h.inv
  OBVIOUS
<1>9. v \in Values /\ u \in Values /\ w \in Values /\ c \in Nat /\ d \in Nat /\ d <= c /\ c < CountMod
  BY <1>1, <1>2, <1>3, <1>8
<1>10. /\ [b \in Bins |-> IF 2 * b < n THEN v[b] ELSE 0] = v
       /\ [b \in Bins |-> IF 2 * b < n THEN u[b] ELSE 0] = u
       /\ [b \in Bins |-> IF 2 * b < n THEN w[b] ELSE 0] = w
  <2>1. /\ \A b \in Bins : 2 * b < n \/ v[b] = 0
        /\ \A b \in Bins : 2 * b < n \/ u[b] = 0
        /\ \A b \in Bins : 2 * b < n \/ w[b] = 0
    BY <1>5, <1>6, <1>7, <1>8
  <2>2. [b \in Bins |-> IF 2 * b < n THEN v[b] ELSE 0] = v
    BY ONLY <1>4, <1>9, <2>1
  <2>3. [b \in Bins |-> IF 2 * b < n THEN u[b] ELSE 0] = u
    BY ONLY <1>4, <1>9, <2>1
  <2>4. [b \in Bins |-> IF 2 * b < n THEN w[b] ELSE 0] = w
    BY ONLY <1>4, <1>9, <2>1
  <2> QED
    BY <2>2, <2>3, <2>4
<1>11. CountMod \in Nat \ {0}
  BY <1>9, StoredAssumption
<1>12. c % CountMod = c /\ d % CountMod = d
  <2>1. d < CountMod
    BY ONLY <1>9, <1>11
  <2> QED
    BY ONLY <1>9, <1>11, <2>1
<1>13. Stored(h) = [dist |-> v, shared |-> u, lost |-> w, cold |-> c, inv |-> d]
  BY <1>1, <1>8, <1>10, <1>12 DEF Stored
<1> QED
  BY <1>1, <1>2, <1>3, <1>8, <1>13
-----------------------------------------------------------------------------
(* What the files have in common with the histogram of one run. *)

(* h is what the run counts between so many words and so many *)
Stretch(h, from, to) == \E g, f : AtWords(g, from) /\ AtWords(f, to) /\ Plus(g, h) = f

(* The first file is the histogram of the run, and each other what it counts in one part. *)
PairsInv ==
  Comparable =>
    /\ files \in Seq(Histogram)
    /\ files # <<>> => AtWords(files[1], TraceWords)
    /\ \A m \in 1 .. Len(files) - 1 :
         Stretch(files[m + 1], (m - 1) * cut.partition, Smaller(TraceWords, m * cut.partition))

(* What a job has counted in the end is what the run counts from the origin to the target,
   and it is written as it is. *)
LEMMA DoneCounts ==
  ASSUME OrderInv, CutInv, JobInv, CountInv, HalfInv, MissInv, RunInv, WholeInv, CourseInv,
         pc = "done", Comparable
  PROVE  Stretch(hist, Origin, Target) /\ Stored(hist) = hist /\ hist \in Histogram
<1>1. phase = "cut" /\ Aligned /\ OneSize /\ TraceWords < CountMod /\ job.kernel = AllKernels
  BY AlignedIs DEF Comparable
<1>2. PICK t \in Nat : t = TraceWords
  <2>1. TraceWords = Upto(Len(out)) /\ Len(out) \in Nat
    BY <1>1, AllWords, InAccesses
  <2> QED
    BY <2>1, UptoIs
<1>3. PICK c : Attained(c) /\ c.hist \in Histogram /\ Agrees(c) /\ Counts(c)
  BY DEF CourseInv
<1>4. PICK o, x, h, g : o = Origin /\ x = Target /\ h = c.hist /\ g = hist
  OBVIOUS
<1>5. /\ o \in Nat /\ Upto(Reached) = x /\ o <= x
      /\ Upto(Reached) <= o => g = NoHistogram
      /\ Upto(Reached) > o => \E b : AtWords(b, o) /\ Plus(b, g) = h
  BY <1>3, <1>4 DEF Counts
<1>6. c.pc = "fetch" /\ c.n = i /\ Reached = i - 1
  BY <1>3 DEF Agrees, Reached
<1>7. i \in Nat \ {0}
  BY DEF JobInv
<1>8. AtWords(h, x)
  BY <1>3, <1>4, <1>5, <1>6, <1>7 DEF AtWords
<1>9. Stretch(g, o, x)
  <2>1. Upto(Reached) \in Nat
    <3>1. PICK n \in Nat : n = i - 1
      BY <1>7
    <3> QED
      BY <1>6, <3>1, UptoIs
  <2>2. CASE x > o
    BY <1>5, <1>8, <2>2 DEF Stretch
  <2>3. CASE ~ (x > o)
    <3>1. x = o
      BY <1>5, <2>1, <2>3
    <3>2. g = NoHistogram
      BY <1>5, <3>1
    <3>3. Plus(h, g) = h
      BY <1>3, <1>4, <3>2, PlusIs
    <3> QED
      BY <1>8, <3>1, <3>3 DEF Stretch
  <2> QED
    BY <2>2, <2>3
<1>10. counted \in Nat /\ counted <= t
  <2>1. counted \in Nat
    BY DEF CountInv
  <2>2. CASE files = <<>>
    <3>1. x = t
      BY <1>2, <1>4, <2>2 DEF Target
    <3>2. counted = Upto(Reached)
      BY <1>1, <2>2 DEF WholeInv
    <3> QED
      BY <1>5, <2>1, <3>1, <3>2
  <2>3. CASE files # <<>>
    <3>1. PICK q \in Nat : q = cut.partition
      BY DEF CutInv, CutType
    <3>2. o = Skipped
      BY <1>4, <2>3 DEF Origin
    <3>3. counted = Smaller(t - o, q)
      BY <1>1, <1>2, <2>3, <3>1, <3>2 DEF RunInv
    <3> QED
      BY <1>5, <2>1, <3>1, <3>3 DEF Smaller
  <2> QED
    BY <2>2, <2>3
<1>11. hist.cold < CountMod
  <2>1. hist \in Histogram
    BY DEF CountInv, Consistent
  <2>2. hist.dist \in Values /\ hist.cold \in Nat
    BY <2>1 DEF Histogram
  <2>3. PICK a \in Nat, b \in Nat : a = SumBins(hist.dist) /\ b = hist.cold
    BY <2>2, SumIsNat
  <2>4. a + b = counted
    BY <1>1, <2>3 DEF CountInv, Missing
  <2> QED
    BY <1>1, <1>2, <1>10, <2>3, <2>4, StoredAssumption
<1>12. Stored(hist) = hist /\ hist \in Histogram
  BY <1>11, StoredSame
<1> QED
  BY <1>4, <1>9, <1>12

(* Before the first word nothing has been counted. *)
LEMMA NothingBefore ==
  ASSUME OrderInv, OneSize
  PROVE  AtWords(NoHistogram, 0) /\ \A g : AtWords(g, 0) => g = NoHistogram
<1>1. PICK c, h : c = Between(1, <<>>, h) /\ h = NoHistogram
  OBVIOUS
<1>2. Attained(c)
  BY <1>1, Begins
<1>3. c.pc = "fetch" /\ c.n = 1 /\ c.hist = h
  BY <1>1 DEF Between, Moment
<1>4. h \in Histogram
  BY <1>1, EmptyIsConsistent DEF Consistent
<1>5. c.n \in Nat \ {0} /\ c.n - 1 = 0
  BY <1>3
<1>6. Upto(0) = 0
  BY AllWords
<1>7. AtWords(h, 0)
  BY <1>2, <1>3, <1>4, <1>5, <1>6 DEF AtWords
<1>8. ASSUME NEW g, AtWords(g, 0) PROVE g = h
  <2>1. PICK z \in Nat : z = 0
    OBVIOUS
  <2>2. AtWords(g, z) /\ AtWords(h, z)
    BY <1>7, <1>8, <2>1
  <2> QED
    BY <2>2, OneHistogram
<1> QED
  BY <1>1, <1>7, <1>8

(* What is written goes with the files before it. *)
LEMMA WritesPairs ==
  ASSUME OrderInv, CutInv, JobInv, CountInv, HalfInv, MissInv, RunInv, WholeInv, CourseInv, PairsInv,
         WriteHistogram, Comparable
  PROVE  /\ files' \in Seq(Histogram) /\ AtWords(files'[1], TraceWords)
         /\ \A m \in 1 .. Len(files') - 1 :
              Stretch(files'[m + 1], (m - 1) * cut.partition, Smaller(TraceWords, m * cut.partition))
<1>1. pc = "done" /\ phase = "cut" /\ Aligned /\ OneSize
  BY AlignedIs DEF WriteHistogram, Comparable
<1>2. PICK fs, h : fs = files /\ h = hist
  OBVIOUS
<1>3. Stretch(h, Origin, Target) /\ h \in Histogram /\ Stored(h) = h
  BY <1>1, <1>2, DoneCounts
<1>4. files' = Append(fs, h)
  BY <1>2, <1>3 DEF WriteHistogram
<1>5. PICK t, q \in Nat : t = TraceWords /\ q = cut.partition
  <2>1. TraceWords = Upto(Len(out)) /\ Len(out) \in Nat
    BY <1>1, AllWords, InAccesses
  <2> QED
    BY <2>1, UptoIs DEF CutInv, CutType
<1>6. /\ fs \in Seq(Histogram) /\ (fs # <<>> => AtWords(fs[1], t))
      /\ \A m \in 1 .. Len(fs) - 1 : Stretch(fs[m + 1], (m - 1) * q, Smaller(t, m * q))
  BY <1>2, <1>5 DEF PairsInv
<1>7. PICK n \in Nat : n = Len(fs)
  BY <1>6
<1>8. /\ files' \in Seq(Histogram) /\ Len(files') = n + 1
      /\ files'[n + 1] = h /\ \A x \in 1 .. n : files'[x] = fs[x]
  <2>1. fs \in Seq(Histogram) /\ h \in Histogram
    BY <1>3, <1>6
  <2> QED
    BY <1>4, <1>7, <2>1
<1>9. CASE n = 0
  <2>1. files = <<>>
    <3>1. fs \in Seq(Histogram) /\ Len(fs) = 0
      BY <1>6, <1>7, <1>9
    <3>2. fs = <<>>
      BY ONLY <3>1
    <3> QED
      BY <1>2, <3>2
  <2>2. Origin = 0 /\ Target = t
    BY <1>5, <2>1 DEF Origin, Target
  <2>3. PICK g, f : AtWords(g, 0) /\ AtWords(f, t) /\ Plus(g, h) = f
    BY <1>3, <2>2 DEF Stretch
  <2>4. f = h
    BY <1>1, <1>3, <2>3, NothingBefore, PlusIs
  <2>5. files'[1] = h /\ 1 .. Len(files') - 1 = {}
    BY <1>8, <1>9
  <2> QED
    BY <1>5, <1>8, <2>3, <2>4, <2>5
<1>10. CASE n # 0
  <2>1. files # <<>>
    BY <1>2, <1>7, <1>10
  <2>2. Origin = (n - 1) * q /\ Target = Smaller(t, (n - 1) * q + q)
    BY <1>2, <1>5, <1>7, <2>1 DEF Origin, Target, Skipped
  <2>3. (n - 1) * q + q = n * q
    <3>1. PICK j \in Nat : n = j + 1
      <4>1. n - 1 \in Nat /\ n = (n - 1) + 1
        BY <1>10
      <4> QED
        BY <4>1
    <3>2. n - 1 = j
      BY <3>1
    <3>3. (j + 1) * q = j * q + q
      OBVIOUS
    <3> QED
      BY <3>1, <3>2, <3>3
  <2>4. Stretch(h, (n - 1) * q, Smaller(t, n * q))
    BY <1>3, <2>2, <2>3
  <2>5. ASSUME NEW m \in 1 .. Len(files') - 1
        PROVE  Stretch(files'[m + 1], (m - 1) * q, Smaller(t, m * q))
    <3>1. CASE m = n
      BY <1>8, <2>4, <3>1
    <3>2. CASE m # n
      <4>1. m \in 1 .. n - 1 /\ m + 1 \in 1 .. n
        BY <1>8, <3>2
      <4> QED
        BY <1>6, <1>7, <1>8, <4>1
    <3> QED
      BY <3>1, <3>2
  <2>6. AtWords(files'[1], t)
    <3>1. 1 \in 1 .. n /\ fs # <<>>
      BY <1>2, <1>10, <2>1
    <3> QED
      BY <1>6, <1>8, <3>1
  <2> QED
    BY <1>5, <1>8, <2>5, <2>6
<1> QED
  BY <1>9, <1>10

(* A step that leaves the trace and the cut alone leaves what the files are compared with. *)
LEMMA SamePairs ==
  ASSUME UNCHANGED <<out, cut, jobs, phase>>, job'.kernel = job.kernel, job'.disjoint = job.disjoint,
         Comparable =>
           /\ files' \in Seq(Histogram)
           /\ files' # <<>> => AtWords(files'[1], TraceWords)
           /\ \A m \in 1 .. Len(files') - 1 :
                Stretch(files'[m + 1], (m - 1) * cut.partition, Smaller(TraceWords, m * cut.partition))
  PROVE  PairsInv'
<1>1. Regulars' = Regulars
  BY DEF Regulars
<1>2. (Comparable' <=> Comparable) /\ TraceWords' = TraceWords
  <2>1. TraceWords' = TraceWords
    BY SameEarly
  <2>2. Aligned' <=> Aligned
    BY <1>1 DEF Aligned
  <2> QED
    BY <2>1, <2>2 DEF Comparable
<1>3. SUFFICES ASSUME Comparable PROVE PairsInv'
  BY <1>2 DEF PairsInv
<1>4. PICK fs, t, q : fs = files' /\ t = TraceWords /\ q = cut.partition
  OBVIOUS
<1>5. /\ fs \in Seq(Histogram) /\ (fs # <<>> => AtWords(fs[1], t))
      /\ \A m \in 1 .. Len(fs) - 1 : Stretch(fs[m + 1], (m - 1) * q, Smaller(t, m * q))
  BY <1>3, <1>4
<1>6. /\ \A h, words : AtWords(h, words)' <=> AtWords(h, words)
      /\ \A h, a, b : Stretch(h, a, b)' <=> Stretch(h, a, b)
  <2>1. \A h, words : AtWords(h, words)' <=> AtWords(h, words)
    BY SameCourse
  <2>2. \A h, a, b : Stretch(h, a, b)' <=> Stretch(h, a, b)
    BY <2>1 DEF Stretch
  <2> QED
    BY <2>1, <2>2
<1>7. /\ fs \in Seq(Histogram) /\ (fs # <<>> => AtWords(fs[1], t)')
      /\ \A m \in 1 .. Len(fs) - 1 : Stretch(fs[m + 1], (m - 1) * q, Smaller(t, m * q))'
  BY <1>5, <1>6
<1>8. files' = fs /\ TraceWords' = t /\ cut'.partition = q
  BY <1>2, <1>4
<1>9. /\ files' \in Seq(Histogram)
      /\ files' # <<>> => AtWords(files[1], TraceWords)'
  BY <1>7, <1>8 DEF AtWords, Upto, Accesses, Unit, Regulars
<1>10. ASSUME NEW m \in 1 .. Len(files') - 1
       PROVE  Stretch(files[m + 1], (m - 1) * cut.partition, Smaller(TraceWords, m * cut.partition))'
  <2>1. PICK h, a, b : h = fs[m + 1] /\ a = (m - 1) * q /\ b = Smaller(t, m * q)
    OBVIOUS
  <2>2. Stretch(h, a, b)'
    BY <1>7, <1>8, <1>10, <2>1
  <2>3. files'[m + 1] = h /\ (m - 1) * cut'.partition = a /\ Smaller(TraceWords, m * cut.partition)' = b
    BY <1>8, <2>1 DEF Smaller
  <2> QED
    BY <2>2, <2>3 DEF Stretch, AtWords
<1> QED
  BY <1>9, <1>10 DEF PairsInv

(* Nothing has been written in the beginning. *)
LEMMA InitPairs == Init => PairsInv
BY DEF Init, ToolInit, PairsInv, Comparable

(* Every step of the pipeline keeps what the files have in common. *)
LEMMA StepPairs ==
  OrderInv /\ CutInv /\ JobInv /\ CountInv /\ HalfInv /\ MissInv /\ QuietInv /\ RunInv /\ WholeInv
    /\ CourseInv /\ PairsInv /\ [Next]_vars => PairsInv'
<1> SUFFICES ASSUME OrderInv, CutInv, JobInv, CountInv, HalfInv, MissInv, QuietInv, RunInv, WholeInv,
                    CourseInv, PairsInv, [Next]_vars
             PROVE  PairsInv'
  OBVIOUS
<1>1. ASSUME files' = <<>> PROVE PairsInv'
  <2>1. files' \in Seq(Histogram) /\ Len(files') = 0
    BY <1>1
  <2>2. 1 .. Len(files') - 1 = {}
    BY <2>1
  <2> QED
    BY <1>1, <2>1, <2>2 DEF PairsInv
<1>2. ASSUME UNCHANGED <<out, cut, jobs, phase, files>>,
             job'.kernel = job.kernel, job'.disjoint = job.disjoint
      PROVE  PairsInv'
  <2>1. Comparable =>
           /\ files' \in Seq(Histogram)
           /\ files' # <<>> => AtWords(files'[1], TraceWords)
           /\ \A m \in 1 .. Len(files') - 1 :
                Stretch(files'[m + 1], (m - 1) * cut.partition, Smaller(TraceWords, m * cut.partition))
    BY <1>2 DEF PairsInv
  <2> QED
    BY <1>2, <2>1, SamePairs
<1>3. CASE ToolNext /\ UNCHANGED <<stackVars, pipeVars>>
  <2>1. phase # "cut"
    BY <1>3 DEF ToolNext, MergeOne, CopyOwn, AddInvalidation, SkipRead, Round, Save, StartCut,
                CutStep, EndCut
  <2>2. files' = <<>>
    BY <1>3, <2>1 DEF QuietInv, pipeVars
  <2> QED
    BY <1>1, <2>2
<1>4. ASSUME NEW k \in Kernels, NEW d \in BOOLEAN, StartWhole(k, d) PROVE PairsInv'
  BY <1>1, <1>4 DEF StartWhole, pipeVars
<1>5. CASE StartPart
  <2>1. job'.kernel = job.kernel /\ job'.disjoint = job.disjoint
    BY <1>5 DEF StartPart, Start
  <2> QED
    BY <1>2, <1>5, <2>1 DEF StartPart, toolVars, pipeVars
<1>6. CASE StackStep /\ UNCHANGED <<toolVars, pipeVars>>
  <2>1. job' = job
    BY <1>6 DEF StackStep, Fetch, Finish, Walk, PassOver, TakeSome, TakeLast, ColdMiss,
                Probe, ProbeSome, ProbeLast, ProbeEnd, NextEntry
  <2> QED
    BY <1>2, <1>6, <2>1 DEF toolVars, pipeVars
<1>7. CASE WriteHistogram
  <2>1. UNCHANGED <<out, cut, jobs, phase, job>>
    BY <1>7 DEF WriteHistogram, toolVars
  <2>2. Comparable =>
           /\ files' \in Seq(Histogram)
           /\ files' # <<>> => AtWords(files'[1], TraceWords)
           /\ \A m \in 1 .. Len(files') - 1 :
                Stretch(files'[m + 1], (m - 1) * cut.partition, Smaller(TraceWords, m * cut.partition))
    BY <1>7, WritesPairs
  <2> QED
    BY <2>1, <2>2, SamePairs
<1>8. CASE Accumulate
  BY <1>2, <1>8 DEF Accumulate, toolVars, stackVars
<1>9. CASE UNCHANGED vars
  BY <1>2, <1>9 DEF vars, toolVars, stackVars, pipeVars
<1> QED
  BY <1>3, <1>4, <1>5, <1>6, <1>7, <1>8, <1>9 DEF Next

(* The parts are analysed for all kernels. *)
KernelInv == files # <<>> /\ (pc # "idle" \/ Len(files) > 1) => job.kernel = AllKernels

(* No part has been analysed in the beginning. *)
LEMMA InitKernel == Init => KernelInv
BY DEF Init, KernelInv

(* Every step of the pipeline keeps that. *)
LEMMA StepKernel == KernelInv /\ [Next]_vars => KernelInv'
<1> SUFFICES ASSUME KernelInv, [Next]_vars PROVE KernelInv'
  OBVIOUS
<1>1. ASSUME UNCHANGED <<files, job>>, pc' # "idle" => pc # "idle" PROVE KernelInv'
  BY <1>1 DEF KernelInv
<1>2. CASE StackStep /\ UNCHANGED <<toolVars, pipeVars>>
  <2>1. job' = job /\ pc # "idle"
    BY <1>2 DEF StackStep, Fetch, Finish, Walk, PassOver, TakeSome, TakeLast, ColdMiss,
                Probe, ProbeSome, ProbeLast, ProbeEnd, NextEntry
  <2> QED
    BY <1>1, <1>2, <2>1 DEF pipeVars
<1>3. ASSUME NEW k \in Kernels, NEW d \in BOOLEAN, StartWhole(k, d) PROVE KernelInv'
  BY <1>3 DEF StartWhole, pipeVars, KernelInv
<1>4. CASE StartPart
  BY <1>4 DEF StartPart, Start, KernelInv
<1>5. CASE WriteHistogram
  <2>1. job' = job /\ pc = "done" /\ pc' = "idle"
    BY <1>5 DEF WriteHistogram
  <2>2. CASE files = <<>>
    <3>1. PICK h : files' = Append(<<>>, h)
      BY <1>5, <2>2 DEF WriteHistogram
    <3>2. Len(files') = 1
      BY <3>1
    <3> QED
      BY <2>1, <3>2 DEF KernelInv
  <2>3. CASE files # <<>>
    BY <2>1, <2>3 DEF KernelInv
  <2> QED
    BY <2>2, <2>3
<1>6. CASE UNCHANGED <<stackVars, files>>
  BY <1>1, <1>6 DEF stackVars
<1> QED
  BY <1>2, <1>3, <1>4, <1>5, <1>6 DEF Next, Accumulate, vars, pipeVars

(* One part after the other adds up to the histogram of the run. *)
LEMMA AddsRun ==
  ASSUME OrderInv, OneSize, NEW sq \in Seq(Histogram), NEW l \in Nat, l = Len(sq),
         NEW q \in Nat \ {0}, NEW t \in Nat, (l - 1) * q <= t,
         \A m \in 1 .. l : Stretch(sq[m], (m - 1) * q, Smaller(t, m * q))
  PROVE  AtWords(FoldLeft(Plus, NoHistogram, sq), Smaller(t, l * q))
<1>1. PICK g : /\ FoldLeft(Plus, NoHistogram, sq) = g[1 .. l]
               /\ g[1 .. 0] = NoHistogram
               /\ \A k \in 1 .. l : g[1 .. k] = Plus(g[1 .. k - 1], sq[k])
  <2>1. DOMAIN sq = 1 .. l
    OBVIOUS
  <2> QED
    BY ONLY l \in Nat, <2>1, FoldIs
<1>2. PICK B : B = {k \in 0 .. l : ~ AtWords(g[1 .. k], Smaller(t, k * q))}
  OBVIOUS
<1>3. B = {}
  <2> SUFFICES ASSUME B # {} PROVE FALSE
    OBVIOUS
  <2>1. B \subseteq Nat
    BY <1>2
  <2>2. PICK k \in B : \A j \in B : k <= j
    BY ONLY <2>1, B # {}, Least
  <2>3. k \in 0 .. l /\ ~ AtWords(g[1 .. k], Smaller(t, k * q))
    BY <1>2
  <2>4. CASE k = 0
    <3>1. Smaller(t, k * q) = 0
      BY <2>4 DEF Smaller
    <3>2. g[1 .. k] = NoHistogram
      BY <1>1, <2>4
    <3> QED
      BY <2>3, <3>1, <3>2, NothingBefore
  <2>5. CASE k # 0
    <3>1. PICK j \in Nat : j = k - 1 /\ k = j + 1 /\ j \in 0 .. l /\ k \in 1 .. l
      <4>1. k - 1 \in Nat /\ k = (k - 1) + 1 /\ k - 1 \in 0 .. l /\ k \in 1 .. l
        BY <2>3, <2>5
      <4> QED
        BY <4>1
    <3>2. j \notin B
      BY <2>2, <3>1
    <3>3. PICK c \in Nat : c = j * q /\ c <= t
      <4>1. PICK e \in Nat : l = (j + 1) + e
        <5>1. l - k \in Nat /\ l = (j + 1) + (l - k)
          BY <3>1
        <5> QED
          BY <5>1
      <4>2. l - 1 = j + e
        BY <4>1
      <4>3. (j + e) * q = j * q + e * q
        OBVIOUS
      <4>4. \A m, n \in Nat : m * n \in Nat
        OBVIOUS
      <4>5. PICK u \in Nat, v \in Nat : u = j * q /\ v = e * q
        BY <4>4
      <4>6. u + v <= t
        BY <4>2, <4>3, <4>5
      <4>7. u <= t
        BY ONLY <4>6, u \in Nat, v \in Nat, t \in Nat
      <4> QED
        BY <4>5, <4>7
    <3>4. Smaller(t, j * q) = c
      BY <3>3 DEF Smaller
    <3>5. PICK x, y, z : x = g[1 .. j] /\ y = sq[k] /\ z = Smaller(t, k * q)
      OBVIOUS
    <3>6. AtWords(x, c)
      BY <1>2, <3>1, <3>2, <3>4, <3>5
    <3>7. Stretch(y, c, z)
      <4>1. (k - 1) * q = c
        BY <3>1, <3>3
      <4> QED
        BY <3>1, <3>5, <4>1
    <3>8. PICK b, f : AtWords(b, c) /\ AtWords(f, z) /\ Plus(b, y) = f
      BY <3>7 DEF Stretch
    <3>9. b = x
      BY ONLY OrderInv, OneSize, c \in Nat, <3>6, <3>8, OneHistogram
    <3>10. g[1 .. k] = f
      BY <1>1, <3>1, <3>5, <3>8, <3>9
    <3> QED
      BY <2>3, <3>5, <3>8, <3>10
  <2> QED
    BY <2>4, <2>5
<1>4. l \in 0 .. l
  OBVIOUS
<1> QED
  BY <1>1, <1>2, <1>3, <1>4

(* accum_tool has added up all parts, and the sum is the first file. *)
SumInv ==
  total # NoTotal =>
    /\ phase = "cut" /\ pc = "idle" /\ Len(files) = Len(jobs) + 1
    /\ Comparable => total.hist = files[1]

(* The sum of the parts is the histogram of the whole trace. *)
LEMMA AddsHistogram ==
  ASSUME OrderInv, CutInv, PartsInv, PairsInv, Accumulate, Comparable
  PROVE  total'.hist = files[1]
<1>1. OneSize /\ phase = "cut"
  BY AlignedIs DEF Comparable
<1>2. PICK t \in Nat : t = TraceWords
  <2>1. TraceWords = Upto(Len(out)) /\ Len(out) \in Nat
    BY <1>1, AllWords, InAccesses
  <2> QED
    BY <2>1, UptoIs
<1>3. PICK q \in Nat \ {0}, l \in Nat : q = cut.partition /\ l = Len(jobs)
  BY DEF CutInv, CutType
<1>4. Len(files) = l + 1
  BY <1>3 DEF Accumulate
<1>5. (l - 1) * q <= t /\ t < l * q
  <2>1. /\ cut.pBytes = Upto(cut.p) /\ cut.p >= Len(out)
        /\ (l - 1) * q <= cut.pBytes /\ cut.pBytes < l * q
    BY <1>1, <1>3, <1>4 DEF PartsInv
  <2>2. cut.p \in Nat
    BY DEF CutInv, CutType
  <2>3. Upto(cut.p) = t
    BY <1>1, <1>2, <2>1, <2>2, AllWords
  <2> QED
    BY <2>1, <2>3
<1>6. PICK fs, sq : fs = files /\ sq = Tail(fs)
  OBVIOUS
<1>7. /\ fs \in Seq(Histogram) /\ Len(fs) = l + 1 /\ (fs # <<>> => AtWords(fs[1], t))
      /\ \A m \in 1 .. Len(fs) - 1 : Stretch(fs[m + 1], (m - 1) * q, Smaller(t, m * q))
  BY <1>2, <1>3, <1>4, <1>6 DEF PairsInv
<1>8. fs # <<>>
  BY <1>7
<1>9. /\ sq \in Seq(Histogram) /\ Len(sq) = l /\ \A m \in 1 .. l : sq[m] = fs[m + 1]
  BY <1>6, <1>7, <1>8
<1>10. \A m \in 1 .. l : Stretch(sq[m], (m - 1) * q, Smaller(t, m * q))
  <2>1. Len(fs) - 1 = l
    BY <1>7
  <2> QED
    BY <1>7, <1>9, <2>1
<1>11. PICK h : h = FoldLeft(Plus, NoHistogram, sq)
  OBVIOUS
<1>12. AtWords(h, Smaller(t, l * q))
  BY ONLY <1>1, <1>5, <1>9, <1>10, <1>11, OrderInv, q \in Nat \ {0}, l \in Nat, t \in Nat, AddsRun
<1>13. Smaller(t, l * q) = t
  BY <1>5 DEF Smaller
<1>14. PICK f : f = fs[1]
  OBVIOUS
<1>15. AtWords(f, t) /\ AtWords(h, t)
  BY <1>7, <1>8, <1>12, <1>13, <1>14
<1>16. h = f
  BY ONLY OrderInv, <1>1, t \in Nat, <1>15, OneHistogram
<1>17. total' = [hist |-> h, refs |-> SumBins(h.dist) + h.cold]
  BY <1>6, <1>11 DEF Accumulate
<1> QED
  BY <1>6, <1>14, <1>16, <1>17

(* Nothing has been added up in the beginning. *)
LEMMA InitSum == Init => SumInv
BY DEF Init, SumInv

(* Every step of the pipeline keeps the sum. *)
LEMMA StepSum ==
  OrderInv /\ CutInv /\ PartsInv /\ QuietInv /\ PairsInv /\ SumInv /\ [Next]_vars => SumInv'
<1> SUFFICES ASSUME OrderInv, CutInv, PartsInv, QuietInv, PairsInv, SumInv, [Next]_vars PROVE SumInv'
  OBVIOUS
<1>1. ASSUME total' = NoTotal PROVE SumInv'
  BY <1>1 DEF SumInv
<1>2. Len(jobs) \in Nat
  BY DEF CutInv
<1>3. ASSUME UNCHANGED <<out, cut, jobs, phase>>, job'.kernel = job.kernel, job'.disjoint = job.disjoint
      PROVE  Comparable' <=> Comparable
  <2>1. TraceWords' = TraceWords
    BY <1>3, SameEarly
  <2>2. Regulars' = Regulars
    BY <1>3 DEF Regulars
  <2>3. Aligned' <=> Aligned
    BY <1>3, <2>2 DEF Aligned
  <2> QED
    BY <1>3, <2>1, <2>3 DEF Comparable
<1>4. CASE total' = total
  <2> SUFFICES ASSUME total # NoTotal PROVE SumInv'
    BY <1>1, <1>4
  <2>1. /\ phase = "cut" /\ pc = "idle" /\ Len(files) = Len(jobs) + 1
        /\ Comparable => total.hist = files[1]
    BY DEF SumInv
  <2>2. ~ (ToolNext /\ UNCHANGED <<stackVars, pipeVars>>)
    BY <2>1 DEF ToolNext, MergeOne, CopyOwn, AddInvalidation, SkipRead, Round, Save, StartCut,
                CutStep, EndCut
  <2>3. \A k \in Kernels, d \in BOOLEAN : ~ StartWhole(k, d)
    <3> SUFFICES ASSUME files = <<>> PROVE FALSE
      BY DEF StartWhole
    <3>1. Len(files) = 0
      OBVIOUS
    <3> QED
      BY <1>2, <2>1, <3>1
  <2>4. ~ StartPart
    BY <1>2, <2>1 DEF StartPart
  <2>5. ~ (StackStep /\ UNCHANGED <<toolVars, pipeVars>>)
    BY <2>1 DEF StackStep, Fetch, Finish, Walk, PassOver, TakeSome, TakeLast, ColdMiss,
                Probe, ProbeSome, ProbeLast, ProbeEnd, NextEntry
  <2>6. ~ WriteHistogram
    BY <2>1 DEF WriteHistogram
  <2>7. ~ Accumulate
    BY DEF Accumulate
  <2>8. UNCHANGED vars
    BY <2>2, <2>3, <2>4, <2>5, <2>6, <2>7 DEF Next
  <2>9. UNCHANGED <<out, cut, jobs, phase, files, job, pc>>
    BY <2>8 DEF vars, toolVars, stackVars, pipeVars
  <2> QED
    BY <1>3, <1>4, <2>1, <2>9 DEF SumInv
<1>5. CASE Accumulate
  <2>1. /\ UNCHANGED <<out, cut, jobs, phase, files, job, pc>>
        /\ phase = "cut" /\ pc = "idle" /\ Len(files) = Len(jobs) + 1
    BY <1>5 DEF Accumulate, toolVars, stackVars
  <2>2. Comparable => total'.hist = files[1]
    BY <1>5, AddsHistogram
  <2> QED
    BY <1>3, <2>1, <2>2 DEF SumInv
<1> QED
  BY <1>4, <1>5
     DEF Next, ToolNext, StartWhole, StartPart, WriteHistogram, vars, toolVars, stackVars, pipeVars

(* What is said of the run over the whole trace. *)
Followed == WarmInv /\ WholeInv /\ CourseInv /\ MissInv /\ PairsInv /\ KernelInv /\ SumInv

(* All that holds. *)
LEMMA FollowingHolds == Spec => []Followed
<1>1. Init => Followed
  BY InitWarm, InitWhole, InitCourse, InitMiss, InitPairs, InitKernel, InitSum DEF Followed
<1>2. Analysed /\ Covered /\ Covered' /\ Followed /\ [Next]_vars => Followed'
  <2> SUFFICES ASSUME Analysed, Covered, Covered', Followed, [Next]_vars PROVE Followed'
    OBVIOUS
  <2>1. /\ OrderInv /\ CutInv /\ JobInv /\ StackInv /\ BlindInv /\ OriginInv /\ CountInv
        /\ PartsInv /\ QuietInv /\ RunInv /\ RunInv' /\ HalfInv
        /\ WarmInv /\ WholeInv /\ CourseInv /\ MissInv /\ PairsInv /\ KernelInv /\ SumInv
    BY DEF Analysed, Covered, Followed
  <2> QED
    BY <2>1, StepWarm, StepWhole, StepCourse, StepMiss, StepPairs, StepKernel, StepSum DEF Followed
<1>3. Spec => []Analysed
  BY CountingHolds DEF Analysed
<1> QED
  BY <1>1, <1>2, <1>3, CoveringHolds, PTL DEF Spec

(* With a warm-up that reaches back to the beginning of the trace and without bloom filter,
   the parallel strategy loses nothing: if all accesses are of one size that divides the
   partitions, and no warm-up begins where the part before ends, the histogram that
   accum_tool adds up from the files of the parts is that of the call of krd_tool for the
   whole trace, bin by bin and miss by miss, as long as the words can be counted in 4 bytes. *)
THEOREM PartsGiveTheWhole == Spec => []PartsEqualWhole
<1>1. Analysed /\ Covered /\ Followed => PartsEqualWhole
  <2> SUFFICES ASSUME Analysed, Covered, Followed, total # NoTotal, Aligned, TraceWords < CountMod,
                      ~ job.disjoint, cut.warmup >= TraceWords
               PROVE  total.hist = files[1]
    BY DEF PartsEqualWhole
  <2>1. OrderInv /\ CutInv /\ PartsInv /\ KernelInv /\ SumInv
    BY DEF Analysed, Covered, Followed
  <2>2. /\ phase = "cut" /\ Len(files) = Len(jobs) + 1
        /\ Comparable => total.hist = files[1]
    BY <2>1 DEF SumInv
  <2>3. Len(jobs) \in Nat /\ Len(jobs) > 0
    BY <2>1, <2>2, AlignedIs DEF PartsInv, CutInv
  <2>4. Len(files) > 1
    BY <2>2, <2>3
  <2>5. files # <<>>
    BY <2>4
  <2>6. job.kernel = AllKernels
    BY <2>1, <2>4, <2>5 DEF KernelInv
  <2> QED
    BY <2>2, <2>6 DEF Comparable
<1>2. Spec => []Analysed
  BY CountingHolds DEF Analysed
<1> QED
  BY <1>1, <1>2, CoveringHolds, FollowingHolds, PTL

=============================================================================
