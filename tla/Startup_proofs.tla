--------------------------- MODULE Startup_proofs ---------------------------
(***************************************************************************)
(* Proofs about the layout tables and the start-up: both tables describe    *)
(* the same places, a default layout is symmetric, a file is obeyed, workers *)
(* have cores of their own and pushed tasks reach a worker that has stayed.  *)
(* For any number of cores, any layout files, masks, bases, command lines    *)
(* and sessions.                                                             *)
(*                                                                           *)
(* The first half says what the operators that build the tables return       *)
(* (DefaultLayoutIs, DefaultPartitionsAre, DefaultPlaces).  The inductive    *)
(* invariant then says what is in the tables in each phase (DefaultInv,      *)
(* FileInv), where the cores come from (ReadyInv, CoresInv), and that a      *)
(* session keeps what it has been started with (SessionInv, QueueInv).       *)
(***************************************************************************)
EXTENDS Startup, TLAPS, FiniteSetTheorems, SequenceTheorems, WellFoundedInduction

-----------------------------------------------------------------------------
(* Numbers and sequences. *)

(* A set of numbers has a least one. *)
LEMMA Least ==
  ASSUME NEW S, S \subseteq Nat, S # {}
  PROVE  \E m \in S : \A k \in S : m <= k
<1>1. PICK R : IsWellFoundedOn(R, Nat) /\ \A x, y \in Nat : x < y => <<x, y>> \in R
  BY NatLessThanWellFounded DEF OpToRel
<1>2. PICK x \in S : \A y \in S : ~ (<<y, x>> \in R)
  <2>1. IsWellFoundedOn(R, Nat)
    BY <1>1
  <2> QED
    BY ONLY <2>1, S \subseteq Nat, S # {}, WFMin
<1>3. \A y \in S : y \in Nat /\ x \in Nat /\ ~ (y < x)
  BY <1>1, <1>2
<1> QED
  BY <1>3

(* Sets with a bijection between them are equally large. *)
LEMMA SameSize ==
  ASSUME NEW S, NEW T, IsFiniteSet(S), NEW f \in [S -> T],
         \A x, y \in S : f[x] = f[y] => x = y,
         \A z \in T : \E x \in S : f[x] = z
  PROVE  IsFiniteSet(T) /\ Cardinality(T) = Cardinality(S)
<1>1. f \in Injection(S, T) /\ f \in Surjection(S, T)
  BY DEF Injection, IsInjective, Surjection
<1>2. f \in Bijection(S, T)
  BY <1>1 DEF Bijection
<1>3. ExistsBijection(S, T)
  BY <1>2 DEF ExistsBijection
<1> QED
  BY <1>3, FS_Bijection

(* Ascending lists each number once. *)
LEMMA AscendingLists ==
  ASSUME NEW S, S \subseteq Int, IsFiniteSet(S)
  PROVE  /\ Cardinality(S) \in Nat
         /\ Ascending(S) \in [1 .. Cardinality(S) -> S]
         /\ \A a, b \in 1 .. Cardinality(S) : Ascending(S)[a] = Ascending(S)[b] => a = b
         /\ \A x \in S : \E a \in 1 .. Cardinality(S) : Ascending(S)[a] = x
<1> DEFINE Below(x) == {y \in S : y <= x}
           rank == [x \in S |-> Cardinality(Below(x))]
<1>0. PICK n \in Nat : n = Cardinality(S)
  BY FS_CardinalityType
<1>1. ASSUME NEW x \in S PROVE /\ IsFiniteSet(Below(x)) /\ Cardinality(Below(x)) \in 1 .. n
  <2>1. IsFiniteSet(Below(x)) /\ Cardinality(Below(x)) <= n
    BY <1>0, FS_Subset
  <2>2. Cardinality(Below(x)) \in Nat /\ Cardinality(Below(x)) # 0
    <3>1. x \in Below(x)
      OBVIOUS
    <3> HIDE DEF Below
    <3> QED
      BY <2>1, <3>1, FS_CardinalityType, FS_EmptySet
  <2> QED
    BY <2>1, <2>2
<1>2. ASSUME NEW x \in S, NEW y \in S, x < y
      PROVE  Cardinality(Below(x)) # Cardinality(Below(y))
  <2>1. Below(x) \in SUBSET Below(y) /\ y \in Below(y) /\ y \notin Below(x)
    <3>1. \A z \in S : z \in Int
      OBVIOUS
    <3>2. \A a, b, c \in Int : b < c => ~ (c <= b) /\ c <= c /\ (a <= b => a <= c)
      OBVIOUS
    <3> QED
      BY <1>2, <3>1, <3>2
  <2> HIDE DEF Below
  <2> QED
    BY <1>1, <2>1, FS_Subset
<1>3. rank \in [S -> 1 .. n] /\ \A x, y \in S : rank[x] = rank[y] => x = y
  <2>1. \A x, y \in S : x < y \/ y < x \/ x = y
    OBVIOUS
  <2> HIDE DEF Below
  <2>2. rank \in [S -> 1 .. n]
    BY <1>1
  <2>3. \A x, y \in S : rank[x] = rank[y] => x = y
    BY <1>2, <2>1
  <2> QED
    BY <2>2, <2>3
<1>4. \A k \in 1 .. n : \E x \in S : rank[x] = k
  <2> HIDE DEF rank
  <2>1. rank \in Injection(S, 1 .. n)
    BY <1>3 DEF Injection, IsInjective
  <2>2. IsFiniteSet(1 .. n) /\ Cardinality(1 .. n) = n
    BY FS_Interval
  <2>3. rank \in Surjection(S, 1 .. n)
    BY <1>0, <2>1, <2>2, FS_Injection
  <2> QED
    BY <2>3 DEF Surjection
<1>5. Ascending(S) = [k \in 1 .. n |-> CHOOSE x \in S : rank[x] = k]
  BY <1>0 DEF Ascending
<1> HIDE DEF rank
<1>6. \A k \in 1 .. n : Ascending(S)[k] \in S /\ rank[Ascending(S)[k]] = k
  BY <1>4, <1>5
<1>7. Ascending(S) \in [1 .. n -> S]
  BY <1>5, <1>6
<1>8. ASSUME NEW x \in S PROVE \E a \in 1 .. n : Ascending(S)[a] = x
  BY <1>3, <1>6
<1> QED
  BY <1>0, <1>6, <1>7, <1>8

(* Positions of a sequence. *)
LEMMA Positions ==
  ASSUME NEW V, NEW s \in Seq(V), NEW K \in SUBSET DOMAIN s
  PROVE  IsFiniteSet(K) /\ Cardinality(K) \in Nat /\ K \subseteq Int
<1>1. DOMAIN s = 1 .. Len(s) /\ Len(s) \in Nat
  OBVIOUS
<1>2. IsFiniteSet(1 .. Len(s))
  BY <1>1, FS_Interval
<1>3. IsFiniteSet(K)
  BY <1>1, <1>2, FS_Subset
<1> QED
  BY <1>1, <1>3, FS_CardinalityType

(* those of the positions K where s has something in P *)
Hits(s, K, P) == {k \in K : s[k] \in P}

(* What is taken from a sequence. *)
LEMMA EntriesTaken ==
  ASSUME NEW V, NEW s \in Seq(V), NEW K \in SUBSET DOMAIN s
  PROVE  /\ Entries(s, K) \in Seq(V) /\ DOMAIN Entries(s, K) = 1 .. Cardinality(K)
         /\ ToSet(Entries(s, K)) = {s[k] : k \in K}
         /\ \A P \in SUBSET V :
              Cardinality(Hits(Entries(s, K), DOMAIN Entries(s, K), P)) = Cardinality(Hits(s, K, P))
<1>1. IsFiniteSet(K) /\ K \subseteq Int
  BY Positions
<1>a. PICK n \in Nat : n = Cardinality(K)
  BY Positions
<1>2. PICK f \in [1 .. n -> K] :
        /\ f = Ascending(K)
        /\ \A a, b \in 1 .. n : f[a] = f[b] => a = b
        /\ \A k \in K : \E a \in 1 .. n : f[a] = k
  BY <1>1, <1>a, AscendingLists
<1>3. PICK t : t = Entries(s, K)
  OBVIOUS
<1>4. t = [a \in 1 .. n |-> s[f[a]]]
  BY <1>2, <1>3, <1>a DEF Entries
<1>5. \A k \in K : s[k] \in V
  OBVIOUS
<1>6. t \in Seq(V) /\ DOMAIN t = 1 .. n /\ \A a \in 1 .. n : t[a] = s[f[a]] /\ f[a] \in K
  <2>1. \A a \in 1 .. n : f[a] \in K
    OBVIOUS
  <2>2. t \in [1 .. n -> V]
    BY <1>4, <1>5, <2>1
  <2>3. t \in Seq(V)
    BY <2>2
  <2> QED
    BY <1>4, <2>1, <2>3
<1>7. ToSet(t) = {s[k] : k \in K}
  <2>1. ToSet(t) = {t[a] : a \in 1 .. n}
    BY <1>6 DEF ToSet
  <2>2. ASSUME NEW a \in 1 .. n PROVE t[a] \in {s[k] : k \in K}
    BY <1>6
  <2>3. ASSUME NEW k \in K PROVE s[k] \in {t[a] : a \in 1 .. n}
    <3>1. PICK a \in 1 .. n : f[a] = k
      BY <1>2
    <3>2. t[a] = s[k]
      BY <1>6, <3>1
    <3> QED
      BY <3>2
  <2> QED
    BY <2>1, <2>2, <2>3
<1>8. ASSUME NEW P \in SUBSET V
      PROVE  Cardinality(Hits(t, DOMAIN t, P)) = Cardinality(Hits(s, K, P))
  <2> DEFINE A == {a \in DOMAIN t : t[a] \in P}
             B == {k \in K : s[k] \in P}
             g == [a \in A |-> f[a]]
  <2>1. A \subseteq 1 .. n /\ \A a \in A : f[a] \in B
    BY <1>6
  <2>2. g \in [A -> B]
    BY <2>1
  <2>3. \A a, b \in A : g[a] = g[b] => a = b
    BY <1>2, <2>1
  <2>4. \A k \in B : \E a \in A : g[a] = k
    <3> SUFFICES ASSUME NEW k \in B PROVE \E a \in A : g[a] = k
      OBVIOUS
    <3>1. PICK a \in 1 .. n : f[a] = k
      BY <1>2
    <3>2. a \in A
      BY <1>6, <3>1
    <3> QED
      BY <3>1, <3>2
  <2>5. IsFiniteSet(A)
    BY <1>6, <2>1, FS_Interval, FS_Subset
  <2> HIDE DEF A, B, g
  <2>6. Cardinality(A) = Cardinality(B)
    BY <2>2, <2>3, <2>4, <2>5, SameSize
  <2> QED
    BY <2>6 DEF A, B, Hits
<1> QED
  BY <1>a, <1>3, <1>6, <1>7, <1>8

(* as many hits among them as at the positions they are taken from *)
LEMMA HitsTaken ==
  ASSUME NEW V, NEW s \in Seq(V), NEW K \in SUBSET DOMAIN s, NEW P \in SUBSET V
  PROVE  Cardinality(Hits(Entries(s, K), DOMAIN Entries(s, K), P)) = Cardinality(Hits(s, K, P))
BY EntriesTaken

(* Occurrences and elements in a concatenation. *)
LEMMA Concatenated ==
  ASSUME NEW V, NEW s \in Seq(V), NEW t \in Seq(V)
  PROVE  /\ s \o t \in Seq(V) /\ ToSet(s \o t) = ToSet(s) \union ToSet(t)
         /\ \A e : Occurrences(s \o t, e) = Occurrences(s, e) + Occurrences(t, e)
<1>1. PICK m \in Nat, n \in Nat : m = Len(s) /\ n = Len(t)
  OBVIOUS
<1>2. PICK u : u = s \o t
  OBVIOUS
<1>3. /\ DOMAIN s = 1 .. m /\ DOMAIN t = 1 .. n /\ DOMAIN u = 1 .. m + n
      /\ u \in Seq(V)
      /\ \A k \in 1 .. m + n : u[k] = IF k <= m THEN s[k] ELSE t[k - m]
  BY <1>1, <1>2, ConcatProperties
<1>4. /\ \A k \in 1 .. m : k \in 1 .. m + n /\ u[k] = s[k]
      /\ \A k \in 1 .. n : m + k \in 1 .. m + n /\ u[m + k] = t[k]
      /\ \A k \in 1 .. m + n : k \in 1 .. m \/ (k - m \in 1 .. n /\ k = m + (k - m))
  <2>1. \A k \in 1 .. n : m + k \in 1 .. m + n /\ ~ (m + k <= m) /\ (m + k) - m = k
    OBVIOUS
  <2>2. \A k \in 1 .. m : k \in 1 .. m + n /\ k <= m
    OBVIOUS
  <2>3. \A k \in 1 .. m + n : k \in 1 .. m \/ (k - m \in 1 .. n /\ k = m + (k - m))
    OBVIOUS
  <2> QED
    BY <1>3, <2>1, <2>2, <2>3
<1>5. ToSet(u) = ToSet(s) \union ToSet(t)
  <2>1. /\ ToSet(u) = {u[k] : k \in 1 .. m + n} /\ ToSet(s) = {s[k] : k \in 1 .. m}
        /\ ToSet(t) = {t[k] : k \in 1 .. n}
    BY <1>3 DEF ToSet
  <2>2. ASSUME NEW k \in 1 .. m + n PROVE u[k] \in ToSet(s) \union ToSet(t)
    <3>1. CASE k \in 1 .. m
      BY <1>4, <2>1, <3>1
    <3>2. CASE ~ (k \in 1 .. m)
      <4>1. PICK l \in 1 .. n : k = m + l
        BY <1>4, <3>2
      <4>2. u[k] = t[l]
        BY <1>4, <4>1
      <4> QED
        BY <2>1, <4>2
    <3> QED
      BY <3>1, <3>2
  <2>3. ASSUME NEW k \in 1 .. m PROVE s[k] \in ToSet(u)
    BY <1>4, <2>1
  <2>4. ASSUME NEW k \in 1 .. n PROVE t[k] \in ToSet(u)
    BY <1>4, <2>1
  <2> QED
    BY <2>1, <2>2, <2>3, <2>4
<1>6. ASSUME NEW e PROVE Occurrences(u, e) = Occurrences(s, e) + Occurrences(t, e)
  <2> DEFINE A == {k \in 1 .. m : s[k] = e}
             B == {k \in 1 .. n : t[k] = e}
             C == {k \in 1 .. m + n : u[k] = e}
             D == {k \in C : ~ (k <= m)}
             g == [k \in B |-> m + k]
  <2>1. IsFiniteSet(A) /\ IsFiniteSet(B)
    <3>1. A \in SUBSET (1 .. m) /\ B \in SUBSET (1 .. n)
      OBVIOUS
    <3>2. IsFiniteSet(1 .. m) /\ IsFiniteSet(1 .. n)
      BY FS_Interval
    <3> HIDE DEF A, B
    <3> QED
      BY <3>1, <3>2, FS_Subset
  <2>2. g \in [B -> D]
    BY <1>4
  <2>3. \A k, l \in B : g[k] = g[l] => k = l
    OBVIOUS
  <2>4. \A k \in D : \E l \in B : g[l] = k
    <3> SUFFICES ASSUME NEW k \in D PROVE k - m \in B /\ g[k - m] = k
      OBVIOUS
    <3>1. k \in 1 .. m + n /\ u[k] = e /\ k - m \in 1 .. n /\ k = m + (k - m)
      BY <1>4
    <3>2. t[k - m] = e
      BY <1>4, <3>1
    <3> QED
      BY <3>1, <3>2
  <2>5. C = A \union D
    BY <1>4
  <2>6. A \cap D = {}
    OBVIOUS
  <2>7. Occurrences(s, e) = Cardinality(A) /\ Occurrences(t, e) = Cardinality(B)
        /\ Occurrences(u, e) = Cardinality(C)
    BY <1>3 DEF Occurrences
  <2> HIDE DEF A, B, C, D, g
  <2>8. IsFiniteSet(D) /\ Cardinality(D) = Cardinality(B)
    BY <2>1, <2>2, <2>3, <2>4, SameSize
  <2>9. Cardinality(C) = Cardinality(A) + Cardinality(D) - Cardinality({})
    BY <2>1, <2>5, <2>6, <2>8, FS_Union
  <2>10. Cardinality({}) = 0 /\ Cardinality(A) \in Nat /\ Cardinality(B) \in Nat
    BY <2>1, FS_EmptySet, FS_CardinalityType
  <2> QED
    BY <2>7, <2>8, <2>9, <2>10
<1> QED
  BY <1>2, <1>3, <1>5, <1>6

(* The places around i that l leads. *)
LEMMA CoveringIs ==
  ASSUME NEW ws \in Seq(Int), NEW l \in Int, NEW i \in Int
  PROVE  /\ Covering(l, ws, i) \in Seq(Int \X Int)
         /\ ToSet(Covering(l, ws, i)) = {<<l, w>> : w \in {v \in ToSet(ws) : l <= i /\ i < l + v}}
         /\ \A p, w \in Int : Occurrences(Covering(l, ws, i), <<p, w>>)
              = IF p = l /\ l <= i /\ i < l + w THEN Occurrences(ws, w) ELSE 0
<1> DEFINE around == {k \in DOMAIN ws : l <= i /\ i < l + ws[k]}
<1>1. PICK t : t = Entries(ws, around)
  OBVIOUS
<1>2. /\ t \in Seq(Int) /\ ToSet(t) = {ws[k] : k \in around}
      /\ \A P \in SUBSET Int : Cardinality(Hits(t, DOMAIN t, P)) = Cardinality(Hits(ws, around, P))
  <2>1. PICK K \in SUBSET DOMAIN ws : K = around
    OBVIOUS
  <2>2. t = Entries(ws, K)
    BY <1>1, <2>1
  <2>3. t \in Seq(Int) /\ ToSet(t) = {ws[k] : k \in K}
    BY <2>2, EntriesTaken
  <2>4. ASSUME NEW P \in SUBSET Int
        PROVE  Cardinality(Hits(Entries(ws, K), DOMAIN Entries(ws, K), P)) = Cardinality(Hits(ws, K, P))
    BY ONLY HitsTaken, ws \in Seq(Int), K \in SUBSET DOMAIN ws, P \in SUBSET Int
  <2> QED
    BY <2>1, <2>2, <2>3, <2>4
<1>3. PICK c : c = Covering(l, ws, i)
  OBVIOUS
<1>4. c = [a \in DOMAIN t |-> <<l, t[a]>>]
  BY <1>1, <1>3 DEF Covering
<1>5. c \in Seq(Int \X Int)
  <2>1. PICK n \in Nat : DOMAIN t = 1 .. n
    BY <1>2
  <2>2. \A a \in 1 .. n : t[a] \in Int
    BY <1>2, <2>1
  <2>3. c \in [1 .. n -> Int \X Int]
    BY <1>4, <2>1, <2>2
  <2> QED
    BY <2>3
<1>6. ToSet(c) = {<<l, w>> : w \in {v \in ToSet(ws) : l <= i /\ i < l + v}}
  <2>1. ToSet(c) = {<<l, t[a]>> : a \in DOMAIN t}
    BY <1>4 DEF ToSet
  <2>2. ToSet(c) = {<<l, w>> : w \in ToSet(t)}
    BY <2>1 DEF ToSet
  <2>3. ToSet(t) = {v \in ToSet(ws) : l <= i /\ i < l + v}
    BY <1>2 DEF ToSet
  <2> QED
    BY <2>2, <2>3
<1>7. ASSUME NEW p \in Int, NEW w \in Int
      PROVE  Occurrences(c, <<p, w>>) = IF p = l /\ l <= i /\ i < l + w THEN Occurrences(ws, w) ELSE 0
  <2>1. DOMAIN c = DOMAIN t /\ \A a \in DOMAIN t : c[a] = <<l, t[a]>>
    BY <1>4
  <2>2. CASE p = l
    <3>1. {a \in DOMAIN c : c[a] = <<p, w>>} = Hits(t, DOMAIN t, {w})
      BY <2>1, <2>2 DEF Hits
    <3>2. Occurrences(c, <<p, w>>) = Cardinality(Hits(ws, around, {w}))
      BY <1>2, <3>1 DEF Occurrences
    <3>3. CASE l <= i /\ i < l + w
      <4>1. Hits(ws, around, {w}) = {k \in DOMAIN ws : ws[k] = w}
        BY <3>3 DEF Hits
      <4> QED
        BY <2>2, <3>2, <3>3, <4>1 DEF Occurrences
    <3>4. CASE ~ (l <= i /\ i < l + w)
      <4>1. Hits(ws, around, {w}) = {}
        BY <3>4 DEF Hits
      <4> QED
        BY <3>2, <3>4, <4>1, FS_EmptySet
    <3> QED
      BY <3>3, <3>4
  <2>3. CASE p # l
    <3>1. {a \in DOMAIN c : c[a] = <<p, w>>} = {}
      BY <2>1, <2>3
    <3> QED
      BY <2>3, <3>1, FS_EmptySet DEF Occurrences
  <2> QED
    BY <2>2, <2>3
<1> QED
  BY <1>3, <1>5, <1>6, <1>7

(* the sequences of cs one after the other, up to the i-th *)
Joined(cs, n, f) ==
  f = [i \in 1 .. n |-> IF i = 1 THEN cs[i] ELSE f[i - 1] \o cs[i]]

LEMMA JoinedExists ==
  ASSUME NEW V, NEW n \in Nat \ {0}, NEW cs \in [1 .. n -> Seq(V)]
  PROVE  \E f : Joined(cs, n, f)
<1> DEFINE Built(m) == \E f : Joined(cs, m, f)
           S == {m \in 1 .. n : ~ Built(m)}
<1>1. SUFFICES ASSUME S # {} PROVE FALSE
  <2>1. n \in 1 .. n
    OBVIOUS
  <2> HIDE DEF Built
  <2>2. Built(n)
    BY <2>1
  <2> QED
    BY <2>2 DEF Built
<1>2. PICK m \in S : \A k \in S : m <= k
  <2>1. S \subseteq Nat
    OBVIOUS
  <2> HIDE DEF S
  <2> QED
    BY <1>1, <2>1, Least
<1>3. CASE m = 1
  <2>1. PICK f : f = [i \in 1 .. 1 |-> cs[i]]
    OBVIOUS
  <2>2. \A i \in 1 .. 1 : i = 1
    OBVIOUS
  <2>3. Joined(cs, 1, f)
    BY <2>1, <2>2 DEF Joined
  <2> QED
    BY <1>2, <1>3, <2>3
<1>4. CASE m # 1
  <2>1. m - 1 \in 1 .. n /\ m \in 1 .. n /\ ~ (m <= m - 1)
    BY <1>4
  <2>2. m - 1 \notin S
    BY <1>2, <2>1
  <2>3. PICK f : Joined(cs, m - 1, f)
    BY <2>1, <2>2
  <2>4. PICK g : g = [i \in 1 .. m |-> IF i = m THEN f[m - 1] \o cs[m] ELSE f[i]]
    OBVIOUS
  <2>5. /\ f = [i \in 1 .. m - 1 |-> IF i = 1 THEN cs[i] ELSE f[i - 1] \o cs[i]]
        /\ \A i \in 1 .. m - 1 : f[i] = IF i = 1 THEN cs[i] ELSE f[i - 1] \o cs[i]
    BY <2>3 DEF Joined
  <2>6. \A i \in 1 .. m : i = m \/ (i \in 1 .. m - 1 /\ i # m)
    BY <2>1
  <2>7. \A i \in 1 .. m : i = 1 \/ (i - 1 \in 1 .. m /\ i - 1 # m)
    BY <2>1
  <2>8. ASSUME NEW i \in 1 .. m
        PROVE  g[i] = IF i = 1 THEN cs[i] ELSE g[i - 1] \o cs[i]
    <3>1. CASE i = m
      <4>1. g[m] = f[m - 1] \o cs[m] /\ g[m - 1] = f[m - 1] /\ m # 1
        BY <1>4, <2>1, <2>4, <2>7
      <4> QED
        BY <3>1, <4>1
    <3>2. CASE i # m
      <4>1. g[i] = f[i] /\ i \in 1 .. m - 1
        BY <2>4, <2>6, <3>2
      <4>2. i # 1 => g[i - 1] = f[i - 1]
        BY <2>4, <2>7
      <4> QED
        BY <2>5, <4>1, <4>2
    <3> QED
      BY <3>1, <3>2
  <2>9. Joined(cs, m, g)
    BY <2>4, <2>8 DEF Joined
  <2> QED
    BY <1>2, <2>9
<1> QED
  BY <1>2, <1>3, <1>4

LEMMA Flattening ==
  ASSUME NEW V, NEW n \in Nat \ {0}, NEW cs \in [1 .. n -> Seq(V)]
  PROVE  \E f : Joined(cs, n, f) /\ FlattenSeq(cs) = f[n]
<1>1. Len(cs) = n /\ n # 0
  OBVIOUS
<1>2. \E f : f = [i \in 1 .. n |-> IF i = 1 THEN cs[i] ELSE f[i - 1] \o cs[i]]
  <2>1. \E f : Joined(cs, n, f)
    BY JoinedExists
  <2> QED
    BY <2>1 DEF Joined
<1>3. PICK f : f = CHOOSE g : g = [i \in 1 .. n |-> IF i = 1 THEN cs[i] ELSE g[i - 1] \o cs[i]]
  OBVIOUS
<1>4. Joined(cs, n, f)
  BY <1>2, <1>3 DEF Joined
<1>5. FlattenSeq(cs) = f[n]
  BY <1>1, <1>3 DEF FlattenSeq
<1> QED
  BY <1>4, <1>5

(* What is in the concatenation of several sequences. *)
LEMMA Flattened ==
  ASSUME NEW V, NEW n \in Nat \ {0}, NEW cs \in [1 .. n -> Seq(V)]
  PROVE  /\ FlattenSeq(cs) \in Seq(V)
         /\ ToSet(FlattenSeq(cs)) = UNION {ToSet(cs[l]) : l \in 1 .. n}
<1>1. PICK f : Joined(cs, n, f) /\ FlattenSeq(cs) = f[n]
  BY Flattening
<1>2. \A i \in 1 .. n : f[i] = IF i = 1 THEN cs[i] ELSE f[i - 1] \o cs[i]
  BY <1>1 DEF Joined
<1> DEFINE Good(i) == f[i] \in Seq(V) /\ ToSet(f[i]) = UNION {ToSet(cs[l]) : l \in 1 .. i}
           S == {i \in 1 .. n : ~ Good(i)}
<1>3. SUFFICES ASSUME S # {} PROVE FALSE
  <2>1. n \in 1 .. n
    OBVIOUS
  <2> QED
    BY <1>1, <2>1
<1>4. PICK i \in S : \A k \in S : i <= k
  <2>1. S \subseteq Nat
    OBVIOUS
  <2> HIDE DEF S
  <2> QED
    BY <1>3, <2>1, Least
<1>5. CASE i = 1
  <2>1. f[1] = cs[1] /\ cs[1] \in Seq(V)
    BY <1>2
  <2>2. \A l : l \in 1 .. 1 <=> l = 1
    OBVIOUS
  <2>3. UNION {ToSet(cs[l]) : l \in 1 .. 1} = ToSet(cs[1])
    BY <2>2
  <2> QED
    BY <1>4, <1>5, <2>1, <2>3
<1>6. CASE i # 1
  <2>1. i - 1 \in 1 .. n /\ i \in 1 .. n /\ ~ (i <= i - 1)
    BY <1>6
  <2>2. Good(i - 1)
    BY <1>4, <2>1
  <2>3. f[i] = f[i - 1] \o cs[i] /\ cs[i] \in Seq(V)
    BY <1>2, <1>6, <2>1
  <2>4. f[i] \in Seq(V) /\ ToSet(f[i]) = ToSet(f[i - 1]) \union ToSet(cs[i])
    BY <2>2, <2>3, Concatenated
  <2>5. \A l : l \in 1 .. i <=> l \in 1 .. i - 1 \/ l = i
    BY <2>1
  <2>6. UNION {ToSet(cs[l]) : l \in 1 .. i} = (UNION {ToSet(cs[l]) : l \in 1 .. i - 1}) \union ToSet(cs[i])
    BY <2>5
  <2> QED
    BY <1>4, <2>2, <2>4, <2>6
<1> QED
  BY <1>5, <1>6

(* none of the sequences but possibly the j-th has an e *)
OnlyIn(cs, n, e, j) == \A l \in 1 .. n : l # j => Occurrences(cs[l], e) = 0

(* What only one of several sequences has, their concatenation has as often. *)
LEMMA FlattenedOnce ==
  ASSUME NEW V, NEW n \in Nat \ {0}, NEW cs \in [1 .. n -> Seq(V)], NEW e, NEW j \in Nat,
         OnlyIn(cs, n, e, j)
  PROVE  Occurrences(FlattenSeq(cs), e) = IF j \in 1 .. n THEN Occurrences(cs[j], e) ELSE 0
<1>1. PICK f : Joined(cs, n, f) /\ FlattenSeq(cs) = f[n]
  BY Flattening
<1>2. \A i \in 1 .. n : f[i] = IF i = 1 THEN cs[i] ELSE f[i - 1] \o cs[i]
  BY <1>1 DEF Joined
<1> DEFINE Good(i) == /\ f[i] \in Seq(V)
                      /\ Occurrences(f[i], e) = IF j \in 1 .. i THEN Occurrences(cs[j], e) ELSE 0
           S == {i \in 1 .. n : ~ Good(i)}
<1>3. SUFFICES ASSUME S # {} PROVE FALSE
  <2>1. n \in 1 .. n
    OBVIOUS
  <2> QED
    BY <1>1, <2>1
<1>4. PICK i \in S : \A k \in S : i <= k
  <2>1. S \subseteq Nat
    OBVIOUS
  <2> HIDE DEF S
  <2> QED
    BY <1>3, <2>1, Least
<1>c. \A l \in 1 .. n : Occurrences(cs[l], e) \in Nat
  <2> SUFFICES ASSUME NEW l \in 1 .. n PROVE Occurrences(cs[l], e) \in Nat
    OBVIOUS
  <2>1. cs[l] \in Seq(V) /\ {k \in DOMAIN cs[l] : cs[l][k] = e} \in SUBSET DOMAIN cs[l]
    OBVIOUS
  <2> QED
    BY <2>1, Positions DEF Occurrences
<1>5. CASE i = 1
  <2>1. f[1] = cs[1] /\ cs[1] \in Seq(V) /\ 1 \in 1 .. n
    BY <1>2
  <2>2. j \in 1 .. 1 <=> j = 1
    OBVIOUS
  <2>3. Occurrences(f[1], e) = IF j \in 1 .. 1 THEN Occurrences(cs[j], e) ELSE 0
    BY <2>1, <2>2 DEF OnlyIn
  <2> QED
    BY <1>4, <1>5, <2>1, <2>3
<1>6. CASE i # 1
  <2>1. i - 1 \in 1 .. n /\ i \in 1 .. n /\ ~ (i <= i - 1)
    BY <1>6
  <2>2. Good(i - 1)
    BY <1>4, <2>1
  <2>3. f[i] = f[i - 1] \o cs[i] /\ cs[i] \in Seq(V)
    BY <1>2, <1>6, <2>1
  <2>4. f[i] \in Seq(V) /\ Occurrences(f[i], e) = Occurrences(f[i - 1], e) + Occurrences(cs[i], e)
    BY <2>2, <2>3, Concatenated
  <2>5. j \in 1 .. i <=> j \in 1 .. i - 1 \/ j = i
    BY <2>1
  <2>6. j = i => ~ (j \in 1 .. i - 1)
    BY <2>1
  <2>7. CASE j = i
    <3>1. Occurrences(f[i - 1], e) = 0
      BY <2>2, <2>6, <2>7
    <3> QED
      BY <1>4, <1>c, <2>1, <2>4, <2>5, <2>7, <3>1
  <2>8. CASE j # i
    <3>1. Occurrences(cs[i], e) = 0
      BY <2>1, <2>8 DEF OnlyIn
    <3>2. Occurrences(f[i - 1], e) = IF j \in 1 .. i THEN Occurrences(cs[j], e) ELSE 0
      BY <2>2, <2>5, <2>8
    <3>3. Occurrences(f[i - 1], e) \in Nat
      <4>1. j \in 1 .. i => j \in 1 .. n
        BY <2>1
      <4> QED
        BY <1>c, <3>2, <4>1
    <3>4. Occurrences(f[i], e) = Occurrences(f[i - 1], e)
      BY <2>4, <3>1, <3>3
    <3> QED
      BY <1>4, <2>4, <3>2, <3>4
  <2> QED
    BY <2>7, <2>8
<1> QED
  BY <1>5, <1>6

-----------------------------------------------------------------------------
(* The default layout. *)

LEMMA Factors ==
  ASSUME NEW a \in Nat \ {0}, NEW b \in Nat \ {0}, NEW n \in Nat, n = a * b
  PROVE  /\ n % a = 0 /\ n % b = 0 /\ n \div a = b
         /\ a \in 1 .. n /\ b \in 1 .. n
         /\ a < b => a * a < n /\ n < b * b
         /\ ~ (a < b) => ~ (a * a < n)
<1>1. n % a = 0 /\ n \div a = b
  OBVIOUS
<1>2. b * a = a * b /\ (b * a) % b = 0
  OBVIOUS
<1>3. 1 * a <= b * a /\ 1 * b <= a * b
  OBVIOUS
<1>4. a < b => a * a < a * b /\ a * b < b * b
  OBVIOUS
<1>5. b <= a => a * b <= a * a
  OBVIOUS
<1>6. a * b \in Nat /\ a * a \in Nat /\ b * b \in Nat /\ 1 * a = a /\ 1 * b = b
  OBVIOUS
<1> QED
  BY <1>1, <1>2, <1>3, <1>4, <1>5, <1>6

LEMMA Quotient ==
  ASSUME NEW a \in Nat, NEW v \in Nat \ {0}
  PROVE  /\ a \div v \in Nat /\ a % v \in 0 .. v - 1
         /\ a = v * (a \div v) + (a % v)
         /\ (a - (a % v)) % v = 0
<1>1. a \div v \in Nat /\ a % v \in 0 .. v - 1
  OBVIOUS
<1>2. a - (a % v) = v * (a \div v)
  OBVIOUS
<1>3. PICK k \in Nat : k = a \div v
  BY <1>1
<1>4. (v * k) % v = 0 /\ v * k \in Nat
  OBVIOUS
<1>5. PICK r \in Nat : r = a % v
  BY <1>1
<1> QED
  BY <1>1, <1>2, <1>3, <1>4, <1>5

(* The widths of the default layout are the divisors, but for the square root. *)
LEMMA WidthsAreDivisors ==
  ASSUME NEW n \in Nat \ {0}
  PROVE  /\ DefaultWidths(n) \in Seq(Int) /\ ToSet(DefaultWidths(n)) = Divisors(n)
<1> DEFINE temp == {n \div i : i \in SmallWidths(n)}
<1>1. ASSUME NEW S, S \subseteq Int, IsFiniteSet(S)
      PROVE  Ascending(S) \in Seq(Int) /\ ToSet(Ascending(S)) = S
  <2>1. PICK m \in Nat : m = Cardinality(S)
    BY <1>1, AscendingLists
  <2>2. /\ Ascending(S) \in [1 .. m -> S]
        /\ \A x \in S : \E a \in 1 .. m : Ascending(S)[a] = x
    BY <1>1, <2>1, AscendingLists
  <2>3. PICK f \in [1 .. m -> S] : f = Ascending(S)
    BY <2>2
  <2>4. f \in [1 .. m -> Int]
    BY <1>1
  <2>5. f \in Seq(Int)
    BY <2>4
  <2>6. ToSet(f) = {f[a] : a \in 1 .. m}
    BY DEF ToSet
  <2>7. ToSet(f) = S
    BY <2>2, <2>3, <2>6
  <2> QED
    BY <2>3, <2>5, <2>7
<1>2. SmallWidths(n) \subseteq 1 .. n /\ IsFiniteSet(SmallWidths(n))
  <2>1. SmallWidths(n) \in SUBSET (1 .. n)
    BY DEF SmallWidths
  <2> QED
    BY <2>1, FS_Interval, FS_Subset
<1>3. ASSUME NEW i \in SmallWidths(n)
      PROVE  /\ i \in Divisors(n) /\ n \div i \in Divisors(n)
  <2>1. i \in Nat \ {0} /\ i \in 1 .. n /\ n % i = 0 /\ i * i < n
    BY <1>2 DEF SmallWidths
  <2>2. PICK d \in Nat : d = n \div i /\ n = i * d + (n % i)
    BY <2>1, Quotient
  <2>3. i * d \in Nat /\ i * i \in Nat /\ (d = 0 => i * d = 0)
    BY <2>1, <2>2
  <2>4. n = i * d /\ d # 0
    BY <2>1, <2>2, <2>3
  <2>5. d \in Nat \ {0} /\ n \in Nat
    BY <2>4
  <2>6. n % d = 0 /\ d \in 1 .. n /\ (i < d => n < d * d) /\ (~ (i < d) => ~ (i * i < n))
    BY ONLY <2>1, <2>4, <2>5, Factors
  <2>7. d * d # n /\ i * i # n
    <3>1. d * d \in Nat
      BY <2>5
    <3> QED
      BY <2>1, <2>3, <2>6, <3>1
  <2> QED
    BY <2>1, <2>2, <2>6, <2>7 DEF Divisors
<1>4. ASSUME NEW d \in Divisors(n) PROVE d \in SmallWidths(n) \union temp
  <2>1. d \in Nat \ {0} /\ d \in 1 .. n /\ n % d = 0 /\ d * d # n
    BY DEF Divisors
  <2>2. CASE d * d < n
    BY <2>1, <2>2 DEF SmallWidths
  <2>3. CASE ~ (d * d < n)
    <3>1. PICK i \in Nat : i = n \div d /\ n = d * i + (n % d)
      BY <2>1, Quotient
    <3>2. d * i \in Nat /\ d * d \in Nat /\ (i = 0 => d * i = 0) /\ i * d = d * i
      BY <2>1, <3>1
    <3>3. n = i * d /\ n = d * i /\ i # 0
      BY <2>1, <3>1, <3>2
    <3>4. i \in Nat \ {0} /\ n \in Nat
      BY <3>3
    <3>5. n % i = 0 /\ n \div i = d /\ i \in 1 .. n /\ (i < d => i * i < n)
      BY ONLY <2>1, <3>3, <3>4, Factors
    <3>6. i < d
      <4>1. ~ (i < d) => d <= i
        BY <2>1, <3>4
      <4>2. d <= i => d * d <= d * i
        BY <2>1, <3>4
      <4> QED
        BY <2>1, <2>3, <3>2, <3>3, <4>1, <4>2
    <3> QED
      BY <3>5, <3>6 DEF SmallWidths
  <2> QED
    BY <2>2, <2>3
<1>5. temp \subseteq Int /\ IsFiniteSet(temp)
  <2>1. temp \in SUBSET (1 .. n)
    BY <1>3 DEF Divisors
  <2>2. IsFiniteSet(1 .. n) /\ \A x \in 1 .. n : x \in Int
    BY FS_Interval
  <2> HIDE DEF temp
  <2>3. IsFiniteSet(temp)
    BY <2>1, <2>2, FS_Subset
  <2>4. temp \subseteq Int
    BY <2>1, <2>2
  <2> QED
    BY <2>3, <2>4
<1>6. DefaultWidths(n) = Ascending(SmallWidths(n)) \o Ascending(temp)
  BY DEF DefaultWidths
<1>7. SmallWidths(n) \union temp = Divisors(n)
  BY <1>3, <1>4
<1> HIDE DEF temp
<1>8. PICK s : s = Ascending(SmallWidths(n)) /\ s \in Seq(Int) /\ ToSet(s) = SmallWidths(n)
  <2>1. SmallWidths(n) \subseteq Int
    BY <1>2
  <2> QED
    BY <1>1, <1>2, <2>1
<1>9. PICK t : t = Ascending(temp) /\ t \in Seq(Int) /\ ToSet(t) = temp
  BY <1>1, <1>5
<1>10. s \o t \in Seq(Int) /\ ToSet(s \o t) = ToSet(s) \union ToSet(t)
  BY <1>8, <1>9, Concatenated
<1> QED
  BY <1>6, <1>7, <1>8, <1>9, <1>10

LEMMA DefaultLayoutIs ==
  ASSUME NEW n \in Nat \ {0}, NEW l \in Slots
  PROVE  /\ DefaultLayout(n)[l] \in Seq(Int)
         /\ l >= n => DefaultLayout(n)[l] = <<>>
         /\ l < n => ToSet(DefaultLayout(n)[l]) = {d \in Divisors(n) : l % d = 0}
<1>1. PICK ws \in Seq(Int) : ws = DefaultWidths(n) /\ ToSet(ws) = Divisors(n)
  BY WidthsAreDivisors
<1>2. PICK K \in SUBSET DOMAIN ws : K = {k \in DOMAIN ws : l % ws[k] = 0}
  OBVIOUS
<1>3. DefaultLayout(n)[l] = IF l < n THEN Entries(ws, K) ELSE <<>>
  BY <1>1, <1>2 DEF DefaultLayout
<1>4. Entries(ws, K) \in Seq(Int) /\ ToSet(Entries(ws, K)) = {ws[k] : k \in K}
  BY EntriesTaken
<1>5. {ws[k] : k \in K} = {d \in Divisors(n) : l % d = 0}
  BY <1>1, <1>2 DEF ToSet
<1>6. <<>> \in Seq(Int) /\ l \in Int /\ n \in Int
  BY DEF Slots
<1>7. l >= n => ~ (l < n)
  BY <1>6
<1> QED
  BY <1>3, <1>4, <1>5, <1>6, <1>7

LEMMA DefaultPartitionsAre ==
  ASSUME NEW n \in 1 .. MaxThreads, NEW i \in Slots
  PROVE  /\ DefaultPartitions(n)[i] \in Seq(Int \X Int)
         /\ ToSet(DefaultPartitions(n)[i]) =
              UNION {{<<l, w>> : w \in {d \in Divisors(n) : l % d = 0 /\ l <= i /\ i < l + d}} :
                       l \in 0 .. n - 1}
         /\ \A l \in Slots, w \in Int :
              Occurrences(DefaultPartitions(n)[i], <<l, w>>) =
                IF l <= i /\ i < l + w THEN Occurrences(DefaultLayout(n)[l], w) ELSE 0
<1>1. n \in Nat \ {0} /\ i \in Int /\ MaxThreads \in Nat
  BY MaxThreadsAssumption DEF Slots
<1>2. PICK lay : lay = DefaultLayout(n)
  OBVIOUS
<1>3. PICK cs : cs = [l \in 1 .. n |-> Covering(l - 1, lay[l - 1], i)]
  OBVIOUS
<1>4. DefaultPartitions(n)[i] = FlattenSeq(cs)
  BY <1>2, <1>3 DEF DefaultPartitions
<1>5. \A l \in 1 .. n : l - 1 \in Slots /\ l - 1 \in Int /\ l - 1 < n /\ lay[l - 1] \in Seq(Int)
  <2>1. \A l \in 1 .. n : l - 1 \in Slots /\ l - 1 \in Int /\ l - 1 < n
    BY <1>1 DEF Slots
  <2> QED
    BY <1>1, <1>2, <2>1, DefaultLayoutIs
<1>6. ASSUME NEW l \in 1 .. n
      PROVE  /\ cs[l] \in Seq(Int \X Int)
             /\ ToSet(cs[l]) = {<<l - 1, w>> : w \in {v \in ToSet(lay[l - 1]) : l - 1 <= i /\ i < (l - 1) + v}}
             /\ \A p, w \in Int : Occurrences(cs[l], <<p, w>>)
                  = IF p = l - 1 /\ l - 1 <= i /\ i < (l - 1) + w THEN Occurrences(lay[l - 1], w) ELSE 0
  <2>1. PICK m \in Int : m = l - 1
    BY <1>5
  <2>2. PICK ws \in Seq(Int) : ws = lay[m]
    BY <1>5, <2>1
  <2>3. cs[l] = Covering(m, ws, i)
    BY <1>3, <2>1, <2>2
  <2>4. /\ Covering(m, ws, i) \in Seq(Int \X Int)
        /\ ToSet(Covering(m, ws, i)) = {<<m, w>> : w \in {v \in ToSet(ws) : m <= i /\ i < m + v}}
        /\ \A p, w \in Int : Occurrences(Covering(m, ws, i), <<p, w>>)
             = IF p = m /\ m <= i /\ i < m + w THEN Occurrences(ws, w) ELSE 0
    BY <1>1, CoveringIs
  <2> QED
    BY <2>1, <2>2, <2>3, <2>4
<1>7. cs \in [1 .. n -> Seq(Int \X Int)]
  BY <1>3, <1>6
<1>8. /\ FlattenSeq(cs) \in Seq(Int \X Int)
      /\ ToSet(FlattenSeq(cs)) = UNION {ToSet(cs[l]) : l \in 1 .. n}
  BY <1>1, <1>7, Flattened
<1>9. ToSet(FlattenSeq(cs)) =
        UNION {{<<l, w>> : w \in {d \in Divisors(n) : l % d = 0 /\ l <= i /\ i < l + d}} : l \in 0 .. n - 1}
  <2> DEFINE Led(l) == {<<l, w>> : w \in {d \in Divisors(n) : l % d = 0 /\ l <= i /\ i < l + d}}
  <2>1. ASSUME NEW l \in 1 .. n PROVE l - 1 \in 0 .. n - 1 /\ ToSet(cs[l]) = Led(l - 1)
    <3>1. ToSet(lay[l - 1]) = {d \in Divisors(n) : (l - 1) % d = 0}
      BY <1>1, <1>2, <1>5, DefaultLayoutIs
    <3>2. l - 1 \in 0 .. n - 1
      BY <1>1
    <3> QED
      BY <1>6, <3>1, <3>2
  <2>2. \A l \in 0 .. n - 1 : l + 1 \in 1 .. n /\ (l + 1) - 1 = l
    BY <1>1
  <2>3. \A l \in 0 .. n - 1 : ToSet(cs[l + 1]) = Led(l)
    BY <2>1, <2>2
  <2> HIDE DEF Led
  <2>4. UNION {ToSet(cs[l]) : l \in 1 .. n} = UNION {Led(l) : l \in 0 .. n - 1}
    BY <2>1, <2>2, <2>3
  <2> QED
    BY <1>8, <2>4 DEF Led
<1>10. ASSUME NEW l \in Slots, NEW w \in Int
       PROVE  Occurrences(FlattenSeq(cs), <<l, w>>) =
                IF l <= i /\ i < l + w THEN Occurrences(lay[l], w) ELSE 0
  <2>1. l \in Nat /\ l + 1 \in Nat /\ (l + 1) - 1 = l /\ (l < n => l + 1 \in 1 .. n)
    BY <1>1 DEF Slots
  <2>2. PICK e : e = <<l, w>>
    OBVIOUS
  <2>3. PICK j \in Nat : j = l + 1
    BY <2>1
  <2>4. OnlyIn(cs, n, e, j)
    <3>1. \A k \in 1 .. n : k # j => l # k - 1
      BY <1>1, <2>1, <2>3
    <3> QED
      BY <1>6, <2>1, <2>2, <3>1 DEF OnlyIn
  <2>5. Occurrences(FlattenSeq(cs), e) = IF j \in 1 .. n THEN Occurrences(cs[j], e) ELSE 0
    <3>1. PICK V : V = Int \X Int
      OBVIOUS
    <3>2. cs \in [1 .. n -> Seq(V)] /\ n \in Nat \ {0}
      BY <1>1, <1>7, <3>1
    <3> QED
      BY ONLY <3>2, <2>4, FlattenedOnce, j \in Nat
  <2>6. CASE l < n
    <3>1. j \in 1 .. n /\ j - 1 = l
      BY <2>1, <2>3, <2>6
    <3>2. Occurrences(cs[j], e) = IF l <= i /\ i < l + w THEN Occurrences(lay[l], w) ELSE 0
      BY <1>6, <2>1, <2>2, <3>1
    <3> QED
      BY <2>2, <2>5, <3>1, <3>2
  <2>7. CASE ~ (l < n)
    <3>1. ~ (j \in 1 .. n) /\ l >= n
      BY <1>1, <2>1, <2>3, <2>7
    <3>2. lay[l] = <<>>
      BY <1>1, <1>2, <3>1, DefaultLayoutIs
    <3>3. Occurrences(lay[l], w) = 0
      <4>1. {k \in DOMAIN lay[l] : lay[l][k] = w} = {}
        BY <3>2
      <4> QED
        BY <4>1, FS_EmptySet DEF Occurrences
    <3> QED
      BY <2>2, <2>5, <3>1, <3>3
  <2> QED
    BY <2>6, <2>7
<1> QED
  BY <1>2, <1>4, <1>8, <1>9, <1>10

(* The place of width d that i is in. *)
LEMMA PlaceOf ==
  ASSUME NEW n \in Nat, NEW i \in 0 .. n - 1, NEW d \in Divisors(n)
  PROVE  /\ d \in Nat \ {0} /\ i % d \in 0 .. d - 1
         /\ i - (i % d) \in 0 .. n - 1 /\ (i - (i % d)) % d = 0
         /\ i - (i % d) <= i /\ i < i - (i % d) + d
         /\ i - (i % d) + d <= n
         /\ \A l \in Nat : l % d = 0 /\ l <= i /\ i < l + d => l = i - (i % d)
<1>1. d \in Nat \ {0} /\ n % d = 0 /\ i \in Nat /\ i < n
  BY DEF Divisors
<1>a. PICK q \in Nat : q = i \div d
  BY <1>1, Quotient
<1>b. PICK r \in 0 .. d - 1 : r = i % d
  BY <1>1, Quotient
<1>2. q = i \div d /\ r = i % d /\ i = d * q + r /\ (i - r) % d = 0
  BY <1>1, <1>a, <1>b, Quotient
<1>3. PICK m \in Nat : n = d * m
  <2>1. n \div d \in Nat /\ n = d * (n \div d) + (n % d)
    BY <1>1, Quotient
  <2>2. PICK m \in Nat : m = n \div d
    BY <2>1
  <2>3. d * m \in Nat /\ n = d * m + 0
    BY <1>1, <2>1, <2>2
  <2> QED
    BY <2>3
<1>4. d * q \in Nat /\ d * m \in Nat /\ r \in Nat /\ r < d
  BY <1>1, <1>2
<1>5. i - r = d * q /\ d * q <= i /\ i < d * q + d
  BY <1>1, <1>2, <1>4
<1>6. ASSUME NEW a \in Nat, NEW b \in Nat, d * a < d * b + d PROVE a <= b
  <2>1. b + 1 <= a => d * (b + 1) <= d * a
    BY <1>1
  <2>2. d * (b + 1) = d * b + d /\ d * a \in Nat /\ d * b \in Nat
    BY <1>1
  <2> QED
    BY <1>1, <1>6, <2>1, <2>2
<1>7. d * q + d <= n
  <2>1. d * q < d * m
    BY <1>1, <1>3, <1>4, <1>5
  <2>2. q < m
    BY <1>1, <2>1
  <2>3. q + 1 <= m
    BY <2>2
  <2>4. d * (q + 1) <= d * m /\ d * (q + 1) = d * q + d
    BY <1>1, <2>3
  <2> QED
    BY <1>3, <2>4
<1>8. ASSUME NEW l \in Nat, l % d = 0, l <= i, i < l + d PROVE l = i - r
  <2>1. PICK p \in Nat : l = d * p + 0
    BY <1>1, <1>8, Quotient
  <2>2. d * p \in Nat /\ l = d * p
    BY <1>1, <2>1
  <2>3. d * p < d * q + d /\ d * q < d * p + d
    BY <1>1, <1>4, <1>5, <1>8, <2>2
  <2>4. p <= q /\ q <= p
    BY <1>6, <2>3
  <2>5. p = q
    BY <2>4
  <2> QED
    BY <1>5, <2>2, <2>5
<1>9. i - r \in 0 .. n - 1
  BY <1>1, <1>4, <1>5
<1> QED
  BY <1>1, <1>2, <1>4, <1>5, <1>7, <1>8, <1>9

LEMMA DefaultPlaces ==
  ASSUME NEW n \in 1 .. MaxThreads
  PROVE  /\ \A i \in 0 .. n - 1 :
              ToSet(DefaultPartitions(n)[i]) = {<<i - (i % d), d>> : d \in Divisors(n)}
         /\ Divisors(n) = {} => \A i \in Slots : DefaultPartitions(n)[i] = <<>>
         /\ Divisors(n) # {} => \A i \in 0 .. n - 1 : DefaultPartitions(n)[i] # <<>>
<1>1. n \in Nat \ {0} /\ MaxThreads \in Nat /\ \A i \in 0 .. n - 1 : i \in Slots
  BY MaxThreadsAssumption DEF Slots
<1>2. ASSUME NEW i \in 0 .. n - 1
      PROVE  ToSet(DefaultPartitions(n)[i]) = {<<i - (i % d), d>> : d \in Divisors(n)}
  <2> DEFINE Led(l) == {<<l, w>> : w \in {d \in Divisors(n) : l % d = 0 /\ l <= i /\ i < l + d}}
             Mine == {<<i - (i % d), d>> : d \in Divisors(n)}
  <2>1. ToSet(DefaultPartitions(n)[i]) = UNION {Led(l) : l \in 0 .. n - 1}
    BY <1>1, DefaultPartitionsAre
  <2>2. ASSUME NEW l \in 0 .. n - 1, NEW d \in Divisors(n), l % d = 0, l <= i, i < l + d
        PROVE  <<l, d>> \in Mine
    <3>1. l \in Nat
      OBVIOUS
    <3>2. l = i - (i % d)
      BY <1>1, <2>2, <3>1, PlaceOf
    <3> QED
      BY <3>2
  <2>3. ASSUME NEW d \in Divisors(n)
        PROVE  \E l \in 0 .. n - 1 : <<i - (i % d), d>> \in Led(l)
    <3>1. PICK l : l = i - (i % d)
      OBVIOUS
    <3>2. l \in 0 .. n - 1 /\ l % d = 0 /\ l <= i /\ i < l + d
      BY <1>1, <3>1, PlaceOf
    <3>3. <<l, d>> \in Led(l)
      BY <3>2
    <3> QED
      BY <3>1, <3>2, <3>3
  <2>4. \A l \in 0 .. n - 1 : Led(l) \subseteq Mine
    <3> HIDE DEF Mine
    <3> QED
      BY <2>2
  <2>5. \A e \in Mine : \E l \in 0 .. n - 1 : e \in Led(l)
    <3> HIDE DEF Led
    <3> QED
      BY <2>3
  <2> HIDE DEF Led, Mine
  <2>6. UNION {Led(l) : l \in 0 .. n - 1} = Mine
    BY <2>4, <2>5
  <2> QED
    BY <2>1, <2>6 DEF Mine
<1>3. ASSUME Divisors(n) = {}, NEW i \in Slots PROVE DefaultPartitions(n)[i] = <<>>
  <2>1. DefaultPartitions(n)[i] \in Seq(Int \X Int)
    BY DefaultPartitionsAre
  <2>2. PICK s \in Seq(Int \X Int) : s = DefaultPartitions(n)[i]
    BY <2>1
  <2>3. ToSet(s) = {}
    <3> DEFINE Led(l) == {<<l, w>> : w \in {d \in Divisors(n) : l % d = 0 /\ l <= i /\ i < l + d}}
    <3>1. ToSet(s) = UNION {Led(l) : l \in 0 .. n - 1}
      BY <2>2, DefaultPartitionsAre
    <3>2. \A l \in 0 .. n - 1 : Led(l) = {}
      BY <1>3
    <3> HIDE DEF Led
    <3> QED
      BY <3>1, <3>2
  <2>4. s = <<>>
    <3>1. Len(s) \in Nat /\ DOMAIN s = 1 .. Len(s)
      OBVIOUS
    <3>2. ~ (1 \in DOMAIN s)
      BY <2>3 DEF ToSet
    <3>3. Len(s) = 0
      BY <3>1, <3>2
    <3> QED
      BY <3>3
  <2> QED
    BY <2>2, <2>4
<1>4. ASSUME Divisors(n) # {}, NEW i \in 0 .. n - 1 PROVE DefaultPartitions(n)[i] # <<>>
  <2> DEFINE place(d) == <<i - (i % d), d>>
  <2>1. ToSet(DefaultPartitions(n)[i]) # {}
    <3>1. ToSet(DefaultPartitions(n)[i]) = {place(d) : d \in Divisors(n)}
      BY <1>2
    <3> HIDE DEF place
    <3> QED
      BY <1>4, <3>1
  <2>2. ToSet(<<>>) = {}
    BY DEF ToSet
  <2> QED
    BY <2>1, <2>2
<1> QED
  BY <1>2, <1>3, <1>4

-----------------------------------------------------------------------------
(* The tables. *)

TypesInv ==
  /\ nthreads \in 0 .. MaxThreads
  /\ layout \in [Slots -> Seq(Int)] /\ parts \in [Slots -> Seq(Int \X Int)]
  /\ lines \in Seq(Seq(Int)) /\ current \in Int
  /\ file \in Files \union {NoFile, UnreadFile}
  /\ phase \in {"none", "reading", "ready", "exited"}

(* Of a default layout both tables are the ones for the number of threads. *)
DefaultInv ==
  phase = "ready" /\ file = NoFile =>
    /\ nthreads \in 1 .. MaxThreads
    /\ layout = DefaultLayout(nthreads) /\ parts = DefaultPartitions(nthreads)

(* c lines of the file are in the layout, the others are still to be read. *)
ReadSoFar(c) ==
  /\ Len(file.widths) = c + Len(lines)
  /\ \A k \in 1 .. Len(lines) : lines[k] = file.widths[c + k]
  /\ file.commas => \A l \in Slots : layout[l] = IF l < c THEN file.widths[l + 1] ELSE <<>>

FileInv ==
  phase \in {"reading", "ready"} /\ file \in Files =>
    /\ current >= -1
    /\ ReadSoFar(IF current < 0 THEN 0 ELSE current)
    /\ phase = "ready" => current >= 0 /\ lines = <<>>

TablesInv == TypesInv /\ DefaultInv /\ FileInv /\ TablesAgree

LEMMA FilesAre ==
  /\ \A f \in Files : /\ f.cpus \in Seq(Nat) /\ Len(f.cpus) \in 1 .. MaxThreads
                      /\ f.widths \in Seq(Seq(Int)) /\ f.commas \in BOOLEAN
                      /\ f # NoFile /\ f # UnreadFile
  /\ NoFile # UnreadFile /\ ~ UnreadFile.commas
<1>1. NoFile.cpus = <<>> /\ UnreadFile.cpus = <<>> /\ NoFile.commas = TRUE /\ UnreadFile.commas = FALSE
  BY DEF NoFile, UnreadFile
<1>2. \A f \in Files : f.cpus # <<>>
  BY FilesAssumption
<1> QED
  BY <1>1, <1>2, FilesAssumption

LEMMA NoLayoutIs ==
  /\ NoLayout \in [Slots -> Seq(Int)] /\ NoLayout \in [Slots -> Seq(Int \X Int)]
  /\ \A l \in Slots : NoLayout[l] = <<>>
  /\ \A e : Occurrences(<<>>, e) = 0
<1>1. \A e : {k \in DOMAIN <<>> : <<>>[k] = e} = {}
  OBVIOUS
<1>2. \A e : Occurrences(<<>>, e) = 0
  BY <1>1, FS_EmptySet DEF Occurrences
<1>3. NoLayout = [i \in Slots |-> <<>>] /\ <<>> \in Seq(Int) /\ <<>> \in Seq(Int \X Int)
  BY DEF NoLayout
<1> QED
  BY <1>2, <1>3

LEMMA NoLayoutAgrees == layout = NoLayout /\ parts = NoLayout => TablesAgree
<1> SUFFICES ASSUME layout = NoLayout, parts = NoLayout, NEW i \in Slots, NEW l \in Slots,
                    NEW w \in 1 .. MaxThreads
             PROVE  Occurrences(parts[i], <<l, w>>) =
                      IF l <= i /\ i < l + w THEN Occurrences(layout[l], w) ELSE 0
  BY DEF TablesAgree
<1> QED
  BY NoLayoutIs

LEMMA TablesKeptByDefault ==
  ASSUME TablesInv, NEW n \in 1 .. MaxThreads, DefaultTables(n)
  PROVE  TablesInv'
<1>1. /\ nthreads' = n /\ layout' = DefaultLayout(n) /\ parts' = DefaultPartitions(n)
      /\ file' = NoFile /\ phase' = "ready" /\ lines' = lines /\ current' = current
  BY DEF DefaultTables
<1>2. n \in 0 .. MaxThreads
  BY MaxThreadsAssumption
<1>3. TablesAgree' /\ layout' \in [Slots -> Seq(Int)] /\ parts' \in [Slots -> Seq(Int \X Int)]
  <2>1. layout' \in [Slots -> Seq(Int)] /\ parts' \in [Slots -> Seq(Int \X Int)]
    <3>1. layout' = [l \in Slots |-> layout'[l]] /\ parts' = [i \in Slots |-> parts'[i]]
      BY <1>1 DEF DefaultLayout, DefaultPartitions
    <3>2. \A l \in Slots : layout'[l] \in Seq(Int) /\ parts'[l] \in Seq(Int \X Int)
      BY <1>1, DefaultLayoutIs, DefaultPartitionsAre
    <3> QED
      BY <3>1, <3>2
  <2>2. \A w \in 1 .. MaxThreads : w \in Int
    BY MaxThreadsAssumption
  <2>3. TablesAgree'
    BY <1>1, <2>2, DefaultPartitionsAre DEF TablesAgree
  <2> QED
    BY <2>1, <2>3
<1>4. TypesInv'
  BY <1>1, <1>2, <1>3 DEF TablesInv, TypesInv
<1>5. DefaultInv'
  BY <1>1 DEF DefaultInv
<1>6. FileInv'
  BY <1>1, FilesAre DEF FileInv
<1> QED
  BY <1>3, <1>4, <1>5, <1>6 DEF TablesInv

LEMMA TablesInit == Init => TablesInv
<1> SUFFICES ASSUME Init PROVE TablesInv
  OBVIOUS
<1>1. TypesInv
  BY NoLayoutIs, MaxThreadsAssumption DEF Init, TypesInv
<1>2. DefaultInv /\ FileInv
  BY DEF Init, DefaultInv, FileInv
<1>3. TablesAgree
  BY NoLayoutAgrees DEF Init
<1> QED
  BY <1>1, <1>2, <1>3 DEF TablesInv

LEMMA TablesKept ==
  ASSUME TablesInv, UNCHANGED <<nthreads, layout, parts, lines, current, file>>,
         phase' = phase \/ phase' = "exited"
  PROVE  TablesInv'
<1>1. TypesInv'
  BY DEF TablesInv, TypesInv
<1>2. DefaultInv'
  BY DEF TablesInv, DefaultInv
<1>3. FileInv'
  BY DEF TablesInv, FileInv, ReadSoFar
<1>4. TablesAgree'
  BY DEF TablesInv, TablesAgree
<1> QED
  BY <1>1, <1>2, <1>3, <1>4 DEF TablesInv

(* The layout is cleared for a new file. *)
LEMMA TablesKeptByOpen ==
  ASSUME TablesInv, NEW f \in Files, OpenFile(f)
  PROVE  TablesInv'
<1>1. /\ layout' = NoLayout /\ parts' = NoLayout /\ file' = f /\ lines' = f.widths
      /\ current' = -1 /\ phase' = "reading" /\ nthreads' = nthreads
  BY DEF OpenFile
<1>2. TypesInv'
  BY <1>1, FilesAre, NoLayoutIs DEF TablesInv, TypesInv
<1>3. DefaultInv'
  BY <1>1 DEF DefaultInv
<1>4. FileInv'
  <2>1. PICK ws \in Seq(Seq(Int)) : ws = f.widths
    BY FilesAre
  <2>2. Len(ws) \in Nat /\ Len(ws) = 0 + Len(ws) /\ \A k \in 1 .. Len(ws) : ws[k] = ws[0 + k]
    OBVIOUS
  <2>3. \A l \in Slots : ~ (l < 0)
    BY DEF Slots
  <2>4. ReadSoFar(0)'
    BY <1>1, <2>1, <2>2, <2>3, NoLayoutIs DEF ReadSoFar
  <2>5. -1 < 0 /\ -1 >= -1
    OBVIOUS
  <2> QED
    BY <1>1, <2>4, <2>5 DEF FileInv
<1>5. TablesAgree'
  <2>1. (layout = NoLayout /\ parts = NoLayout)'
    BY <1>1
  <2> QED
    BY <2>1, NoLayoutAgrees, PTL
<1> QED
  BY <1>2, <1>3, <1>4, <1>5 DEF TablesInv

LEMMA TablesKeptByIgnored ==
  ASSUME TablesInv, NEW n \in 0 .. MaxThreads, nthreads' = n,
         layout' = NoLayout, parts' = NoLayout, file' = UnreadFile, phase' = "ready",
         UNCHANGED <<lines, current>>
  PROVE  TablesInv'
<1>1. TypesInv'
  BY NoLayoutIs DEF TablesInv, TypesInv
<1>2. DefaultInv' /\ FileInv'
  BY FilesAre DEF DefaultInv, FileInv
<1>3. TablesAgree'
  <2>1. (layout = NoLayout /\ parts = NoLayout)'
    OBVIOUS
  <2> QED
    BY <2>1, NoLayoutAgrees, PTL
<1> QED
  BY <1>1, <1>2, <1>3 DEF TablesInv

LEMMA NumbersAre ==
  /\ \A V : \A s \in Seq(V) : Numbers(s) \in Seq(V) /\ Len(Numbers(s)) <= Len(s)
                           /\ \A k \in 1 .. Len(Numbers(s)) : Numbers(s)[k] = s[k]
  /\ \A s : file.commas => Numbers(s) = s
<1>1. ASSUME NEW V, NEW s \in Seq(V)
      PROVE  /\ Numbers(s) \in Seq(V) /\ Len(Numbers(s)) <= Len(s)
             /\ \A k \in 1 .. Len(Numbers(s)) : Numbers(s)[k] = s[k]
  <2>1. CASE file.commas \/ s = <<>>
    <3>1. Numbers(s) = s
      BY <2>1 DEF Numbers
    <3> QED
      BY <3>1
  <2>2. CASE ~ (file.commas \/ s = <<>>)
    <3>1. Numbers(s) = <<s[1]>>
      BY <2>2 DEF Numbers
    <3>2. Len(s) >= 1 /\ s[1] \in V
      BY <2>2, EmptySeq
    <3> QED
      BY <3>1, <3>2
  <2> QED
    BY <2>1, <2>2
<1> QED
  BY <1>1 DEF Numbers

LEMMA TablesKeptByCores ==
  ASSUME TablesInv, file \in Files, ReadCores
  PROVE  /\ TablesInv'
         /\ nthreads' = Len(Numbers(file.cpus))
         /\ \A k \in 1 .. nthreads' : k \in 1 .. MaxThreads /\ cores'[k] = file.cpus[k]
<1>1. /\ phase = "reading" /\ current = -1 /\ current' = 0
      /\ nthreads' = Len(Numbers(file.cpus))
      /\ UNCHANGED <<layout, parts, lines, file, phase>>
      /\ \A k \in 1 .. MaxThreads : k <= Len(Numbers(file.cpus)) => cores'[k] = Numbers(file.cpus)[k]
  BY DEF ReadCores, tables
<1>2. PICK s \in Seq(Nat) : s = file.cpus /\ Len(s) \in 1 .. MaxThreads
  BY FilesAre
<1>3. PICK t \in Seq(Nat) : t = Numbers(s) /\ Len(t) <= Len(s) /\ \A k \in 1 .. Len(t) : t[k] = s[k]
  BY NumbersAre
<1>4. Len(t) \in 0 .. MaxThreads /\ \A k \in 1 .. Len(t) : k \in 1 .. MaxThreads /\ k <= Len(t)
  BY <1>2, <1>3, MaxThreadsAssumption
<1>5. TypesInv'
  BY <1>1, <1>2, <1>3, <1>4 DEF TablesInv, TypesInv
<1>6. DefaultInv'
  BY <1>1 DEF DefaultInv
<1>7. FileInv'
  <2>1. ReadSoFar(0)
    BY <1>1 DEF TablesInv, FileInv
  <2>2. ReadSoFar(0)'
    BY <1>1, <2>1 DEF ReadSoFar
  <2>3. ~ (0 < 0) /\ 0 >= -1
    OBVIOUS
  <2> QED
    BY <1>1, <2>2, <2>3 DEF FileInv
<1>8. TablesAgree'
  BY <1>1 DEF TablesInv, TablesAgree
<1> QED
  BY <1>1, <1>2, <1>3, <1>4, <1>5, <1>6, <1>7, <1>8 DEF TablesInv

(* A line of the file extends both tables alike. *)
LEMMA TablesKeptByWidths ==
  ASSUME TablesInv, file \in Files, ReadWidths
  PROVE  TablesInv'
<1>1. PICK ws : ws = Numbers(Head(lines))
  OBVIOUS
<1>2. /\ phase = "reading" /\ current >= 0 /\ lines # <<>> /\ ~ Fatal(ws)
      /\ layout' = [layout EXCEPT ![current] = @ \o ws]
      /\ parts' = [i \in Slots |-> parts[i] \o Covering(current, ws, i)]
      /\ lines' = Tail(lines) /\ current' = current + 1
      /\ UNCHANGED <<nthreads, file, phase>>
  BY <1>1 DEF ReadWidths
<1>3. lines \in Seq(Seq(Int)) /\ Head(lines) \in Seq(Int) /\ current \in Int
      /\ layout \in [Slots -> Seq(Int)] /\ parts \in [Slots -> Seq(Int \X Int)]
  BY <1>2 DEF TablesInv, TypesInv
<1>4. ws \in Seq(Int)
  BY <1>1, <1>3, NumbersAre
<1>5. current \in Slots
  BY <1>2, <1>3, MaxThreadsAssumption DEF Fatal, Slots
<1>6. ASSUME NEW i \in Slots
      PROVE  /\ Covering(current, ws, i) \in Seq(Int \X Int)
             /\ parts'[i] \in Seq(Int \X Int)
             /\ \A l, w \in Int : Occurrences(parts'[i], <<l, w>>) = Occurrences(parts[i], <<l, w>>)
                  + (IF l = current /\ current <= i /\ i < current + w THEN Occurrences(ws, w) ELSE 0)
  <2>1. PICK c : c = Covering(current, ws, i)
    OBVIOUS
  <2>2. i \in Int
    BY DEF Slots
  <2>3. /\ c \in Seq(Int \X Int)
        /\ \A l, w \in Int : Occurrences(c, <<l, w>>)
             = IF l = current /\ current <= i /\ i < current + w THEN Occurrences(ws, w) ELSE 0
    BY <1>3, <1>4, <2>1, <2>2, CoveringIs
  <2>4. parts[i] \in Seq(Int \X Int) /\ parts'[i] = parts[i] \o c
    BY <1>2, <1>3, <2>1
  <2>5. /\ parts[i] \o c \in Seq(Int \X Int)
        /\ \A e : Occurrences(parts[i] \o c, e) = Occurrences(parts[i], e) + Occurrences(c, e)
    BY <2>3, <2>4, Concatenated
  <2> QED
    BY <2>1, <2>3, <2>4, <2>5
<1>7. /\ layout' \in [Slots -> Seq(Int)]
      /\ layout[current] \o ws \in Seq(Int)
      /\ \A e : Occurrences(layout[current] \o ws, e) = Occurrences(layout[current], e) + Occurrences(ws, e)
      /\ \A l \in Slots : layout'[l] = IF l = current THEN layout[current] \o ws ELSE layout[l]
  <2>1. layout[current] \in Seq(Int)
    BY <1>3, <1>5
  <2>2. layout[current] \o ws \in Seq(Int)
        /\ \A e : Occurrences(layout[current] \o ws, e) = Occurrences(layout[current], e) + Occurrences(ws, e)
    BY <1>4, <2>1, Concatenated
  <2>3. PICK s \in Seq(Int) : s = layout[current] \o ws
    BY <2>2
  <2>4. layout' = [layout EXCEPT ![current] = s]
    BY <1>2, <2>3
  <2>5. layout' \in [Slots -> Seq(Int)] /\ \A l \in Slots : layout'[l] = IF l = current THEN s ELSE layout[l]
    BY <1>3, <1>5, <2>4
  <2> QED
    BY <2>2, <2>3, <2>5
<1>8. TypesInv'
  <2>1. parts' \in [Slots -> Seq(Int \X Int)]
    BY <1>2, <1>6
  <2>2. lines' \in Seq(Seq(Int)) /\ current' \in Int
    BY <1>2, <1>3
  <2> QED
    BY <1>2, <1>7, <2>1, <2>2 DEF TablesInv, TypesInv
<1>9. DefaultInv'
  BY <1>2 DEF DefaultInv
<1>10. FileInv'
  <2>1. PICK c \in Slots : c = current
    BY <1>5
  <2>2. c \in Nat /\ c + 1 \in Nat /\ ~ (c < 0) /\ ~ (c + 1 < 0)
    BY DEF Slots
  <2>3. ReadSoFar(c)
    BY <1>2, <2>1, <2>2 DEF TablesInv, FileInv
  <2>4. PICK fw \in Seq(Seq(Int)) : fw = file.widths
    BY FilesAre
  <2>5. Len(lines) \in Nat /\ Len(lines) >= 1 /\ Len(fw) = c + Len(lines) /\ Len(fw) \in Nat
    BY <1>2, <1>3, <2>3, <2>4, EmptySeq DEF ReadSoFar
  <2>6. Len(lines') = Len(lines) - 1 /\ \A k \in 1 .. Len(lines) - 1 : lines'[k] = lines[k + 1]
    BY <1>2, <1>3, <2>5
  <2>7. Head(lines) = fw[c + 1]
    <3>1. Head(lines) = lines[1] /\ 1 \in 1 .. Len(lines)
      BY <1>2, <1>3, <2>5
    <3> QED
      BY <2>3, <2>4, <3>1 DEF ReadSoFar
  <2>8. Len(fw) = (c + 1) + Len(lines')
    BY <2>2, <2>5, <2>6
  <2>9. ASSUME NEW k \in 1 .. Len(lines') PROVE lines'[k] = fw[(c + 1) + k]
    <3>1. k + 1 \in 1 .. Len(lines) /\ k \in 1 .. Len(lines) - 1 /\ c + (k + 1) = (c + 1) + k
      BY <2>2, <2>5, <2>6
    <3>2. lines[k + 1] = fw[c + (k + 1)]
      BY <2>3, <2>4, <3>1 DEF ReadSoFar
    <3> QED
      BY <2>6, <3>1, <3>2
  <2>10. ASSUME file.commas, NEW l \in Slots
         PROVE  layout'[l] = IF l < c + 1 THEN fw[l + 1] ELSE <<>>
    <3>1. layout[l] = IF l < c THEN fw[l + 1] ELSE <<>>
      BY <2>3, <2>4, <2>10 DEF ReadSoFar
    <3>2. l \in Nat
      BY DEF Slots
    <3>3. CASE l = c
      <4>1. ws = fw[c + 1]
        BY <1>1, <2>7, <2>10, NumbersAre
      <4>2. layout[c] = <<>>
        BY <2>2, <3>1, <3>3
      <4>3. <<>> \o ws = ws
        BY <1>4
      <4>4. layout'[l] = fw[l + 1] /\ l < c + 1
        BY <1>7, <2>1, <2>2, <3>3, <4>1, <4>2, <4>3
      <4> QED
        BY <4>4
    <3>4. CASE l # c
      <4>1. l < c <=> l < c + 1
        BY <2>2, <3>2, <3>4
      <4> QED
        BY <1>7, <2>1, <3>1, <3>4, <4>1
    <3> QED
      BY <3>3, <3>4
  <2>11. ReadSoFar(c + 1)'
    <3>1. PICK d : d = c + 1
      OBVIOUS
    <3>2. ReadSoFar(d)'
      BY <1>2, <2>4, <2>8, <2>9, <2>10, <3>1 DEF ReadSoFar
    <3> QED
      BY <3>1, <3>2
  <2>12. c + 1 >= -1
    BY <2>2
  <2> QED
    BY <1>2, <2>1, <2>2, <2>11, <2>12 DEF FileInv
<1>11. TablesAgree'
  <2> SUFFICES ASSUME NEW i \in Slots, NEW l \in Slots, NEW w \in 1 .. MaxThreads
               PROVE  Occurrences(parts'[i], <<l, w>>) =
                        IF l <= i /\ i < l + w THEN Occurrences(layout'[l], w) ELSE 0
    BY DEF TablesAgree
  <2>1. l \in Int /\ i \in Int /\ w \in Int
    BY MaxThreadsAssumption DEF Slots
  <2>2. Occurrences(parts[i], <<l, w>>) =
          IF l <= i /\ i < l + w THEN Occurrences(layout[l], w) ELSE 0
    BY DEF TablesInv, TablesAgree
  <2>3. Occurrences(parts'[i], <<l, w>>) = Occurrences(parts[i], <<l, w>>)
          + (IF l = current /\ current <= i /\ i < current + w THEN Occurrences(ws, w) ELSE 0)
    BY <1>6, <2>1
  <2>4. \A s \in Seq(Int) : Occurrences(s, w) \in Nat
    <3> SUFFICES ASSUME NEW s \in Seq(Int) PROVE Occurrences(s, w) \in Nat
      OBVIOUS
    <3>1. {k \in DOMAIN s : s[k] = w} \in SUBSET DOMAIN s
      OBVIOUS
    <3> QED
      BY <3>1, Positions DEF Occurrences
  <2>5. Occurrences(layout[l], w) \in Nat /\ Occurrences(ws, w) \in Nat
    BY <1>3, <1>4, <2>4
  <2>6. Occurrences(layout'[l], w) =
          IF l = current THEN Occurrences(layout[l], w) + Occurrences(ws, w) ELSE Occurrences(layout[l], w)
    BY <1>7
  <2> QED
    BY <2>2, <2>3, <2>5, <2>6
<1> QED
  BY <1>8, <1>9, <1>10, <1>11 DEF TablesInv

LEMMA TablesKeptByClose ==
  ASSUME TablesInv, file \in Files, CloseFile
  PROVE  TablesInv'
<1>1. /\ phase = "reading" /\ current >= 0 /\ lines = <<>> /\ phase' = "ready"
      /\ UNCHANGED <<nthreads, layout, parts, lines, current, file>>
  BY DEF CloseFile, tables
<1>2. TypesInv'
  BY <1>1 DEF TablesInv, TypesInv
<1>3. DefaultInv'
  BY <1>1, FilesAre DEF DefaultInv
<1>4. FileInv'
  BY <1>1 DEF TablesInv, FileInv, ReadSoFar
<1>5. TablesAgree'
  BY <1>1 DEF TablesInv, TablesAgree
<1> QED
  BY <1>2, <1>3, <1>4, <1>5 DEF TablesInv

-----------------------------------------------------------------------------
(* The start-up. *)

ReadyInv ==
  /\ base \in Slots
  /\ phase = "reading" => file \in Files /\ how = "file" /\ ~ controlled
  /\ phase \in {"reading", "ready"} => initialized
  /\ controlled => \E m \in Masks : mapper = Ascending(m)
  /\ controlled /\ phase = "ready" =>
       nthreads = Len(mapper) /\ (parts = NoLayout \/ parts = DefaultPartitions(nthreads))

CoresInv ==
  /\ how \in {"none", "options", "default", "mask", "file", "ignored"}
  /\ how = "none" => phase \in {"none", "exited"}
  /\ how = "default" => \A k \in 1 .. MaxThreads : cores[k] = k - 1
  /\ how = "file" /\ phase \in {"reading", "ready"} =>
       /\ file \in Files
       /\ current >= 0 => /\ nthreads = Len(Numbers(file.cpus))
                          /\ \A k \in 1 .. nthreads : cores[k] = file.cpus[k]

(* In a session nothing the pinning depends on changes. *)
SessionInv ==
  Session => /\ phase = "ready" /\ ~ Starting
             /\ pins = [k \in 0 .. nthreads - 1 |-> CoreOf(k)]
             /\ controlled => nthreads <= Len(mapper)

QueueInv == pushed # None => Session /\ (PlacesWithin => pushed \in Staying)

SystemInv == TablesInv /\ ReadyInv /\ CoresInv /\ SessionInv /\ QueueInv

LEMMA MasksAre ==
  \A m \in Masks : /\ Len(Ascending(m)) \in 1 .. MaxThreads
                   /\ \A a, b \in 1 .. Len(Ascending(m)) :
                        Ascending(m)[a] = Ascending(m)[b] => a = b
<1> SUFFICES ASSUME NEW m \in Masks
             PROVE  /\ Len(Ascending(m)) \in 1 .. MaxThreads
                    /\ \A a, b \in 1 .. Len(Ascending(m)) :
                         Ascending(m)[a] = Ascending(m)[b] => a = b
  OBVIOUS
<1>1. m # {} /\ m \in SUBSET Slots
  BY StartupAssumption
<1>2. IsFiniteSet(Slots) /\ Cardinality(Slots) = MaxThreads
  <2>1. PICK n \in Nat \ {0} : n = MaxThreads
    BY MaxThreadsAssumption
  <2>2. IsFiniteSet(0 .. n - 1) /\ Cardinality(0 .. n - 1) = n
    BY FS_Interval
  <2> QED
    BY <2>1, <2>2 DEF Slots
<1>3. IsFiniteSet(m) /\ Cardinality(m) \in 1 .. MaxThreads
  <2>1. IsFiniteSet(m) /\ Cardinality(m) <= MaxThreads
    BY <1>1, <1>2, FS_Subset
  <2>2. Cardinality(m) \in Nat /\ Cardinality(m) # 0
    BY <1>1, <2>1, FS_CardinalityType, FS_EmptySet
  <2> QED
    BY <2>1, <2>2, MaxThreadsAssumption
<1>4. PICK n \in 1 .. MaxThreads : n = Cardinality(m)
  BY <1>3
<1>5. m \subseteq Int
  BY <1>1 DEF Slots
<1>6. /\ Ascending(m) \in [1 .. n -> m]
      /\ \A a, b \in 1 .. n : Ascending(m)[a] = Ascending(m)[b] => a = b
  BY <1>3, <1>4, <1>5, AscendingLists
<1>7. PICK f \in [1 .. n -> m] : f = Ascending(m)
  BY <1>6
<1>8. n \in Nat
  BY MaxThreadsAssumption
<1>9. Len(f) = n
  BY <1>8
<1> QED
  BY <1>6, <1>7, <1>9

LEMMA SystemInitInv == SystemInit => SystemInv
<1> SUFFICES ASSUME SystemInit PROVE SystemInv
  OBVIOUS
<1>1. TablesInv
  BY TablesInit DEF SystemInit
<1>2. ReadyInv
  BY MaxThreadsAssumption DEF SystemInit, Init, ReadyInv, Slots
<1>3. CoresInv
  BY DEF SystemInit, Init, CoresInv
<1>4. SessionInv /\ QueueInv
  BY DEF SystemInit, SessionInv, QueueInv, Session
<1> QED
  BY <1>1, <1>2, <1>3, <1>4 DEF SystemInv

(* Outside a session there is nothing to keep. *)
LEMMA OutsideSession ==
  ASSUME SystemInv, pins = <<>>, UNCHANGED <<pins, pushed>>
  PROVE  SessionInv' /\ QueueInv'
BY DEF SystemInv, SessionInv, QueueInv, Session

LEMMA KeptByReadArgs == ASSUME SystemInv, NEW a, ReadArgs(a) PROVE SystemInv'
<1>1. TablesInv'
  BY TablesKept DEF SystemInv, ReadArgs, vars, tables
<1>2. ReadyInv'
  BY DEF SystemInv, ReadyInv, ReadArgs, vars, tables, Idle
<1>3. CoresInv'
  BY DEF CoresInv, ReadArgs
<1>4. SessionInv' /\ QueueInv'
  BY OutsideSession DEF ReadArgs, Idle
<1> QED
  BY <1>1, <1>2, <1>3, <1>4 DEF SystemInv

LEMMA KeptBySetMask == ASSUME SystemInv, NEW m \in Masks, SetMask(m) PROVE SystemInv'
<1>1. TablesInv'
  BY TablesKept DEF SystemInv, SetMask, vars, tables
<1>2. ReadyInv'
  BY DEF SystemInv, ReadyInv, SetMask, vars, tables, Cpus
<1>3. CoresInv'
  BY DEF SystemInv, CoresInv, SetMask, vars, tables, Numbers
<1>4. SessionInv' /\ QueueInv'
  BY OutsideSession DEF SetMask, Idle
<1> QED
  BY <1>1, <1>2, <1>3, <1>4 DEF SystemInv

LEMMA KeptByTooMany == ASSUME SystemInv, TooManyThreads PROVE SystemInv'
<1>1. TablesInv'
  BY TablesKept DEF SystemInv, TooManyThreads, tables
<1>2. ReadyInv'
  BY DEF SystemInv, ReadyInv, TooManyThreads, tables, ownVars
<1>3. CoresInv'
  BY DEF SystemInv, CoresInv, TooManyThreads, tables, ownVars
<1>4. SessionInv' /\ QueueInv'
  BY OutsideSession DEF TooManyThreads, Idle, ownVars
<1> QED
  BY <1>1, <1>2, <1>3, <1>4 DEF SystemInv

LEMMA KeptBySymmetric == ASSUME SystemInv, NEW b \in Bases, InitSymmetric(b) PROVE SystemInv'
<1>1. /\ pins = <<>> /\ ~ controlled /\ Asked \in 1 .. MaxThreads /\ DefaultTables(Asked)
      /\ cores' = [k \in 1 .. MaxThreads |-> k - 1]
      /\ base' = b /\ initialized' /\ how' = "default" /\ phase' = "ready"
      /\ UNCHANGED <<controlled, mapper, pins, pushed>>
  BY DEF InitSymmetric, InitDefault, DefaultTables, HwReady, Idle
<1>2. TablesInv'
  BY <1>1, TablesKeptByDefault DEF SystemInv
<1>3. ReadyInv'
  BY <1>1, StartupAssumption DEF ReadyInv
<1>4. CoresInv'
  BY <1>1 DEF CoresInv
<1>5. SessionInv' /\ QueueInv'
  BY <1>1, OutsideSession
<1> QED
  BY <1>2, <1>3, <1>4, <1>5 DEF SystemInv

LEMMA KeptByMask == ASSUME SystemInv, NEW b \in Bases, InitMask(b) PROVE SystemInv'
<1>1. /\ pins = <<>> /\ controlled /\ DefaultTables(Len(mapper)) /\ how' = "mask"
      /\ base' = b /\ initialized' /\ phase' = "ready" /\ nthreads' = Len(mapper)
      /\ parts' = DefaultPartitions(Len(mapper))
      /\ UNCHANGED <<controlled, mapper, pins, pushed>>
  BY DEF InitMask, DefaultTables, HwReady, Idle
<1>2. PICK m \in Masks : mapper = Ascending(m)
  BY <1>1 DEF SystemInv, ReadyInv
<1>3. TablesInv'
  BY <1>1, <1>2, MasksAre, TablesKeptByDefault DEF SystemInv
<1>4. ReadyInv'
  BY <1>1, <1>2, StartupAssumption DEF ReadyInv
<1>5. CoresInv'
  BY <1>1 DEF CoresInv
<1>6. SessionInv' /\ QueueInv'
  BY <1>1, OutsideSession
<1> QED
  BY <1>3, <1>4, <1>5, <1>6 DEF SystemInv

LEMMA KeptByIgnored == ASSUME SystemInv, NEW b \in Bases, InitIgnored(b) PROVE SystemInv'
<1>1. /\ pins = <<>> /\ controlled /\ how' = "ignored" /\ nthreads' = Len(mapper)
      /\ layout' = NoLayout /\ parts' = NoLayout /\ file' = UnreadFile
      /\ base' = b /\ initialized' /\ phase' = "ready"
      /\ UNCHANGED <<lines, current, controlled, mapper, pins, pushed>>
  BY DEF InitIgnored, HwReady, Idle
<1>2. PICK m \in Masks : mapper = Ascending(m)
  BY <1>1 DEF SystemInv, ReadyInv
<1>3. Len(mapper) \in 0 .. MaxThreads
  BY <1>2, MasksAre
<1>4. TablesInv'
  BY <1>1, <1>3, TablesKeptByIgnored DEF SystemInv
<1>5. ReadyInv'
  BY <1>1, <1>2, StartupAssumption DEF ReadyInv
<1>6. CoresInv'
  BY <1>1 DEF CoresInv
<1>7. SessionInv' /\ QueueInv'
  BY <1>1, OutsideSession
<1> QED
  BY <1>4, <1>5, <1>6, <1>7 DEF SystemInv

LEMMA KeptByFile ==
  ASSUME SystemInv, NEW b \in Bases, NEW f \in Files, InitFile(b, f) PROVE SystemInv'
<1>1. /\ pins = <<>> /\ ~ controlled /\ OpenFile(f) /\ how' = "file" /\ file' = f
      /\ current' = -1 /\ base' = b /\ initialized' /\ phase' = "reading"
      /\ UNCHANGED <<controlled, mapper, pins, pushed>>
  BY DEF InitFile, OpenFile, HwReady, Idle
<1>2. TablesInv'
  BY <1>1, TablesKeptByOpen DEF SystemInv
<1>3. ReadyInv'
  BY <1>1, StartupAssumption DEF ReadyInv
<1>4. CoresInv'
  BY <1>1 DEF CoresInv
<1>5. SessionInv' /\ QueueInv'
  BY <1>1, OutsideSession
<1> QED
  BY <1>2, <1>3, <1>4, <1>5 DEF SystemInv

LEMMA KeptByReading == ASSUME SystemInv, Reading PROVE SystemInv'
<1>1. /\ phase = "reading" /\ UNCHANGED <<base, controlled, mapper, initialized, how, pins, pushed, file>>
      /\ phase' \in {"reading", "ready", "exited"}
  BY DEF Reading, ReadCores, ReadWidths, RefuseWidths, CloseFile, ownVars
<1>2. file \in Files /\ how = "file" /\ ~ controlled /\ initialized
  BY <1>1 DEF SystemInv, ReadyInv
<1>3. pins = <<>>
  BY <1>1 DEF SystemInv, SessionInv, Session
<1>4. SessionInv' /\ QueueInv'
  BY <1>1, <1>3, OutsideSession
<1>5. ReadyInv'
  BY <1>1, <1>2 DEF SystemInv, ReadyInv
<1>6. TablesInv'
  <2>1. CASE ReadCores
    BY <1>2, <2>1, TablesKeptByCores DEF SystemInv
  <2>2. CASE ReadWidths
    BY <1>2, <2>2, TablesKeptByWidths DEF SystemInv
  <2>3. CASE RefuseWidths
    BY <2>3, TablesKept DEF SystemInv, RefuseWidths, tables
  <2>4. CASE CloseFile
    BY <1>2, <2>4, TablesKeptByClose DEF SystemInv
  <2> QED
    BY <2>1, <2>2, <2>3, <2>4 DEF Reading
<1>7. CoresInv'
  <2>1. CASE ReadCores
    <3>1. /\ nthreads' = Len(Numbers(file.cpus))
          /\ \A k \in 1 .. nthreads' : cores'[k] = file.cpus[k]
      BY <1>2, <2>1, TablesKeptByCores DEF SystemInv
    <3>2. Numbers(file.cpus)' = Numbers(file.cpus)
      BY <1>1 DEF Numbers
    <3> QED
      BY <1>1, <1>2, <3>1, <3>2 DEF CoresInv
  <2>2. CASE ~ ReadCores
    <3>1. current >= 0 /\ UNCHANGED <<nthreads, cores>>
      BY <2>2 DEF Reading, ReadWidths, RefuseWidths, CloseFile
    <3>2. Numbers(file.cpus)' = Numbers(file.cpus)
      BY <1>1 DEF Numbers
    <3>3. /\ nthreads = Len(Numbers(file.cpus))
          /\ \A k \in 1 .. nthreads : cores[k] = file.cpus[k]
      BY <1>1, <1>2, <3>1 DEF SystemInv, CoresInv
    <3> QED
      BY <1>1, <1>2, <3>1, <3>2, <3>3 DEF CoresInv
  <2> QED
    BY <2>1, <2>2
<1> QED
  BY <1>4, <1>5, <1>6, <1>7 DEF SystemInv

LEMMA QuietVars ==
  ASSUME SystemInv,
         UNCHANGED <<vars, mapper, base, initialized, how>>, controlled' = controlled \/ ~ controlled'
  PROVE  TablesInv' /\ ReadyInv' /\ CoresInv'
<1>1. TablesInv'
  BY TablesKept DEF SystemInv, vars, tables
<1>2. ReadyInv'
  BY DEF SystemInv, ReadyInv, vars, tables
<1>3. CoresInv'
  BY DEF SystemInv, CoresInv, vars, tables, Numbers
<1> QED
  BY <1>1, <1>2, <1>3

LEMMA KeptByStart == ASSUME SystemInv, Start PROVE SystemInv'
<1>1. TablesInv' /\ ReadyInv' /\ CoresInv'
  BY QuietVars DEF Start
<1>2. SessionInv'
  BY DEF Start, SessionInv, CoreOf, Starting, vars, tables
<1>3. QueueInv'
  <2>1. pushed = None /\ pushed' = pushed
    BY DEF SystemInv, QueueInv, Session, Start, Idle
  <2> QED
    BY <2>1 DEF QueueInv
<1> QED
  BY <1>1, <1>2, <1>3 DEF SystemInv

LEMMA KeptByFini == ASSUME SystemInv, Fini PROVE SystemInv'
<1>1. TablesInv' /\ ReadyInv' /\ CoresInv'
  BY QuietVars DEF Fini
<1>2. SessionInv' /\ QueueInv'
  BY DEF Fini, SessionInv, QueueInv, Session
<1> QED
  BY <1>1, <1>2 DEF SystemInv

(* Searching on from any queue, xitao_push finds one whose worker has stayed. *)
LEMMA ChosenStays ==
  ASSUME SystemInv, Session, PlacesWithin, NEW q \in Slots, NEW r \in Chosen(q)
  PROVE  r \in Staying
<1>1. /\ phase = "ready" /\ DOMAIN pins = 0 .. nthreads - 1
      /\ nthreads \in Nat /\ q \in Nat /\ 0 .. nthreads - 1 \subseteq Slots
  <2>1. pins = [k \in 0 .. nthreads - 1 |-> CoreOf(k)] /\ phase = "ready"
    BY DEF SystemInv, SessionInv
  <2>2. nthreads \in 0 .. MaxThreads
    BY DEF SystemInv, TablesInv, TypesInv
  <2>3. q \in Nat /\ nthreads \in Nat /\ 0 .. nthreads - 1 \subseteq Slots
    BY <2>2, MaxThreadsAssumption DEF Slots
  <2> QED
    BY <2>1, <2>3
<1>2. CASE controlled
  <2>1. nthreads = Len(mapper) /\ (parts = NoLayout \/ parts = DefaultPartitions(nthreads))
    BY <1>1, <1>2 DEF SystemInv, ReadyInv
  <2>2. PICK k \in 0 .. nthreads - 1 : parts[k] # <<>>
    BY <1>1 DEF PlacesWithin, Staying
  <2>3. k \in Slots /\ nthreads \in 1 .. MaxThreads
    <3>1. k \in Slots
      BY <1>1
    <3>2. nthreads \in 1 .. MaxThreads
      BY <1>1, MaxThreadsAssumption DEF SystemInv, TablesInv, TypesInv
    <3> QED
      BY <3>1, <3>2
  <2>4. parts = DefaultPartitions(nthreads)
    BY <2>1, <2>2, <2>3, NoLayoutIs
  <2>5. Divisors(nthreads) # {}
    BY <2>2, <2>3, <2>4, DefaultPlaces
  <2>6. \A i \in 0 .. nthreads - 1 : parts[i] # <<>>
    BY <2>3, <2>4, <2>5, DefaultPlaces
  <2>7. r \in 0 .. nthreads - 1
    BY <1>1, <1>2, <2>1 DEF Chosen
  <2> QED
    BY <1>1, <2>6, <2>7 DEF Staying
<1>3. CASE ~ controlled /\ parts[q] # <<>>
  <2>1. r = q /\ q < nthreads
    BY <1>3 DEF Chosen, PlacesWithin
  <2> QED
    BY <1>1, <1>3, <2>1 DEF Staying
<1>4. CASE ~ controlled /\ parts[q] = <<>>
  <2> DEFINE After(d) == (q + d) % nthreads
             First(d) == parts[After(d)] # <<>> /\ \A c \in 1 .. d - 1 : parts[After(c)] = <<>>
             D == {d \in 1 .. nthreads : parts[After(d)] # <<>>}
  <2>1. PICK k \in 0 .. nthreads - 1 : parts[k] # <<>>
    BY <1>1 DEF PlacesWithin, Staying
  <2>2. PICK n \in Nat \ {0} : n = nthreads
    BY <1>1
  <2>3. \A d \in Nat : After(d) \in 0 .. n - 1
    <3>1. \A d \in Nat : q + d \in Nat
      BY <1>1
    <3> QED
      BY <2>2, <3>1, Quotient
  <2>4. \E d \in 1 .. n : After(d) = k
    <3>1. PICK m \in 0 .. n - 1 : m = q % n
      BY <1>1, <2>2, Quotient
    <3>2. PICK p \in Nat : q = n * p + m
      BY <1>1, <2>2, <3>1, Quotient
    <3>3. PICK d \in 1 .. n : m + d = k \/ m + d = k + n
      <4>1. CASE m < k
        <5>1. k - m \in 1 .. n /\ m + (k - m) = k
          BY <2>1, <2>2, <3>1, <4>1
        <5> QED
          BY <5>1
      <4>2. CASE ~ (m < k)
        <5>1. k + n - m \in 1 .. n /\ m + (k + n - m) = k + n
          BY <2>1, <2>2, <3>1, <4>2
        <5> QED
          BY <5>1
      <4> QED
        BY <4>1, <4>2
    <3>4. PICK t \in Nat : q + d = n * t + k
      <4>1. CASE m + d = k
        <5>1. n * p \in Nat /\ q + d = n * p + k
          BY <2>1, <3>2, <3>3, <4>1
        <5> QED
          BY <5>1
      <4>2. CASE m + d = k + n
        <5>1. n * p \in Nat /\ n * (p + 1) = n * p + n
          BY <3>2
        <5>2. q + d = n * (p + 1) + k
          BY <1>1, <2>1, <3>2, <3>3, <4>2, <5>1
        <5>3. p + 1 \in Nat
          BY <3>2
        <5> QED
          BY <5>2, <5>3
      <4> QED
        BY <3>3, <4>1, <4>2
    <3>5. (n * t + k) % n = k
      BY <2>1, <2>2
    <3> QED
      BY <2>2, <3>4, <3>5
  <2>5. PICK d \in D : \A c \in D : d <= c
    <3>1. D # {} /\ D \subseteq Nat
      BY <2>1, <2>2, <2>4
    <3> HIDE DEF D
    <3> QED
      BY <3>1, Least
  <2>6. d \in 1 .. nthreads /\ First(d)
    <3>1. d \in 1 .. n /\ parts[After(d)] # <<>>
      BY <2>2, <2>5
    <3>2. \A c \in 1 .. d - 1 : c \in 1 .. n /\ ~ (d <= c)
      BY <2>2, <3>1
    <3>3. \A c \in 1 .. d - 1 : parts[After(c)] = <<>>
      <4> HIDE DEF After
      <4> QED
        BY <2>2, <2>5, <3>2
    <3> QED
      BY <2>2, <3>1, <3>3
  <2>7. PICK e : e = CHOOSE d_1 \in 1 .. nthreads : First(d_1)
    OBVIOUS
  <2>8. e \in 1 .. nthreads /\ First(e)
    <3> HIDE DEF First
    <3> QED
      BY <2>6, <2>7
  <2>9. r = After(e)
    <3>1. Chosen(q) = {After(e)}
      BY <1>4, <2>7 DEF Chosen
    <3> QED
      BY <3>1
  <2>10. e \in Nat
    BY <2>2, <2>8
  <2>11. r \in 0 .. nthreads - 1
    BY <2>2, <2>3, <2>9, <2>10
  <2> QED
    BY <1>1, <2>8, <2>9, <2>11 DEF Staying
<1> QED
  BY <1>2, <1>3, <1>4

LEMMA KeptByPush ==
  ASSUME SystemInv, NEW queue \in Slots \union {None}, NEW affinity \in Slots \union {None},
         NEW cpu \in Slots, Push(queue, affinity, cpu)
  PROVE  SystemInv'
<1>1. TablesInv' /\ ReadyInv' /\ CoresInv'
  BY QuietVars DEF Push
<1>2. UNCHANGED <<phase, nthreads, parts, cores, controlled, mapper, base, how, pins>> /\ Session
  BY DEF Push, vars, tables
<1>3. SessionInv'
  BY <1>2 DEF SystemInv, SessionInv, Session, Starting, CoreOf
<1>4. QueueInv'
  <2>1. PICK q : q = Wanted(queue, affinity, cpu)
    OBVIOUS
  <2>2. q \in Slots
    BY <2>1 DEF Wanted
  <2>3. PICK r \in Chosen(q) : pushed' = r
    BY <2>1 DEF Push
  <2>4. PlacesWithin => r \in Staying
    BY <1>2, <2>2, ChosenStays
  <2>5. (PlacesWithin <=> PlacesWithin') /\ Staying' = Staying /\ Session'
    BY <1>2 DEF PlacesWithin, Staying, Session
  <2> QED
    BY <2>3, <2>4, <2>5 DEF QueueInv
<1> QED
  BY <1>1, <1>3, <1>4 DEF SystemInv

LEMMA SystemStep == SystemInv /\ [SystemNext]_startupVars => SystemInv'
<1> SUFFICES ASSUME SystemInv, [SystemNext]_startupVars PROVE SystemInv'
  OBVIOUS
<1>1. CASE UNCHANGED startupVars
  <2>1. /\ UNCHANGED <<vars, conf, optind, controlled, mapper, base, initialized, how, pins, pushed>>
        /\ UNCHANGED <<phase, nthreads, parts, cores>>
    BY <1>1 DEF startupVars, ownVars, vars, tables
  <2>2. TablesInv' /\ ReadyInv' /\ CoresInv'
    BY <2>1, QuietVars
  <2>3. SessionInv' /\ QueueInv'
    BY <2>1 DEF SystemInv, SessionInv, QueueInv, Session, Starting, CoreOf, PlacesWithin, Staying
  <2> QED
    BY <2>2, <2>3 DEF SystemInv
<1>2. CASE SystemNext
  BY <1>2, KeptByReadArgs, KeptBySetMask, KeptByTooMany, KeptBySymmetric, KeptByMask, KeptByIgnored,
     KeptByFile, KeptByReading, KeptByStart, KeptByFini, KeptByPush DEF SystemNext
<1> QED
  BY <1>1, <1>2

THEOREM StartupInvariant == SystemSpec => []SystemInv
<1>1. SystemInit => SystemInv
  BY SystemInitInv
<1>2. SystemInv /\ [SystemNext]_startupVars => SystemInv'
  BY SystemStep
<1> QED
  BY <1>1, <1>2, PTL DEF SystemSpec

-----------------------------------------------------------------------------
(* Both tables always describe the same places: read_layout_table and            *)
(* prepare_default_layout enter a width of a leader into the list of exactly the  *)
(* workers it spans, as often as it is in the leader's own list.                  *)
THEOREM TablesStayAlike == SystemSpec => []TablesAgree
<1>1. SystemInv => TablesAgree
  BY DEF SystemInv, TablesInv
<1> QED
  BY <1>1, StartupInvariant, PTL

(* A default layout is symmetric: every worker is in one place of each width that *)
(* divides the number of threads (the square root excepted), and none goes beyond *)
(* the last worker.                                                               *)
THEOREM DefaultsAreSymmetric == SystemSpec => []DefaultIsSymmetric
<1>1. SystemInv => DefaultIsSymmetric
  <2> SUFFICES ASSUME SystemInv, phase = "ready", file = NoFile, NEW i \in 0 .. nthreads - 1
               PROVE  /\ ToSet(parts[i]) = {<<i - (i % d), d>> : d \in Divisors(nthreads)}
                      /\ \A d \in Divisors(nthreads) : i - (i % d) + d <= nthreads
    BY DEF DefaultIsSymmetric
  <2>1. nthreads \in 1 .. MaxThreads /\ parts = DefaultPartitions(nthreads)
    BY DEF SystemInv, TablesInv, DefaultInv
  <2>2. PICK n \in 1 .. MaxThreads : n = nthreads
    BY <2>1
  <2>3. n \in Nat
    BY MaxThreadsAssumption
  <2>4. ToSet(DefaultPartitions(n)[i]) = {<<i - (i % d), d>> : d \in Divisors(n)}
    BY <2>2, DefaultPlaces
  <2>5. \A d \in Divisors(n) : i - (i % d) + d <= n
    BY <2>2, <2>3, PlaceOf
  <2> QED
    BY <2>1, <2>2, <2>4, <2>5
<1> QED
  BY <1>1, StartupInvariant, PTL

(* What a layout file with commas allows each worker is what its line says, and   *)
(* nothing of an earlier layout.                                                  *)
THEOREM FilesAreObeyed == SystemSpec => []FileIsLayout
<1>1. SystemInv => FileIsLayout
  <2> SUFFICES ASSUME SystemInv, phase = "ready", file # NoFile, file.commas, NEW l \in Slots
               PROVE  layout[l] = IF l < Len(file.widths) THEN file.widths[l + 1] ELSE <<>>
    BY DEF FileIsLayout
  <2>1. file \in Files
    BY FilesAre DEF SystemInv, TablesInv, TypesInv
  <2>2. current >= 0 /\ lines = <<>> /\ ReadSoFar(IF current < 0 THEN 0 ELSE current) /\ current \in Int
    BY <2>1 DEF SystemInv, TablesInv, FileInv, TypesInv
  <2>3. ReadSoFar(current)
    <3>1. ~ (current < 0)
      BY <2>2
    <3> QED
      BY <2>2, <3>1
  <2>4. Len(file.widths) = current
    <3>1. Len(lines) = 0
      BY <2>2
    <3> QED
      BY <2>2, <2>3, <3>1 DEF ReadSoFar
  <2> QED
    BY <2>3, <2>4 DEF ReadSoFar
<1> QED
  BY <1>1, StartupInvariant, PTL

(* Workers do not share a core, with a mask, a default layout whose base leaves   *)
(* room, or a file that names each core once.                                     *)
THEOREM WorkersHaveCores == SystemSpec => []OneWorkerPerCore
<1>1. SystemInv => OneWorkerPerCore
  <2> SUFFICES ASSUME SystemInv, Session, EnoughCores,
                      NEW x \in DOMAIN pins, NEW y \in DOMAIN pins, pins[x] = pins[y]
               PROVE  x = y
    BY DEF OneWorkerPerCore, Injective
  <2>1. /\ phase = "ready" /\ how # "options"
        /\ controlled => nthreads <= Len(mapper)
        /\ DOMAIN pins = 0 .. nthreads - 1 /\ \A k \in 0 .. nthreads - 1 : pins[k] = CoreOf(k)
    BY DEF SystemInv, SessionInv, Starting
  <2>2. nthreads \in Nat /\ nthreads <= MaxThreads /\ MaxThreads \in Nat \ {0}
    BY MaxThreadsAssumption DEF SystemInv, TablesInv, TypesInv
  <2>3. x \in 0 .. nthreads - 1 /\ y \in 0 .. nthreads - 1 /\ CoreOf(x) = CoreOf(y)
    BY <2>1
  <2>4. CASE controlled
    <3>1. PICK m \in Masks : mapper = Ascending(m)
      BY <2>4 DEF SystemInv, ReadyInv
    <3>2. mapper[x + 1] = mapper[y + 1]
      BY <2>3, <2>4 DEF CoreOf
    <3>3. Len(mapper) \in Nat /\ nthreads <= Len(mapper)
      BY <2>1, <2>4, <3>1, MasksAre, MaxThreadsAssumption
    <3>4. x + 1 \in 1 .. Len(mapper) /\ y + 1 \in 1 .. Len(mapper)
      BY <2>2, <2>3, <3>3
    <3>5. x + 1 = y + 1
      BY <3>1, <3>2, <3>4, MasksAre
    <3> QED
      BY <2>2, <2>3, <3>5
  <2>5. CASE ~ controlled
    <3>1. how \in {"default", "file"}
      BY <2>1, <2>5 DEF SystemInv, CoresInv, EnoughCores
    <3>2. base \in Slots /\ base \in Nat /\ base < MaxThreads
      BY <2>2 DEF SystemInv, ReadyInv, Slots
    <3>3. base + nthreads <= MaxThreads
      BY <2>2, <3>1 DEF EnoughCores
    <3>4. ASSUME NEW k \in 0 .. nthreads - 1 PROVE CoreOf(k) = cores[base + k + 1]
      <4>1. k % (MaxThreads - base) = k
        <5>1. MaxThreads - base \in Nat \ {0} /\ k \in Nat /\ k < MaxThreads - base
          BY <2>2, <3>2, <3>3
        <5>2. PICK v \in Nat \ {0} : v = MaxThreads - base
          BY <5>1
        <5>3. k % v = k
          BY <5>1, <5>2
        <5> QED
          BY <5>2, <5>3
      <4> QED
        BY <2>5, <4>1 DEF CoreOf
    <3>5. cores[base + x + 1] = cores[base + y + 1]
      BY <2>3, <3>4
    <3>6. CASE how = "default"
      <4>1. \A k \in 1 .. MaxThreads : cores[k] = k - 1
        BY <3>6 DEF SystemInv, CoresInv
      <4>2. base + x + 1 \in 1 .. MaxThreads /\ base + y + 1 \in 1 .. MaxThreads
        BY <2>2, <2>3, <3>2, <3>3
      <4>3. (base + x + 1) - 1 = (base + y + 1) - 1
        BY <3>5, <4>1, <4>2
      <4> QED
        BY <2>2, <2>3, <3>2, <4>3
    <3>7. CASE how = "file"
      <4>1. base = 0 /\ Injective(file.cpus)
        BY <3>7 DEF EnoughCores
      <4>2. file \in Files /\ current >= 0
        BY <2>1, <3>7 DEF SystemInv, CoresInv, TablesInv, FileInv
      <4>3. nthreads = Len(Numbers(file.cpus)) /\ \A k \in 1 .. nthreads : cores[k] = file.cpus[k]
        BY <2>1, <3>7, <4>2 DEF SystemInv, CoresInv
      <4>4. x + 1 \in 1 .. nthreads /\ y + 1 \in 1 .. nthreads /\ 0 + x + 1 = x + 1 /\ 0 + y + 1 = y + 1
        BY <2>2, <2>3
      <4>5. file.cpus[x + 1] = file.cpus[y + 1]
        BY <3>5, <4>1, <4>3, <4>4
      <4>6. PICK s \in Seq(Nat) : s = file.cpus
        BY <4>2, FilesAre
      <4>7. nthreads <= Len(s)
        BY <4>3, <4>6, NumbersAre
      <4>8. x + 1 \in DOMAIN s /\ y + 1 \in DOMAIN s
        BY <2>2, <4>4, <4>7
      <4>9. x + 1 = y + 1
        BY <4>1, <4>5, <4>6, <4>8 DEF Injective
      <4> QED
        BY <2>2, <2>3, <4>9
    <3> QED
      BY <3>1, <3>6, <3>7
  <2> QED
    BY <2>4, <2>5
<1> QED
  BY <1>1, StartupInvariant, PTL

(* A task that is pushed, wherever from and whatever its affinity, lands in the   *)
(* queue of a worker that has stayed in worker_loop.                              *)
THEOREM TasksFindWorkers == SystemSpec => []PushedToWorker
<1>1. SystemInv => PushedToWorker
  BY DEF SystemInv, QueueInv, PushedToWorker
<1> QED
  BY <1>1, StartupInvariant, PTL

=============================================================================
