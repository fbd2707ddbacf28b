-------------------------- MODULE Placement_proofs --------------------------
(***************************************************************************)
(* Proof that the shortcut of history_mold_locally is taken only with a      *)
(* width, for any layout and any number of workers that share a table.       *)
(*                                                                           *)
(* The two fields of the table are written one after the other and without   *)
(* a lock, so that SettledOnWidth needs to know where cont_choices may come  *)
(* from: it is increased by workers that have found their width in           *)
(* last_width, and last_width, once it is a width, never is anything else.   *)
(*                                                                           *)
(* And that tasks get places the layout allows, for a layout as regular as   *)
(* the default one, and any interleaving of the workers.                     *)
(***************************************************************************)
EXTENDS Placement, TLAPS

(* the places in the code *)
Label == {"idle", "unmolded", "mold", "settled", "settling", "search", "compare",
          "increment", "reset", "store", "placed"}

(* where a worker holds the choice of a search, and where it relies on a
   width in the table *)
Choosing == {"compare", "increment", "reset", "store"}
Relying == {"increment", "settled", "settling"}

(* The inductive invariant. *)
SettleInv ==
  /\ pc \in [Molders -> Label]
  /\ choice \in [Molders -> Place]
  /\ count \in [Molders -> Nat]
  /\ contChoices \in Nat
  /\ lastWidth \in Int
  /\ contChoices > 0 => lastWidth > 0
  /\ \A w \in Molders : pc[w] \in Choosing => choice[w].width > 0
  /\ \A w \in Molders : pc[w] \in Relying => lastWidth > 0

(* Nobody has chosen yet. *)
LEMMA InitSettle == Init => SettleInv
<1> SUFFICES ASSUME Init PROVE SettleInv
  OBVIOUS
<1>1. /\ lastWidth = -1 /\ contChoices = 0
      /\ pc = [w \in Molders |-> "idle"]
      /\ choice = [w \in Molders |-> NoChoice]
      /\ count = [w \in Molders |-> 0]
  BY DEF Init
<1>2. NoChoice \in Place
  BY DEF NoChoice, Place
<1>3. /\ pc \in [Molders -> Label] /\ choice \in [Molders -> Place]
      /\ count \in [Molders -> Nat] /\ contChoices \in Nat /\ lastWidth \in Int
  BY <1>1, <1>2 DEF Label
<1>4. \A w \in Molders : pc[w] \notin Choosing /\ pc[w] \notin Relying
  BY <1>1 DEF Choosing, Relying
<1> QED
  BY <1>1, <1>3, <1>4 DEF SettleInv

(* Every place a search may return has a width. *)
LEMMA PlacesHaveWidth ==
  /\ \A p \in Layout : p \in Place /\ p.width > 0
  /\ NoChoice \in Place /\ NoChoice.width > 0
  BY NThreadsAssumption DEF Layout, Place, Worker, NoChoice

(* Workers are numbers. *)
LEMMA MolderIsNat == ASSUME NEW w \in Molders PROVE w \in Nat
  BY MoldersAssumption, NThreadsAssumption DEF Worker

(* A step of w to label, with place p, keeps the invariant if the table keeps a
   width it has, if p has a width where w holds a choice, and the table one where w
   relies on it. *)
LEMMA Move ==
  ASSUME SettleInv, NEW w \in Molders, NEW label \in Label, NEW p \in Place,
         pc' = [pc EXCEPT ![w] = label],
         choice' = [choice EXCEPT ![w] = p],
         count' \in [Molders -> Nat], contChoices' \in Nat, lastWidth' \in Int,
         contChoices' > 0 => lastWidth' > 0,
         lastWidth > 0 => lastWidth' > 0,
         label \in Choosing => p.width > 0,
         label \in Relying => lastWidth' > 0
  PROVE  SettleInv'
<1>1. pc' \in [Molders -> Label] /\ choice' \in [Molders -> Place]
  BY DEF SettleInv
<1>2. ASSUME NEW u \in Molders, pc'[u] \in Choosing
      PROVE  choice'[u].width > 0
  <2>1. CASE u = w
    <3>1. pc'[u] = label /\ choice'[u] = p
      BY <2>1 DEF SettleInv
    <3> QED
      BY <3>1, <1>2
  <2>2. CASE u # w
    <3>1. pc'[u] = pc[u] /\ choice'[u] = choice[u]
      BY <2>2 DEF SettleInv
    <3> QED
      BY <3>1, <1>2 DEF SettleInv
  <2> QED
    BY <2>1, <2>2
<1>3. ASSUME NEW u \in Molders, pc'[u] \in Relying
      PROVE  lastWidth' > 0
  <2>1. CASE u = w
    <3>1. pc'[u] = label
      BY <2>1 DEF SettleInv
    <3> QED
      BY <3>1, <1>3
  <2>2. CASE u # w
    <3>1. pc'[u] = pc[u]
      BY <2>2 DEF SettleInv
    <3>2. lastWidth > 0
      BY <3>1, <1>3 DEF SettleInv
    <3> QED
      BY <3>2
  <2> QED
    BY <2>1, <2>2
<1> QED
  BY <1>1, <1>2, <1>3 DEF SettleInv

(* such a step that leaves the table alone *)
LEMMA ReadingMove ==
  ASSUME SettleInv, NEW w \in Molders, NEW label \in Label, NEW p \in Place,
         pc' = [pc EXCEPT ![w] = label],
         choice' = [choice EXCEPT ![w] = p],
         count' \in [Molders -> Nat], contChoices' = contChoices, lastWidth' = lastWidth,
         label \in Choosing => p.width > 0,
         label \in Relying => lastWidth > 0
  PROVE  SettleInv'
<1>1. /\ contChoices' \in Nat /\ lastWidth' \in Int
      /\ contChoices' > 0 => lastWidth' > 0
      /\ lastWidth > 0 => lastWidth' > 0
  BY DEF SettleInv
<1> QED
  BY <1>1, Move

(* and one that leaves w its place, too *)
LEMMA QuietMove ==
  ASSUME SettleInv, NEW w \in Molders, NEW label \in Label,
         pc' = [pc EXCEPT ![w] = label],
         UNCHANGED <<choice, lastWidth, contChoices>>,
         count' \in [Molders -> Nat],
         label \in Choosing => choice[w].width > 0,
         label \in Relying => lastWidth > 0
  PROVE  SettleInv'
<1>1. choice' = [choice EXCEPT ![w] = choice[w]] /\ choice[w] \in Place
  BY DEF SettleInv
<1> QED
  BY <1>1, ReadingMove

(* Every step of a worker is one of these moves. *)
LEMMA StepSettle == SettleInv /\ [Next]_vars => SettleInv'
<1> SUFFICES ASSUME SettleInv, [Next]_vars PROVE SettleInv'
  OBVIOUS
<1>1. CASE UNCHANGED vars
  BY <1>1 DEF SettleInv, vars, ptt
<1>2. CASE Next
  <2> PICK w \in Molders : Step(w)
    BY <1>2 DEF Next
  <2>0. /\ w \in Nat /\ choice[w] \in Place
        /\ count \in [Molders -> Nat] /\ lastWidth \in Int /\ contChoices \in Nat
    BY MolderIsNat DEF SettleInv
  <2> USE DEF Goto, ptt
  <2>1. CASE Take(w)
    <3>1. CASE modeling
      BY <2>0, <2>1, <3>1, QuietMove DEF Take, Label, Choosing, Relying
    <3>2. CASE ~ modeling
      BY <2>0, <2>1, <3>2, QuietMove DEF Take, Label, Choosing, Relying
    <3> QED
      BY <3>1, <3>2
  <2>2. CASE TestSettled(w)
    <3>1. CASE contChoices >= SettleAfter
      <4>1. lastWidth > 0
        BY <2>0, <3>1, SettleAssumption DEF SettleInv
      <4> QED
        BY <2>0, <2>2, <3>1, <4>1, QuietMove DEF TestSettled, Label, Choosing
    <3>2. CASE ~ contChoices >= SettleAfter
      BY <2>0, <2>2, <3>2, QuietMove DEF TestSettled, Label, Choosing, Relying
    <3> QED
      BY <3>1, <3>2
  <2>3. CASE SettleLeader(w)
    <3>1. lastWidth > 0
      BY <2>3 DEF SettleLeader, SettleInv, Relying
    <3> DEFINE p == [leader |-> w - (w % lastWidth), width |-> lastWidth]
    <3>2. choice' = [choice EXCEPT ![w] = p]
      BY <2>3, <3>1 DEF SettleLeader
    <3>3. p \in Place
      BY <2>0, <3>1 DEF Place
    <3> HIDE DEF p
    <3> QED
      BY <2>0, <2>3, <3>1, <3>2, <3>3, ReadingMove DEF SettleLeader, Label, Choosing
  <2>4. CASE SettleWidth(w)
    <3> DEFINE p == [choice[w] EXCEPT !.width = lastWidth]
    <3>1. p \in Place
      BY <2>0 DEF Place
    <3>2. choice' = [choice EXCEPT ![w] = p]
      BY <2>0, <2>4 DEF SettleWidth, SettleInv
    <3> HIDE DEF p
    <3> QED
      BY <2>0, <2>4, <3>1, <3>2, ReadingMove DEF SettleWidth, Label, Choosing, Relying
  <2>5. CASE Search(w)
    <3>1. PICK p \in Layout \union {NoChoice} : choice' = [choice EXCEPT ![w] = p]
      BY <2>5 DEF Search, Candidates, Partitions
    <3>2. p \in Place /\ p.width > 0
      BY PlacesHaveWidth
    <3> QED
      BY <2>0, <2>5, <3>1, <3>2, ReadingMove DEF Search, Label, Relying
  <2>6. CASE Refresh(w)
    <3>1. PICK p \in Layout \union {[leader |-> w, width |-> 1]} :
            choice' = [choice EXCEPT ![w] = p]
      BY <2>6 DEF Refresh, Partitions
    <3>2. p \in Place
      BY <2>0, PlacesHaveWidth DEF Place
    <3> QED
      BY <2>0, <2>6, <3>1, <3>2, ReadingMove DEF Refresh, Label, Choosing, Relying
  <2>7. CASE CompareSame(w)
    <3>1. choice[w].width > 0 /\ lastWidth = choice[w].width
      BY <2>7 DEF CompareSame, SettleInv, Choosing
    <3>2. count' \in [Molders -> Nat]
      BY <2>0, <2>7 DEF CompareSame
    <3> QED
      BY <2>7, <3>1, <3>2, QuietMove DEF CompareSame, Label
  <2>8. CASE Increment(w)
    <3>1. lastWidth > 0 /\ lastWidth' = lastWidth /\ choice[w].width > 0
      BY <2>8 DEF Increment, SettleInv, Relying, Choosing
    <3>2. contChoices' \in Nat /\ count' \in [Molders -> Nat]
      BY <2>0, <2>8 DEF Increment
    <3>3. choice' = [choice EXCEPT ![w] = choice[w]]
      BY <2>8 DEF Increment, SettleInv
    <3>4. /\ pc' = [pc EXCEPT ![w] = "store"]
          /\ "store" \in Label /\ "store" \notin Relying
      BY <2>8 DEF Increment, Label, Relying
    <3> QED
      BY <2>0, <3>1, <3>2, <3>3, <3>4, Move
  <2>9. CASE CompareOther(w)
    <3>1. choice[w].width > 0
      BY <2>9 DEF CompareOther, SettleInv, Choosing
    <3> QED
      BY <2>0, <2>9, <3>1, QuietMove DEF CompareOther, Label, Relying
  <2>10. CASE Reset(w)
    <3>1. choice[w].width > 0 /\ choice' = [choice EXCEPT ![w] = choice[w]]
      BY <2>10 DEF Reset, SettleInv, Choosing
    <3>2. /\ contChoices' \in Nat /\ ~ contChoices' > 0
          /\ lastWidth' = lastWidth /\ lastWidth' \in Int
      BY <2>0, <2>10 DEF Reset
    <3>3. count' \in [Molders -> Nat] /\ pc' = [pc EXCEPT ![w] = "store"]
      BY <2>0, <2>10 DEF Reset
    <3>4. "store" \in Label /\ "store" \notin Relying
      BY DEF Label, Relying
    <3> QED
      BY <2>0, <3>1, <3>2, <3>3, <3>4, Move
  <2>11. CASE CompareFirst(w)
    <3>1. choice[w].width > 0
      BY <2>11 DEF CompareFirst, SettleInv, Choosing
    <3> QED
      BY <2>0, <2>11, <3>1, QuietMove DEF CompareFirst, Label, Relying
  <2>12. CASE Store(w)
    <3>1. choice[w].width > 0 /\ choice' = [choice EXCEPT ![w] = choice[w]]
      BY <2>12 DEF Store, SettleInv, Choosing
    <3>2. /\ lastWidth' = choice[w].width /\ lastWidth' \in Int
          /\ contChoices' = contChoices
      BY <2>0, <2>12 DEF Store, Place
    <3>3. PICK label \in {"unmolded", "placed"} : pc' = [pc EXCEPT ![w] = label]
      BY <2>12 DEF Store, Finish
    <3>4. label \in Label /\ label \notin Choosing /\ label \notin Relying
      BY DEF Label, Choosing, Relying
    <3> QED
      BY <2>0, <2>12, <3>1, <3>2, <3>3, <3>4, Move DEF Store
  <2>13. CASE GlobalSearch(w)
    <3>1. PICK p \in Layout \union {NoChoice} : choice' = [choice EXCEPT ![w] = p]
      BY <2>13 DEF GlobalSearch, Candidates
    <3>2. p \in Place
      BY PlacesHaveWidth
    <3> QED
      BY <2>0, <2>13, <3>1, <3>2, ReadingMove DEF GlobalSearch, Label, Choosing, Relying
  <2>14. ASSUME NEW v \in GivenWidths, DefaultLeader(w, v) PROVE SettleInv'
    <3> DEFINE p == [leader |-> (w \div v) * v, width |-> v]
    <3>1. p \in Place
      BY <2>0, GivenAssumption DEF Place
    <3>2. choice' = [choice EXCEPT ![w] = p]
      BY <2>14 DEF DefaultLeader
    <3> HIDE DEF p
    <3> QED
      BY <2>0, <2>14, <3>1, <3>2, ReadingMove DEF DefaultLeader, Label, Choosing, Relying
  <2>15. CASE Insert(w)
    <3>1. NoChoice \in Place
      BY PlacesHaveWidth
    <3> QED
      BY <2>0, <2>15, <3>1, ReadingMove DEF Insert, Label, Choosing, Relying
  <2> QED
    BY <2>1, <2>2, <2>3, <2>4, <2>5, <2>6, <2>7, <2>8, <2>9, <2>10, <2>11, <2>12,
       <2>13, <2>14, <2>15 DEF Step, Mold
<1> QED
  BY <1>1, <1>2

(* The shortcut of history_mold_locally divides by last_width only when that is a
   width, in whatever order the workers write the two fields of the table. *)
THEOREM ShortcutHasWidth == Spec => []SettledOnWidth
<1>1. SettleInv => SettledOnWidth
  BY DEF SettleInv, SettledOnWidth, Relying
<1> QED
  BY <1>1, InitSettle, StepSettle, PTL DEF Spec
-----------------------------------------------------------------------------
(* Where the choices lie.                                                    *)

(* The layout allows width 1 everywhere, and a width that is allowed somewhere
   at each of its multiples, as the shortcut takes for granted. *)
Regular ==
  /\ \A l \in Worker : 1 \in Widths[l]
  /\ \A l, w \in Worker : \A v \in Widths[l] : v \in Widths[w - (w % v)]

(* The widths the program gives divide the machine. *)
GivenDivide == \A v \in GivenWidths : NThreads % v = 0

(* the layout of prepare_default_layout *)
DefaultWidths ==
  [l \in Worker |->
     {v \in 1 .. NThreads : NThreads % v = 0 /\ v * v # NThreads /\ l % v = 0}]

(* the widths of the layout *)
Known == UNION {Widths[l] : l \in Worker}

(* where a worker is in history_mold_locally *)
Molding == {"mold", "settled", "settling", "search"} \union Choosing

(* What a worker knows of the place it chooses. *)
Right(w) ==
  /\ pc[w] \in Molding => modeling
  /\ pc[w] = "unmolded" => ~ modeling
  /\ pc[w] \in Choosing => choice[w] \in Layout
  /\ pc[w] = "settling" =>
       choice[w].width \in Known /\ choice[w].leader = w - (w % choice[w].width)
  /\ pc[w] = "placed" /\ ~ torn[w] =>
       IF modeling THEN choice[w] \in Layout
       ELSE Members(choice[w]) \subseteq Worker /\ w \in Members(choice[w])

(* The inductive invariant of the places. *)
AllowedInv ==
  /\ SettleInv
  /\ torn \in [Molders -> BOOLEAN]
  /\ lastWidth > 0 => lastWidth \in Known
  /\ \A w \in Molders : Right(w)

(* A number and the multiple of v below it. *)
LEMMA Division ==
  ASSUME NEW a \in Nat, NEW v \in Nat \ {0}
  PROVE  /\ a \div v \in Nat /\ a % v \in 0 .. v - 1
         /\ a - (a % v) = v * (a \div v) /\ a = v * (a \div v) + (a % v)
<1>1. a \div v \in Int /\ a \div v >= 0 /\ a % v \in 0 .. v - 1
  OBVIOUS
<1>2. a - (a % v) = v * (a \div v)
  OBVIOUS
<1>3. a \div v \in Nat
  BY <1>1
<1>4. \A r \in Int, m \in Int : a - r = m => a = m + r
  OBVIOUS
<1>5. a % v \in Int /\ v * (a \div v) \in Int
  BY <1>1
<1> QED
  BY <1>1, <1>2, <1>3, <1>4, <1>5

(* Multiples. *)
LEMMA Multiples ==
  ASSUME NEW k \in Nat, NEW v \in Nat \ {0}
  PROVE  /\ (v * k) % v = 0 /\ k * v = v * k
         /\ \A q \in Nat : v * k < v * q => v * k + v <= v * q
<1>1. (v * k) % v = 0 /\ k * v = v * k
  OBVIOUS
<1>2. ASSUME NEW q \in Nat, v * k < v * q PROVE v * k + v <= v * q
  <2>1. k < q
    BY <1>2
  <2>2. k + 1 <= q
    BY <2>1
  <2>3. v * (k + 1) <= v * q
    BY <2>2
  <2> QED
    BY <2>3
<1> QED
  BY <1>1, <1>2

(* The default layout is regular, on more than one core. *)
LEMMA DefaultIsRegular ==
  ASSUME NThreads > 1, Widths = DefaultWidths PROVE Regular
<1>0. NThreads \in Nat \ {0}
  BY NThreadsAssumption
<1>1. ASSUME NEW l \in Worker PROVE 1 \in Widths[l]
  <2>1. l \in Nat /\ 1 \in 1 .. NThreads /\ NThreads % 1 = 0 /\ 1 * 1 # NThreads /\ l % 1 = 0
    BY <1>0 DEF Worker
  <2> QED
    BY <2>1 DEF DefaultWidths
<1>2. ASSUME NEW l \in Worker, NEW w \in Worker, NEW v \in Widths[l]
      PROVE  v \in Widths[w - (w % v)]
  <2>1. v \in 1 .. NThreads /\ NThreads % v = 0 /\ v * v # NThreads
    BY DEF DefaultWidths
  <2>2. w \in Nat /\ w < NThreads /\ v \in Nat \ {0}
    BY <1>0, <2>1 DEF Worker
  <2>3. /\ w \div v \in Nat /\ w % v \in 0 .. v - 1 /\ w - (w % v) = v * (w \div v)
    BY <2>2, Division
  <2>4. (v * (w \div v)) % v = 0
    BY <2>2, <2>3, Multiples
  <2>5. w - (w % v) \in Worker /\ (w - (w % v)) % v = 0
    <3>1. v * (w \div v) \in Nat
      BY <2>2, <2>3
    <3>2. w - (w % v) \in Nat /\ w - (w % v) <= w
      BY <2>2, <2>3, <3>1
    <3> QED
      BY <1>0, <2>2, <2>3, <2>4, <3>2 DEF Worker
  <2> QED
    BY <2>1, <2>5 DEF DefaultWidths
<1> QED
  BY <1>1, <1>2 DEF Regular

(* Places of the layout lie within the machine. *)
LEMMA LayoutFacts ==
  ASSUME Regular
  PROVE  /\ \A v \in Known : v \in 1 .. NThreads
         /\ \A p \in Layout : p.width \in Known /\ p.leader \in Worker /\ p.leader # -1
         /\ \A w \in Worker : [leader |-> w, width |-> 1] \in Layout
         /\ \A w \in Worker, v \in Known : [leader |-> w - (w % v), width |-> v] \in Layout
<1>0. NThreads \in Nat \ {0} /\ Worker \subseteq Nat /\ 1 \in 1 .. NThreads
  BY NThreadsAssumption DEF Worker
<1>1. ASSUME NEW v \in Known PROVE v \in 1 .. NThreads
  <2>1. PICK l \in Worker : v \in Widths[l]
    BY DEF Known
  <2>2. Widths[l] \in SUBSET (1 .. NThreads)
    BY WidthsAssumption
  <2> QED
    BY <2>1, <2>2
<1>2. ASSUME NEW p \in Layout
      PROVE  p.width \in Known /\ p.leader \in Worker /\ p.leader # -1
  <2>1. p.leader \in Worker /\ p.width \in Widths[p.leader]
    BY DEF Layout
  <2>2. p.leader \in Nat
    BY <1>0, <2>1
  <2> QED
    BY <2>1, <2>2 DEF Known
<1>3. ASSUME NEW w \in Worker PROVE [leader |-> w, width |-> 1] \in Layout
  BY <1>0 DEF Regular, Layout
<1>4. ASSUME NEW w \in Worker, NEW v \in Known
      PROVE  [leader |-> w - (w % v), width |-> v] \in Layout
  <2>1. v \in Widths[w - (w % v)]
    BY DEF Known, Regular
  <2>2. w \in Nat /\ v \in Nat \ {0}
    BY <1>0, <1>1
  <2>3. w % v \in 0 .. v - 1 /\ w - (w % v) = v * (w \div v) /\ w \div v \in Nat
    BY <2>2, Division
  <2>4. v * (w \div v) \in Nat
    BY <2>2, <2>3
  <2>5. w - (w % v) \in Nat /\ w - (w % v) <= w
    BY <2>2, <2>3, <2>4
  <2>6. w - (w % v) \in Worker
    BY <1>0, <2>5 DEF Worker
  <2> QED
    BY <1>1, <2>1, <2>6 DEF Layout
<1> QED
  BY <1>1, <1>2, <1>3, <1>4

(* The place computed from a width that divides the machine. *)
LEMMA DefaultPlace ==
  ASSUME GivenDivide, NEW v \in GivenWidths, NEW w \in Worker,
         NEW p, p = [leader |-> (w \div v) * v, width |-> v]
  PROVE  Members(p) \subseteq Worker /\ w \in Members(p)
<1>0. v \in Nat \ {0} /\ w \in Nat /\ NThreads \in Nat \ {0} /\ w < NThreads /\ NThreads % v = 0
  BY GivenAssumption, NThreadsAssumption DEF GivenDivide, Worker
<1> DEFINE k == w \div v
           q == NThreads \div v
<1>1. k \in Nat /\ w % v \in 0 .. v - 1 /\ w = v * k + (w % v)
  BY <1>0, Division
<1>2. q \in Nat /\ NThreads = v * q + (NThreads % v)
  BY <1>0, Division
<1> HIDE DEF k, q
<1>3. v * q \in Nat /\ v * k \in Nat
  BY <1>0, <1>1, <1>2
<1>4. NThreads = v * q
  BY <1>0, <1>2, <1>3
<1>5. v * k <= w /\ w < v * k + v
  BY <1>0, <1>1, <1>3
<1>6. v * k < v * q
  BY <1>0, <1>3, <1>4, <1>5
<1>7. v * k + v <= NThreads /\ k * v = v * k
  BY <1>0, <1>1, <1>2, <1>4, <1>6, Multiples
<1>8. p.leader = v * k /\ p.width = v
  BY <1>7 DEF k
<1>9. Members(p) = v * k .. (v * k + v - 1)
  BY <1>8 DEF Members
<1>10. \A i \in v * k .. (v * k + v - 1) : i \in 0 .. NThreads - 1
  BY <1>0, <1>3, <1>7
<1>11. w \in v * k .. (v * k + v - 1)
  BY <1>0, <1>3, <1>5
<1> QED
  BY <1>9, <1>10, <1>11 DEF Worker

(* Nobody has a place yet. *)
LEMMA InitAllowed == Init => AllowedInv
<1> SUFFICES ASSUME Init PROVE AllowedInv
  OBVIOUS
<1>1. /\ lastWidth = -1 /\ torn = [w \in Molders |-> FALSE]
      /\ pc = [w \in Molders |-> "idle"]
  BY DEF Init
<1>2. \A w \in Molders : Right(w)
  BY <1>1 DEF Right, Molding, Choosing
<1> QED
  BY <1>1, <1>2, InitSettle DEF AllowedInv

(* Only worker w moves. *)
LEMMA MoveRight ==
  ASSUME AllowedInv, SettleInv', NEW w \in Molders, Right(w)', UNCHANGED modeling,
         torn' \in [Molders -> BOOLEAN], lastWidth' > 0 => lastWidth' \in Known,
         \A u \in Molders \ {w} : /\ pc'[u] = pc[u] /\ choice'[u] = choice[u]
                                  /\ torn'[u] = torn[u]
  PROVE  AllowedInv'
<1>1. ASSUME NEW u \in Molders, u # w PROVE Right(u)'
  <2>1. Right(u)
    BY DEF AllowedInv
  <2> QED
    BY <1>1, <2>1 DEF Right
<1> QED
  BY <1>1 DEF AllowedInv

(* A step keeps what workers know of their places. *)
LEMMA StepAllowed ==
  ASSUME Regular, GivenDivide, AllowedInv, [Next]_vars PROVE AllowedInv'
<1>0. SettleInv /\ SettleInv'
  BY StepSettle DEF AllowedInv
<1>1. CASE UNCHANGED vars
  BY <1>0, <1>1 DEF AllowedInv, Right, vars, ptt
<1>2. CASE Next
  <2> PICK w \in Molders : Step(w)
    BY <1>2 DEF Next
  <2>0. /\ pc \in [Molders -> Label] /\ choice \in [Molders -> Place]
        /\ torn \in [Molders -> BOOLEAN] /\ lastWidth \in Int
        /\ Right(w) /\ (lastWidth > 0 => lastWidth \in Known) /\ w \in Worker /\ w \in Nat
        /\ pc[w] \in Relying => lastWidth > 0
    BY <1>0, MoldersAssumption, MolderIsNat DEF AllowedInv, SettleInv
  <2>a. UNCHANGED modeling
    BY DEF Step, Mold, Take, TestSettled, SettleLeader, SettleWidth, Search, Refresh,
       CompareSame, Increment, CompareOther, Reset, CompareFirst, Store, GlobalSearch,
       DefaultLeader, Insert
  <2>b. ASSUME NEW u \in Molders \ {w}
        PROVE  pc'[u] = pc[u] /\ choice'[u] = choice[u] /\ torn'[u] = torn[u]
    <3>1. pc'[u] = pc[u]
      BY <2>0 DEF Step, Mold, Take, TestSettled, SettleLeader, SettleWidth, Search, Refresh,
         CompareSame, Increment, CompareOther, Reset, CompareFirst, Store, GlobalSearch,
         DefaultLeader, Insert, Goto, Finish
    <3>2. torn'[u] = torn[u]
      BY <2>0 DEF Step, Mold, Take, TestSettled, SettleLeader, SettleWidth, Search, Refresh,
         CompareSame, Increment, CompareOther, Reset, CompareFirst, Store, GlobalSearch,
         DefaultLeader, Insert
    <3>3. choice'[u] = choice[u]
      BY <2>0 DEF Step, Mold, Take, TestSettled, SettleLeader, SettleWidth, Search, Refresh,
         CompareSame, Increment, CompareOther, Reset, CompareFirst, Store, GlobalSearch,
         DefaultLeader, Insert
    <3> QED
      BY <3>1, <3>2, <3>3
  <2>c. torn' \in [Molders -> BOOLEAN]
    BY <2>0 DEF Step, Mold, Take, TestSettled, SettleLeader, SettleWidth, Search, Refresh,
       CompareSame, Increment, CompareOther, Reset, CompareFirst, Store, GlobalSearch,
       DefaultLeader, Insert
  <2>d. lastWidth' > 0 => lastWidth' \in Known
    <3>1. CASE Store(w)
      <4>1. choice[w] \in Layout /\ lastWidth' = choice[w].width
        BY <2>0, <3>1 DEF Store, Right, Choosing
      <4> QED
        BY <4>1, LayoutFacts
    <3>2. CASE ~ Store(w)
      <4>1. lastWidth' = lastWidth
        BY <3>2 DEF Step, Mold, Take, TestSettled, SettleLeader, SettleWidth, Search, Refresh,
           CompareSame, Increment, CompareOther, Reset, CompareFirst, GlobalSearch,
           DefaultLeader, Insert, ptt
      <4> QED
        BY <2>0, <4>1
    <3> QED
      BY <3>1, <3>2
  <2>e. Right(w)'
    <3> USE DEF Goto
    <3>1. CASE Take(w)
      BY <2>0, <3>1 DEF Take, Right, Molding, Choosing
    <3>2. CASE TestSettled(w)
      BY <2>0, <3>2 DEF TestSettled, Right, Molding, Choosing
    <3>3. CASE SettleLeader(w)
      <4>1. lastWidth > 0 /\ lastWidth \in Known
        BY <2>0, <3>3 DEF SettleLeader, Relying
      <4>2. /\ choice'[w] = [leader |-> w - (w % lastWidth), width |-> lastWidth]
            /\ pc'[w] = "settling" /\ modeling' = modeling /\ pc[w] = "settled"
        BY <2>0, <3>3, <4>1 DEF SettleLeader
      <4> QED
        BY <2>0, <4>1, <4>2 DEF Right, Molding, Choosing
    <3>4. CASE SettleWidth(w)
      <4>1. /\ pc[w] = "settling" /\ pc'[w] = "placed" /\ modeling' = modeling
            /\ torn'[w] <=> lastWidth # choice[w].width
            /\ choice'[w] = [choice[w] EXCEPT !.width = lastWidth]
        BY <2>0, <3>4 DEF SettleWidth
      <4>2. /\ modeling /\ choice[w].width \in Known
            /\ choice[w].leader = w - (w % choice[w].width) /\ choice[w] \in Place
        BY <2>0, <4>1 DEF Right, Molding
      <4>3. ASSUME ~ torn'[w] PROVE choice'[w] \in Layout
        <5>1. lastWidth = choice[w].width
          BY <4>1, <4>3
        <5>2. choice'[w] = [leader |-> w - (w % lastWidth), width |-> lastWidth]
          BY <4>1, <4>2, <5>1 DEF Place
        <5> QED
          BY <2>0, <4>2, <5>1, <5>2, LayoutFacts
      <4> QED
        BY <4>1, <4>2, <4>3 DEF Right, Molding, Choosing
    <3>5. CASE Search(w)
      <4>1. PICK mold \in BOOLEAN :
              \E p \in IF Candidates(Partitions(w), mold) = {} THEN {NoChoice}
                       ELSE Candidates(Partitions(w), mold) :
                choice' = [choice EXCEPT ![w] = p]
        BY <3>5, MoldAssumption DEF Search
      <4>2. [leader |-> w, width |-> 1] \in Layout
        BY <2>0, LayoutFacts
      <4>3. [leader |-> w, width |-> 1] \in Partitions(w)
        BY <2>0, <4>2 DEF Partitions, Members
      <4>4. [leader |-> w, width |-> 1] \in Candidates(Partitions(w), mold)
        BY <4>3 DEF Candidates
      <4>5. choice'[w] \in Layout
        BY <2>0, <4>1, <4>4 DEF Candidates, Partitions
      <4> QED
        BY <2>0, <3>5, <4>5 DEF Search, Right, Molding, Choosing
    <3>6. CASE Refresh(w)
      <4>1. [leader |-> w, width |-> 1] \in Layout
        BY <2>0, LayoutFacts
      <4>2. choice'[w] \in Layout
        BY <2>0, <3>6, <4>1 DEF Refresh, Partitions
      <4> QED
        BY <2>0, <3>6, <4>2 DEF Refresh, Right, Molding, Choosing
    <3>7. CASE CompareSame(w)
      BY <2>0, <3>7 DEF CompareSame, Right, Molding, Choosing
    <3>8. CASE Increment(w)
      BY <2>0, <3>8 DEF Increment, Right, Molding, Choosing
    <3>9. CASE CompareOther(w)
      BY <2>0, <3>9 DEF CompareOther, Right, Molding, Choosing
    <3>10. CASE Reset(w)
      BY <2>0, <3>10 DEF Reset, Right, Molding, Choosing
    <3>11. CASE CompareFirst(w)
      BY <2>0, <3>11 DEF CompareFirst, Right, Molding, Choosing
    <3>12. CASE Store(w)
      <4>1. choice[w] \in Layout /\ modeling /\ choice' = choice /\ modeling' = modeling
        BY <2>0, <3>12 DEF Store, Right, Molding, Choosing
      <4>2. choice[w].leader # -1
        BY <4>1, LayoutFacts
      <4>3. pc'[w] = "placed"
        BY <2>0, <3>12, <4>2 DEF Store, Finish
      <4> QED
        BY <4>1, <4>3 DEF Right, Molding, Choosing
    <3>13. CASE GlobalSearch(w)
      <4>1. PICK mold \in BOOLEAN :
              \E p \in IF Candidates(Layout, mold) = {} THEN {NoChoice}
                       ELSE Candidates(Layout, mold) :
                choice' = [choice EXCEPT ![w] = p]
        BY <3>13, MoldAssumption DEF GlobalSearch
      <4>2. [leader |-> w, width |-> 1] \in Layout
        BY <2>0, LayoutFacts
      <4>3. [leader |-> w, width |-> 1] \in Candidates(Layout, mold)
        BY <4>2 DEF Candidates
      <4>4. choice'[w] \in Layout
        BY <2>0, <4>1, <4>3 DEF Candidates
      <4> QED
        BY <2>0, <3>13, <4>4 DEF GlobalSearch, Right, Molding, Choosing
    <3>14. ASSUME NEW v \in GivenWidths, DefaultLeader(w, v) PROVE Right(w)'
      <4>1. /\ choice'[w] = [leader |-> (w \div v) * v, width |-> v]
            /\ pc[w] = "unmolded" /\ pc'[w] = "placed" /\ modeling' = modeling
        BY <2>0, <3>14 DEF DefaultLeader
      <4>2. Members(choice'[w]) \subseteq Worker /\ w \in Members(choice'[w])
        BY <2>0, <4>1, DefaultPlace
      <4> QED
        BY <2>0, <4>1, <4>2 DEF Right, Molding, Choosing
    <3>15. CASE Insert(w)
      BY <2>0, <3>15 DEF Insert, Right, Molding, Choosing
    <3> QED
      BY <3>1, <3>2, <3>3, <3>4, <3>5, <3>6, <3>7, <3>8, <3>9, <3>10, <3>11, <3>12,
         <3>13, <3>14, <3>15 DEF Step, Mold
  <2> QED
    BY <1>0, <2>a, <2>b, <2>c, <2>d, <2>e, MoveRight
<1> QED
  BY <1>1, <1>2

(* "the allowed resource partition widths": on a regular layout, as the default
   one, an assembly is placed where the layout allows it, unless last_width
   changed while the shortcut read it; and a width given by the program that
   divides the machine gives a place around the worker. *)
THEOREM PlacesAreAllowed ==
  ASSUME Regular, GivenDivide PROVE Spec => []PlaceAllowed
<1>1. AllowedInv => PlaceAllowed
  BY DEF AllowedInv, Right, PlaceAllowed
<1>2. AllowedInv /\ [Next]_vars => AllowedInv'
  BY StepAllowed
<1> QED
  BY <1>1, <1>2, InitAllowed, PTL DEF Spec
=============================================================================
