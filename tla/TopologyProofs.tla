--------------------------- MODULE TopologyProofs ---------------------------
(***************************************************************************)
(* Proofs about the belt network that is built from a blueprint, for every *)
(* ground, every number of entities and every reach of the undergrounds.   *)
(*                                                                         *)
(* In this order: sequences of different numbers in ascending order; the   *)
(* tiles (NetInv, by induction over the entities); the pairing, whose      *)
(* recursion is shown to have a solution; lanes; a blueprint and its       *)
(* quarter turn (TurnInv); the sort of the tiles with its worklist as a    *)
(* set (IInv); and the stack of the code, a step of which is a step of     *)
(* that sort (SInv).                                                       *)
(***************************************************************************)
EXTENDS Topology, FiniteSetTheorems, SequenceTheorems, WellFoundedInduction, TLAPS

\* No value occurs twice.
Distinct(q) == \A i, j \in DOMAIN q : q[i] = q[j] => i = j

LEMMA Least ==
  ASSUME NEW T, T \subseteq Nat, T # {}
  PROVE  Min(T) \in T /\ \A y \in T : Min(T) <= y
<1> DEFINE R == OpToRel(<, Nat)
<1>1. R = {ss \in Nat \X Nat : ss[1] < ss[2]}
  BY DEF OpToRel
<1>2. IsWellFoundedOn(R, Nat)
  BY NatLessThanWellFounded
<1> HIDE DEF R
<1>3. PICK x \in T : \A y \in T : <<y, x>> \notin R
  BY <1>2, WFMin
<1>4. \A y \in T : ~(y < x)
  BY <1>1, <1>3
<1>5. \A y \in T : x <= y
  BY <1>4
<1>. QED  BY <1>5 DEF Min

(* The elements of a finite set of numbers in order: the ranks of its n    *)
(* elements are n different numbers from 0 to n - 1, so each of these is   *)
(* the rank of one of them.                                                *)
LEMMA InOrder ==
  ASSUME NEW S \in SUBSET Nat, IsFiniteSet(S)
  PROVE  LET q == Order!Ascending(S)
         IN  /\ q \in Seq(S) /\ Len(q) = Cardinality(S)
             /\ Distinct(q) /\ ToSet(q) = S
<1> DEFINE Below(t) == {u \in S : u < t}
           rank == [t \in S |-> Cardinality(Below(t))]
           n == Cardinality(S)
           At(i) == CHOOSE t \in S : Cardinality(Below(t)) = i - 1
           q == [i \in 1 .. n |-> At(i)]
<1>0. Order!Ascending(S) = q
  <2>1. \A T : Order!Cardinality(T) = Cardinality(T)
    BY DEF Order!Cardinality, Cardinality
  <2>2. Order!Cardinality(S) = n
    BY <2>1
  <2>3. \A i : (CHOOSE t \in S : Order!Cardinality(Below(t)) = i - 1) = At(i)
    <3> SUFFICES ASSUME NEW i PROVE (CHOOSE t \in S : Order!Cardinality(Below(t)) = i - 1) = At(i)
      OBVIOUS
    <3>1. \A t \in S : Order!Cardinality(Below(t)) = Cardinality(Below(t))
      BY <2>1
    <3> HIDE DEF Below
    <3>. QED  BY <3>1
  <2>4. Order!Ascending(S) = [i \in 1 .. n |-> CHOOSE t \in S : Order!Cardinality(Below(t)) = i - 1]
    BY <2>2, Zenon DEF Order!Ascending
  <2> HIDE DEF Below, n
  <2>. QED  BY <2>3, <2>4, Zenon
<1>1. n \in Nat
  BY FS_CardinalityType
<1>2. ASSUME NEW t \in S
      PROVE  IsFiniteSet(Below(t)) /\ rank[t] \in 0 .. n - 1
  <2>1. IsFiniteSet(Below(t))
    BY FS_Subset
  <2>2. IsFiniteSet(S \ {t}) /\ Cardinality(S \ {t}) = n - 1
    BY FS_RemoveElement
  <2>3. Below(t) \in SUBSET (S \ {t})
    OBVIOUS
  <2>4. Cardinality(Below(t)) <= n - 1
    BY <2>2, <2>3, FS_Subset
  <2>5. Cardinality(Below(t)) \in Nat
    BY <2>1, FS_CardinalityType
  <2>. QED  BY <1>1, <2>1, <2>4, <2>5
<1>3. ASSUME NEW a \in S, NEW b \in S, a < b
      PROVE  rank[a] < rank[b]
  <2>1. IsFiniteSet(Below(a) \cup {a}) /\ Cardinality(Below(a) \cup {a}) = rank[a] + 1
    <3>1. a \notin Below(a)
      OBVIOUS
    <3>2. IsFiniteSet(Below(a)) /\ rank[a] = Cardinality(Below(a))
      BY <1>2
    <3> HIDE DEF Below, rank
    <3>. QED  BY <3>1, <3>2, FS_AddElement
  <2>2. Below(a) \cup {a} \in SUBSET Below(b)
    <3> SUFFICES ASSUME NEW u \in Below(a) \cup {a} PROVE u \in S /\ u < b
      OBVIOUS
    <3>1. u \in S /\ u <= a /\ u \in Nat /\ a \in Nat /\ b \in Nat
      OBVIOUS
    <3>. QED  BY <1>3, <3>1
  <2>3. rank[a] + 1 <= rank[b]
    BY <1>2, <2>1, <2>2, FS_Subset
  <2>4. rank[a] \in Int /\ rank[b] \in Int
    BY <1>2
  <2>. QED  BY <2>3, <2>4
<1>4. \A a, b \in S : rank[a] = rank[b] => a = b
  <2> SUFFICES ASSUME NEW a \in S, NEW b \in S, rank[a] = rank[b], a # b PROVE FALSE
    OBVIOUS
  <2>1. a < b \/ b < a
    OBVIOUS
  <2>2. rank[a] \in Int /\ rank[b] \in Int
    BY <1>2
  <2> HIDE DEF rank
  <2>. QED  BY <1>3, <2>1, <2>2
<1>5. \A i \in 0 .. n - 1 : \E t \in S : rank[t] = i
  <2>1. rank \in Injection(S, 0 .. n - 1)
    <3>1. rank \in [S -> 0 .. n - 1]
      BY <1>2
    <3> HIDE DEF rank
    <3>. QED  BY <1>4, <3>1 DEF Injection, IsInjective
  <2>2. IsFiniteSet(0 .. n - 1) /\ Cardinality(0 .. n - 1) = n
    <3> HIDE DEF n
    <3>1. 0 \in Int /\ n - 1 \in Int
      BY <1>1
    <3>2. /\ IsFiniteSet(0 .. n - 1)
          /\ Cardinality(0 .. n - 1) = IF 0 > n - 1 THEN 0 ELSE n - 1 - 0 + 1
      BY <3>1, FS_Interval
    <3>. QED  BY <1>1, <3>2
  <2>3. rank \in Surjection(S, 0 .. n - 1)
    <3> HIDE DEF rank, n
    <3>. QED  BY <2>1, <2>2, FS_Injection DEF n
  <2>. QED  BY <2>3 DEF Surjection
<1>6. ASSUME NEW i \in 1 .. n
      PROVE  At(i) \in S /\ rank[At(i)] = i - 1
  <2>1. i - 1 \in 0 .. n - 1
    BY <1>1
  <2>2. PICK t \in S : rank[t] = i - 1
    BY <1>5, <2>1
  <2>3. Cardinality(Below(t)) = i - 1
    BY <2>2
  <2>4. At(i) \in S /\ Cardinality(Below(At(i))) = i - 1
    <3> HIDE DEF Below
    <3>. QED  BY <2>3
  <2>. QED  BY <2>4
<1> HIDE DEF rank, At
<1>7. \A i \in 1 .. n : q[i] \in S /\ rank[q[i]] = i - 1
  BY <1>6
<1>8. q \in Seq(S) /\ Len(q) = n /\ DOMAIN q = 1 .. n
  BY <1>1, <1>6
<1> HIDE DEF q, n
<1>9. Distinct(q)
  <2> SUFFICES ASSUME NEW i \in 1 .. n, NEW j \in 1 .. n, q[i] = q[j] PROVE i = j
    BY <1>8 DEF Distinct
  <2>1. i - 1 = j - 1
    BY <1>7
  <2>. QED  BY <1>1, <2>1
<1>10. ToSet(q) = S
  <2>1. ToSet(q) \subseteq S
    BY <1>7, <1>8 DEF ToSet
  <2>2. ASSUME NEW t \in S PROVE t \in ToSet(q)
    <3>1. rank[t] + 1 \in 1 .. n /\ rank[t] \in Int
      BY <1>1, <1>2 DEF rank, n
    <3>2. rank[q[rank[t] + 1]] = rank[t] /\ q[rank[t] + 1] \in S
      BY <1>7, <3>1
    <3>3. q[rank[t] + 1] = t
      BY <1>4, <3>2
    <3>. QED  BY <1>8, <3>1, <3>3 DEF ToSet
  <2>. QED  BY <2>1, <2>2
<1>. QED  BY <1>0, <1>8, <1>9, <1>10 DEF n
-----------------------------------------------------------------------------
(* The tiles.                                                              *)

Kinds == {"belt", "entrance", "exit", "splitter"}
Tiers == UNION {f.tiers : f \in Families}
Places == Int \X Int
Tile ==
  [pos : Places, dir : Dirs, tier : Tiers, kind : Kinds, splitter : Nat, partner : Nat]

\* No two tiles are at the same place.
Apart(ts) == \A i, j \in DOMAIN ts : ts[i].pos = ts[j].pos => i = j

\* The tiles of n entities: those with the number of the same entity are
\* two, and each has the other for its partner.
Halves(ts, n) ==
  \A s \in DOMAIN ts :
    /\ ts[s].splitter <= n
    /\ ts[s].partner \in 0 .. Len(ts) /\ ts[s].partner # s
    /\ \A t \in DOMAIN ts : t # s => (ts[t].splitter = ts[s].splitter <=> ts[s].partner = t)

\* The other half of a splitter is one too, and does not face this half.
Beside(ts) ==
  \A s \in DOMAIN ts :
    LET other == ts[ts[s].partner]
    IN  ts[s].partner # NoTile => other.kind = "splitter" /\ Moved(other.pos, other.dir, 1) # ts[s].pos

TilesOK(ts, n) == ts \in Seq(Tile) /\ Apart(ts) /\ Halves(ts, n) /\ Beside(ts)

(* What is looked up at a place is a tile there, and NoTile says that none *)
(* is.                                                                     *)
LEMMA TileAtFound ==
  ASSUME NEW T, NEW ts \in Seq(T), NEW pos
  PROVE  /\ TileAt(ts, pos) = NoTile => \A i \in DOMAIN ts : ts[i].pos # pos
         /\ TileAt(ts, pos) # NoTile => TileAt(ts, pos) \in DOMAIN ts /\ ts[TileAt(ts, pos)].pos = pos
<1> DEFINE I == {i \in 1 .. Len(ts) : ts[i].pos = pos}
<1>1. TileAt(ts, pos) = IF I # {} THEN Min(I) ELSE 0
  BY DEF TileAt, SelectInSeq
<1>2. CASE I = {}
  BY <1>1, <1>2 DEF NoTile
<1>3. CASE I # {}
  <2>1. I \subseteq Nat /\ \A i \in I : i # 0
    OBVIOUS
  <2>2. Min(I) \in I
    BY <1>3, <2>1, Least
  <2>. QED  BY <1>1, <1>3, <2>1, <2>2 DEF NoTile
<1>. QED  BY <1>2, <1>3

(* A tile is found at its own place.                                       *)
LEMMA FoundAtItsPlace ==
  ASSUME NEW T, NEW ts \in Seq(T), Apart(ts), NEW i \in DOMAIN ts
  PROVE  TileAt(ts, ts[i].pos) = i
<1>1. TileAt(ts, ts[i].pos) # NoTile
  BY TileAtFound
<1>2. TileAt(ts, ts[i].pos) \in DOMAIN ts /\ ts[TileAt(ts, ts[i].pos)].pos = ts[i].pos
  BY <1>1, TileAtFound
<1>. QED  BY <1>2 DEF Apart

(* An entity gets at most two tiles, at different free places; two only if *)
(* it is a splitter, side by side.                                         *)
LEMMA FreeCellsAreFree ==
  ASSUME NEW ts, NEW e, e.pos \in Places, e.dir \in Dirs
  PROVE  LET free == FreeCells(ts, e)
         IN  /\ free \in Seq(Places) /\ Len(free) \in 0 .. 2 /\ Distinct(free)
             /\ \A i \in DOMAIN free : TileAt(ts, free[i]) = NoTile
             /\ Len(free) = 2 => /\ e.kind = "splitter"
                                 /\ Moved(free[1], e.dir, 1) # free[2] /\ Moved(free[2], e.dir, 1) # free[1]
<1> DEFINE cells == Cells(e)
           free == {i \in DOMAIN cells : TileAt(ts, cells[i]) = NoTile}
<1>1. cells \in Seq(Places) /\ Len(cells) \in 0 .. 2 /\ Distinct(cells)
  <2>1. /\ Moved(e.pos, "East", 1) \in Places /\ Moved(e.pos, "East", 1) # e.pos
        /\ Moved(e.pos, "South", 1) \in Places /\ Moved(e.pos, "South", 1) # e.pos
    BY DEF Moved, Delta, Places
  <2>2. cells = <<e.pos>> \/ cells = <<e.pos, Moved(e.pos, "East", 1)>> \/ cells = <<e.pos, Moved(e.pos, "South", 1)>>
    BY DEF Cells
  <2>3. ASSUME NEW p \in Places, NEW q \in Places, p # q
        PROVE  /\ <<p>> \in Seq(Places) /\ Len(<<p>>) \in 0 .. 2 /\ Distinct(<<p>>)
               /\ <<p, q>> \in Seq(Places) /\ Len(<<p, q>>) \in 0 .. 2 /\ Distinct(<<p, q>>)
    BY <2>3 DEF Distinct
  <2> HIDE DEF cells
  <2>. QED  BY <2>1, <2>2, <2>3
<1>pair. Len(cells) = 2 => /\ e.kind = "splitter"
                            /\ Moved(cells[1], e.dir, 1) # cells[2] /\ Moved(cells[2], e.dir, 1) # cells[1]
  <2>1. PICK x \in Int, y \in Int : e.pos = <<x, y>>
    BY DEF Places
  <2>2. ASSUME e.kind # "splitter" PROVE Len(cells) # 2
    BY <2>2 DEF Cells
  <2>3. CASE e.kind = "splitter" /\ e.dir \in {"North", "South"}
    <3>1. cells[1] = <<x, y>> /\ cells[2] = <<x + 1, y>>
      BY <2>1, <2>3 DEF Cells, Moved, Delta
    <3> HIDE DEF cells
    <3>2. Moved(<<x, y>>, e.dir, 1)[1] = x /\ Moved(<<x + 1, y>>, e.dir, 1)[1] = x + 1
      BY <2>3 DEF Moved, Delta
    <3>. QED  BY <2>3, <3>1, <3>2
  <2>4. CASE e.kind = "splitter" /\ e.dir \in {"East", "West"}
    <3>1. cells[1] = <<x, y>> /\ cells[2] = <<x, y + 1>>
      BY <2>1, <2>4 DEF Cells, Moved, Delta
    <3> HIDE DEF cells
    <3>2. Moved(<<x, y>>, e.dir, 1)[2] = y /\ Moved(<<x, y + 1>>, e.dir, 1)[2] = y + 1
      BY <2>4 DEF Moved, Delta
    <3>. QED  BY <2>4, <3>1, <3>2
  <2>. QED  BY <2>2, <2>3, <2>4 DEF Dirs
<1>2. FreeCells(ts, e) = IF free = {} THEN <<>> ELSE IF free = DOMAIN cells THEN cells
                         ELSE <<cells[CHOOSE i \in free : TRUE]>>
  BY DEF FreeCells
<1> HIDE DEF cells
<1>3. CASE free = {}
  BY <1>2, <1>3 DEF Distinct
<1>4. CASE free # {} /\ free = DOMAIN cells
  BY <1>1, <1>2, <1>4, <1>pair
<1>5. CASE free # {} /\ free # DOMAIN cells
  <2>1. PICK i \in free : FreeCells(ts, e) = <<cells[i]>>
    BY <1>2, <1>5
  <2>. QED  BY <1>1, <2>1 DEF Distinct
<1>. QED  BY <1>3, <1>4, <1>5

(* The tiles of one more entity.                                           *)
LEMMA Placed ==
  ASSUME NEW n \in Nat, NEW ts, TilesOK(ts, n),
         NEW e, e.pos \in Places, e.dir \in Dirs, e.tier \in Tiers, e.kind \in Kinds
  PROVE  TilesOK(WithEntity(ts, e, n + 1), n + 1)
<1> DEFINE free == FreeCells(ts, e)
           partner(i) == IF Len(free) = 2 THEN Len(ts) + 3 - i ELSE NoTile
           added == [i \in DOMAIN free |-> NewTile(e, free[i], n + 1, partner(i))]
           all == ts \o added
<1>1. WithEntity(ts, e, n + 1) = all
  BY DEF WithEntity
<1>2. /\ free \in Seq(Places) /\ Len(free) \in 0 .. 2 /\ Distinct(free)
      /\ \A i \in DOMAIN free : TileAt(ts, free[i]) = NoTile
      /\ Len(free) = 2 => /\ e.kind = "splitter"
                          /\ Moved(free[1], e.dir, 1) # free[2] /\ Moved(free[2], e.dir, 1) # free[1]
  BY FreeCellsAreFree
<1> HIDE DEF free
<1>3. ts \in Seq(Tile) /\ Apart(ts) /\ Halves(ts, n) /\ Len(ts) \in Nat /\ DOMAIN ts = 1 .. Len(ts)
  BY DEF TilesOK
<1>numbered. \A t \in DOMAIN ts : ts[t].splitter \in Nat /\ ts[t].splitter <= n
  <2>1. \A t \in DOMAIN ts : ts[t] \in Tile
    BY <1>3
  <2>. QED  BY <1>3, <2>1 DEF Tile, Halves
<1>4. DOMAIN free = 1 .. Len(free)
  BY <1>2
<1>5. \A i \in 1 .. Len(free) : NewTile(e, free[i], n + 1, partner(i)) \in Tile
  <2> SUFFICES ASSUME NEW i \in 1 .. Len(free) PROVE NewTile(e, free[i], n + 1, partner(i)) \in Tile
    OBVIOUS
  <2>1. free[i] \in Places /\ partner(i) \in Nat /\ n + 1 \in Nat
    BY <1>2, <1>3 DEF NoTile
  <2> HIDE DEF partner
  <2>. QED  BY <2>1 DEF NewTile, Tile
<1>6. added \in Seq(Tile) /\ Len(added) = Len(free) /\ DOMAIN added = 1 .. Len(free)
  BY <1>2, <1>4, <1>5
<1>7. \A i \in 1 .. Len(free) : /\ added[i].pos = free[i] /\ added[i].splitter = n + 1
                                /\ added[i].partner = partner(i)
                                /\ added[i].kind = e.kind /\ added[i].dir = e.dir
  BY <1>4 DEF NewTile
<1> HIDE DEF added, partner
<1>8. /\ all \in Seq(Tile) /\ Len(all) = Len(ts) + Len(free)
      /\ \A i \in 1 .. Len(all) : all[i] = IF i <= Len(ts) THEN ts[i] ELSE added[i - Len(ts)]
  BY <1>3, <1>6
<1>9. DOMAIN all = 1 .. Len(ts) + Len(free)
  BY <1>8
<1>10. ASSUME NEW i \in 1 .. Len(all)
       PROVE  \/ i \in DOMAIN ts /\ all[i] = ts[i]
              \/ i - Len(ts) \in 1 .. Len(free) /\ all[i] = added[i - Len(ts)]
  BY <1>2, <1>3, <1>8
<1> HIDE DEF all
<1>11. Apart(all)
  <2>1. ASSUME NEW i \in DOMAIN ts, NEW k \in 1 .. Len(free) PROVE ts[i].pos # added[k].pos
    BY <1>2, <1>3, <1>4, <1>7, TileAtFound
  <2> SUFFICES ASSUME NEW i \in 1 .. Len(all), NEW j \in 1 .. Len(all), all[i].pos = all[j].pos
               PROVE  i = j
    BY <1>8 DEF Apart
  <2>2. CASE i \in DOMAIN ts /\ j \in DOMAIN ts /\ all[i] = ts[i] /\ all[j] = ts[j]
    BY <1>3, <2>2 DEF Apart
  <2>3. CASE /\ i - Len(ts) \in 1 .. Len(free) /\ all[i] = added[i - Len(ts)]
             /\ j - Len(ts) \in 1 .. Len(free) /\ all[j] = added[j - Len(ts)]
    <3>1. free[i - Len(ts)] = free[j - Len(ts)]
      BY <1>7, <2>3
    <3>2. i - Len(ts) = j - Len(ts)
      BY <1>2, <1>4, <2>3, <3>1 DEF Distinct
    <3>. QED  BY <1>3, <3>2
  <2>. QED  BY <1>10, <2>1, <2>2, <2>3
<1>12. Halves(all, n + 1)
  <2> SUFFICES ASSUME NEW s \in 1 .. Len(all)
               PROVE  /\ all[s].splitter <= n + 1
                      /\ all[s].partner \in 0 .. Len(all) /\ all[s].partner # s
                      /\ \A t \in 1 .. Len(all) :
                           t # s => (all[t].splitter = all[s].splitter <=> all[s].partner = t)
    BY <1>8 DEF Halves
  <2>1. CASE s \in DOMAIN ts /\ all[s] = ts[s]
    <3>1. /\ ts[s].splitter <= n /\ ts[s].splitter \in Nat
          /\ ts[s].partner \in 0 .. Len(ts) /\ ts[s].partner # s
          /\ \A t \in DOMAIN ts : t # s => (ts[t].splitter = ts[s].splitter <=> ts[s].partner = t)
      BY <1>3, <1>numbered, <2>1 DEF Halves
    <3>2. ASSUME NEW t \in 1 .. Len(all), t # s
          PROVE  all[t].splitter = all[s].splitter <=> all[s].partner = t
      <4>1. CASE t \in DOMAIN ts /\ all[t] = ts[t]
        BY <2>1, <3>1, <3>2, <4>1
      <4>2. CASE t - Len(ts) \in 1 .. Len(free) /\ all[t] = added[t - Len(ts)]
        <5>1. all[t].splitter = n + 1
          BY <1>7, <4>2
        <5>. QED  BY <1>3, <2>1, <3>1, <4>2, <5>1
      <4>. QED  BY <1>10, <4>1, <4>2
    <3>. QED  BY <1>2, <1>3, <1>8, <2>1, <3>1, <3>2
  <2>2. CASE s - Len(ts) \in 1 .. Len(free) /\ all[s] = added[s - Len(ts)]
    <3>1. /\ all[s].splitter = n + 1
          /\ all[s].partner = IF Len(free) = 2 THEN Len(ts) + 3 - (s - Len(ts)) ELSE 0
      BY <1>7, <2>2 DEF partner, NoTile
    <3>2. CASE Len(free) = 1
      <4>1. s = Len(ts) + 1 /\ all[s].partner = 0
        BY <1>3, <2>2, <3>1, <3>2
      <4>2. ASSUME NEW t \in 1 .. Len(all), t # s PROVE all[t].splitter <= n /\ all[t].splitter \in Nat
        BY <1>3, <1>8, <1>numbered, <3>2, <4>1, <4>2
      <4>. QED  BY <1>3, <1>8, <3>1, <3>2, <4>1, <4>2
    <3>3. CASE Len(free) = 2
      <4>1. \/ s = Len(ts) + 1 /\ all[s].partner = Len(ts) + 2
            \/ s = Len(ts) + 2 /\ all[s].partner = Len(ts) + 1
        BY <1>3, <2>2, <3>1, <3>3
      <4>2. ASSUME NEW t \in 1 .. Len(all), t # s, all[s].partner # t
            PROVE  all[t].splitter <= n /\ all[t].splitter \in Nat
        BY <1>3, <1>8, <1>numbered, <3>3, <4>1, <4>2
      <4>3. all[all[s].partner].splitter = n + 1
        <5>1. added[1].splitter = n + 1 /\ added[2].splitter = n + 1
          BY <1>7, <3>3
        <5>2. all[Len(ts) + 1] = added[1] /\ all[Len(ts) + 2] = added[2]
          BY <1>3, <1>8, <3>3
        <5>. QED  BY <4>1, <5>1, <5>2
      <4>4. ASSUME NEW t \in 1 .. Len(all), t # s
            PROVE  all[t].splitter = all[s].splitter <=> all[s].partner = t
        BY <3>1, <4>2, <4>3, <4>4
      <4>. QED  BY <1>3, <1>8, <3>1, <3>3, <4>1, <4>4
    <3>. QED  BY <1>2, <2>2, <3>2, <3>3
  <2>. QED  BY <1>10, <2>1, <2>2
<1>13. Beside(all)
  <2>0. Beside(ts)
    BY DEF TilesOK
  <2> SUFFICES ASSUME NEW s \in 1 .. Len(all), all[s].partner # NoTile
               PROVE  LET other == all[all[s].partner]
                      IN  other.kind = "splitter" /\ Moved(other.pos, other.dir, 1) # all[s].pos
    BY <1>8 DEF Beside
  <2>1. CASE s \in DOMAIN ts /\ all[s] = ts[s]
    <3>1. ts[s].partner \in 1 .. Len(ts)
      BY <1>3, <2>1 DEF Halves, NoTile
    <3>2. all[all[s].partner] = ts[ts[s].partner]
      BY <1>2, <1>3, <1>8, <2>1, <3>1
    <3>. QED  BY <1>3, <2>0, <2>1, <3>2 DEF Beside
  <2>2. CASE s - Len(ts) \in 1 .. Len(free) /\ all[s] = added[s - Len(ts)]
    <3>1. all[s].partner = partner(s - Len(ts))
      BY <1>7, <2>2
    <3>2. Len(free) = 2 /\ all[s].partner = Len(ts) + 3 - (s - Len(ts))
      BY <3>1 DEF partner
    <3>3. all[Len(ts) + 1] = added[1] /\ all[Len(ts) + 2] = added[2]
      BY <1>3, <1>8, <3>2
    <3>4. \/ s = Len(ts) + 1 /\ all[s].partner = Len(ts) + 2
          \/ s = Len(ts) + 2 /\ all[s].partner = Len(ts) + 1
      BY <1>3, <2>2, <3>2
    <3>5. /\ added[1].pos = free[1] /\ added[1].kind = e.kind /\ added[1].dir = e.dir
          /\ added[2].pos = free[2] /\ added[2].kind = e.kind /\ added[2].dir = e.dir
      BY <1>7, <3>2
    <3>. QED  BY <1>2, <3>2, <3>3, <3>4, <3>5
  <2>. QED  BY <1>10, <2>1, <2>2
<1>. QED  BY <1>1, <1>8, <1>11, <1>12, <1>13 DEF TilesOK
-----------------------------------------------------------------------------
(* The pairing of undergrounds.                                            *)

Claimed(ts, f, id) == {f[e] : e \in EntrancesBefore(ts, id)} \ {NoTile}
Steps(ts, f, id) == ExitSteps(ts, id, Claimed(ts, f, id))

\* The exit of tile id, given those of the tiles before it.
ExitOf(ts, f, id) ==
  IF ts[id].kind = "entrance" THEN PairEntrance(ts, id, Claimed(ts, f, id)) ELSE NoTile

(* The exits of the first k tiles follow from one another, so they exist:  *)
(* the least k for which they did not would have those of its              *)
(* predecessors to go on from.                                             *)
LEMMA PairsAreDefined ==
  ASSUME NEW ts \in Seq(Tile)
  PROVE  Pairs(ts) = [id \in DOMAIN ts |-> ExitOf(ts, Pairs(ts), id)]
<1> DEFINE Solved(k) == \E f : f = [id \in 1 .. k |-> ExitOf(ts, f, id)]
           Missed == {k \in Nat : ~Solved(k)}
<1>1. ASSUME NEW f, NEW g, NEW id \in Nat, \A e \in 1 .. (id - 1) : f[e] = g[e]
      PROVE  ExitOf(ts, f, id) = ExitOf(ts, g, id)
  <2>1. \A e \in EntrancesBefore(ts, id) : f[e] = g[e]
    BY <1>1 DEF EntrancesBefore
  <2>2. Claimed(ts, f, id) = Claimed(ts, g, id)
    BY <2>1 DEF Claimed
  <2>. QED  BY <2>2 DEF ExitOf
<1>2. Missed = {}
  <2> SUFFICES ASSUME Missed # {} PROVE FALSE
    OBVIOUS
  <2>1. PICK k \in Missed : \A j \in Missed : k <= j
    <3>1. Missed \subseteq Nat
      OBVIOUS
    <3> HIDE DEF Missed
    <3>. QED  BY <3>1, Least
  <2>2. CASE k = 0
    <3>1. <<>> = [id \in 1 .. 0 |-> ExitOf(ts, <<>>, id)]
      OBVIOUS
    <3>. QED  BY <2>1, <2>2, <3>1
  <2>3. CASE k # 0
    <3>1. k - 1 \in Nat /\ k - 1 \notin Missed
      BY <2>1, <2>3
    <3>2. PICK f : f = [id \in 1 .. (k - 1) |-> ExitOf(ts, f, id)]
      BY <3>1
    <3> DEFINE g == [id \in 1 .. k |-> IF id < k THEN f[id] ELSE ExitOf(ts, f, id)]
    <3>3. ASSUME NEW id \in 1 .. k PROVE g[id] = ExitOf(ts, g, id)
      <4>1. \A e \in 1 .. (id - 1) : e \in 1 .. k /\ e < k
        BY <3>1
      <4>2. \A e \in 1 .. (id - 1) : f[e] = g[e]
        BY <4>1
      <4>3. ExitOf(ts, f, id) = ExitOf(ts, g, id)
        BY <1>1, <4>2
      <4>4. \A e \in 1 .. (k - 1) : f[e] = ExitOf(ts, f, e)
        BY <3>2, Zenon
      <4>5. id < k => id \in 1 .. (k - 1)
        BY <3>1
      <4>6. g[id] = IF id < k THEN f[id] ELSE ExitOf(ts, f, id)
        OBVIOUS
      <4> HIDE DEF g
      <4>. QED  BY <4>3, <4>4, <4>5, <4>6
    <3>4. g = [id \in 1 .. k |-> g[id]]
      OBVIOUS
    <3> HIDE DEF g
    <3>5. g = [id \in 1 .. k |-> ExitOf(ts, g, id)]
      BY <3>3, <3>4
    <3>. QED  BY <2>1, <3>5
  <2>. QED  BY <2>2, <2>3
<1>3. Len(ts) \in Nat /\ DOMAIN ts = 1 .. Len(ts)
  OBVIOUS
<1>4. PICK g : g = [id \in DOMAIN ts |-> ExitOf(ts, g, id)]
  BY <1>2, <1>3
<1>5. Pairs(ts) = CHOOSE f : f = [id \in DOMAIN ts |-> ExitOf(ts, f, id)]
  BY DEF Pairs, ExitOf, Claimed
<1>. QED  BY <1>4, <1>5

(* What is found at one of the steps ahead.                                *)
LEMMA StepsAhead ==
  ASSUME NEW ts \in Seq(Tile), NEW id \in DOMAIN ts, NEW claimed,
         NEW step \in ExitSteps(ts, id, claimed)
  PROVE  LET cand == TileAt(ts, Moved(ts[id].pos, ts[id].dir, step))
         IN  /\ step \in Nat /\ step >= 1 /\ cand \in DOMAIN ts /\ cand # NoTile
             /\ ts[cand].pos = Moved(ts[id].pos, ts[id].dir, step)
             /\ MatchingExit(ts, id, cand) /\ cand \notin claimed
<1>1. step \in Nat /\ step >= 1
  BY DEF ExitSteps
<1>2. TileAt(ts, Moved(ts[id].pos, ts[id].dir, step)) # NoTile
  BY DEF ExitSteps
<1>. QED  BY <1>1, <1>2, TileAtFound DEF ExitSteps

(* An entrance takes the nearest of the exits it may take, if there is one.*)
LEMMA ExitIsNearest ==
  ASSUME NEW ts \in Seq(Tile), NEW id \in DOMAIN ts, NEW f
  PROVE  /\ ExitOf(ts, f, id) # NoTile =>
              /\ ts[id].kind = "entrance" /\ Steps(ts, f, id) # {}
         /\ ts[id].kind = "entrance" /\ Steps(ts, f, id) # {} =>
              \E s \in Steps(ts, f, id) :
                /\ \A r \in Steps(ts, f, id) : s <= r
                /\ ExitOf(ts, f, id) = TileAt(ts, Moved(ts[id].pos, ts[id].dir, s))
<1> DEFINE steps == Steps(ts, f, id)
<1>1. CASE ts[id].kind # "entrance"
  BY <1>1 DEF ExitOf
<1>2. CASE ts[id].kind = "entrance"
  <2>1. ExitOf(ts, f, id) = NearestExit(ts, id, steps)
    BY <1>2 DEF ExitOf, PairEntrance, Steps
  <2>2. CASE steps = {}
    BY <2>1, <2>2 DEF NearestExit
  <2>3. CASE steps # {}
    <3>1. steps \subseteq Nat
      BY StepsAhead DEF Steps
    <3>2. Min(steps) \in steps /\ \A r \in steps : Min(steps) <= r
      BY <2>3, <3>1, Least
    <3>3. Min(steps) = CHOOSE s \in steps : \A r \in steps : s <= r
      BY DEF Min
    <3>. QED  BY <1>2, <2>1, <2>3, <3>2, <3>3 DEF NearestExit
  <2>. QED  BY <2>2, <2>3
<1>. QED  BY <1>1, <1>2

(* The pairing is what UndergroundsPaired says of it.                      *)
PairedRight(ts, p) ==
  \A id \in DOMAIN ts :
    LET ahead(step) == Moved(ts[id].pos, ts[id].dir, step)
    IN  /\ p[id] # NoTile => MatchingExit(ts, id, p[id])
        /\ \A other \in DOMAIN ts : p[id] # NoTile /\ p[other] = p[id] => other = id
        /\ ts[id].kind = "entrance" =>
             \A step \in ExitSteps(ts, id, Range(p) \ {NoTile}) :
               \E nearer \in 1..(step - 1) :
                 p[id] # NoTile /\ ts[p[id]].pos = ahead(nearer)

LEMMA PairsAreRight ==
  ASSUME NEW ts \in Seq(Tile)
  PROVE  /\ Pairs(ts) \in [DOMAIN ts -> DOMAIN ts \cup {NoTile}]
         /\ PairedRight(ts, Pairs(ts))
<1> DEFINE p == Pairs(ts)
<1>1. DOMAIN p = DOMAIN ts /\ \A id \in DOMAIN ts : p[id] = ExitOf(ts, p, id)
  BY PairsAreDefined
<1> HIDE DEF p
<1>2. ASSUME NEW id \in DOMAIN ts, p[id] # NoTile
      PROVE  /\ ts[id].kind = "entrance" /\ p[id] \in DOMAIN ts
             /\ MatchingExit(ts, id, p[id]) /\ p[id] \notin Claimed(ts, p, id)
             /\ \E s \in Steps(ts, p, id) :
                  /\ \A r \in Steps(ts, p, id) : s <= r
                  /\ p[id] = TileAt(ts, Moved(ts[id].pos, ts[id].dir, s))
  <2>1. ts[id].kind = "entrance" /\ Steps(ts, p, id) # {}
    BY <1>1, <1>2, ExitIsNearest
  <2>2. PICK s \in Steps(ts, p, id) :
           /\ \A r \in Steps(ts, p, id) : s <= r
           /\ ExitOf(ts, p, id) = TileAt(ts, Moved(ts[id].pos, ts[id].dir, s))
    BY <2>1, ExitIsNearest
  <2>3. p[id] = TileAt(ts, Moved(ts[id].pos, ts[id].dir, s))
    BY <1>1, <2>2
  <2>. QED  BY <2>1, <2>2, <2>3, StepsAhead DEF Steps
<1>3. p \in [DOMAIN ts -> DOMAIN ts \cup {NoTile}]
  <2>1. \A id \in DOMAIN ts : p[id] \in DOMAIN ts \cup {NoTile}
    BY <1>2
  <2>2. p = [id \in DOMAIN ts |-> ExitOf(ts, p, id)]
    BY PairsAreDefined DEF p
  <2>. QED  BY <1>1, <2>1, <2>2
<1>4. ASSUME NEW id \in DOMAIN ts, NEW other \in DOMAIN ts, p[id] # NoTile, p[other] = p[id]
      PROVE  ~(other < id)
  <2> SUFFICES ASSUME other < id PROVE FALSE
    OBVIOUS
  <2>1. ts[other].kind = "entrance"
    BY <1>2, <1>4
  <2>2. other \in EntrancesBefore(ts, id)
    BY <2>1 DEF EntrancesBefore
  <2>3. p[id] \in Claimed(ts, p, id)
    BY <1>4, <2>2 DEF Claimed
  <2>. QED  BY <1>2, <1>4, <2>3
<1>5. ASSUME NEW id \in DOMAIN ts, ts[id].kind = "entrance",
             NEW step \in ExitSteps(ts, id, Range(p) \ {NoTile})
      PROVE  \E nearer \in 1..(step - 1) :
               p[id] # NoTile /\ ts[p[id]].pos = Moved(ts[id].pos, ts[id].dir, nearer)
  <2>1. Claimed(ts, p, id) \subseteq Range(p) \ {NoTile}
    BY <1>1 DEF Claimed, EntrancesBefore, Range
  <2>2. step \in Steps(ts, p, id)
    BY <2>1 DEF Steps, ExitSteps
  <2>3. PICK s \in Steps(ts, p, id) :
           /\ \A r \in Steps(ts, p, id) : s <= r
           /\ ExitOf(ts, p, id) = TileAt(ts, Moved(ts[id].pos, ts[id].dir, s))
    BY <1>5, <2>2, ExitIsNearest
  <2>4. p[id] = TileAt(ts, Moved(ts[id].pos, ts[id].dir, s))
    BY <1>1, <2>3
  <2>5. /\ s \in Nat /\ s >= 1 /\ p[id] # NoTile
        /\ ts[p[id]].pos = Moved(ts[id].pos, ts[id].dir, s)
    BY <2>4, StepsAhead DEF Steps
  <2>6. step \in Nat /\ TileAt(ts, Moved(ts[id].pos, ts[id].dir, step)) \notin Range(p) \ {NoTile}
    BY StepsAhead
  <2>7. p[id] \in Range(p) \ {NoTile}
    BY <1>1, <2>5 DEF Range
  <2>8. s # step
    BY <2>4, <2>6, <2>7
  <2>9. s \in 1 .. (step - 1)
    BY <2>2, <2>3, <2>5, <2>6, <2>8
  <2>. QED  BY <2>5, <2>9
<1>6. PairedRight(ts, p)
  <2> SUFFICES ASSUME NEW id \in DOMAIN ts
               PROVE  /\ p[id] # NoTile => MatchingExit(ts, id, p[id])
                      /\ \A other \in DOMAIN ts : p[id] # NoTile /\ p[other] = p[id] => other = id
                      /\ ts[id].kind = "entrance" =>
                           \A step \in ExitSteps(ts, id, Range(p) \ {NoTile}) :
                             \E nearer \in 1..(step - 1) :
                               p[id] # NoTile /\ ts[p[id]].pos = Moved(ts[id].pos, ts[id].dir, nearer)
    BY DEF PairedRight
  <2>1. ASSUME NEW other \in DOMAIN ts, p[id] # NoTile, p[other] = p[id] PROVE other = id
    <3>1. ~(other < id) /\ ~(id < other)
      BY <1>4, <2>1
    <3>2. other \in Int /\ id \in Int
      OBVIOUS
    <3>. QED  BY <3>1, <3>2
  <2>. QED  BY <1>2, <1>5, <2>1
<1>. QED  BY <1>3, <1>6 DEF p
(* Only entrances have an exit.                                            *)
LEMMA PairsOfEntrances ==
  ASSUME NEW ts \in Seq(Tile), NEW id \in DOMAIN ts, Pairs(ts)[id] # NoTile
  PROVE  ts[id].kind = "entrance"
BY PairsAreDefined, ExitIsNearest
-----------------------------------------------------------------------------
(* The network.                                                            *)

Placeable == [kind : Kinds, dir : Dirs, tier : Tiers, pos : Places]

NetInv ==
  /\ family \in Families
  /\ phase \in {"entities", "paired", "linked"}
  /\ entities \in Seq(Placeable)
  /\ TilesOK(tiles, Len(entities))
  /\ phase # "entities" => pairs = Pairs(tiles)
  /\ ~Linked => downstream = <<>>
  /\ Linked =>
       /\ downstream = [id \in DOMAIN tiles |-> DownstreamOf(tiles, pairs, id)]
       /\ onto = [id \in DOMAIN tiles |->
                    IF downstream[id] = NoTile THEN Straight
                    ELSE LaneMapOf(tiles, pairs, id, downstream[id])]

LEMMA EntitiesAreTyped ==
  ASSUME family \in Families, NEW e \in Entity
  PROVE  e \in Placeable
<1>1. /\ family.columns \subseteq Nat /\ family.rows \subseteq Nat
      /\ family.kinds \subseteq Kinds /\ family.facings \subseteq Dirs
  BY TopologyAssumption DEF Kinds
<1>2. family.tiers \subseteq Tiers
  BY DEF Tiers
<1>3. /\ e.kind \in family.kinds /\ e.dir \in family.facings /\ e.tier \in family.tiers
      /\ e.pos \in family.columns \X family.rows
      /\ e = [kind |-> e.kind, dir |-> e.dir, tier |-> e.tier, pos |-> e.pos]
  BY DEF Entity
<1>4. e.pos \in Places
  BY <1>1, <1>3 DEF Places
<1>. QED  BY <1>1, <1>2, <1>3, <1>4 DEF Placeable

LEMMA NetInit == Init => NetInv
<1> SUFFICES ASSUME Init PROVE NetInv
  OBVIOUS
<1>1. TilesOK(<<>>, 0)
  BY DEF TilesOK, Apart, Halves, Beside
<1>. QED  BY <1>1 DEF Init, NetInv, Linked

LEMMA NetStep ==
  ASSUME NetInv, [Next]_vars
  PROVE  NetInv'
<1> USE DEF NetInv
<1>1. ASSUME NEW e \in Entity, AddTiles(e) PROVE NetInv'
  <2>1. e \in Placeable
    BY EntitiesAreTyped
  <2>2. entities' = Append(entities, e) /\ tiles' = WithEntity(tiles, e, Len(entities) + 1)
    BY <1>1 DEF AddTiles
  <2>3. entities' \in Seq(Placeable) /\ Len(entities') = Len(entities) + 1 /\ Len(entities) \in Nat
    BY <2>1, <2>2
  <2>4. TilesOK(tiles', Len(entities) + 1)
    BY <2>1, <2>2, <2>3, Placed DEF Placeable
  <2>. QED  BY <1>1, <2>3, <2>4 DEF AddTiles, Linked
<1>2. ASSUME PairUndergrounds PROVE NetInv'
  BY <1>2 DEF PairUndergrounds, Linked
<1>3. ASSUME LinkDownstream PROVE NetInv'
  BY <1>3 DEF LinkDownstream, Linked
<1>4. ASSUME Sort PROVE NetInv'
  <2>1. UNCHANGED <<family, phase, entities, tiles, pairs, onto>> /\ downstream' = downstream
    BY <1>4 DEF Sort, Order!Pop, Order!Drained
  <2>. QED  BY <2>1 DEF Linked
<1>5. CASE UNCHANGED vars
  BY <1>5 DEF vars, Linked
<1>. QED  BY <1>1, <1>2, <1>3, <1>4, <1>5 DEF Next

(* In every state of the builder the tiles are those of the entities so    *)
(* far, at different places and with their halves matched, and the pairs   *)
(* and links are computed from them.                                       *)
THEOREM NetworkInvariant == Spec => []NetInv
<1>. QED  BY NetInit, NetStep, PTL DEF Spec

(* The two halves of a splitter have each other's tile and number, and no  *)
(* other tile has that number, whatever was placed over them and in which  *)
(* order (add_splitter).                                                   *)
THEOREM SplittersAreWhole == Spec => []HalvesMatch
<1>1. NetInv => HalvesMatch
  <2> SUFFICES ASSUME NetInv, NEW s \in DOMAIN tiles, NEW t \in DOMAIN tiles
               PROVE  /\ tiles[s].partner = t /\ t # NoTile => tiles[t].partner = s
                      /\ tiles[s].kind = "splitter" /\ s # t =>
                           (tiles[t].splitter = tiles[s].splitter <=> tiles[s].partner = t)
    BY DEF HalvesMatch
  <2>. QED  BY DEF NetInv, TilesOK, Halves
<1>. QED  BY <1>1, NetworkInvariant, PTL

(* U5: whatever the order of the blueprint, the pairing of undergrounds is *)
(* one to one, between matching ends, and no entrance passes an exit by    *)
(* that nobody took (pair_undergrounds).                                   *)
THEOREM UndergroundsMeet == Spec => []UndergroundsPaired
<1>1. NetInv => UndergroundsPaired
  <2> SUFFICES ASSUME NetInv, phase # "entities" PROVE PairedRight(tiles, pairs)
    BY DEF UndergroundsPaired, PairedRight
  <2>. QED  BY PairsAreRight DEF NetInv, TilesOK
<1>. QED  BY <1>1, NetworkInvariant, PTL

(* The network of every blueprint is wired as BeltNetwork takes it to be:  *)
(* links lead from tiles to tiles, never back to the tile whose item is    *)
(* handed on nor to the half that sends an item over (link_downstream).    *)
THEOREM LinksLeadOn == Spec => [](Linked => WellWired(tiles, downstream, onto))
<1>1. NetInv => (Linked => WellWired(tiles, downstream, onto))
  <2> SUFFICES ASSUME NetInv, Linked PROVE WellWired(tiles, downstream, onto)
    OBVIOUS
  <2> DEFINE ids == DOMAIN tiles
             ahead(id) == Moved(tiles[id].pos, tiles[id].dir, 1)
  <2>1. tiles \in Seq(Tile) /\ Halves(tiles, Len(entities)) /\ Beside(tiles) /\ ids = 1 .. Len(tiles) /\ Len(tiles) \in Nat
    BY DEF NetInv, TilesOK
  <2>2. pairs \in [ids -> ids \cup {NoTile}] /\ PairedRight(tiles, pairs)
    BY <2>1, PairsAreRight DEF NetInv, Linked
  <2>3. /\ downstream = [id \in ids |-> DownstreamOf(tiles, pairs, id)]
        /\ onto = [id \in ids |-> IF downstream[id] = NoTile THEN Straight
                                  ELSE LaneMapOf(tiles, pairs, id, downstream[id])]
    BY DEF NetInv
  <2>4. ASSUME NEW id \in ids, downstream[id] # NoTile
        PROVE  \/ pairs[id] = downstream[id] /\ MatchingExit(tiles, id, downstream[id])
               \/ pairs[id] = NoTile /\ downstream[id] \in ids /\ tiles[downstream[id]].pos = ahead(id)
    BY <2>1, <2>2, <2>3, <2>4, TileAtFound DEF DownstreamOf, PairedRight
  <2>5. NoTile \notin ids
    BY <2>1 DEF NoTile
  <2>6. downstream \in [ids -> ids \cup {NoTile}]
    <3>1. \A id \in ids : downstream[id] \in ids \cup {NoTile}
      BY <2>2, <2>4
    <3>. QED  BY <2>3, <3>1
  <2>7. onto \in [ids -> Lanes \cup {Straight}]
    <3>1. \A id \in ids : \A t : LaneMapOf(tiles, pairs, id, t) \in Lanes \cup {Straight}
      BY DEF LaneMapOf, NearLane, Lanes
    <3>. QED  BY <2>3, <3>1
  <2>8. ASSUME NEW id \in ids PROVE downstream[id] # id
    <3>1. tiles[id].pos \in Places /\ tiles[id].dir \in Dirs
      <4>1. tiles[id] \in Tile
        BY <2>1
      <4>. QED  BY <4>1 DEF Tile
    <3>2. ahead(id) # tiles[id].pos
      BY <3>1 DEF Places, Dirs, Moved, Delta
    <3>3. pairs[id] # NoTile => tiles[id].kind = "entrance"
      BY <2>1, PairsOfEntrances DEF NetInv, Linked
    <3>. QED  BY <2>4, <2>5, <3>2, <3>3 DEF MatchingExit
  <2>9. ASSUME NEW id \in ids
        PROVE  /\ tiles[id].partner \in ids \cup {NoTile}
               /\ tiles[id].partner # NoTile => downstream[tiles[id].partner] # id
    <3> DEFINE other == tiles[id].partner
    <3>1. other \in ids \cup {NoTile}
      BY <2>1 DEF Halves, NoTile
    <3>2. ASSUME other # NoTile PROVE downstream[other] # id
      <4>1. other \in ids /\ tiles[other].kind = "splitter" /\ ahead(other) # tiles[id].pos
        BY <2>1, <3>1, <3>2 DEF Beside
      <4>2. pairs[other] = NoTile
        BY <2>1, <4>1, PairsOfEntrances DEF NetInv, Linked
      <4>. QED  BY <2>4, <2>5, <4>1, <4>2
    <3>. QED  BY <3>1, <3>2
  <2>. QED  BY <2>5, <2>6, <2>7, <2>8, <2>9 DEF WellWired
<1>. QED  BY <1>1, NetworkInvariant, PTL

(* The places beside and behind a tile, and the lanes they are near.       *)
LEMMA Flanks ==
  ASSUME NEW target, target.pos \in Places, target.dir \in Dirs
  PROVE  LET left  == Moved(target.pos, LeftOf[target.dir], 1)
             right == Moved(target.pos, Opposite[LeftOf[target.dir]], 1)
         IN  /\ left # right /\ left # Behind(target) /\ right # Behind(target)
             /\ NearLane(target, left) = 0 /\ NearLane(target, right) = 1
<1>1. PICK x \in Int, y \in Int : target.pos = <<x, y>>
  BY DEF Places
<1> USE <1>1 DEF Moved, Behind, NearLane, Delta, LeftOf, Opposite
<1>2. CASE target.dir = "North"
  BY <1>2
<1>3. CASE target.dir = "East"
  BY <1>3
<1>4. CASE target.dir = "South"
  BY <1>4
<1>5. CASE target.dir = "West"
  BY <1>5
<1>. QED  BY <1>2, <1>3, <1>4, <1>5 DEF Dirs

(* B8, B10, U7: belts that run into a tile from both sides get different   *)
(* lanes of it, whatever else is around (lane_map).                        *)
THEOREM FlanksApart == Spec => []FlanksShareNoLane
<1>1. NetInv => FlanksShareNoLane
  <2> SUFFICES ASSUME NetInv, Linked, NEW t \in DOMAIN tiles,
                      NEW a \in Feeders(t), NEW b \in Feeders(t),
                      OnFlank(a, t), OnFlank(b, t), pairs[a] = NoTile, pairs[b] = NoTile, a # b
               PROVE  onto[a] \in Lanes /\ onto[b] \in Lanes /\ onto[a] # onto[b]
    BY DEF FlanksShareNoLane
  <2> DEFINE left  == Moved(tiles[t].pos, LeftOf[tiles[t].dir], 1)
             right == Moved(tiles[t].pos, Opposite[LeftOf[tiles[t].dir]], 1)
  <2>1. tiles \in Seq(Tile) /\ Apart(tiles) /\ t # NoTile
    BY DEF NetInv, TilesOK, NoTile
  <2>2. tiles[t].pos \in Places /\ tiles[t].dir \in Dirs
    <3>1. tiles[t] \in Tile
      BY <2>1
    <3>. QED  BY <3>1 DEF Tile
  <2>3. a \in DOMAIN tiles /\ downstream[a] = t /\ b \in DOMAIN tiles /\ downstream[b] = t
    BY DEF Feeders
  <2>4. ASSUME NEW c \in {a, b} PROVE c \in Facing(tiles, pairs, t)
    <3>1. c \in DOMAIN tiles /\ pairs[c] = NoTile /\ DownstreamOf(tiles, pairs, c) = t
      BY <2>3 DEF NetInv
    <3>2. TileAt(tiles, Moved(tiles[c].pos, tiles[c].dir, 1)) = t
      BY <2>1, <3>1 DEF DownstreamOf
    <3>3. tiles[t].pos = Moved(tiles[c].pos, tiles[c].dir, 1)
      BY <2>1, <3>2, TileAtFound
    <3>. QED  BY <3>1, <3>3 DEF Facing
  <2>5. ASSUME NEW c \in {a, b}
        PROVE  onto[c] = IF tiles[t].kind = "entrance" THEN 1 - NearLane(tiles[t], tiles[c].pos)
                         ELSE NearLane(tiles[t], tiles[c].pos)
    <3>1. onto[c] = LaneMapOf(tiles, pairs, c, t)
      BY <2>1, <2>3 DEF NetInv
    <3>2. tiles[c].pos = left \/ tiles[c].pos = right
      BY DEF OnFlank
    <3>3. ~BackFeed(tiles[t], tiles[c])
      <4> HIDE DEF left, right
      <4>. QED  BY <2>2, <3>2, Flanks DEF BackFeed, left, right
    <3>4. Facing(tiles, pairs, t) # {c}
      BY <2>4
    <3>. QED  BY <3>1, <3>3, <3>4 DEF LaneMapOf
  <2>6. tiles[a].pos # tiles[b].pos
    BY <2>1, <2>3 DEF Apart
  <2>7. \/ tiles[a].pos = left /\ tiles[b].pos = right
        \/ tiles[a].pos = right /\ tiles[b].pos = left
    BY <2>6 DEF OnFlank
  <2>8. NearLane(tiles[t], left) = 0 /\ NearLane(tiles[t], right) = 1
    BY <2>2, Flanks
  <2> HIDE DEF left, right
  <2>. QED  BY <2>5, <2>7, <2>8 DEF Lanes
<1>. QED  BY <1>1, NetworkInvariant, PTL
-----------------------------------------------------------------------------
(* The tiles of a whole blueprint.                                         *)

\* The tiles of the first entities of a blueprint, from none to the first k.
IsTiled(es, k, f) == f = [n \in 0 .. k |-> IF n = 0 THEN <<>> ELSE WithEntity(f[n - 1], es[n], n)]
Tiled(es, k) == \E f : IsTiled(es, k, f)

(* The tiles of the first n entities follow from those of the n - 1 before *)
(* them, so they exist for every n.                                        *)
LEMMA TilesAreDefined ==
  ASSUME NEW es, NEW n \in Nat
  PROVE  Tiled(es, n)
<1> DEFINE Missed == {k \in Nat : ~Tiled(es, k)}
<1> SUFFICES ASSUME Missed # {} PROVE FALSE
  OBVIOUS
<1>1. PICK k \in Missed : \A j \in Missed : k <= j
  <2>1. Missed \subseteq Nat
    OBVIOUS
  <2> HIDE DEF Missed
  <2>. QED  BY <2>1, Least
<1>2. CASE k = 0
  <2> DEFINE f == [i \in 0 .. 0 |-> <<>>]
  <2>1. f = [i \in 0 .. 0 |-> IF i = 0 THEN <<>> ELSE WithEntity(f[i - 1], es[i], i)]
    OBVIOUS
  <2> HIDE DEF f
  <2>2. Tiled(es, 0)
    BY <2>1 DEF Tiled, IsTiled
  <2>. QED  BY <1>1, <1>2, <2>2
<1>3. CASE k # 0
  <2>1. k - 1 \in Nat /\ k - 1 \notin Missed
    BY <1>1, <1>3
  <2>2. PICK f : IsTiled(es, k - 1, f)
    BY <2>1 DEF Tiled
  <2> DEFINE g == [i \in 0 .. k |-> IF i < k THEN f[i] ELSE WithEntity(f[i - 1], es[i], i)]
             next(h, i) == IF i = 0 THEN <<>> ELSE WithEntity(h[i - 1], es[i], i)
  <2>3. ASSUME NEW i \in 0 .. k PROVE g[i] = next(g, i)
    <3>1. i < k => f[i] = next(f, i)
      <4>1. i < k => i \in 0 .. k - 1
        BY <2>1
      <4>2. f = [j \in 0 .. k - 1 |-> next(f, j)]
        BY <2>2, Zenon DEF IsTiled
      <4> HIDE DEF next
      <4>. QED  BY <4>1, <4>2, Zenon
    <3>2. i # 0 => g[i - 1] = f[i - 1]
      <4>1. i # 0 => i - 1 \in 0 .. k /\ i - 1 < k
        BY <2>1
      <4>. QED  BY <4>1
    <3>3. next(g, i) = next(f, i)
      BY <3>2
    <3>4. ~(i < k) => i # 0
      BY <2>1
    <3>5. g[i] = IF i < k THEN f[i] ELSE next(f, i)
      BY <3>4
    <3> HIDE DEF g, next
    <3>. QED  BY <3>1, <3>3, <3>5
  <2>4. g = [i \in 0 .. k |-> g[i]]
    OBVIOUS
  <2> HIDE DEF g
  <2>5. g = [i \in 0 .. k |-> next(g, i)]
    <3> HIDE DEF next
    <3>. QED  BY <2>3, <2>4, Zenon
  <2>6. Tiled(es, k)
    BY <2>5, Zenon DEF Tiled, IsTiled
  <2>. QED  BY <1>1, <2>6
<1>. QED  BY <1>2, <1>3

(* The tiles of n entities, from those of n - 1.                           *)
LEMMA TiledFrom ==
  ASSUME NEW es, NEW k, NEW f, IsTiled(es, k, f), NEW n \in 0 .. k
  PROVE  f[n] = IF n = 0 THEN <<>> ELSE WithEntity(f[n - 1], es[n], n)
BY Zenon DEF IsTiled

(* The last entity of n + 1.                                              *)
LEMMA TiledLast ==
  ASSUME NEW es, NEW n \in Nat, NEW f, IsTiled(es, n + 1, f)
  PROVE  f[n + 1] = WithEntity(f[n], es[n + 1], n + 1)
<1> DEFINE m == n + 1
<1>1. m \in 0 .. m /\ m # 0 /\ m - 1 = n
  OBVIOUS
<1> HIDE DEF m
<1>2. f[m] = IF m = 0 THEN <<>> ELSE WithEntity(f[m - 1], es[m], m)
  <2>1. IsTiled(es, m, f)
    BY DEF m
  <2>. QED  BY <1>1, <2>1, TiledFrom
<1>3. f[m] = WithEntity(f[n], es[m], m)
  BY <1>1, <1>2
<1>. QED  BY <1>3 DEF m

(* Two blueprints that begin alike have the same tiles so far.             *)
LEMMA TiledAlike ==
  ASSUME NEW k \in Nat, NEW es, NEW fs, \A i \in 1 .. k : es[i] = fs[i],
         NEW j \in Nat, NEW l \in Nat, k <= j, k <= l,
         NEW f, IsTiled(es, j, f), NEW g, IsTiled(fs, l, g)
  PROVE  f[k] = g[k]
<1> DEFINE Differ == {i \in Nat : i <= k /\ f[i] # g[i]}
<1> SUFFICES ASSUME Differ # {} PROVE FALSE
  OBVIOUS
<1>1. PICK i \in Differ : \A h \in Differ : i <= h
  <2>1. Differ \subseteq Nat
    OBVIOUS
  <2> HIDE DEF Differ
  <2>. QED  BY <2>1, Least
<1>2. i \in 0 .. j /\ i \in 0 .. l /\ i \in Nat
  BY <1>1
<1>3. f[i] = IF i = 0 THEN <<>> ELSE WithEntity(f[i - 1], es[i], i)
  BY <1>2, TiledFrom
<1>4. g[i] = IF i = 0 THEN <<>> ELSE WithEntity(g[i - 1], fs[i], i)
  BY <1>2, TiledFrom
<1>5. i # 0 => es[i] = fs[i]
  BY <1>1
<1>6. i # 0 => f[i - 1] = g[i - 1]
  BY <1>1
<1>7. f[i] = g[i]
  BY <1>3, <1>4, <1>5, <1>6
<1>. QED  BY <1>1, <1>7

(* The tiles of one entity more.                                           *)
LEMMA TilesOfOneMore ==
  ASSUME NEW S, NEW es \in Seq(S), NEW e \in S
  PROVE  TilesOf(Append(es, e)) = WithEntity(TilesOf(es), e, Len(es) + 1)
<1> DEFINE n == Len(es)
           more == Append(es, e)
<1>1. n \in Nat /\ n + 1 \in Nat /\ Len(more) = n + 1 /\ more[n + 1] = e /\ \A i \in 1 .. n : es[i] = more[i]
  OBVIOUS
<1> HIDE DEF more, n
<1>2. ASSUME NEW bs, Len(bs) \in Nat
      PROVE  \E f : IsTiled(bs, Len(bs), f) /\ TilesOf(bs) = f[Len(bs)]
  <2>1. Tiled(bs, Len(bs))
    BY <1>2, TilesAreDefined
  <2>2. IsTiled(bs, Len(bs), CHOOSE f : IsTiled(bs, Len(bs), f))
    BY <2>1 DEF Tiled
  <2>3. TilesOf(bs) = (CHOOSE f : IsTiled(bs, Len(bs), f))[Len(bs)]
    BY DEF TilesOf, IsTiled
  <2>. QED  BY <2>2, <2>3
<1>3. PICK f : IsTiled(es, n, f) /\ TilesOf(es) = f[n]
  BY <1>1, <1>2 DEF n
<1>4. PICK g : IsTiled(more, n + 1, g) /\ TilesOf(more) = g[n + 1]
  BY <1>1, <1>2
<1>5. f[n] = g[n]
  BY <1>1, <1>3, <1>4, TiledAlike
<1>6. g[n + 1] = WithEntity(g[n], e, n + 1)
  BY <1>1, <1>4, TiledLast
<1>. QED  BY <1>3, <1>4, <1>5, <1>6 DEF n, more

(* A blueprint of nothing has no tiles.                                    *)
LEMMA TilesOfNone == TilesOf(<<>>) = <<>>
<1>1. Len(<<>>) = 0
  OBVIOUS
<1>2. Tiled(<<>>, 0)
  BY TilesAreDefined
<1>3. PICK f : IsTiled(<<>>, 0, f) /\ TilesOf(<<>>) = f[0]
  BY <1>1, <1>2 DEF Tiled, TilesOf, IsTiled
<1>. QED  BY <1>3, TiledFrom

-----------------------------------------------------------------------------
(* A blueprint and its quarter turn.                                       *)

(* The quarter turn of a facing.                                           *)
LEMMA DirsTurn ==
  /\ TurnDir("North") = "East" /\ TurnDir("East") = "South"
  /\ TurnDir("South") = "West" /\ TurnDir("West") = "North"
<1>1. ASSUME NEW d \in Dirs, NEW r \in Dirs, LeftOf[r] = d, \A s \in Dirs : LeftOf[s] = d => s = r
      PROVE  TurnDir(d) = r
  BY <1>1 DEF TurnDir
<1>. QED  BY <1>1 DEF Dirs, LeftOf

(* Facings turn one to one, and with what is behind them.                  *)
LEMMA FacingsTurn ==
  ASSUME NEW d \in Dirs
  PROVE  /\ TurnDir(d) \in Dirs /\ \A c \in Dirs : TurnDir(c) = TurnDir(d) => c = d
         /\ Opposite[d] \in Dirs /\ TurnDir(Opposite[d]) = Opposite[TurnDir(d)]
BY DirsTurn DEF Dirs, Opposite

(* Places turn one to one.                                                 *)
LEMMA PlacesTurn ==
  ASSUME NEW p \in Places
  PROVE  TurnPos(p) \in Places /\ \A q \in Places : TurnPos(q) = TurnPos(p) => q = p
<1>1. PICK x \in Int, y \in Int : p = <<x, y>>
  BY DEF Places
<1>2. TurnPos(p) = <<-y, x>>
  BY <1>1 DEF TurnPos
<1>3. ASSUME NEW q \in Places, TurnPos(q) = TurnPos(p) PROVE q = p
  <2>1. PICK a \in Int, b \in Int : q = <<a, b>>
    BY DEF Places
  <2>2. TurnPos(q) = <<-b, a>>
    BY <2>1 DEF TurnPos
  <2>3. -b = -y /\ a = x
    BY <1>2, <1>3, <2>2
  <2>. QED  BY <1>1, <2>1, <2>3
<1>. QED  BY <1>2, <1>3 DEF Places

(* Steps turn with where they start and where they lead.                   *)
LEMMA StepsTurn ==
  ASSUME NEW p \in Places, NEW d \in Dirs, NEW k \in Int
  PROVE  Moved(p, d, k) \in Places /\ TurnPos(Moved(p, d, k)) = Moved(TurnPos(p), TurnDir(d), k)
<1>1. PICK x \in Int, y \in Int : p = <<x, y>>
  BY DEF Places
<1> USE <1>1, DirsTurn DEF Moved, Delta, TurnPos, Places
<1>2. CASE d = "North"
  BY <1>2
<1>3. CASE d = "East"
  BY <1>3
<1>4. CASE d = "South"
  BY <1>4
<1>5. CASE d = "West"
  BY <1>5
<1>. QED  BY <1>2, <1>3, <1>4, <1>5 DEF Dirs

\* Tile b is tile a after the quarter turn.
IsTurned(a, b) ==
  b.pos = TurnPos(a.pos) /\ b.dir = TurnDir(a.dir) /\ b.kind = a.kind /\ b.tier = a.tier

(* The lane of a tile that a place is near turns with both.                *)
LEMMA LanesTurn ==
  ASSUME NEW a, a.pos \in Places, a.dir \in Dirs, NEW b, IsTurned(a, b), NEW p \in Places
  PROVE  NearLane(b, TurnPos(p)) = NearLane(a, p)
<1>1. PICK x \in Int, y \in Int : a.pos = <<x, y>>
  BY DEF Places
<1>2. PICK u \in Int, v \in Int : p = <<u, v>>
  BY DEF Places
<1>3. b.pos = <<-y, x>> /\ TurnPos(p) = <<-v, u>> /\ b.dir = TurnDir(a.dir)
  BY <1>1, <1>2 DEF IsTurned, TurnPos
<1> USE <1>1, <1>2, <1>3, DirsTurn DEF NearLane, Delta, LeftOf
<1>4. CASE a.dir = "North"
  BY <1>4
<1>5. CASE a.dir = "East"
  BY <1>5
<1>6. CASE a.dir = "South"
  BY <1>6
<1>7. CASE a.dir = "West"
  BY <1>7
<1>. QED  BY <1>4, <1>5, <1>6, <1>7 DEF Dirs

(* A tile feeds another from behind also when both are turned.             *)
LEMMA BacksTurn ==
  ASSUME NEW a \in Tile, NEW b, IsTurned(a, b), NEW s \in Tile, NEW t, IsTurned(s, t)
  PROVE  BackFeed(b, t) <=> BackFeed(a, s)
<1>1. a.pos \in Places /\ a.dir \in Dirs /\ s.pos \in Places
  BY DEF Tile
<1>2. Behind(a) \in Places /\ TurnPos(Behind(a)) = Behind(b)
  <2>1. Opposite[a.dir] \in Dirs /\ TurnDir(Opposite[a.dir]) = Opposite[TurnDir(a.dir)]
    BY <1>1, FacingsTurn
  <2>2. /\ Moved(a.pos, Opposite[a.dir], 1) \in Places
        /\ TurnPos(Moved(a.pos, Opposite[a.dir], 1)) = Moved(TurnPos(a.pos), TurnDir(Opposite[a.dir]), 1)
    BY <1>1, <2>1, StepsTurn
  <2>. QED  BY <2>1, <2>2 DEF Behind, IsTurned
<1>3. t.pos = TurnPos(s.pos)
  BY DEF IsTurned
<1>4. TurnPos(s.pos) = TurnPos(Behind(a)) => s.pos = Behind(a)
  BY <1>1, <1>2, PlacesTurn
<1>. QED  BY <1>2, <1>3, <1>4 DEF BackFeed

(* The tiles us are the tiles ts after the quarter turn, each at the       *)
(* number m gives it; the two halves of a splitter may have changed places.*)
TurnedBy(ts, us, m) ==
  /\ Len(us) = Len(ts)
  /\ \A i \in DOMAIN ts :
       /\ m[i] \in DOMAIN ts /\ m[m[i]] = i
       /\ IsTurned(ts[i], us[m[i]])
       /\ ts[i].kind # "splitter" => m[i] = i

(* What is found at a place is found at the turned place.                  *)
LEMMA TileAtTurned ==
  ASSUME NEW ts \in Seq(Tile), Apart(ts), NEW us \in Seq(Tile), Apart(us),
         NEW m, TurnedBy(ts, us, m), NEW p \in Places
  PROVE  /\ TileAt(ts, p) = NoTile => TileAt(us, TurnPos(p)) = NoTile
         /\ TileAt(ts, p) # NoTile => TileAt(us, TurnPos(p)) = m[TileAt(ts, p)]
<1>1. DOMAIN us = DOMAIN ts
  BY DEF TurnedBy
<1>2. \A i \in DOMAIN ts : ts[i].pos \in Places
  <2>1. \A i \in DOMAIN ts : ts[i] \in Tile
    OBVIOUS
  <2>. QED  BY <2>1 DEF Tile
<1>3. CASE TileAt(ts, p) = NoTile
  <2> SUFFICES ASSUME TileAt(us, TurnPos(p)) # NoTile PROVE FALSE
    BY <1>3
  <2> DEFINE j == TileAt(us, TurnPos(p))
  <2>1. j \in DOMAIN ts /\ us[j].pos = TurnPos(p)
    BY <1>1, TileAtFound
  <2> HIDE DEF j
  <2>2. m[j] \in DOMAIN ts /\ us[j].pos = TurnPos(ts[m[j]].pos)
    BY <2>1 DEF TurnedBy, IsTurned
  <2>3. ts[m[j]].pos = p
    BY <1>2, <2>1, <2>2, PlacesTurn
  <2>. QED  BY <1>3, <2>2, <2>3, TileAtFound
<1>4. CASE TileAt(ts, p) # NoTile
  <2> DEFINE i == TileAt(ts, p)
  <2>1. i \in DOMAIN ts /\ ts[i].pos = p
    BY <1>4, TileAtFound
  <2> HIDE DEF i
  <2>2. m[i] \in DOMAIN us /\ us[m[i]].pos = TurnPos(p)
    BY <1>1, <2>1 DEF TurnedBy, IsTurned
  <2>3. TileAt(us, us[m[i]].pos) = m[i]
    BY <2>2, FoundAtItsPlace
  <2>. QED  BY <1>4, <2>2, <2>3 DEF i
<1>. QED  BY <1>3, <1>4

(* What TurnedBy says of one tile.                                         *)
LEMMA OneTurned ==
  ASSUME NEW ts \in Seq(Tile), NEW us \in Seq(Tile), NEW m, TurnedBy(ts, us, m), NEW i \in DOMAIN ts
  PROVE  /\ DOMAIN us = DOMAIN ts /\ NoTile \notin DOMAIN ts
         /\ m[i] \in DOMAIN ts /\ m[m[i]] = i /\ IsTurned(ts[i], us[m[i]])
         /\ ts[i].kind = "splitter" \/ m[i] = i
         /\ us[i].kind = ts[i].kind
         /\ ts[i] \in Tile /\ ts[i].pos \in Places /\ ts[i].dir \in Dirs
<1>1. DOMAIN us = DOMAIN ts /\ NoTile \notin DOMAIN ts
  BY DEF TurnedBy, NoTile
<1>2. m[i] \in DOMAIN ts /\ m[m[i]] = i /\ IsTurned(ts[i], us[m[i]]) /\ (ts[i].kind = "splitter" \/ m[i] = i)
  BY DEF TurnedBy
<1>3. IsTurned(ts[m[i]], us[i]) /\ (ts[m[i]].kind = "splitter" \/ m[i] = i)
  BY <1>2 DEF TurnedBy
<1>4. us[i].kind = ts[m[i]].kind
  BY <1>3 DEF IsTurned
<1>5. ts[i] \in Tile
  OBVIOUS
<1>6. ts[i].pos \in Places /\ ts[i].dir \in Dirs
  BY <1>5 DEF Tile
<1>. QED  BY <1>1, <1>2, <1>3, <1>4, <1>5, <1>6 DEF IsTurned

(* Undergrounds and exits keep their numbers, so the pairing, which takes  *)
(* the entrances by number, is the same.                                   *)
LEMMA PairsTurn ==
  ASSUME NEW ts \in Seq(Tile), Apart(ts), NEW us \in Seq(Tile), Apart(us), NEW m, TurnedBy(ts, us, m)
  PROVE  Pairs(us) = Pairs(ts)
<1>1. DOMAIN us = DOMAIN ts /\ NoTile \notin DOMAIN ts
  BY DEF TurnedBy, NoTile
<1>2. \A i \in DOMAIN ts : us[i].kind = ts[i].kind
  BY OneTurned
<1>3. ASSUME NEW id \in DOMAIN ts, ts[id].kind = "entrance", NEW k \in Int
      PROVE  LET cand == TileAt(ts, Moved(ts[id].pos, ts[id].dir, k))
                 same == TileAt(us, Moved(us[id].pos, us[id].dir, k))
             IN  /\ cand # NoTile /\ MatchingExit(ts, id, cand) => same = cand /\ MatchingExit(us, id, same)
                 /\ same # NoTile /\ MatchingExit(us, id, same) => same = cand /\ MatchingExit(ts, id, cand)
  <2> DEFINE ahead == Moved(ts[id].pos, ts[id].dir, k)
             cand == TileAt(ts, ahead)
             same == TileAt(us, Moved(us[id].pos, us[id].dir, k))
  <2>1. m[id] = id /\ IsTurned(ts[id], us[id]) /\ ts[id].pos \in Places /\ ts[id].dir \in Dirs
    BY <1>3, OneTurned
  <2>2. ahead \in Places /\ TurnPos(ahead) = Moved(us[id].pos, us[id].dir, k)
    BY <2>1, StepsTurn DEF IsTurned
  <2>3. /\ cand = NoTile => same = NoTile
        /\ cand # NoTile => cand \in DOMAIN ts /\ same = m[cand]
    BY <2>2, TileAtTurned, TileAtFound
  <2> HIDE DEF cand, same
  <2>4. ASSUME cand # NoTile
        PROVE  /\ MatchingExit(ts, id, cand) => same = cand /\ MatchingExit(us, id, same)
               /\ MatchingExit(us, id, same) => same = cand /\ MatchingExit(ts, id, cand)
    <3>1. cand \in DOMAIN ts /\ same = m[cand]
      BY <2>3, <2>4
    <3>2. /\ IsTurned(ts[cand], us[same]) /\ (ts[cand].kind = "splitter" \/ same = cand)
          /\ ts[cand].dir \in Dirs
      BY <3>1, OneTurned
    <3>3. TurnDir(ts[cand].dir) = TurnDir(ts[id].dir) => ts[cand].dir = ts[id].dir
      BY <2>1, <3>2, FacingsTurn
    <3>. QED  BY <2>1, <3>2, <3>3 DEF MatchingExit, IsTurned
  <2>5. cand = NoTile => same = NoTile
    BY <2>3
  <2>. QED  BY <2>4, <2>5 DEF cand, same
<1>4. ASSUME NEW id \in DOMAIN ts, ts[id].kind = "entrance", NEW claimed
      PROVE  PairEntrance(us, id, claimed) = PairEntrance(ts, id, claimed)
  <2>1. us[id].tier = ts[id].tier
    BY <1>4, OneTurned DEF IsTurned
  <2>2. ExitSteps(us, id, claimed) = ExitSteps(ts, id, claimed)
    BY <1>3, <1>4, <2>1 DEF ExitSteps
  <2>3. ASSUME NEW s \in ExitSteps(ts, id, claimed)
        PROVE  TileAt(us, Moved(us[id].pos, us[id].dir, s)) = TileAt(ts, Moved(ts[id].pos, ts[id].dir, s))
    BY <1>3, <1>4, StepsAhead
  <2> DEFINE steps == ExitSteps(ts, id, claimed)
             nearest == CHOOSE s \in steps : \A r \in steps : s <= r
  <2>4. steps # {} => nearest \in steps
    <3>1. steps \subseteq Nat
      BY StepsAhead
    <3> HIDE DEF steps
    <3>2. nearest = Min(steps)
      BY DEF Min
    <3>. QED  BY <3>1, <3>2, Least
  <2>. QED  BY <2>2, <2>3, <2>4 DEF PairEntrance, NearestExit
<1>5. ASSUME NEW id \in DOMAIN ts, NEW f
      PROVE  ExitOf(us, f, id) = ExitOf(ts, f, id)
  <2>1. EntrancesBefore(us, id) = EntrancesBefore(ts, id)
    <3>1. ASSUME NEW e \in 1 .. (id - 1) PROVE us[e].kind = ts[e].kind
      <4>1. e \in DOMAIN ts
        OBVIOUS
      <4>. QED  BY <1>2, <4>1
    <3>. QED  BY <3>1 DEF EntrancesBefore
  <2>2. Claimed(us, f, id) = Claimed(ts, f, id)
    BY <2>1 DEF Claimed
  <2>. QED  BY <1>2, <1>4, <2>2 DEF ExitOf
<1>6. /\ Pairs(ts) = CHOOSE f : f = [id \in DOMAIN ts |-> ExitOf(ts, f, id)]
      /\ Pairs(us) = CHOOSE f : f = [id \in DOMAIN us |-> ExitOf(us, f, id)]
  BY DEF Pairs, ExitOf, Claimed
<1>7. \A f : [id \in DOMAIN us |-> ExitOf(us, f, id)] = [id \in DOMAIN ts |-> ExitOf(ts, f, id)]
  BY <1>1, <1>5
<1>. QED  BY <1>6, <1>7, Zenon

(* The link of a tile turns with it.                                       *)
LEMMA DownstreamTurns ==
  ASSUME NEW ts \in Seq(Tile), Apart(ts), NEW us \in Seq(Tile), Apart(us), NEW m, TurnedBy(ts, us, m),
         NEW id \in DOMAIN ts
  PROVE  LET next == DownstreamOf(ts, Pairs(ts), id)
             same == DownstreamOf(us, Pairs(us), m[id])
         IN  /\ Pairs(us)[m[id]] = NoTile <=> Pairs(ts)[id] = NoTile
             /\ next = NoTile => same = NoTile
             /\ next # NoTile => next \in DOMAIN ts /\ same = m[next]
<1> DEFINE p == Pairs(ts)
           ahead == Moved(ts[id].pos, ts[id].dir, 1)
           t == TileAt(ts, ahead)
           u == TileAt(us, Moved(us[m[id]].pos, us[m[id]].dir, 1))
<1>1. Pairs(us) = p
  BY PairsTurn
<1>2. p \in [DOMAIN ts -> DOMAIN ts \cup {NoTile}] /\ PairedRight(ts, p)
  BY PairsAreRight
<1>3. /\ DOMAIN us = DOMAIN ts /\ NoTile \notin DOMAIN ts /\ m[id] \in DOMAIN ts /\ m[m[id]] = id
      /\ IsTurned(ts[id], us[m[id]]) /\ (ts[id].kind = "splitter" \/ m[id] = id)
      /\ ts[id].pos \in Places /\ ts[id].dir \in Dirs
  BY OneTurned
<1>4. p[m[id]] = p[id] /\ (p[id] # NoTile => m[id] = id)
  <2>1. ASSUME p[id] # NoTile PROVE ts[id].kind = "entrance"
    BY <2>1, PairsOfEntrances
  <2>2. ASSUME p[m[id]] # NoTile PROVE us[m[id]].kind = "entrance"
    BY <1>1, <1>3, <2>2, PairsOfEntrances
  <2>. QED  BY <1>3, <2>1, <2>2 DEF IsTurned
<1>5. ASSUME p[id] # NoTile PROVE p[id] \in DOMAIN ts /\ m[p[id]] = p[id]
  <2>1. p[id] \in DOMAIN ts /\ ts[p[id]].kind = "exit"
    BY <1>2, <1>5 DEF PairedRight, MatchingExit
  <2>. QED  BY <2>1, OneTurned
<1>6. /\ t = NoTile => u = NoTile
      /\ t # NoTile => t \in DOMAIN ts /\ u = m[t]
  <2>1. ahead \in Places /\ TurnPos(ahead) = Moved(us[m[id]].pos, us[m[id]].dir, 1)
    BY <1>3, StepsTurn DEF IsTurned
  <2>. QED  BY <2>1, TileAtTurned, TileAtFound
<1> HIDE DEF p, t, u
<1>7. ASSUME t # NoTile PROVE Connects(us, m[id], u) <=> Connects(ts, id, t)
  <2>1. t \in DOMAIN ts /\ u = m[t]
    BY <1>6, <1>7
  <2>2. IsTurned(ts[t], us[u]) /\ ts[t] \in Tile /\ ts[id] \in Tile
    BY <2>1, OneTurned
  <2>3. BackFeed(us[u], us[m[id]]) <=> BackFeed(ts[t], ts[id])
    BY <1>3, <2>2, BacksTurn
  <2>. QED  BY <1>3, <2>2, <2>3 DEF Connects, IsTurned
<1>8. /\ DownstreamOf(ts, p, id) = IF p[id] # NoTile THEN p[id] ELSE IF t # NoTile /\ Connects(ts, id, t) THEN t ELSE NoTile
      /\ DownstreamOf(us, p, m[id]) =
           IF p[m[id]] # NoTile THEN p[m[id]] ELSE IF u # NoTile /\ Connects(us, m[id], u) THEN u ELSE NoTile
  BY DEF DownstreamOf, t, u
<1>9. t # NoTile => u # NoTile
  BY <1>3, <1>6, OneTurned
<1>. QED  BY <1>1, <1>4, <1>5, <1>6, <1>7, <1>8, <1>9 DEF p

(* So does the lane it leads to: what faces a tile turns with that tile.   *)
LEMMA LaneMapTurns ==
  ASSUME NEW ts \in Seq(Tile), Apart(ts), NEW us \in Seq(Tile), Apart(us), NEW m, TurnedBy(ts, us, m),
         NEW id \in DOMAIN ts, NEW t \in DOMAIN ts
  PROVE  LaneMapOf(us, Pairs(us), m[id], m[t]) = LaneMapOf(ts, Pairs(ts), id, t)
<1> DEFINE p == Pairs(ts)
           q == Pairs(us)
<1>1. /\ DOMAIN us = DOMAIN ts /\ m[id] \in DOMAIN ts /\ IsTurned(ts[id], us[m[id]]) /\ m[m[id]] = id
      /\ IsTurned(ts[t], us[m[t]]) /\ ts[id] \in Tile /\ ts[t] \in Tile
      /\ ts[id].pos \in Places /\ ts[t].pos \in Places /\ ts[t].dir \in Dirs
  BY OneTurned
<1>2. \A i \in DOMAIN ts : q[m[i]] = NoTile <=> p[i] = NoTile
  BY DownstreamTurns
<1> HIDE DEF p, q
<1>3. BackFeed(us[m[t]], us[m[id]]) <=> BackFeed(ts[t], ts[id])
  BY <1>1, BacksTurn
<1>4. NearLane(us[m[t]], us[m[id]].pos) = NearLane(ts[t], ts[id].pos)
  BY <1>1, LanesTurn DEF IsTurned
<1>5. ASSUME NEW i \in DOMAIN ts
      PROVE  /\ m[i] \in Facing(us, q, m[t]) <=> i \in Facing(ts, p, t)
             /\ i \in Facing(us, q, m[t]) => m[i] \in Facing(ts, p, t)
  <2>1. ASSUME NEW k \in DOMAIN ts
        PROVE  Moved(us[m[k]].pos, us[m[k]].dir, 1) = us[m[t]].pos <=> Moved(ts[k].pos, ts[k].dir, 1) = ts[t].pos
    <3>1. IsTurned(ts[k], us[m[k]]) /\ ts[k].pos \in Places /\ ts[k].dir \in Dirs
      BY OneTurned
    <3>2. /\ Moved(ts[k].pos, ts[k].dir, 1) \in Places
          /\ TurnPos(Moved(ts[k].pos, ts[k].dir, 1)) = Moved(us[m[k]].pos, us[m[k]].dir, 1)
      BY <3>1, StepsTurn DEF IsTurned
    <3>3. us[m[t]].pos = TurnPos(ts[t].pos)
      BY <1>1 DEF IsTurned
    <3>. QED  BY <1>1, <3>2, <3>3, PlacesTurn
  <2>2. ASSUME NEW k \in DOMAIN ts PROVE m[k] \in Facing(us, q, m[t]) <=> k \in Facing(ts, p, t)
    <3>1. m[k] \in DOMAIN us
      BY <1>1, OneTurned
    <3>. QED  BY <1>2, <2>1, <3>1 DEF Facing
  <2>3. m[i] \in DOMAIN ts /\ m[m[i]] = i
    BY OneTurned
  <2>. QED  BY <2>2, <2>3
<1>6. Facing(us, q, m[t]) \subseteq DOMAIN ts /\ Facing(ts, p, t) \subseteq DOMAIN ts
  BY <1>1 DEF Facing
<1>7. Facing(us, q, m[t]) = {m[id]} <=> Facing(ts, p, t) = {id}
  <2>1. ASSUME Facing(ts, p, t) = {id} PROVE Facing(us, q, m[t]) = {m[id]}
    <3>1. ASSUME NEW j \in Facing(us, q, m[t]) PROVE j = m[id]
      <4>1. j \in DOMAIN ts
        BY <1>6
      <4>2. m[j] = id
        BY <1>5, <2>1, <4>1
      <4>3. m[m[j]] = j
        BY <4>1, OneTurned
      <4>. QED  BY <4>2, <4>3
    <3>. QED  BY <1>5, <2>1, <3>1
  <2>2. ASSUME Facing(us, q, m[t]) = {m[id]} PROVE Facing(ts, p, t) = {id}
    <3>1. ASSUME NEW j \in Facing(ts, p, t) PROVE j = id
      <4>1. j \in DOMAIN ts
        BY <1>6
      <4>2. m[j] = m[id]
        BY <1>5, <2>2, <4>1
      <4>3. m[m[j]] = j
        BY <4>1, OneTurned
      <4>. QED  BY <1>1, <4>2, <4>3
    <3>. QED  BY <1>5, <2>2, <3>1
  <2>. QED  BY <2>1, <2>2
<1>8. q[m[id]] = NoTile <=> p[id] = NoTile
  BY <1>2
<1>9. us[m[t]].kind = ts[t].kind
  BY <1>1 DEF IsTurned
<1>10. LaneMapOf(us, q, m[id], m[t]) = LaneMapOf(ts, p, id, t)
  BY <1>3, <1>4, <1>7, <1>8, <1>9, Zenon DEF LaneMapOf
<1>. QED  BY <1>10 DEF p, q

(* All links of the turned tiles are the turned links.                     *)
LEMMA LinksTurn ==
  ASSUME NEW ts \in Seq(Tile), Apart(ts), NEW us \in Seq(Tile), Apart(us), NEW m, TurnedBy(ts, us, m)
  PROVE  LinksOf(us) =
           {<<TurnPos(ts[id].pos), TurnPos(ts[DownstreamOf(ts, Pairs(ts), id)].pos),
              LaneMapOf(ts, Pairs(ts), id, DownstreamOf(ts, Pairs(ts), id))>> :
              id \in {i \in DOMAIN ts : DownstreamOf(ts, Pairs(ts), i) # NoTile}}
<1> DEFINE next(i) == DownstreamOf(ts, Pairs(ts), i)
           same(i) == DownstreamOf(us, Pairs(us), i)
           turned(i) == <<TurnPos(ts[i].pos), TurnPos(ts[next(i)].pos), LaneMapOf(ts, Pairs(ts), i, next(i))>>
           link(i) == <<us[i].pos, us[same(i)].pos, LaneMapOf(us, Pairs(us), i, same(i))>>
<1>1. LinksOf(us) = {link(i) : i \in {j \in DOMAIN us : same(j) # NoTile}}
  BY DEF LinksOf
<1>2. ASSUME NEW i \in DOMAIN ts
      PROVE  /\ m[i] \in DOMAIN us /\ m[m[i]] = i
             /\ same(m[i]) # NoTile <=> next(i) # NoTile
             /\ next(i) # NoTile => link(m[i]) = turned(i)
  <2>1. /\ DOMAIN us = DOMAIN ts /\ NoTile \notin DOMAIN ts /\ m[i] \in DOMAIN ts /\ m[m[i]] = i
        /\ us[m[i]].pos = TurnPos(ts[i].pos)
    BY OneTurned DEF IsTurned
  <2>2. /\ next(i) = NoTile => same(m[i]) = NoTile
        /\ next(i) # NoTile => next(i) \in DOMAIN ts /\ same(m[i]) = m[next(i)]
    BY DownstreamTurns
  <2> HIDE DEF next, same
  <2>3. ASSUME next(i) # NoTile
        PROVE  /\ same(m[i]) = m[next(i)] /\ m[next(i)] # NoTile
               /\ us[m[next(i)]].pos = TurnPos(ts[next(i)].pos)
               /\ LaneMapOf(us, Pairs(us), m[i], m[next(i)]) = LaneMapOf(ts, Pairs(ts), i, next(i))
    <3>1. next(i) \in DOMAIN ts /\ same(m[i]) = m[next(i)]
      BY <2>2, <2>3
    <3>2. m[next(i)] \in DOMAIN ts /\ us[m[next(i)]].pos = TurnPos(ts[next(i)].pos)
      BY <3>1, OneTurned DEF IsTurned
    <3>3. LaneMapOf(us, Pairs(us), m[i], m[next(i)]) = LaneMapOf(ts, Pairs(ts), i, next(i))
      BY <3>1, LaneMapTurns
    <3>. QED  BY <2>1, <3>1, <3>2, <3>3
  <2>. QED  BY <2>1, <2>2, <2>3
<1>3. DOMAIN us = DOMAIN ts
  BY DEF TurnedBy
<1> HIDE DEF next, same, turned, link
<1>4. ASSUME NEW l
      PROVE  /\ (\E i \in DOMAIN us : same(i) # NoTile /\ l = link(i)) =>
                  (\E i \in DOMAIN ts : next(i) # NoTile /\ l = turned(i))
             /\ (\E i \in DOMAIN ts : next(i) # NoTile /\ l = turned(i)) =>
                  (\E i \in DOMAIN us : same(i) # NoTile /\ l = link(i))
  <2>1. ASSUME NEW i \in DOMAIN us, same(i) # NoTile, l = link(i)
        PROVE  \E j \in DOMAIN ts : next(j) # NoTile /\ l = turned(j)
    <3>1. m[i] \in DOMAIN ts /\ m[m[i]] = i
      BY <1>2, <1>3
    <3>2. next(m[i]) # NoTile /\ link(i) = turned(m[i])
      BY <1>2, <2>1, <3>1
    <3>. QED  BY <2>1, <3>1, <3>2
  <2>2. ASSUME NEW i \in DOMAIN ts, next(i) # NoTile, l = turned(i)
        PROVE  \E j \in DOMAIN us : same(j) # NoTile /\ l = link(j)
    BY <1>2, <2>2
  <2>. QED  BY <2>1, <2>2
<1>5. {link(i) : i \in {j \in DOMAIN us : same(j) # NoTile}} = {turned(i) : i \in {j \in DOMAIN ts : next(j) # NoTile}}
  BY <1>4
<1>. QED  BY <1>1, <1>5 DEF next, turned

(* A turned entity covers the turned cells; a splitter may have them in    *)
(* the other order, for it always covers a second one to the east or south.*)
LEMMA CellsTurn ==
  ASSUME NEW e \in Placeable
  PROVE  /\ Turned(e) \in Placeable
         /\ Turned(e).kind = e.kind /\ Turned(e).tier = e.tier /\ Turned(e).dir = TurnDir(e.dir)
         /\ \/ Cells(e) = <<e.pos>> /\ Cells(Turned(e)) = <<TurnPos(e.pos)>>
            \/ /\ e.kind = "splitter"
               /\ \E p, q \in Places :
                    /\ Cells(e) = <<p, q>>
                    /\ \/ Cells(Turned(e)) = <<TurnPos(p), TurnPos(q)>>
                       \/ Cells(Turned(e)) = <<TurnPos(q), TurnPos(p)>>
<1>1. /\ e.pos \in Places /\ e.dir \in Dirs /\ e.tier \in Tiers /\ e.kind \in Kinds
      /\ e = [kind |-> e.kind, dir |-> e.dir, tier |-> e.tier, pos |-> e.pos]
  BY DEF Placeable
<1>2. PICK x \in Int, y \in Int : e.pos = <<x, y>>
  BY <1>1 DEF Places
<1>3. TurnDir(e.dir) \in Dirs
  BY <1>1, FacingsTurn
<1> DEFINE t == Turned(e)
<1>4. /\ t.kind = e.kind /\ t.dir = TurnDir(e.dir) /\ t.tier = e.tier
      /\ t.pos = IF e.kind = "splitter" /\ e.dir \in {"East", "West"} THEN <<-y - 1, x>> ELSE <<-y, x>>
      /\ t = [kind |-> t.kind, dir |-> t.dir, tier |-> t.tier, pos |-> t.pos]
  <2> DEFINE side == e.kind = "splitter" /\ e.dir \in {"East", "West"}
             to(pos) == IF side THEN <<-pos[2] - 1, pos[1]>> ELSE TurnPos(pos)
  <2>1. t = [e EXCEPT !.dir = TurnDir(e.dir), !.pos = to(e.pos)]
    BY <1>1, Zenon DEF Turned
  <2> HIDE DEF side, t
  <2>2. to(e.pos) = IF side THEN <<-y - 1, x>> ELSE <<-y, x>>
    BY <1>2 DEF TurnPos
  <2> HIDE DEF to
  <2>3. t = [kind |-> e.kind, dir |-> TurnDir(e.dir), tier |-> e.tier, pos |-> to(e.pos)]
    BY <1>1, <2>1
  <2>. QED  BY <2>2, <2>3 DEF side
<1> HIDE DEF t
<1>5. t.pos \in Places
  BY <1>4 DEF Places
<1>6. t \in Placeable
  BY <1>1, <1>3, <1>4, <1>5 DEF Placeable
<1>7. t.kind = e.kind /\ t.tier = e.tier /\ t.dir = TurnDir(e.dir)
  BY <1>4
<1>8. CASE e.kind # "splitter"
  <2>1. Cells(e) = <<e.pos>> /\ Cells(t) = <<t.pos>> /\ t.pos = TurnPos(e.pos)
    BY <1>2, <1>4, <1>8 DEF Cells, TurnPos
  <2>. QED  BY <1>6, <1>7, <2>1 DEF t
<1>9. CASE e.kind = "splitter" /\ e.dir \in {"North", "South"}
  <2> DEFINE p == <<x, y>>
             q == <<x + 1, y>>
  <2>1. t.kind = "splitter" /\ t.dir \in {"East", "West"} /\ t.dir \notin {"North", "South"} /\ t.pos = <<-y, x>>
    BY <1>4, <1>9, DirsTurn
  <2>2. Cells(e) = <<p, q>>
    BY <1>2, <1>9 DEF Cells, Moved, Delta
  <2>3. Cells(t) = <<<<-y, x>>, <<-y, x + 1>>>>
    BY <2>1 DEF Cells, Moved, Delta
  <2>4. TurnPos(p) = <<-y, x>> /\ TurnPos(q) = <<-y, x + 1>> /\ p \in Places /\ q \in Places
    BY DEF TurnPos, Places
  <2> HIDE DEF p, q
  <2>. QED  BY <1>6, <1>7, <1>9, <2>2, <2>3, <2>4 DEF t
<1>10. CASE e.kind = "splitter" /\ e.dir \in {"East", "West"}
  <2> DEFINE p == <<x, y>>
             q == <<x, y + 1>>
  <2>1. t.kind = "splitter" /\ t.dir \in {"North", "South"} /\ t.pos = <<-y - 1, x>>
    BY <1>4, <1>10, DirsTurn
  <2>2. Cells(e) = <<p, q>>
    BY <1>2, <1>10 DEF Cells, Moved, Delta
  <2>3. Cells(t) = <<<<-y - 1, x>>, <<-y, x>>>>
    <3>1. Moved(t.pos, "East", 1) = <<-y, x>>
      BY <2>1 DEF Moved, Delta
    <3>. QED  BY <2>1, <3>1 DEF Cells
  <2>4. TurnPos(p) = <<-y, x>> /\ TurnPos(q) = <<-y - 1, x>> /\ p \in Places /\ q \in Places
    <3>1. -(y + 1) = -y - 1
      OBVIOUS
    <3>. QED  BY <3>1 DEF TurnPos, Places
  <2> HIDE DEF p, q
  <2>. QED  BY <1>6, <1>7, <1>10, <2>2, <2>3, <2>4 DEF t
<1>. QED  BY <1>1, <1>8, <1>9, <1>10 DEF Dirs

(* The free cells of an entity of two cells.                               *)
LEMMA FreeOfTwo ==
  ASSUME NEW ts, NEW e, NEW p, NEW q, Cells(e) = <<p, q>>
  PROVE  FreeCells(ts, e) =
           IF TileAt(ts, p) = NoTile
           THEN IF TileAt(ts, q) = NoTile THEN <<p, q>> ELSE <<p>>
           ELSE IF TileAt(ts, q) = NoTile THEN <<q>> ELSE <<>>
<1> DEFINE free == {i \in {1, 2} : TileAt(ts, <<p, q>>[i]) = NoTile}
<1>1. DOMAIN <<p, q>> = {1, 2} /\ <<p, q>>[1] = p /\ <<p, q>>[2] = q
  OBVIOUS
<1>2. FreeCells(ts, e) = IF free = {} THEN <<>> ELSE IF free = {1, 2} THEN <<p, q>>
                         ELSE <<<<p, q>>[CHOOSE i \in free : TRUE]>>
  <2> DEFINE c == Cells(e)
             open == {i \in DOMAIN c : TileAt(ts, c[i]) = NoTile}
  <2>1. FreeCells(ts, e) = IF open = {} THEN <<>> ELSE IF open = DOMAIN c THEN c ELSE <<c[CHOOSE i \in open : TRUE]>>
    BY DEF FreeCells
  <2>2. c = <<p, q>>
    OBVIOUS
  <2> HIDE DEF c
  <2>3. open = free
    BY <1>1, <2>2
  <2> HIDE DEF open, free
  <2>. QED  BY <1>1, <2>1, <2>2, <2>3
<1>3. /\ 1 \in free <=> TileAt(ts, p) = NoTile
      /\ 2 \in free <=> TileAt(ts, q) = NoTile
      /\ free \subseteq {1, 2}
  BY <1>1
<1> HIDE DEF free
<1>4. /\ free = {1} => (CHOOSE i \in free : TRUE) = 1
      /\ free = {2} => (CHOOSE i \in free : TRUE) = 2
  OBVIOUS
<1>5. CASE 1 \in free /\ 2 \in free
  <2>1. free = {1, 2} /\ free # {}
    BY <1>3, <1>5
  <2>. QED  BY <1>2, <1>3, <1>5, <2>1
<1>6. CASE 1 \in free /\ 2 \notin free
  <2>1. free = {1} /\ free # {} /\ free # {1, 2}
    BY <1>3, <1>6
  <2>. QED  BY <1>1, <1>2, <1>3, <1>4, <1>6, <2>1
<1>7. CASE 1 \notin free /\ 2 \in free
  <2>1. free = {2} /\ free # {} /\ free # {1, 2}
    BY <1>3, <1>7
  <2>. QED  BY <1>1, <1>2, <1>3, <1>4, <1>7, <2>1
<1>8. CASE 1 \notin free /\ 2 \notin free
  <2>1. free = {}
    BY <1>3, <1>8
  <2>. QED  BY <1>2, <1>3, <1>8, <2>1
<1>. QED  BY <1>5, <1>6, <1>7, <1>8

(* And of an entity of one.                                                *)
LEMMA FreeOfOne ==
  ASSUME NEW ts, NEW e, NEW p, Cells(e) = <<p>>
  PROVE  FreeCells(ts, e) = IF TileAt(ts, p) = NoTile THEN <<p>> ELSE <<>>
<1> DEFINE free == {i \in {1} : TileAt(ts, <<p>>[i]) = NoTile}
<1>1. DOMAIN <<p>> = {1} /\ <<p>>[1] = p
  OBVIOUS
<1>2. FreeCells(ts, e) = IF free = {} THEN <<>> ELSE IF free = {1} THEN <<p>>
                         ELSE <<<<p>>[CHOOSE i \in free : TRUE]>>
  BY <1>1, Zenon DEF FreeCells
<1>3. free = IF TileAt(ts, p) = NoTile THEN {1} ELSE {}
  BY <1>1
<1> HIDE DEF free
<1>. QED  BY <1>2, <1>3

(* The turned entity finds the turned cells free.                          *)
LEMMA FreeCellsTurn ==
  ASSUME NEW e \in Placeable, NEW ts, NEW us,
         \A p \in Places : TileAt(us, TurnPos(p)) = NoTile <=> TileAt(ts, p) = NoTile
  PROVE  LET f == FreeCells(ts, e)
             g == FreeCells(us, Turned(e))
         IN  /\ Len(g) = Len(f) /\ DOMAIN g = DOMAIN f
             /\ \/ \A i \in DOMAIN f : g[i] = TurnPos(f[i])
                \/ e.kind = "splitter" /\ Len(f) = 2 /\ g[1] = TurnPos(f[2]) /\ g[2] = TurnPos(f[1])
<1>1. CASE Cells(e) = <<e.pos>> /\ Cells(Turned(e)) = <<TurnPos(e.pos)>>
  <2>1. e.pos \in Places
    BY DEF Placeable
  <2>. QED  BY <1>1, <2>1, FreeOfOne
<1>2. ASSUME e.kind = "splitter", NEW p \in Places, NEW q \in Places, Cells(e) = <<p, q>>,
             Cells(Turned(e)) = <<TurnPos(p), TurnPos(q)>>
      PROVE  LET f == FreeCells(ts, e)
                 g == FreeCells(us, Turned(e))
             IN  Len(g) = Len(f) /\ DOMAIN g = DOMAIN f /\ \A i \in DOMAIN f : g[i] = TurnPos(f[i])
  BY <1>2, FreeOfTwo
<1>3. ASSUME e.kind = "splitter", NEW p \in Places, NEW q \in Places, Cells(e) = <<p, q>>,
             Cells(Turned(e)) = <<TurnPos(q), TurnPos(p)>>
      PROVE  LET f == FreeCells(ts, e)
                 g == FreeCells(us, Turned(e))
             IN  /\ Len(g) = Len(f) /\ DOMAIN g = DOMAIN f
                 /\ \/ \A i \in DOMAIN f : g[i] = TurnPos(f[i])
                    \/ Len(f) = 2 /\ g[1] = TurnPos(f[2]) /\ g[2] = TurnPos(f[1])
  BY <1>3, FreeOfTwo
<1>4. CASE /\ e.kind = "splitter"
           /\ \E p, q \in Places :
                /\ Cells(e) = <<p, q>>
                /\ \/ Cells(Turned(e)) = <<TurnPos(p), TurnPos(q)>>
                   \/ Cells(Turned(e)) = <<TurnPos(q), TurnPos(p)>>
  BY <1>2, <1>3, <1>4
<1>. QED  BY <1>1, <1>4, CellsTurn

(* Two sequences one after the other.                                      *)
LEMMA EndToEnd ==
  ASSUME NEW S, NEW s \in Seq(S), NEW T, NEW t \in Seq(T)
  PROVE  /\ Len(s \o t) = Len(s) + Len(t) /\ DOMAIN (s \o t) = 1 .. Len(s) + Len(t)
         /\ \A i \in 1 .. Len(s) : (s \o t)[i] = s[i]
         /\ \A i \in 1 .. Len(t) : (s \o t)[Len(s) + i] = t[i]
<1>1. Len(s) \in Nat /\ Len(t) \in Nat
  OBVIOUS
<1>2. s \in Seq(S \cup T) /\ t \in Seq(S \cup T)
  OBVIOUS
<1>3. /\ s \o t \in Seq(S \cup T) /\ Len(s \o t) = Len(s) + Len(t)
      /\ \A i \in 1 .. Len(s) + Len(t) : (s \o t)[i] = IF i <= Len(s) THEN s[i] ELSE t[i - Len(s)]
  BY <1>2, ConcatProperties
<1>4. \A i \in 1 .. Len(t) : Len(s) + i \in 1 .. Len(s) + Len(t) /\ ~(Len(s) + i <= Len(s)) /\ Len(s) + i - Len(s) = i
  BY <1>1
<1>5. \A i \in 1 .. Len(s) : i \in 1 .. Len(s) + Len(t) /\ i <= Len(s)
  BY <1>1
<1>6. DOMAIN (s \o t) = 1 .. Len(s) + Len(t)
  BY <1>3
<1>. QED  BY <1>3, <1>4, <1>5, <1>6

(* A sequence and one value more.                                          *)
LEMMA OneMore ==
  ASSUME NEW S, NEW s \in Seq(S), NEW x \in S
  PROVE  Append(s, x) = [i \in 1 .. Len(s) + 1 |-> IF i = Len(s) + 1 THEN x ELSE s[i]]
<1>1. Append(s, x) \in Seq(S) /\ Len(Append(s, x)) = Len(s) + 1 /\ Len(s) \in Nat
  OBVIOUS
<1>2. \A i \in 1 .. Len(s) + 1 : Append(s, x)[i] = IF i = Len(s) + 1 THEN x ELSE s[i]
  OBVIOUS
<1> DEFINE r == Append(s, x)
<1> HIDE DEF r
<1>3. r \in Seq(S) /\ Len(r) = Len(s) + 1
  BY <1>1 DEF r
<1>4. r = [i \in 1 .. Len(r) |-> r[i]]
  BY <1>3
<1>. QED  BY <1>2, <1>3, <1>4 DEF r

(* An entity more keeps the one the turn of the other.                     *)
LEMMA WithEntityTurns ==
  ASSUME NEW n \in Nat, NEW ts, TilesOK(ts, n), NEW us, TilesOK(us, n), NEW m, TurnedBy(ts, us, m),
         NEW e \in Placeable
  PROVE  /\ TilesOK(WithEntity(us, Turned(e), n + 1), n + 1)
         /\ \E w : TurnedBy(WithEntity(ts, e, n + 1), WithEntity(us, Turned(e), n + 1), w)
<1> DEFINE f == FreeCells(ts, e)
           g == FreeCells(us, Turned(e))
           partner(i) == IF Len(f) = 2 THEN Len(ts) + 3 - i ELSE NoTile
           old == [i \in DOMAIN f |-> NewTile(e, f[i], n + 1, partner(i))]
           new == [i \in DOMAIN f |-> NewTile(Turned(e), g[i], n + 1, partner(i))]
           size == Len(ts)
<1>1. /\ Turned(e) \in Placeable
      /\ Turned(e).kind = e.kind /\ Turned(e).tier = e.tier /\ Turned(e).dir = TurnDir(e.dir)
  BY CellsTurn
<1>2. /\ ts \in Seq(Tile) /\ Apart(ts) /\ us \in Seq(Tile) /\ Apart(us)
      /\ Len(us) = size /\ size \in Nat /\ DOMAIN ts = 1 .. size /\ DOMAIN us = 1 .. size
  BY DEF TilesOK, TurnedBy
<1>3. TilesOK(WithEntity(us, Turned(e), n + 1), n + 1)
  BY <1>1, Placed DEF Placeable
<1>4. /\ Len(g) = Len(f) /\ DOMAIN g = DOMAIN f
      /\ \/ \A i \in DOMAIN f : g[i] = TurnPos(f[i])
         \/ e.kind = "splitter" /\ Len(f) = 2 /\ g[1] = TurnPos(f[2]) /\ g[2] = TurnPos(f[1])
  <2>1. \A p \in Places : TileAt(us, TurnPos(p)) = NoTile <=> TileAt(ts, p) = NoTile
    <3> SUFFICES ASSUME NEW p \in Places PROVE TileAt(us, TurnPos(p)) = NoTile <=> TileAt(ts, p) = NoTile
      OBVIOUS
    <3>1. TileAt(ts, p) # NoTile => TileAt(ts, p) \in DOMAIN ts
      BY <1>2, TileAtFound
    <3>2. TileAt(ts, p) # NoTile => m[TileAt(ts, p)] \in DOMAIN ts /\ NoTile \notin DOMAIN ts
      BY <1>2, <3>1, OneTurned
    <3>. QED  BY <1>2, <3>2, TileAtTurned
  <2>. QED  BY <2>1, FreeCellsTurn
<1>5. Len(f) \in 0 .. 2 /\ DOMAIN f = 1 .. Len(f)
  BY FreeCellsAreFree DEF Placeable
<1>6. WithEntity(ts, e, n + 1) = ts \o old
  BY DEF WithEntity
<1>7. WithEntity(us, Turned(e), n + 1) = us \o new
  <2>1. \A i : (IF Len(g) = 2 THEN Len(us) + 3 - i ELSE NoTile) = partner(i)
    BY <1>2, <1>4
  <2>. QED  BY <1>4, <2>1, Zenon DEF WithEntity
<1>8. /\ Len(old) = Len(f) /\ Len(new) = Len(f)
      /\ \A i \in 1 .. Len(f) :
           /\ old[i].pos = f[i] /\ old[i].dir = e.dir /\ old[i].kind = e.kind /\ old[i].tier = e.tier
           /\ new[i].pos = g[i] /\ new[i].dir = TurnDir(e.dir) /\ new[i].kind = e.kind /\ new[i].tier = e.tier
  BY <1>1, <1>5 DEF NewTile
<1> HIDE DEF f, g, partner, old, new
<1>9. PICK k : /\ \A i \in 1 .. Len(f) : k[i] \in 1 .. Len(f) /\ k[k[i]] = i /\ g[k[i]] = TurnPos(f[i])
               /\ e.kind # "splitter" => \A i \in 1 .. Len(f) : k[i] = i
  <2>1. CASE \A i \in DOMAIN f : g[i] = TurnPos(f[i])
    <3> DEFINE k == [i \in 1 .. Len(f) |-> i]
    <3>1. /\ \A i \in 1 .. Len(f) : k[i] \in 1 .. Len(f) /\ k[k[i]] = i /\ g[k[i]] = TurnPos(f[i])
          /\ e.kind # "splitter" => \A i \in 1 .. Len(f) : k[i] = i
      BY <1>5, <2>1
    <3>. QED  BY <3>1
  <2>2. CASE e.kind = "splitter" /\ Len(f) = 2 /\ g[1] = TurnPos(f[2]) /\ g[2] = TurnPos(f[1])
    <3> DEFINE k == [i \in 1 .. 2 |-> 3 - i]
    <3>1. k[1] = 2 /\ k[2] = 1 /\ 1 .. Len(f) = {1, 2}
      BY <2>2
    <3> HIDE DEF k
    <3>2. \A i \in 1 .. Len(f) : k[i] \in 1 .. Len(f) /\ k[k[i]] = i /\ g[k[i]] = TurnPos(f[i])
      BY <2>2, <3>1
    <3>. QED  BY <2>2, <3>2
  <2>. QED  BY <1>4, <2>1, <2>2
<1> DEFINE w == [i \in 1 .. size + Len(f) |-> IF i <= size THEN m[i] ELSE size + k[i - size]]
<1>10. old \in Seq({old[i] : i \in 1 .. Len(f)}) /\ new \in Seq({new[i] : i \in 1 .. Len(f)})
  BY <1>5 DEF old, new
<1>11. /\ Len(ts \o old) = size + Len(f) /\ Len(us \o new) = size + Len(f)
       /\ \A i \in 1 .. size : (ts \o old)[i] = ts[i] /\ (us \o new)[i] = us[i]
       /\ \A i \in 1 .. Len(f) : (ts \o old)[size + i] = old[i] /\ (us \o new)[size + i] = new[i]
  <2>1. /\ Len(ts \o old) = Len(ts) + Len(old)
        /\ \A i \in 1 .. Len(ts) : (ts \o old)[i] = ts[i]
        /\ \A i \in 1 .. Len(old) : (ts \o old)[Len(ts) + i] = old[i]
    BY <1>2, <1>10, EndToEnd
  <2>2. /\ Len(us \o new) = Len(us) + Len(new)
        /\ \A i \in 1 .. Len(us) : (us \o new)[i] = us[i]
        /\ \A i \in 1 .. Len(new) : (us \o new)[Len(us) + i] = new[i]
    <3>1. us \in Seq(Tile)
      BY <1>2
    <3>. QED  BY <1>10, <3>1, EndToEnd
  <2>3. Len(old) = Len(f) /\ Len(new) = Len(f) /\ Len(us) = size
    BY <1>2, <1>8
  <2>. QED  BY <2>1, <2>2, <2>3
<1>12. ASSUME NEW i \in 1 .. size + Len(f)
       PROVE  /\ w[i] \in 1 .. size + Len(f) /\ w[w[i]] = i
              /\ IsTurned((ts \o old)[i], (us \o new)[w[i]])
              /\ (ts \o old)[i].kind # "splitter" => w[i] = i
  <2>1. CASE i <= size
    <3>1. /\ i \in 1 .. size /\ w[i] = m[i] /\ m[i] \in 1 .. size /\ m[m[i]] = i
          /\ IsTurned(ts[i], us[m[i]]) /\ (ts[i].kind # "splitter" => m[i] = i)
      BY <1>2, <2>1, OneTurned
    <3>2. w[m[i]] = m[m[i]] /\ m[i] \in 1 .. size + Len(f)
      BY <1>2, <1>5, <3>1
    <3> HIDE DEF w
    <3>. QED  BY <1>11, <3>1, <3>2
  <2>2. CASE ~(i <= size)
    <3>1. PICK j \in 1 .. Len(f) : i = size + j
      <4>1. i - size \in 1 .. Len(f) /\ i = size + (i - size)
        BY <1>2, <1>5, <2>2
      <4>. QED  BY <4>1
    <3>2. k[j] \in 1 .. Len(f) /\ k[k[j]] = j /\ g[k[j]] = TurnPos(f[j])
      BY <1>9
    <3>3. ASSUME NEW x \in 1 .. Len(f)
          PROVE  w[size + x] = size + k[x] /\ size + x \in 1 .. size + Len(f)
      <4>1. /\ ~(size + x <= size) /\ size + x - size = x /\ size + x \in 1 .. size + Len(f)
        BY <1>2, <1>5
      <4>2. w[size + x] = IF size + x <= size THEN m[size + x] ELSE size + k[size + x - size]
        BY <4>1
      <4>. QED  BY <4>1, <4>2
    <3> HIDE DEF w
    <3>4. IsTurned(old[j], new[k[j]])
      BY <1>8, <3>2 DEF IsTurned
    <3>5. (ts \o old)[i] = old[j] /\ (us \o new)[w[i]] = new[k[j]]
      BY <1>11, <3>1, <3>2, <3>3
    <3>6. old[j].kind # "splitter" => k[j] = j
      BY <1>8, <1>9
    <3>. QED  BY <3>1, <3>2, <3>3, <3>4, <3>5, <3>6
  <2>. QED  BY <2>1, <2>2
<1> HIDE DEF w
<1>13. DOMAIN (ts \o old) = 1 .. size + Len(f)
  BY <1>2, <1>8, <1>10, EndToEnd
<1>14. TurnedBy(ts \o old, us \o new, w)
  BY <1>11, <1>12, <1>13 DEF TurnedBy
<1>. QED  BY <1>3, <1>6, <1>7, <1>14

\* The blueprint so far, turned.
TurnedEntities == [i \in DOMAIN entities |-> Turned(entities[i])]

\* Its tiles are the tiles so far, turned.
TurnInv ==
  /\ TilesOK(TilesOf(TurnedEntities), Len(entities))
  /\ \E m : TurnedBy(tiles, TilesOf(TurnedEntities), m)

(* An entity that is added can be added to the turned blueprint, and takes *)
(* the turned tiles there (AddTiles).                                      *)
LEMMA TurnStep ==
  ASSUME NetInv, TurnInv, NEW e \in Placeable,
         entities' = Append(entities, e), tiles' = WithEntity(tiles, e, Len(entities) + 1)
  PROVE  TurnInv'
<1> DEFINE n == Len(entities)
           us == TilesOf(TurnedEntities)
<1>1. entities \in Seq(Placeable) /\ n \in Nat /\ TilesOK(tiles, n)
  BY DEF NetInv
<1>2. \A i \in DOMAIN entities : Turned(entities[i]) \in Placeable
  BY <1>1, CellsTurn
<1>3. TurnedEntities \in Seq(Placeable) /\ Len(TurnedEntities) = n /\ Turned(e) \in Placeable
  BY <1>1, <1>2, CellsTurn DEF TurnedEntities
<1>4. TurnedEntities' = Append(TurnedEntities, Turned(e))
  <2>1. DOMAIN entities' = 1 .. n + 1 /\ \A i \in 1 .. n + 1 : entities'[i] = IF i = n + 1 THEN e ELSE entities[i]
    BY <1>1
  <2>2. TurnedEntities' = [i \in 1 .. n + 1 |-> Turned(entities'[i])]
    BY <2>1 DEF TurnedEntities
  <2>3. Append(TurnedEntities, Turned(e)) = [i \in 1 .. n + 1 |-> IF i = n + 1 THEN Turned(e) ELSE TurnedEntities[i]]
    <3> HIDE DEF n
    <3>. QED  BY <1>3, OneMore
  <2>4. \A i \in 1 .. n : TurnedEntities[i] = Turned(entities[i])
    BY <1>1 DEF TurnedEntities
  <2>5. \A i \in 1 .. n + 1 : i = n + 1 \/ i \in 1 .. n
    BY <1>1
  <2>6. \A i \in 1 .. n + 1 : Turned(entities'[i]) = IF i = n + 1 THEN Turned(e) ELSE TurnedEntities[i]
    BY <2>1, <2>4, <2>5
  <2>. QED  BY <2>2, <2>3, <2>6
<1>5. TilesOf(TurnedEntities)' = WithEntity(us, Turned(e), n + 1)
  <2>1. TilesOf(Append(TurnedEntities, Turned(e))) = WithEntity(us, Turned(e), Len(TurnedEntities) + 1)
    BY <1>3, TilesOfOneMore
  <2>. QED  BY <1>3, <1>4, <2>1
<1>6. Len(entities') = n + 1
  BY <1>1
<1>7. TilesOK(us, n) /\ \E m : TurnedBy(tiles, us, m)
  BY DEF TurnInv
<1> HIDE DEF us, n
<1>8. /\ TilesOK(WithEntity(us, Turned(e), n + 1), n + 1)
      /\ \E w : TurnedBy(WithEntity(tiles, e, n + 1), WithEntity(us, Turned(e), n + 1), w)
  BY <1>1, <1>7, WithEntityTurns
<1>9. tiles' = WithEntity(tiles, e, n + 1)
  BY DEF n
<1>. QED  BY <1>5, <1>6, <1>8, <1>9 DEF TurnInv

(* The network does not depend on the way a layout faces: turn the         *)
(* blueprint, and every link and every lane of a link turns with it        *)
(* (add_splitter, pair_undergrounds, link_downstream, lane_map).           *)
THEOREM TurnsWithItsLayout == Spec => []QuarterTurnInvariant
<1>1. NetInv /\ TurnInv => QuarterTurnInvariant
  <2> SUFFICES ASSUME NetInv, TurnInv, Linked
               PROVE  LinksOf(TilesOf(TurnedEntities))
                        = {<<TurnPos(tiles[id].pos), TurnPos(tiles[downstream[id]].pos), onto[id]>> :
                             id \in {i \in DOMAIN tiles : downstream[i] # NoTile}}
    BY DEF QuarterTurnInvariant, TurnedEntities
  <2> DEFINE us == TilesOf(TurnedEntities)
  <2>1. /\ tiles \in Seq(Tile) /\ Apart(tiles) /\ us \in Seq(Tile) /\ Apart(us)
        /\ \E m : TurnedBy(tiles, us, m)
    BY DEF NetInv, TurnInv, TilesOK
  <2>2. /\ pairs = Pairs(tiles)
        /\ downstream = [id \in DOMAIN tiles |-> DownstreamOf(tiles, pairs, id)]
        /\ onto = [id \in DOMAIN tiles |-> IF downstream[id] = NoTile THEN Straight
                                           ELSE LaneMapOf(tiles, pairs, id, downstream[id])]
    BY DEF NetInv, Linked
  <2> HIDE DEF us
  <2> DEFINE next(i) == DownstreamOf(tiles, Pairs(tiles), i)
             lane(i) == LaneMapOf(tiles, Pairs(tiles), i, next(i))
  <2>3. LinksOf(us) = {<<TurnPos(tiles[id].pos), TurnPos(tiles[next(id)].pos), lane(id)>> :
                         id \in {i \in DOMAIN tiles : next(i) # NoTile}}
    BY <2>1, LinksTurn
  <2>4. \A i \in DOMAIN tiles : downstream[i] = next(i) /\ (next(i) # NoTile => onto[i] = lane(i))
    BY <2>2
  <2> HIDE DEF next, lane
  <2>5. {<<TurnPos(tiles[id].pos), TurnPos(tiles[next(id)].pos), lane(id)>> :
           id \in {i \in DOMAIN tiles : next(i) # NoTile}}
        = {<<TurnPos(tiles[id].pos), TurnPos(tiles[downstream[id]].pos), onto[id]>> :
             id \in {i \in DOMAIN tiles : downstream[i] # NoTile}}
    BY <2>4
  <2>. QED  BY <2>3, <2>5 DEF us
<1>2. Init => TurnInv
  <2> SUFFICES ASSUME Init PROVE TurnInv
    OBVIOUS
  <2>1. entities = <<>> /\ tiles = <<>> /\ TurnedEntities = <<>> /\ Len(entities) = 0
    BY DEF Init, TurnedEntities
  <2>2. TilesOf(<<>>) = <<>>
    BY TilesOfNone
  <2>3. TilesOK(<<>>, 0)
    BY DEF TilesOK, Apart, Halves, Beside
  <2>4. TurnedBy(<<>>, <<>>, <<>>)
    BY DEF TurnedBy
  <2>. QED  BY <2>1, <2>2, <2>3, <2>4 DEF TurnInv
<1>3. NetInv /\ TurnInv /\ [Next]_vars => TurnInv'
  <2> SUFFICES ASSUME NetInv, TurnInv, [Next]_vars PROVE TurnInv'
    OBVIOUS
  <2>1. ASSUME NEW e \in Entity, AddTiles(e) PROVE TurnInv'
    <3>1. e \in Placeable
      BY EntitiesAreTyped DEF NetInv
    <3>. QED  BY <2>1, <3>1, TurnStep DEF AddTiles
  <2>2. ASSUME UNCHANGED <<entities, tiles>> PROVE TurnInv'
    BY <2>2 DEF TurnInv, TurnedEntities
  <2>3. PairUndergrounds \/ LinkDownstream \/ Sort \/ UNCHANGED vars => UNCHANGED <<entities, tiles>>
    BY DEF PairUndergrounds, LinkDownstream, Sort, vars
  <2>. QED  BY <2>1, <2>2, <2>3 DEF Next
<1>. QED  BY <1>1, <1>2, <1>3, NetworkInvariant, PTL DEF Spec
-----------------------------------------------------------------------------
(* The sort, with its worklist as a set.                                   *)

NoTileIsNoTile == NoTile \notin Abstract!AllTiles

\* Nothing happens before the links are made.
BeforeLinking == ~Linked => Order!Sorted = <<>> /\ ToSet(queue) = {} /\ Order!Leftover = {} /\ ~Ordered

\* A tile waits for nothing: its line ends here, or goes on at an emitted tile.
Discharged(t) == downstream[t] = NoTile \/ downstream[t] \in Abstract!Emitted

DegreesMeanWaiting ==
  \A t \in Abstract!AllTiles : outDegree[t] = 0 <=> Discharged(t)

NoneForgotten ==
  \A t \in Abstract!AllTiles : outDegree[t] = 0 => t \in ToSet(queue) \/ t \in Abstract!Emitted

ReadyWaitsForNothing == \A t \in ToSet(queue) : outDegree[t] = 0

LeftoverIsTheRest ==
  /\ Order!Leftover # {} => Ordered
  /\ Ordered => ToSet(queue) = {} /\ Order!Leftover = Abstract!AllTiles \ Abstract!Emitted

IInv ==
  /\ Abstract!TypeOK
  /\ NoTileIsNoTile
  /\ BeforeLinking
  /\ Abstract!DownstreamFirst
  /\ Abstract!EmittedOnce
  /\ DegreesMeanWaiting
  /\ NoneForgotten
  /\ ReadyWaitsForNothing
  /\ LeftoverIsTheRest

(* What appending one tile does to the sequence of emitted tiles.          *)
LEMMA Appended ==
  ASSUME NEW t \in Abstract!AllTiles, Order!Sorted \in Seq(Abstract!AllTiles), Order!Sorted' = Append(Order!Sorted, t)
  PROVE  /\ Order!Sorted' \in Seq(Abstract!AllTiles)
         /\ DOMAIN Order!Sorted' = DOMAIN Order!Sorted \cup {Len(Order!Sorted) + 1}
         /\ \A i \in DOMAIN Order!Sorted : i < Len(Order!Sorted) + 1 /\ Order!Sorted'[i] = Order!Sorted[i]
         /\ Order!Sorted'[Len(Order!Sorted) + 1] = t
         /\ Len(Order!Sorted) + 1 \in DOMAIN Order!Sorted'
<1>1. Len(Order!Sorted) \in Nat /\ DOMAIN Order!Sorted = 1..Len(Order!Sorted)
  OBVIOUS
<1>2. Len(Order!Sorted') = Len(Order!Sorted) + 1 /\ DOMAIN Order!Sorted' = 1..(Len(Order!Sorted) + 1)
  OBVIOUS
<1>3. \A i \in 1..Len(Order!Sorted) : Order!Sorted'[i] = Order!Sorted[i]
  OBVIOUS
<1> QED
  BY <1>1, <1>2, <1>3

LEMMA EmittedGrows ==
  ASSUME NEW t \in Abstract!AllTiles, Order!Sorted \in Seq(Abstract!AllTiles), Order!Sorted' = Append(Order!Sorted, t)
  PROVE  Abstract!Emitted' = Abstract!Emitted \cup {t}
<1>1. \A x \in Abstract!Emitted' : x \in Abstract!Emitted \cup {t}
  <2> SUFFICES ASSUME NEW i \in DOMAIN Order!Sorted' PROVE Order!Sorted'[i] \in Abstract!Emitted \cup {t}
    BY DEF Abstract!Emitted
  <2>1. CASE i \in DOMAIN Order!Sorted
    BY <2>1, Appended DEF Abstract!Emitted
  <2>2. CASE i = Len(Order!Sorted) + 1
    BY <2>2, Appended
  <2> QED
    BY <2>1, <2>2, Appended
<1>2. \A x \in Abstract!Emitted : x \in Abstract!Emitted'
  <2> SUFFICES ASSUME NEW i \in DOMAIN Order!Sorted PROVE Order!Sorted[i] \in Abstract!Emitted'
    BY DEF Abstract!Emitted
  <2>1. i \in DOMAIN Order!Sorted' /\ Order!Sorted'[i] = Order!Sorted[i]
    BY Appended
  <2> QED
    BY <2>1 DEF Abstract!Emitted
<1>3. t \in Abstract!Emitted'
  BY Appended DEF Abstract!Emitted
<1> QED
  BY <1>1, <1>2, <1>3

(* A tile on the worklist feeds an emitted tile, so none of its own        *)
(* feeders can be emitted or on the worklist yet.                          *)
LEMMA FeedersWait ==
  ASSUME IInv, NEW t \in ToSet(queue), NEW u \in Abstract!FeedersOf(t)
  PROVE  u \in Abstract!AllTiles /\ outDegree[u] = 1 /\ u \notin Abstract!Emitted /\ u # t
<1>1. u \in Abstract!AllTiles /\ downstream[u] = t /\ t \in Abstract!AllTiles
  BY DEF IInv, Abstract!TypeOK, Abstract!FeedersOf
<1>2. t \notin Abstract!Emitted /\ outDegree[t] = 0 /\ t # NoTile
  BY <1>1 DEF NoTileIsNoTile, IInv, Abstract!EmittedOnce, ReadyWaitsForNothing
<1>3. ~Discharged(u)
  BY <1>1, <1>2 DEF Discharged
<1>4. outDegree[u] = 1
  BY <1>1, <1>3 DEF IInv, Abstract!TypeOK, DegreesMeanWaiting
<1>5. u \notin Abstract!Emitted
  <2> SUFFICES ASSUME u \in Abstract!Emitted PROVE FALSE
    OBVIOUS
  <2>1. PICK i \in DOMAIN Order!Sorted : Order!Sorted[i] = u
    BY DEF Abstract!Emitted
  <2>2. PICK j \in DOMAIN Order!Sorted : Order!Sorted[j] = t
    BY <2>1, <1>1, <1>2 DEF IInv, Abstract!DownstreamFirst
  <2> QED
    BY <2>2, <1>2 DEF Abstract!Emitted
<1> QED
  BY <1>1, <1>2, <1>4, <1>5

LEMMA InitEstablishes == Abstract!Init => IInv
<1> SUFFICES ASSUME Abstract!Init PROVE IInv
  OBVIOUS
<1>1. Abstract!AllTiles = {} /\ Abstract!Emitted = {} /\ DOMAIN Order!Sorted = {}
  BY DEF Abstract!Init, Abstract!AllTiles, Abstract!Emitted
<1>2. Abstract!TypeOK
  <2>1. downstream = [t \in {} |-> NoTile] /\ outDegree = [t \in {} |-> 0]
    BY DEF Abstract!Init
  <2>2. downstream \in [{} -> {NoTile}] /\ outDegree \in [{} -> {0, 1}]
    BY <2>1
  <2>3. Order!Sorted \in Seq(Abstract!AllTiles)
    BY DEF Abstract!Init
  <2> QED
    BY <1>1, <2>2, <2>3 DEF Abstract!Init, Abstract!TypeOK
<1>. QED
  BY <1>1, <1>2 DEF Abstract!Init, IInv, NoTileIsNoTile, BeforeLinking, Abstract!DownstreamFirst, Abstract!EmittedOnce,
       DegreesMeanWaiting, NoneForgotten, ReadyWaitsForNothing, LeftoverIsTheRest

(* With the links the worklist begins as the ends of the lines, which are  *)
(* the tiles of out-degree 0.                                              *)
LEMMA LinkPreserves ==
  ASSUME IInv, Abstract!Link
  PROVE  IInv'
<1>1. /\ Order!Sorted' = <<>> /\ Order!Leftover' = {} /\ ~Ordered' /\ Linked'
      /\ downstream' \in [Abstract!AllTiles' -> Abstract!AllTiles' \cup {NoTile}] /\ NoTile \notin Abstract!AllTiles'
  BY DEF Abstract!Link, IInv, BeforeLinking, Abstract!AllTiles
<1>2. \A t \in Abstract!AllTiles' :
        /\ downstream'[t] = NoTile => outDegree'[t] = 0
        /\ downstream'[t] # NoTile => outDegree'[t] = 1
        /\ t \in ToSet(queue)' <=> downstream'[t] = NoTile
  <2> SUFFICES ASSUME NEW t \in Abstract!AllTiles'
               PROVE  /\ downstream'[t] = NoTile => outDegree'[t] = 0
                      /\ downstream'[t] # NoTile => outDegree'[t] = 1
                      /\ t \in ToSet(queue)' <=> downstream'[t] = NoTile
    OBVIOUS
  <2>1. outDegree'[t] = IF downstream'[t] = NoTile THEN 0 ELSE 1
    BY DEF Abstract!Link, Abstract!AllTiles
  <2>2. t \in ToSet(queue)' <=> downstream'[t] = NoTile
    BY DEF Abstract!Link, Abstract!AllTiles
  <2> QED
    BY <2>1, <2>2
<1>3. DOMAIN Order!Sorted' = {} /\ Abstract!Emitted' = {}
  BY <1>1 DEF Abstract!Emitted
<1>4. ToSet(queue)' \subseteq Abstract!AllTiles'
  BY DEF Abstract!Link, Abstract!AllTiles
<1>5. Abstract!TypeOK'
  <2>1. outDegree' \in [Abstract!AllTiles' -> {0, 1}]
    <3> DEFINE degree == [t \in Abstract!AllTiles' |-> IF downstream'[t] = NoTile THEN 0 ELSE 1]
    <3>1. degree \in [Abstract!AllTiles' -> {0, 1}]
      BY Zenon
    <3> QED
      BY <3>1 DEF Abstract!Link, Abstract!AllTiles
  <2>2. Order!Sorted' \in Seq(Abstract!AllTiles')
    BY <1>1
  <2>3. Linked' \in BOOLEAN /\ Ordered' \in BOOLEAN
    BY DEF Abstract!Link, IInv, Abstract!TypeOK
  <2> QED
    BY <1>1, <1>4, <2>1, <2>2, <2>3 DEF Abstract!TypeOK
<1>6. Abstract!DownstreamFirst' /\ Abstract!EmittedOnce'
  BY <1>3 DEF Abstract!DownstreamFirst, Abstract!EmittedOnce
<1>7. DegreesMeanWaiting' /\ NoneForgotten' /\ ReadyWaitsForNothing'
  <2>1. ASSUME NEW t \in Abstract!AllTiles' PROVE outDegree'[t] = 0 <=> downstream'[t] = NoTile
    <3>1. CASE downstream'[t] = NoTile
      BY <3>1, <1>2
    <3>2. CASE downstream'[t] # NoTile
      <4>1. outDegree'[t] = 1
        BY <3>2, <1>2
      <4> QED
        BY <4>1, <3>2
    <3> QED
      BY <3>1, <3>2
  <2> QED
    BY <1>2, <1>3, <1>4, <2>1 DEF DegreesMeanWaiting, NoneForgotten, ReadyWaitsForNothing, Discharged
<1> QED
  BY <1>1, <1>5, <1>6, <1>7 DEF IInv, NoTileIsNoTile, BeforeLinking, LeftoverIsTheRest

LEMMA EmitPreserves ==
  ASSUME IInv, NEW t \in Abstract!AllTiles, Abstract!Emit(t)
  PROVE  IInv'
<1> USE DEF Abstract!Emit
<1>0. Abstract!AllTiles' = Abstract!AllTiles
  BY DEF Abstract!AllTiles
<1>1. t \in ToSet(queue) /\ Order!Sorted \in Seq(Abstract!AllTiles) /\ Abstract!Emitted' = Abstract!Emitted \cup {t}
  BY EmittedGrows DEF IInv, Abstract!TypeOK
<1>2. t \notin Abstract!Emitted /\ outDegree[t] = 0 /\ Discharged(t) /\ t # NoTile
  BY <1>1 DEF NoTileIsNoTile, IInv, Abstract!EmittedOnce, ReadyWaitsForNothing, DegreesMeanWaiting
<1>3. ToSet(queue)' = (ToSet(queue) \ {t}) \cup Abstract!FeedersOf(t)
  BY <1>1, FeedersWait
<1>4. \A u \in Abstract!AllTiles : /\ downstream[u] = t => outDegree'[u] = 0
                          /\ downstream[u] # t => outDegree'[u] = outDegree[u]
  OBVIOUS
<1>5. Abstract!TypeOK'
  <2>1. outDegree' \in [Abstract!AllTiles -> {0, 1}]
    BY DEF IInv, Abstract!TypeOK
  <2>2. Order!Sorted' \in Seq(Abstract!AllTiles)
    BY <1>1, Appended
  <2> QED
    BY <2>1, <2>2, <1>0, <1>3 DEF IInv, Abstract!TypeOK, Abstract!FeedersOf
<1>6. Abstract!DownstreamFirst'
  <2> SUFFICES ASSUME NEW i \in DOMAIN Order!Sorted', downstream[Order!Sorted'[i]] # NoTile
               PROVE  \E j \in DOMAIN Order!Sorted' : j < i /\ Order!Sorted'[j] = downstream[Order!Sorted'[i]]
    BY DEF Abstract!DownstreamFirst
  <2>1. CASE i \in DOMAIN Order!Sorted
    <3>1. PICK j \in DOMAIN Order!Sorted : j < i /\ Order!Sorted[j] = downstream[Order!Sorted[i]]
      BY <2>1, <1>1, Appended DEF IInv, Abstract!DownstreamFirst
    <3> QED
      BY <3>1, <2>1, <1>1, Appended
  <2>2. CASE i = Len(Order!Sorted) + 1
    <3>1. Order!Sorted'[i] = t /\ downstream[t] \in Abstract!Emitted
      BY <2>2, <1>1, <1>2, Appended DEF Discharged
    <3>2. PICK j \in DOMAIN Order!Sorted : Order!Sorted[j] = downstream[t]
      BY <3>1 DEF Abstract!Emitted
    <3> QED
      BY <3>1, <3>2, <2>2, <1>1, Appended
  <2> QED
    BY <2>1, <2>2, <1>1, Appended
<1>7. Abstract!EmittedOnce'
  <2>1. \A i, j \in DOMAIN Order!Sorted' : Order!Sorted'[i] = Order!Sorted'[j] => i = j
    <3> SUFFICES ASSUME NEW i \in DOMAIN Order!Sorted', NEW j \in DOMAIN Order!Sorted', Order!Sorted'[i] = Order!Sorted'[j]
                 PROVE  i = j
      OBVIOUS
    <3>1. CASE i \in DOMAIN Order!Sorted /\ j \in DOMAIN Order!Sorted
      BY <3>1, <1>1, Appended DEF IInv, Abstract!EmittedOnce
    <3>2. CASE i \in DOMAIN Order!Sorted /\ j = Len(Order!Sorted) + 1
      <4>1. Order!Sorted[i] = t
        BY <3>2, <1>1, Appended
      <4> QED
        BY <4>1, <3>2, <1>2 DEF Abstract!Emitted
    <3>3. CASE i = Len(Order!Sorted) + 1 /\ j \in DOMAIN Order!Sorted
      <4>1. Order!Sorted[j] = t
        BY <3>3, <1>1, Appended
      <4> QED
        BY <4>1, <3>3, <1>2 DEF Abstract!Emitted
    <3> QED
      BY <3>1, <3>2, <3>3, <1>1, Appended
  <2>2. \A u \in ToSet(queue)' : u \notin Abstract!Emitted'
    <3> SUFFICES ASSUME NEW u \in ToSet(queue)' PROVE u \notin Abstract!Emitted \cup {t}
      BY <1>1
    <3>1. CASE u \in ToSet(queue) \ {t}
      BY <3>1 DEF IInv, Abstract!EmittedOnce
    <3>2. CASE u \in Abstract!FeedersOf(t)
      BY <3>2, <1>1, FeedersWait
    <3> QED
      BY <3>1, <3>2, <1>3
  <2> QED
    BY <2>1, <2>2 DEF Abstract!EmittedOnce
<1>8. DegreesMeanWaiting'
  <2> SUFFICES ASSUME NEW u \in Abstract!AllTiles PROVE (outDegree[u] = 0)' <=> Discharged(u)'
    BY <1>0 DEF DegreesMeanWaiting
  <2>1. Discharged(u)' <=> (downstream[u] = NoTile \/ downstream[u] \in Abstract!Emitted \/ downstream[u] = t)
    BY <1>1 DEF Discharged
  <2>2. outDegree[u] = 0 <=> (downstream[u] = NoTile \/ downstream[u] \in Abstract!Emitted)
    BY DEF IInv, DegreesMeanWaiting, Discharged
  <2> QED
    BY <2>1, <2>2, <1>4
<1>9. NoneForgotten'
  <2> SUFFICES ASSUME NEW u \in Abstract!AllTiles, outDegree'[u] = 0 PROVE u \in ToSet(queue)' \/ u \in Abstract!Emitted'
    BY <1>0 DEF NoneForgotten
  <2>1. CASE downstream[u] = t
    BY <2>1, <1>3 DEF Abstract!FeedersOf
  <2>2. CASE downstream[u] # t
    <3>1. outDegree[u] = 0
      BY <2>2, <1>4
    <3>2. u \in ToSet(queue) \/ u \in Abstract!Emitted
      BY <3>1 DEF IInv, NoneForgotten
    <3> QED
      BY <3>2, <1>1, <1>3
  <2> QED
    BY <2>1, <2>2
<1>10. ReadyWaitsForNothing'
  <2> SUFFICES ASSUME NEW u \in ToSet(queue)' PROVE outDegree'[u] = 0
    BY DEF ReadyWaitsForNothing
  <2>1. CASE u \in ToSet(queue)
    <3>1. u \in Abstract!AllTiles /\ outDegree[u] = 0
      BY <2>1 DEF IInv, Abstract!TypeOK, ReadyWaitsForNothing
    <3> QED
      BY <3>1, <1>4
  <2>2. CASE u \in Abstract!FeedersOf(t)
    BY <2>2, <1>4 DEF Abstract!FeedersOf
  <2> QED
    BY <2>1, <2>2, <1>3
<1>11. LeftoverIsTheRest'
  BY <1>1 DEF IInv, LeftoverIsTheRest
<1>12. NoTileIsNoTile' /\ BeforeLinking'
  BY <1>0, <1>1 DEF IInv, NoTileIsNoTile, BeforeLinking
<1> QED
  BY <1>5, <1>6, <1>7, <1>8, <1>9, <1>10, <1>11, <1>12 DEF IInv

LEMMA FinishPreserves ==
  ASSUME IInv, Abstract!Finish
  PROVE  IInv'
<1> USE DEF Abstract!Finish
<1>1. Abstract!Emitted' = Abstract!Emitted /\ Abstract!AllTiles' = Abstract!AllTiles
  BY DEF Abstract!Emitted, Abstract!AllTiles
<1>2. Abstract!TypeOK' /\ NoTileIsNoTile' /\ BeforeLinking'
  BY <1>1 DEF IInv, Abstract!TypeOK, NoTileIsNoTile, BeforeLinking
<1>3. Abstract!DownstreamFirst'
  BY DEF IInv, Abstract!DownstreamFirst
<1>4. Abstract!EmittedOnce'
  BY <1>1 DEF IInv, Abstract!EmittedOnce
<1>5. DegreesMeanWaiting'
  BY <1>1 DEF IInv, DegreesMeanWaiting, Discharged
<1>6. NoneForgotten' /\ ReadyWaitsForNothing'
  BY <1>1 DEF IInv, NoneForgotten, ReadyWaitsForNothing
<1>7. LeftoverIsTheRest'
  BY <1>1 DEF LeftoverIsTheRest
<1> QED
  BY <1>2, <1>3, <1>4, <1>5, <1>6, <1>7 DEF IInv

LEMMA StutterPreserves ==
  ASSUME IInv, UNCHANGED Abstract!vars
  PROVE  IInv'
<1> USE DEF Abstract!vars
<1>1. Abstract!Emitted' = Abstract!Emitted /\ Abstract!AllTiles' = Abstract!AllTiles
  BY DEF Abstract!Emitted, Abstract!AllTiles
<1>2. Abstract!TypeOK' /\ Abstract!DownstreamFirst' /\ Abstract!EmittedOnce'
  BY <1>1 DEF IInv, Abstract!TypeOK, Abstract!DownstreamFirst, Abstract!EmittedOnce
<1>3. DegreesMeanWaiting' /\ NoneForgotten' /\ ReadyWaitsForNothing' /\ LeftoverIsTheRest'
  BY <1>1 DEF IInv, DegreesMeanWaiting, Discharged, NoneForgotten, ReadyWaitsForNothing, LeftoverIsTheRest
<1>4. NoTileIsNoTile' /\ BeforeLinking'
  BY <1>1 DEF IInv, NoTileIsNoTile, BeforeLinking
<1> QED
  BY <1>2, <1>3, <1>4 DEF IInv

(* The invariant holds of the sort whatever the links are and whichever    *)
(* tile of the worklist is taken.                                          *)
THEOREM SortInvariant == Abstract!Spec => []IInv
<1>1. Abstract!Init => IInv
  BY InitEstablishes
<1>2. IInv /\ [Abstract!Next]_(Abstract!vars) => IInv'
  BY LinkPreserves, EmitPreserves, FinishPreserves, StutterPreserves DEF Abstract!Next
<1> QED
  BY <1>1, <1>2, PTL DEF Abstract!Spec

(* A left over tile waits for the tile it feeds, which is left over too.   *)
LEMMA LeftoverStays ==
  ASSUME IInv
  PROVE  Abstract!LeftoverNeverDrains
<1> SUFFICES ASSUME NEW t \in Order!Leftover PROVE downstream[t] \in Order!Leftover
  BY DEF Abstract!LeftoverNeverDrains
<1>1. Ordered /\ ToSet(queue) = {} /\ Order!Leftover = Abstract!AllTiles \ Abstract!Emitted
  BY DEF IInv, LeftoverIsTheRest
<1>2. t \in Abstract!AllTiles /\ t \notin Abstract!Emitted
  BY <1>1
<1>3. ~Discharged(t)
  BY <1>1, <1>2 DEF IInv, NoneForgotten, DegreesMeanWaiting
<1>4. downstream[t] \in Abstract!AllTiles \cup {NoTile}
  BY <1>2 DEF IInv, Abstract!TypeOK
<1>. QED  BY <1>1, <1>3, <1>4 DEF Discharged
-----------------------------------------------------------------------------
(* The stack of compute_order is one of the orders of the sort.            *)

SInv ==
  /\ loose = Order!Open \/ loose \in 0 .. Len(order)
  /\ queue \in Seq(DOMAIN downstream) /\ Distinct(queue)
  /\ order \in Seq(DOMAIN downstream) /\ Distinct(order)
  /\ ~Linked => queue = <<>> /\ order = <<>> /\ outDegree = <<>> /\ ~Ordered
  /\ Ordered => queue = <<>> /\ ToSet(order) = DOMAIN downstream

LEMMA SameSet == \A q : Order!ToSet(q) = ToSet(q)
  BY Zenon DEF Order!ToSet, ToSet

(* The top of the stack, and what is below it.                             *)
LEMMA Popped ==
  ASSUME NEW S, NEW q \in Seq(S), q # <<>>, Distinct(q)
  PROVE  /\ Order!Last(q) \in ToSet(q) /\ Order!Last(q) \in S
         /\ Order!Front(q) \in Seq(S) /\ Distinct(Order!Front(q))
         /\ ToSet(Order!Front(q)) = ToSet(q) \ {Order!Last(q)}
<1> DEFINE n == Len(q)
           f == Order!Front(q)
<1>1. n \in Nat /\ n >= 1 /\ DOMAIN q = 1 .. n
  BY EmptySeq
<1>2. Order!Last(q) = q[n]
  BY DEF Order!Last
<1>3. f = SubSeq(q, 1, n - 1)
  BY DEF Order!Front
<1>4. f \in Seq(S) /\ Len(f) = n - 1 /\ \A i \in 1 .. n - 1 : f[i] = q[i]
  BY <1>1, <1>3
<1>5. DOMAIN f = 1 .. n - 1
  BY <1>4
<1> HIDE DEF f, n
<1>6. Distinct(f)
  BY <1>1, <1>4, <1>5 DEF Distinct
<1>7. ToSet(f) = ToSet(q) \ {q[n]}
  <2>1. ASSUME NEW x \in ToSet(f) PROVE x \in ToSet(q) \ {q[n]}
    <3>1. PICK i \in 1 .. n - 1 : x = q[i]
      BY <1>4, <1>5, <2>1 DEF ToSet
    <3>2. i \in 1 .. n /\ n \in 1 .. n /\ i # n
      BY <1>1
    <3>. QED  BY <1>1, <3>1, <3>2 DEF ToSet, Distinct
  <2>2. ASSUME NEW x \in ToSet(q) \ {q[n]} PROVE x \in ToSet(f)
    <3>1. PICK i \in 1 .. n : x = q[i]
      BY <1>1, <2>2 DEF ToSet
    <3>2. i \in 1 .. n - 1
      BY <1>1, <2>2, <3>1
    <3>. QED  BY <1>4, <1>5, <3>1, <3>2 DEF ToSet
  <2>. QED  BY <2>1, <2>2
<1>8. q[n] \in ToSet(q) /\ q[n] \in S
  BY <1>1 DEF ToSet
<1>. QED  BY <1>2, <1>4, <1>6, <1>7, <1>8 DEF f

(* What is appended to different others stays different.                   *)
LEMMA Joined ==
  ASSUME NEW S, NEW p \in Seq(S), NEW q \in Seq(S), Distinct(p), Distinct(q),
         ToSet(p) \cap ToSet(q) = {}
  PROVE  /\ p \o q \in Seq(S) /\ Distinct(p \o q)
         /\ ToSet(p \o q) = ToSet(p) \cup ToSet(q)
         /\ SubSeq(p \o q, 1, Len(p \o q) - Len(q)) = p
<1> DEFINE r == p \o q
<1>1. /\ r \in Seq(S) /\ Len(r) = Len(p) + Len(q)
      /\ \A i \in 1 .. Len(p) + Len(q) : r[i] = IF i <= Len(p) THEN p[i] ELSE q[i - Len(p)]
  BY ConcatProperties
<1>2. /\ Len(p) \in Nat /\ DOMAIN p = 1 .. Len(p)
      /\ Len(q) \in Nat /\ DOMAIN q = 1 .. Len(q)
  OBVIOUS
<1> HIDE DEF r
<1>3. DOMAIN r = 1 .. Len(p) + Len(q)
  BY <1>1
<1>4. ASSUME NEW i \in DOMAIN r
      PROVE  \/ i \in DOMAIN p /\ r[i] = p[i]
             \/ i - Len(p) \in DOMAIN q /\ r[i] = q[i - Len(p)]
  BY <1>1, <1>2, <1>3
<1>5. Distinct(r)
  <2> SUFFICES ASSUME NEW i \in DOMAIN r, NEW j \in DOMAIN r, r[i] = r[j] PROVE i = j
    BY DEF Distinct
  <2>1. CASE i \in DOMAIN p /\ r[i] = p[i] /\ j \in DOMAIN p /\ r[j] = p[j]
    BY <2>1 DEF Distinct
  <2>2. CASE /\ i - Len(p) \in DOMAIN q /\ r[i] = q[i - Len(p)]
             /\ j - Len(p) \in DOMAIN q /\ r[j] = q[j - Len(p)]
    <3>1. i - Len(p) = j - Len(p)
      BY <2>2 DEF Distinct
    <3>. QED  BY <1>2, <1>3, <3>1
  <2>3. CASE i \in DOMAIN p /\ r[i] = p[i] /\ j - Len(p) \in DOMAIN q /\ r[j] = q[j - Len(p)]
    BY <2>3 DEF ToSet
  <2>4. CASE j \in DOMAIN p /\ r[j] = p[j] /\ i - Len(p) \in DOMAIN q /\ r[i] = q[i - Len(p)]
    BY <2>4 DEF ToSet
  <2>. QED  BY <1>4, <2>1, <2>2, <2>3, <2>4
<1>6. ToSet(r) = ToSet(p) \cup ToSet(q)
  <2>1. ToSet(r) \subseteq ToSet(p) \cup ToSet(q)
    BY <1>4 DEF ToSet
  <2>2. ASSUME NEW i \in DOMAIN p PROVE p[i] \in ToSet(r)
    BY <1>1, <1>2, <1>3 DEF ToSet
  <2>3. ASSUME NEW i \in DOMAIN q PROVE q[i] \in ToSet(r)
    <3>1. /\ i + Len(p) \in DOMAIN r /\ r[i + Len(p)] = q[i + Len(p) - Len(p)]
          /\ i + Len(p) - Len(p) = i
      BY <1>1, <1>2, <1>3
    <3>. QED  BY <3>1 DEF ToSet
  <2>. QED  BY <2>1, <2>2, <2>3 DEF ToSet
<1>7. SubSeq(r, 1, Len(r) - Len(q)) = p
  <2>1. Len(r) - Len(q) = Len(p)
    BY <1>1, <1>2
  <2>2. SubSeq(r, 1, Len(p)) \in Seq(S) /\ Len(SubSeq(r, 1, Len(p))) = Len(p)
    BY <1>1, <1>2
  <2>3. \A i \in 1 .. Len(p) : SubSeq(r, 1, Len(p))[i] = p[i]
    BY <1>1, <1>2
  <2>. QED  BY <2>1, <2>2, <2>3, SeqEqual
<1>. QED  BY <1>1, <1>5, <1>6, <1>7 DEF r

(* Until the stack has run dry, the order so far is the sorted part.       *)
LEMMA WhileOpen ==
  ASSUME SInv, ~Ordered
  PROVE  Order!Sorted = order /\ Order!Leftover = {}
<1>1. loose = Order!Open /\ order \in Seq(DOMAIN downstream)
  BY DEF SInv, Ordered
<1>2. Order!Sorted = SubSeq(order, 1, Len(order) - 0)
  BY <1>1 DEF Order!Sorted
<1>3. SubSeq(order, 1, Len(order) - 0) = order
  <2>1. Len(order) \in Nat /\ Len(order) - 0 = Len(order)
    BY <1>1
  <2>. QED  BY <1>1, <2>1, SubSeqFull
<1>4. Order!Leftover = {}
  BY <1>2, <1>3 DEF Order!Leftover, Order!Seen
<1>. QED  BY <1>2, <1>3, <1>4

(* What is on the stack has not been emitted: the test of seen in the code *)
(* never finds anything.                                                   *)
LEMMA QueueIsReady ==
  ASSUME SInv, IInv, queue # <<>>
  PROVE  LET id == Order!Last(queue)
         IN  /\ ~Ordered /\ Linked
             /\ id \in ToSet(queue) /\ id \in DOMAIN downstream
             /\ id \notin ToSet(order) /\ outDegree[id] = 0
<1>1. ~Ordered /\ Linked
  BY DEF SInv
<1>2. Order!Sorted = order
  BY <1>1, WhileOpen
<1>3. Order!Last(queue) \in ToSet(queue) /\ Order!Last(queue) \in DOMAIN downstream
  BY Popped DEF SInv
<1>4. Abstract!Emitted = ToSet(order)
  BY <1>2 DEF Abstract!Emitted, ToSet
<1>. QED  BY <1>1, <1>3, <1>4 DEF IInv, Abstract!EmittedOnce, ReadyWaitsForNothing

(* A step that leaves the sort alone is no step of the abstract sort.      *)
LEMMA OtherSteps ==
  ASSUME SInv, UNCHANGED <<downstream, outDegree, queue, order, loose>>, Linked' = Linked
  PROVE  SInv' /\ UNCHANGED Abstract!vars
<1>1. Ordered' = Ordered /\ Order!Sorted' = Order!Sorted /\ Order!Leftover' = Order!Leftover
  BY DEF Ordered, Order!Sorted, Order!Leftover, Order!Seen
<1>2. ToSet(queue)' = ToSet(queue)
  BY DEF ToSet
<1>. QED  BY <1>1, <1>2 DEF SInv, Abstract!vars, Distinct, ToSet

(* Linking: the stack starts with the ends of the lines.                   *)
LEMMA LinkMaps ==
  ASSUME NetInv, SInv, LinkDownstream
  PROVE  SInv' /\ Abstract!Link
<1> DEFINE ends == {t \in DOMAIN downstream' : downstream'[t] = NoTile}
<1>1. /\ ~Linked /\ Linked' /\ UNCHANGED <<tiles, pairs, order, loose>>
      /\ downstream' = [id \in DOMAIN tiles |-> DownstreamOf(tiles, pairs, id)]
      /\ outDegree' = [t \in DOMAIN downstream' |-> IF downstream'[t] = NoTile THEN 0 ELSE 1]
      /\ queue' = Order!Ascending(ends)
  BY DEF LinkDownstream, Linked, Order!StartDegrees, Order!StartQueue
<1>2. tiles \in Seq(Tile) /\ DOMAIN tiles = 1 .. Len(tiles) /\ Len(tiles) \in Nat
  BY DEF NetInv, TilesOK
<1>3. DOMAIN downstream' = DOMAIN tiles
  BY <1>1
<1>4. \A id \in DOMAIN tiles : downstream'[id] \in DOMAIN tiles \cup {NoTile}
  <2> SUFFICES ASSUME NEW id \in DOMAIN tiles
               PROVE  DownstreamOf(tiles, pairs, id) \in DOMAIN tiles \cup {NoTile}
    BY <1>1
  <2>1. pairs[id] \in DOMAIN tiles \cup {NoTile}
    BY <1>2, PairsAreRight DEF NetInv, LinkDownstream
  <2>2. \A pos : TileAt(tiles, pos) \in DOMAIN tiles \cup {NoTile}
    BY <1>2, TileAtFound
  <2>. QED  BY <2>1, <2>2 DEF DownstreamOf
<1>5. downstream' \in [DOMAIN downstream' -> DOMAIN downstream' \cup {NoTile}]
  BY <1>1, <1>3, <1>4
<1>6. NoTile \notin DOMAIN downstream'
  BY <1>2, <1>3 DEF NoTile
<1>7. ends \in SUBSET Nat /\ ends \in SUBSET (DOMAIN downstream') /\ IsFiniteSet(ends)
  <2>1. ends \subseteq 1 .. Len(tiles) /\ IsFiniteSet(1 .. Len(tiles))
    BY <1>2, <1>3, FS_Interval
  <2>2. IsFiniteSet(ends)
    <3> HIDE DEF ends
    <3>. QED  BY <2>1, FS_Subset
  <2>. QED  BY <1>2, <2>1, <2>2
<1> HIDE DEF ends
<1>8. queue' \in Seq(ends) /\ Distinct(queue') /\ ToSet(queue') = ends
  BY <1>1, <1>7, InOrder
<1>9. queue' \in Seq(DOMAIN downstream')
  BY <1>7, <1>8, SeqMonotonic
<1>10. order = <<>> /\ ~Ordered /\ loose = Order!Open
  BY <1>1 DEF SInv, Ordered
<1>11. Order!Sorted = <<>> /\ Order!Leftover = {} /\ ~Ordered'
  BY <1>1, <1>10, WhileOpen DEF Ordered
<1>12. SInv'
  <2>1. loose' = Order!Open /\ order' = <<>>
    BY <1>1, <1>10
  <2>2. order' \in Seq(DOMAIN downstream') /\ Distinct(order')
    BY <2>1 DEF Distinct
  <2>3. Distinct(queue)'
    BY <1>8 DEF Distinct
  <2>4. Distinct(order)'
    BY <2>2 DEF Distinct
  <2>. QED  BY <1>1, <1>9, <1>11, <2>1, <2>2, <2>3, <2>4 DEF SInv
<1>13. Order!Sorted' = <<>> /\ Order!Leftover' = {}
  BY <1>11, <1>12, WhileOpen, <1>1, <1>10 DEF Order!Sorted, Order!Leftover, Order!Seen, Order!ToSet
<1>14. ToSet(queue)' = {t \in DOMAIN downstream' : downstream'[t] = NoTile}
  BY <1>8 DEF ToSet, ends
<1>15. Abstract!Link
  <2>1. outDegree' = [t \in DOMAIN downstream' |-> IF downstream'[t] = NoTile THEN 0 ELSE 1]
    BY <1>1
  <2>2. UNCHANGED <<Order!Sorted, Order!Leftover, Ordered>>
    BY <1>1, <1>11, <1>13 DEF Ordered
  <2>3. ~Linked /\ Linked' = TRUE
    BY <1>1 DEF Linked
  <2>. QED  BY <1>5, <1>6, <1>14, <2>1, <2>2, <2>3 DEF Abstract!Link
<1>. QED  BY <1>12, <1>15

(* Popping: the top of the stack is emitted.                               *)
LEMMA PopMaps ==
  ASSUME NetInv, SInv, IInv, Sort, Order!Pop
  PROVE  SInv' /\ \E t \in Abstract!AllTiles : Abstract!Emit(t)
<1> DEFINE id == Order!Last(queue)
           discharged == {u \in Order!Tiles : downstream[u] = id /\ outDegree[u] > 0}
           next == {u \in discharged : outDegree[u] = 1}
           fed == {u \in DOMAIN downstream : downstream[u] = id /\ outDegree[u] = 1}
<1>1. queue # <<>> /\ UNCHANGED <<downstream, loose>> /\ UNCHANGED phase
  BY DEF Sort, Order!Pop
<1>2. /\ ~Ordered /\ Linked /\ id \in ToSet(queue) /\ id \in DOMAIN downstream
      /\ id \notin ToSet(order) /\ outDegree[id] = 0
  BY <1>1, QueueIsReady
<1>3. id \notin Order!Seen
  BY <1>2, SameSet DEF Order!Seen
<1>4. /\ order' = Append(order, id)
      /\ outDegree' = [u \in Order!Tiles |-> outDegree[u] - (IF u \in discharged THEN 1 ELSE 0)]
      /\ queue' = Order!Front(queue) \o Order!Ascending(next)
  BY <1>3 DEF Order!Pop
<1>5. outDegree \in [DOMAIN downstream -> {0, 1}] /\ ToSet(queue) \subseteq DOMAIN downstream
  BY DEF IInv, Abstract!TypeOK, Abstract!AllTiles
<1>6. next = fed
  BY <1>5 DEF Order!Tiles
<1>7. outDegree' = [u \in DOMAIN downstream |-> IF downstream[u] = id THEN 0 ELSE outDegree[u]]
  <2>1. \A u \in DOMAIN downstream :
          outDegree[u] - (IF u \in discharged THEN 1 ELSE 0) = IF downstream[u] = id THEN 0 ELSE outDegree[u]
    BY <1>5 DEF Order!Tiles
  <2> HIDE DEF discharged, id
  <2>. QED  BY <1>4, <2>1 DEF Order!Tiles
<1>8. fed \in SUBSET Nat /\ fed \in SUBSET DOMAIN downstream /\ IsFiniteSet(fed)
  <2>1. DOMAIN downstream = 1 .. Len(tiles) /\ Len(tiles) \in Nat
    BY <1>2 DEF NetInv, TilesOK
  <2>2. fed \subseteq 1 .. Len(tiles) /\ IsFiniteSet(1 .. Len(tiles))
    BY <2>1, FS_Interval
  <2>3. IsFiniteSet(fed)
    <3> HIDE DEF fed
    <3>. QED  BY <2>2, FS_Subset
  <2>. QED  BY <2>1, <2>2, <2>3
<1>9. \A u \in fed : u \notin ToSet(queue)
  BY <1>5 DEF IInv, ReadyWaitsForNothing
<1> DEFINE below == Order!Front(queue)
           pushed == Order!Ascending(fed)
<1>10. /\ below \in Seq(DOMAIN downstream) /\ Distinct(below)
       /\ ToSet(below) = ToSet(queue) \ {id}
  BY <1>1, Popped DEF SInv
<1>11. pushed \in Seq(DOMAIN downstream) /\ Distinct(pushed) /\ ToSet(pushed) = fed
  <2>1. pushed \in Seq(fed) /\ Distinct(pushed) /\ ToSet(pushed) = fed
    <3> HIDE DEF fed
    <3>. QED  BY <1>8, InOrder
  <2>. QED  BY <1>8, <2>1, SeqMonotonic
<1>12. queue' = below \o pushed
  BY <1>4, <1>6
<1> HIDE DEF below, pushed, discharged, next, fed, id
<1>13. /\ queue' \in Seq(DOMAIN downstream) /\ Distinct(queue')
       /\ ToSet(queue') = (ToSet(queue) \ {id}) \cup fed
  <2>1. ToSet(below) \cap ToSet(pushed) = {}
    BY <1>9, <1>10, <1>11
  <2>. QED  BY <1>10, <1>11, <1>12, <2>1, Joined
<1>14. /\ order' \in Seq(DOMAIN downstream) /\ Distinct(order')
       /\ order \in Seq(DOMAIN downstream) /\ Distinct(order)
  <2>1. order \in Seq(DOMAIN downstream) /\ Distinct(order)
    BY DEF SInv
  <2>2. <<id>> \in Seq(DOMAIN downstream) /\ Distinct(<<id>>) /\ ToSet(<<id>>) = {id}
    BY <1>2 DEF Distinct, ToSet
  <2>3. order' = order \o <<id>>
    BY <1>4, <2>1, <2>2, AppendIsConcat
  <2>4. ToSet(order) \cap ToSet(<<id>>) = {}
    BY <1>2, <2>2
  <2>5. order' \in Seq(DOMAIN downstream) /\ Distinct(order')
    BY <2>1, <2>2, <2>3, <2>4, Joined
  <2>. QED  BY <2>1, <2>5
<1>15. ~Ordered' /\ Linked' /\ loose' = Order!Open
  BY <1>1, <1>2 DEF Ordered, Linked
<1>16. SInv'
  <2>1. Distinct(queue)' /\ Distinct(order)'
    BY <1>13, <1>14 DEF Distinct
  <2>. QED  BY <1>1, <1>13, <1>14, <1>15, <2>1 DEF SInv
<1>17. Order!Sorted = order /\ Order!Sorted' = order' /\ Order!Leftover = {} /\ Order!Leftover' = {}
  <2>1. Order!Sorted = order /\ Order!Leftover = {}
    BY <1>2, WhileOpen
  <2>2. Order!Sorted' = SubSeq(order', 1, Len(order') - 0)
    BY <1>15 DEF Order!Sorted
  <2>3. SubSeq(order', 1, Len(order') - 0) = order'
    <3>1. Len(order') \in Nat /\ Len(order') - 0 = Len(order')
      BY <1>14
    <3>. QED  BY <1>14, <3>1, SubSeqFull
  <2>4. Order!Leftover' = {}
    BY <2>2, <2>3 DEF Order!Leftover, Order!Seen, Order!ToSet
  <2>. QED  BY <2>1, <2>2, <2>3, <2>4
<1>18. ToSet(queue)' = (ToSet(queue) \ {id}) \cup {u \in Abstract!FeedersOf(id) : outDegree[u] > 0}
  <2>1. fed = {u \in Abstract!FeedersOf(id) : outDegree[u] > 0}
    BY <1>5 DEF fed, Abstract!FeedersOf, Abstract!AllTiles
  <2>. QED  BY <1>13, <2>1 DEF ToSet
<1>19. Abstract!Emit(id)
  <2>1. Order!Sorted' = Append(Order!Sorted, id)
    BY <1>4, <1>17
  <2>2. outDegree' = [u \in Abstract!AllTiles |-> IF downstream[u] = id THEN 0 ELSE outDegree[u]]
    BY <1>7 DEF Abstract!AllTiles
  <2>3. UNCHANGED <<downstream, Order!Leftover, Linked, Ordered>>
    BY <1>1, <1>2, <1>15, <1>17 DEF Linked, Ordered
  <2>. QED  BY <1>2, <1>18, <2>1, <2>2, <2>3 DEF Abstract!Emit
<1>. QED  BY <1>2, <1>16, <1>19 DEF Abstract!AllTiles

(* Running dry: what was never on the stack goes behind the rest.          *)
LEMMA DrainedMaps ==
  ASSUME NetInv, SInv, IInv, Sort, Order!Drained
  PROVE  SInv' /\ Abstract!Finish
<1> DEFINE rest == Order!Tiles \ Order!Seen
           behind == Order!Ascending(rest)
<1>1. /\ queue = <<>> /\ ~Ordered /\ Linked /\ Linked'
      /\ UNCHANGED <<downstream, outDegree, queue, phase>>
      /\ order' = order \o behind /\ loose' = Len(behind)
  BY DEF Sort, Order!Drained, Ordered, Linked
<1>2. DOMAIN downstream = 1 .. Len(tiles) /\ Len(tiles) \in Nat
  BY <1>1 DEF NetInv, TilesOK
<1>3. rest = DOMAIN downstream \ ToSet(order)
  BY SameSet DEF Order!Tiles, Order!Seen
<1>4. rest \in SUBSET Nat /\ rest \in SUBSET DOMAIN downstream /\ IsFiniteSet(rest)
  <2>1. rest \subseteq 1 .. Len(tiles) /\ IsFiniteSet(1 .. Len(tiles))
    BY <1>2, <1>3, FS_Interval
  <2>2. IsFiniteSet(rest)
    <3> HIDE DEF rest
    <3>. QED  BY <2>1, FS_Subset
  <2>. QED  BY <1>2, <2>1, <2>2
<1>5. behind \in Seq(DOMAIN downstream) /\ Distinct(behind) /\ ToSet(behind) = rest
  <2> HIDE DEF rest
  <2>1. behind \in Seq(rest) /\ Distinct(behind) /\ ToSet(behind) = rest
    BY <1>4, InOrder
  <2>. QED  BY <1>4, <2>1, SeqMonotonic
<1>6. order \in Seq(DOMAIN downstream) /\ Distinct(order) /\ ToSet(order) \subseteq DOMAIN downstream
  BY DEF SInv, ToSet
<1> HIDE DEF rest, behind
<1>7. /\ order' \in Seq(DOMAIN downstream) /\ Distinct(order')
      /\ ToSet(order') = ToSet(order) \cup rest
      /\ SubSeq(order', 1, Len(order') - Len(behind)) = order
      /\ Len(order') = Len(order) + Len(behind)
  BY <1>1, <1>3, <1>5, <1>6, Joined
<1>8. Len(behind) \in Nat /\ Len(order) \in Nat
  BY <1>5, <1>6
<1>9. loose' # Order!Open /\ Ordered'
  BY <1>1, <1>8 DEF Order!Open, Ordered
<1>10. SInv'
  <2>1. Distinct(queue)' /\ Distinct(order)' /\ queue' \in Seq(DOMAIN downstream')
    BY <1>1, <1>7 DEF SInv, Distinct
  <2>2. ToSet(order)' = DOMAIN downstream'
    BY <1>1, <1>3, <1>6, <1>7 DEF ToSet
  <2>3. loose' \in 0 .. Len(order')
    BY <1>1, <1>7, <1>8
  <2>. QED  BY <1>1, <1>7, <2>1, <2>2, <2>3 DEF SInv
<1>11. Order!Sorted = order /\ Order!Leftover = {}
  BY <1>1, WhileOpen
<1>12. Order!Sorted' = order
  BY <1>1, <1>7, <1>9 DEF Order!Sorted
<1>13. Order!Leftover' = rest
  <2>1. Order!Leftover' = ToSet(order') \ ToSet(order)
    BY <1>12 DEF Order!Leftover, Order!Seen, Order!ToSet, ToSet
  <2>. QED  BY <1>3, <1>7, <2>1
<1>14. Abstract!Emitted = ToSet(order) /\ ToSet(queue) = {} /\ ToSet(queue)' = {}
  BY <1>1, <1>11 DEF Abstract!Emitted, ToSet
<1>. QED  BY <1>1, <1>3, <1>9, <1>10, <1>11, <1>12, <1>13, <1>14 DEF Abstract!Finish, Abstract!AllTiles

BuilderInv == NetInv /\ SInv /\ IInv

LEMMA BuilderInit == Init => BuilderInv /\ Abstract!Init
<1> SUFFICES ASSUME Init PROVE BuilderInv /\ Abstract!Init
  OBVIOUS
<1>1. SInv
  BY DEF Init, SInv, Distinct, Linked, Ordered
<1>2. Order!Sorted = <<>> /\ Order!Leftover = {} /\ ~Ordered /\ ~Linked
  BY <1>1, WhileOpen DEF Init, Ordered, Linked
<1>3. Abstract!Init
  BY <1>2 DEF Init, Abstract!Init, ToSet, Linked, Ordered
<1>. QED  BY <1>1, <1>3, NetInit, InitEstablishes DEF BuilderInv

(* Each step of the builder is a step of the sort, or none.                *)
LEMMA BuilderStep ==
  ASSUME BuilderInv, [Next]_vars
  PROVE  BuilderInv' /\ [Abstract!Next]_(Abstract!vars)
<1> USE DEF BuilderInv
<1>1. NetInv'
  BY NetStep
<1>2. SInv' /\ [Abstract!Next]_(Abstract!vars)
  <2>1. CASE UNCHANGED <<downstream, outDegree, queue, order, loose>> /\ Linked' = Linked
    BY <2>1, OtherSteps
  <2>2. ASSUME NEW e \in Entity, AddTiles(e)
        PROVE  UNCHANGED <<downstream, outDegree, queue, order, loose>> /\ Linked' = Linked
    BY <2>2 DEF AddTiles, Linked
  <2>3. ASSUME PairUndergrounds
        PROVE  UNCHANGED <<downstream, outDegree, queue, order, loose>> /\ Linked' = Linked
    BY <2>3 DEF PairUndergrounds, Linked
  <2>4. CASE LinkDownstream
    BY <2>4, LinkMaps DEF Abstract!Next
  <2>5. CASE Sort
    <3>1. CASE Order!Pop
      BY <2>5, <3>1, PopMaps DEF Abstract!Next
    <3>2. CASE Order!Drained
      BY <2>5, <3>2, DrainedMaps DEF Abstract!Next
    <3>. QED  BY <2>5, <3>1, <3>2 DEF Sort
  <2>6. CASE UNCHANGED vars
    <3>1. UNCHANGED <<downstream, outDegree, queue, order, loose>> /\ Linked' = Linked
      BY <2>6 DEF vars, Linked
    <3>. QED  BY <2>1, <3>1
  <2>. QED  BY <2>1, <2>2, <2>3, <2>4, <2>5, <2>6 DEF Next
<1>3. IInv'
  BY <1>2, LinkPreserves, EmitPreserves, FinishPreserves, StutterPreserves DEF Abstract!Next
<1>. QED  BY <1>1, <1>2, <1>3

(* What the builder maintains: the network, the stack and the order so far *)
(* belong to one another in every state.                                   *)
THEOREM BuilderInvariant == Spec => []BuilderInv
<1>. QED  BY BuilderInit, BuilderStep, PTL DEF Spec

(* compute_order implements the sort: tile by tile, the stack emits one of *)
(* the tiles that wait for nothing, so all that is proved of the sort      *)
(* above is true of the order in which the meter steps its tiles.          *)
THEOREM StackSortsTiles == Spec => SortsDownstreamFirst
<1>1. Init => Abstract!Init
  BY BuilderInit
<1>2. BuilderInv /\ [Next]_vars => [Abstract!Next]_(Abstract!vars)
  BY BuilderStep
<1>. QED  BY <1>1, <1>2, BuilderInvariant, PTL DEF Spec, SortsDownstreamFirst, Abstract!Spec

(* A tile of the sorted part is stepped after the tile it feeds.           *)
THEOREM SinksFirst == Spec => []Abstract!DownstreamFirst
<1>1. BuilderInv => Abstract!DownstreamFirst
  BY DEF BuilderInv, IInv
<1>. QED  BY <1>1, BuilderInvariant, PTL

(* No tile is emitted twice; the seen test of the code is redundant.       *)
THEOREM NeverTwice == Spec => []Abstract!EmittedOnce
<1>1. BuilderInv => Abstract!EmittedOnce
  BY DEF BuilderInv, IInv
<1>. QED  BY <1>1, BuilderInvariant, PTL

(* The part the sort gives up on never feeds the part it sorted.           *)
THEOREM LoopsKeepApart == Spec => []Abstract!LeftoverNeverDrains
<1>1. BuilderInv => Abstract!LeftoverNeverDrains
  BY LeftoverStays DEF BuilderInv
<1>. QED  BY <1>1, BuilderInvariant, PTL

(* Every tile is in the order, and once: the order is as long as there are *)
(* tiles.                                                                  *)
THEOREM EveryTileIsStepped == Spec => []EveryTileOnce
<1>1. BuilderInv => EveryTileOnce
  <2> SUFFICES ASSUME BuilderInv, Ordered
               PROVE  ToSet(order) = DOMAIN tiles /\ Len(order) = Len(tiles)
    BY DEF EveryTileOnce
  <2> USE DEF BuilderInv
  <2>1. Linked
    BY DEF SInv
  <2>2. DOMAIN downstream = 1 .. Len(tiles) /\ DOMAIN tiles = 1 .. Len(tiles) /\ Len(tiles) \in Nat
    BY <2>1 DEF NetInv, TilesOK
  <2>3. order \in Seq(1 .. Len(tiles)) /\ Distinct(order) /\ ToSet(order) = 1 .. Len(tiles)
    BY <2>2 DEF SInv
  <2>4. Len(order) \in Nat /\ DOMAIN order = 1 .. Len(order)
    BY <2>3
  <2>5. order \in Injection(1 .. Len(order), 1 .. Len(tiles))
    <3>1. order \in [1 .. Len(order) -> 1 .. Len(tiles)]
      BY <2>3
    <3>2. IsInjective(order)
      BY <2>3 DEF IsInjective, Distinct
    <3>. QED  BY <3>1, <3>2 DEF Injection
  <2>6. order \in Surjection(1 .. Len(order), 1 .. Len(tiles))
    BY <2>3, <2>4 DEF Surjection, ToSet
  <2>7. /\ IsFiniteSet(1 .. Len(tiles)) /\ Cardinality(1 .. Len(tiles)) = Len(tiles)
        /\ Cardinality(1 .. Len(order)) = Len(order)
    <3>1. ASSUME NEW n \in Nat PROVE IsFiniteSet(1 .. n) /\ Cardinality(1 .. n) = n
      <4>1. IsFiniteSet(1 .. n) /\ Cardinality(1 .. n) = IF 1 > n THEN 0 ELSE n - 1 + 1
        BY FS_Interval
      <4>. QED  BY <4>1
    <3>. QED  BY <2>2, <2>4, <3>1
  <2>8. Cardinality(1 .. Len(order)) = Cardinality(1 .. Len(tiles))
    BY <2>5, <2>6, <2>7, FS_Injection
  <2>. QED  BY <2>2, <2>3, <2>7, <2>8
<1>. QED  BY <1>1, BuilderInvariant, PTL

(* The sorted tiles are those from which no set of tiles holds an item for *)
(* ever.  What is left over is such a set; and of a set that had a sorted  *)
(* tile the first one in the order feeds an earlier one of the set.        *)
THEOREM SortedDrains == Spec => []SortedIsWhatDrains
<1>1. BuilderInv => SortedIsWhatDrains
  <2> SUFFICES ASSUME BuilderInv, Ordered
               PROVE  ToSet(Order!Sorted)
                        = {t \in DOMAIN tiles : ~\E C \in SUBSET DOMAIN tiles : t \in C /\ Trap(C)}
    BY DEF SortedIsWhatDrains
  <2> USE DEF BuilderInv
  <2>1. /\ Linked /\ DOMAIN downstream = DOMAIN tiles /\ NoTile \notin DOMAIN tiles
    BY DEF SInv, NetInv, IInv, NoTileIsNoTile, Abstract!AllTiles
  <2>2. /\ Order!Sorted \in Seq(DOMAIN tiles) /\ ToSet(Order!Sorted) \subseteq DOMAIN tiles
        /\ Order!Leftover = DOMAIN tiles \ ToSet(Order!Sorted)
    <3>1. Order!Sorted \in Seq(DOMAIN tiles) /\ Abstract!Emitted = ToSet(Order!Sorted)
      BY <2>1 DEF IInv, Abstract!TypeOK, Abstract!AllTiles, Abstract!Emitted, ToSet
    <3>2. ToSet(Order!Sorted) \subseteq DOMAIN tiles
      BY <3>1 DEF ToSet
    <3>. QED  BY <2>1, <3>1, <3>2 DEF IInv, LeftoverIsTheRest, Abstract!AllTiles
  <2>3. ASSUME NEW C \in SUBSET DOMAIN tiles, Trap(C), NEW t \in ToSet(Order!Sorted), t \in C
        PROVE  FALSE
    <3> DEFINE I == {i \in DOMAIN Order!Sorted : Order!Sorted[i] \in C}
    <3>1. I \subseteq Nat /\ I # {}
      BY <2>2, <2>3 DEF ToSet
    <3>2. PICK i \in I : \A j \in I : i <= j
      <4> HIDE DEF I
      <4>. QED  BY <3>1, Least
    <3>3. downstream[Order!Sorted[i]] \in C
      BY <2>3 DEF Trap
    <3>4. PICK j \in DOMAIN Order!Sorted : j < i /\ Order!Sorted[j] = downstream[Order!Sorted[i]]
      BY <2>1, <3>3 DEF IInv, Abstract!DownstreamFirst
    <3>5. j \in I /\ j \in Nat /\ i \in Nat
      BY <3>1, <3>3, <3>4
    <3>. QED  BY <3>2, <3>4, <3>5
  <2>4. Trap(Order!Leftover)
    BY LeftoverStays DEF Trap, Abstract!LeftoverNeverDrains
  <2>5. Order!Leftover \in SUBSET DOMAIN tiles
    BY <2>2
  <2>. QED  BY <2>2, <2>3, <2>4, <2>5
<1>. QED  BY <1>1, BuilderInvariant, PTL

(* The update order of every blueprint is as BeltNetwork takes it to be:   *)
(* every tile once, the sorted ones after the tile they feed, and no way   *)
(* from the rest to them (compute_order).                                  *)
THEOREM OrderLeadsOn == Spec => [](Ordered => WellOrdered(downstream, order))
<1>1. BuilderInv => (Ordered => WellOrdered(downstream, order))
  <2> SUFFICES ASSUME BuilderInv, Ordered PROVE WellOrdered(downstream, order)
    OBVIOUS
  <2> USE DEF BuilderInv
  <2> DEFINE front == Order!Sorted
             rest == Order!Leftover
             n == Len(order)
             s == n - loose
  <2>1. /\ order \in Seq(DOMAIN downstream) /\ Distinct(order) /\ ToSet(order) = DOMAIN downstream
        /\ loose \in 0 .. Len(order)
    BY DEF SInv, Ordered
  <2>2. n \in Nat /\ DOMAIN order = 1 .. n /\ s \in 0 .. n
    BY <2>1
  <2>3. front = SubSeq(order, 1, s) /\ rest = ToSet(order) \ ToSet(front)
    BY SameSet DEF Order!Sorted, Order!Leftover, Order!Seen, Ordered
  <2> HIDE DEF n, s, front, rest
  <2>4. DOMAIN front = 1 .. s /\ \A i \in 1 .. s : front[i] = order[i]
    <3>1. Len(front) = s /\ front \in Seq(DOMAIN downstream) /\ \A i \in 1 .. s : front[i] = order[i]
      BY <2>1, <2>2, <2>3 DEF n
    <3>. QED  BY <2>2, <3>1
  <2>5. \A i, j \in DOMAIN order : order[i] = order[j] => i = j
    BY <2>1 DEF Distinct
  <2>6. ASSUME NEW i \in DOMAIN order, i > s PROVE \E j \in DOMAIN order : j > s /\ order[j] = downstream[order[i]]
    <3>1. order[i] \in rest
      <4>1. order[i] \in ToSet(order)
        BY <2>6 DEF ToSet
      <4>2. \A j \in 1 .. s : j \in DOMAIN order /\ j # i
        BY <2>2, <2>6
      <4>3. order[i] \notin ToSet(front)
        BY <2>4, <2>5, <2>6, <4>2 DEF ToSet
      <4>. QED  BY <2>3, <4>1, <4>3
    <3>2. downstream[order[i]] \in rest
      BY <3>1, LeftoverStays DEF Abstract!LeftoverNeverDrains, rest
    <3>3. PICK j \in DOMAIN order : order[j] = downstream[order[i]] /\ order[j] \notin ToSet(front)
      BY <2>3, <3>2 DEF ToSet
    <3>4. j \notin 1 .. s
      BY <2>4, <3>3 DEF ToSet
    <3>5. j > s
      BY <2>2, <3>3, <3>4
    <3>. QED  BY <3>3, <3>5
  <2>7. ASSUME NEW i \in DOMAIN order, ~(i > s), downstream[order[i]] # NoTile
        PROVE  \E j \in DOMAIN order : j < i /\ order[j] = downstream[order[i]]
    <3>1. i \in DOMAIN front /\ front[i] = order[i]
      BY <2>2, <2>4, <2>7
    <3>2. PICK j \in DOMAIN front : j < i /\ front[j] = downstream[front[i]]
      BY <2>7, <3>1 DEF IInv, Abstract!DownstreamFirst, front
    <3>3. j \in DOMAIN order /\ front[j] = order[j]
      BY <2>2, <2>4, <3>2
    <3>. QED  BY <3>1, <3>2, <3>3
  <2>8. Range(order) = DOMAIN downstream
    BY <2>1 DEF Range, ToSet
  <2>9. \E sorted \in 0 .. Len(order) : \A i \in DOMAIN order :
          IF i > sorted THEN \E j \in DOMAIN order : j > sorted /\ order[j] = downstream[order[i]]
          ELSE downstream[order[i]] # NoTile => \E j \in DOMAIN order : j < i /\ order[j] = downstream[order[i]]
    BY <2>2, <2>6, <2>7 DEF n
  <2>. QED  BY <2>5, <2>8, <2>9 DEF WellOrdered
<1>. QED  BY <1>1, BuilderInvariant, PTL
=============================================================================
