--------------------------- MODULE JunctionRegion ---------------------------
(***************************************************************************)
(* The region that the junction solver grows round a cluster of crossings  *)
(* (GrowingRegion and its helpers, crates/core/src/bus/junction_solver.rs). *)
(*                                                                         *)
(* A plan is what the ghost router hands over and nobody changes any more: *)
(* for each spec its path, a sequence of tiles, and its item; the specs    *)
(* that are pipes; and the obstacles, every tile that was claimed by       *)
(* something else than a ghost belt when the clusters were formed.         *)
(* placed holds the entities, [tile, dir, item, kind, seg, at] with kind   *)
(* "belt", "in", "out", "splitter" or "pipe"; at is the entity's place in  *)
(* the list, the same for all that one solution brings: the order matters, *)
(* and a tile may occur more than once. A box is [l, t, r, b], sides       *)
(* included; directions are 0 North, 1 East, 2 South, 3 West.              *)
(***************************************************************************)
EXTENDS Integers, FiniteSets, FiniteSetsExt, Sequences, SequencesExt

CONSTANTS
  MaxGrowthIters,    \* MAX_GROWTH_ITERS
  MaxRegionTiles     \* MAX_REGION_TILES

Ahead(t, d) == << <<t[1], t[2] - 1>>, <<t[1] + 1, t[2]>>,
                  <<t[1], t[2] + 1>>, <<t[1] - 1, t[2]>> >>[d + 1]
Behind(t, d) == Ahead(t, (d + 2) % 4)

TilesOf(box) == (box.l .. box.r) \X (box.t .. box.b)
TileCount(box) == (box.r - box.l + 1) * (box.b - box.t + 1)
In(t, box) == t[1] \in box.l .. box.r /\ t[2] \in box.t .. box.b
Around(tiles) ==
  [l |-> Min({t[1] : t \in tiles}), r |-> Max({t[1] : t \in tiles}),
   t |-> Min({t[2] : t \in tiles}), b |-> Max({t[2] : t \in tiles})]

IsPlan(plan) ==
  IsFiniteSet(DOMAIN plan.path) /\ \A s \in DOMAIN plan.path : plan.path[s] \in Seq(Int \X Int)

BeltSpecs(plan) == DOMAIN plan.path \ plan.pipes

-----------------------------------------------------------------------------
(* Paths in a box.                                                         *)

InBox(path, box) == {i \in DOMAIN path : In(path[i], box)}
First(path, box) == Min(InBox(path, box))
Final(path, box) == Max(InBox(path, box))
Span(path, box) == <<First(path, box), Final(path, box)>>
Crosses(path, box) == InBox(path, box) # {} /\ First(path, box) < Final(path, box)
Ends(path, box) == {path[First(path, box)], path[Final(path, box)]}

DirectionAt(path, i) ==
  LET k == IF i < Len(path) THEN i ELSE i - 1
  IN  CHOOSE d \in 0..3 : Ahead(path[k], d) = path[k + 1]

-----------------------------------------------------------------------------
(* What must not be built on.                                              *)

PipeTiles(placed) == {e.tile : e \in {f \in placed : f.kind = "pipe"}}

Here(placed, t) == {e \in placed : e.tile = t}
Latest(ents) == CHOOSE e \in ents : \A f \in ents : f.at <= e.at
Earliest(ents) == CHOOSE e \in ents : \A f \in ents : e.at <= f.at

\* The last entity listed for a tile decides whether the tile may be rebuilt:
\* surface belts may, and a tile where nothing is listed may not.
Rebuildable(placed, t) ==
  \E e \in Here(placed, t) : e.kind = "belt" /\ \A f \in Here(placed, t) : f.at <= e.at

Encountered(plan, box, participating) ==
  {s \in DOMAIN plan.path \ participating : InBox(plan.path[s], box) # {}}

\* The tiles where the flows enter and leave are never obstacles.
PortTiles(plan, placed, box, span) ==
  (UNION ({{plan.path[s][span[s][1]], plan.path[s][span[s][2]]} : s \in DOMAIN span}
          \union {Ends(plan.path[s], box) : s \in Encountered(plan, box, DOMAIN span)}))
    \ PipeTiles(placed)

RefreshForbidden(plan, placed, box, span, override) ==
  LET ports == PortTiles(plan, placed, box, span)
  IN  {t \in TilesOf(box) : \/ t \in override
                            \/ t \in plan.obstacles \ ports /\ ~Rebuildable(placed, t)}

\* A spec that only passes, but over a forbidden tile, has to be rerouted too.
PromoteBlocked(plan, placed, box, span, override) ==
  LET forbidden == RefreshForbidden(plan, placed, box, span, override)
      blocked == {s \in Encountered(plan, box, DOMAIN span) \ plan.pipes :
                    \E i \in First(plan.path[s], box) + 1 .. Final(plan.path[s], box) - 1 :
                      plan.path[s][i] \in forbidden}
  IN  [box |-> box, forbidden |-> forbidden, override |-> override,
       span |-> [s \in DOMAIN span \union blocked |->
                   IF s \in blocked THEN Span(plan.path[s], box) ELSE span[s]],
       encountered |-> Encountered(plan, box, DOMAIN span \union blocked)]

-----------------------------------------------------------------------------
(* The region and its growth.                                              *)

\* On the seed a spec of the cluster has been entered and not yet left.
FromCrossings(plan, placed, seeds, override) ==
  LET box == Around(seeds)
      specs == {s \in BeltSpecs(plan) : \E i \in DOMAIN plan.path[s] : plan.path[s][i] \in seeds}
      entered == [s \in specs |-> <<First(plan.path[s], box), First(plan.path[s], box)>>]
  IN  PromoteBlocked(plan, placed, box, entered, override)

\* Growth stops at the tiles of balancers of several splitters. A side is
\* clamped against the box as it was.
ClampSide(amount, strip, protected) ==
  LET hit == {n \in 1 .. amount : strip[n] \intersect protected # {}}
  IN  IF hit = {} THEN amount ELSE Min(hit) - 1

Clamped(box, by, protected) ==
  LET column(x) == {x} \X (box.t .. box.b)
      row(y) == (box.l .. box.r) \X {y}
      left == [n \in 1 .. by.l |-> column(box.l - n)]
      right == [n \in 1 .. by.r |-> column(box.r + n)]
      top == [n \in 1 .. by.t |-> row(box.t - n)]
      bottom == [n \in 1 .. by.b |-> row(box.b + n)]
  IN  [l |-> ClampSide(by.l, left, protected), t |-> ClampSide(by.t, top, protected),
       r |-> ClampSide(by.r, right, protected), b |-> ClampSide(by.b, bottom, protected)]

Nothing == [l |-> 0, t |-> 0, r |-> 0, b |-> 0]

\* A spec joins when it shares a tile of the new box with one that was in.
ExpandBbox(plan, placed, region, by) ==
  LET more == Clamped(region.box, by, plan.protected)
      box == [l |-> region.box.l - more.l, t |-> region.box.t - more.t,
              r |-> region.box.r + more.r, b |-> region.box.b + more.b]
      kept == {s \in DOMAIN region.span : Crosses(plan.path[s], box)}
      held == UNION {{plan.path[s][i] : i \in InBox(plan.path[s], box)} : s \in kept}
      joining == {s \in BeltSpecs(plan) \ kept :
                    /\ Crosses(plan.path[s], box)
                    /\ \E i \in First(plan.path[s], box) .. Final(plan.path[s], box) :
                         plan.path[s][i] \in held}
  IN  IF more = Nothing THEN region
      ELSE PromoteBlocked(plan, placed, box, [s \in kept \union joining |-> Span(plan.path[s], box)],
                          region.override)

Uniform == [l |-> 1, t |-> 1, r |-> 1, b |-> 1]
SingleSideVariants == << [Nothing EXCEPT !.l = 1], [Nothing EXCEPT !.t = 1],
                         [Nothing EXCEPT !.r = 1], [Nothing EXCEPT !.b = 1] >>

\* One flow across three or more is followed along its own axis.
AsymmetricAxisDeltas(plan, specs) ==
  LET along(dirs) == Cardinality({s \in specs : DirectionAt(plan.path[s], Len(plan.path[s])) \in dirs})
  IN  IF along({1, 3}) = 1 /\ along({0, 2}) >= 3 THEN [Nothing EXCEPT !.l = 1, !.r = 1]
      ELSE IF along({0, 2}) = 1 /\ along({1, 3}) >= 3 THEN [Nothing EXCEPT !.t = 1, !.b = 1]
      ELSE Uniform

\* Towards the nearest of the tiles where a flow broke outside the box; else
\* by one on every side, unless that would make the region too large.
GrowthDeltas(plan, region, veto) ==
  LET box == region.box
      to(t) == [l |-> Max({0, box.l - t[1]}), r |-> Max({0, t[1] - box.r}),
                t |-> Max({0, box.t - t[2]}), b |-> Max({0, t[2] - box.b})]
      far(t) == Max({to(t).l, to(t).r, to(t).t, to(t).b})
      outside == {t \in veto : ~In(t, box)}
      nearer(a, b) == \/ far(a) < far(b)
                      \/ far(a) = far(b) /\ (a[2] < b[2] \/ (a[2] = b[2] /\ a[1] <= b[1]))
  IN  IF outside # {} THEN to(CHOOSE t \in outside : \A o \in outside : nearer(t, o))
      ELSE IF (box.r - box.l + 3) * (box.b - box.t + 3) > MaxRegionTiles
           THEN AsymmetricAxisDeltas(plan, DOMAIN region.span)
      ELSE Uniform

-----------------------------------------------------------------------------
(* What a strategy is asked for.                                           *)

\* A flow enters in the direction in which it arrives.
SpecCrossing(plan, s, span) ==
  [item |-> plan.item[s],
   entry |-> [tile |-> plan.path[s][span[1]], dir |-> DirectionAt(plan.path[s], Max({1, span[1] - 1}))],
   exit |-> [tile |-> plan.path[s][span[2]], dir |-> DirectionAt(plan.path[s], span[2])]]

ToJunction(plan, region) ==
  {SpecCrossing(plan, s, region.span[s]) : s \in DOMAIN region.span}
  \union {SpecCrossing(plan, s, Span(plan.path[s], region.box)) :
            s \in {r \in region.encountered \ plan.pipes : Crosses(plan.path[r], region.box)}}

\* Ports that two items claim.
ItemConflicts(specs) ==
  {t \in UNION {{s.entry.tile, s.exit.tile} : s \in specs} :
     \E a, b \in specs : a.item # b.item /\ t \in {a.entry.tile, a.exit.tile}
                                        /\ t \in {b.entry.tile, b.exit.tile}}

\* A solution must not end where another cluster has yet to be solved.
DefersOnExit(specs, pending) ==
  \E s \in specs : {s.exit.tile, Ahead(s.exit.tile, s.exit.dir)} \intersect pending # {}
=============================================================================
