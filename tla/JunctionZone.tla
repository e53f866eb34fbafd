---------------------------- MODULE JunctionZone ----------------------------
(***************************************************************************)
(* One region as the SAT strategy and the walker see it: the ports that    *)
(* the entities in place imply (topology_boundaries and the head of        *)
(* SatStrategy::try_solve, bus/junction_sat_strategy.rs), the cheapest     *)
(* ways to join them, and the check that a way breaks no flow nearby       *)
(* (bus/region_walker.rs).                                                 *)
(*                                                                         *)
(* Of the solver's answers those are modelled in which every flow keeps to *)
(* the tiles of its path, on the surface or under them. A spec has an item *)
(* of its own, a belt that is of no spec stays as it is, one tier of belts *)
(* is used, and splitters are only in the way.                             *)
(***************************************************************************)
EXTENDS JunctionRegion, TLC

CONSTANTS
  Reach,           \* ug_max_reach: tiles between the two ends
  CeilingTiles,    \* regions with more tiles exceed MAX_ZONE_SAT_VARS
  MaxUgs           \* undergrounds that one flow may use in a zone

-----------------------------------------------------------------------------
(* Ports.                                                                  *)

\* What puts an item onto a tile; the first one listed is taken for the feeder.
Feeders(placed, t, item) ==
  {e \in placed : e.kind \in {"belt", "out"} /\ e.item = item /\ Ahead(e.tile, e.dir) = t}
Feeder(placed, t, item) == Earliest(Feeders(placed, t, item))

Port(t, d, item, input, interior) ==
  [tile |-> t, dir |-> d, item |-> item, input |-> input, interior |-> interior]

OutPort(placed, box, forbidden, e) ==
  LET target == Ahead(e.tile, e.dir)
  IN  IF ~In(target, box) THEN {Port(e.tile, e.dir, e.item, FALSE, FALSE)}
      ELSE IF target \in forbidden \ PipeTiles(placed) THEN {Port(target, e.dir, e.item, FALSE, TRUE)}
      ELSE {}

\* From a tile upstream, from feeder to feeder, inside the box and off the
\* forbidden tiles.
Upstream(placed, box, forbidden, item, start) ==
  LET step(walked, i) ==
        LET from == Feeders(placed, Last(walked), item)
        IN  IF from # {} /\ In(Earliest(from).tile, box) /\ Earliest(from).tile \notin forbidden \union ToSet(walked)
            THEN Append(walked, Earliest(from).tile) ELSE walked
  IN  FoldLeft(step, <<start>>, [i \in 1 .. TileCount(box) |-> i])

\* Where the items of e come into the zone: a loop has no such place.
InPort(placed, box, forbidden, e) ==
  LET t == Last(Upstream(placed, box, forbidden, e.item, e.tile))
      up == Behind(e.tile, e.dir)
      f == Feeder(placed, t, e.item)
  IN  IF Feeders(placed, t, e.item) = {}
      THEN IF t = e.tile /\ (~In(up, box) \/ up[1] < 0 \/ up[2] < 0)
           THEN {Port(t, e.dir, e.item, TRUE, FALSE)} ELSE {}
      ELSE IF ~In(f.tile, box) THEN {Port(t, f.dir, e.item, TRUE, FALSE)}
      ELSE IF f.tile \in forbidden THEN {Port(f.tile, f.dir, e.item, TRUE, TRUE)}
      ELSE {}

TopologyBoundaries(placed, box, forbidden) ==
  UNION {OutPort(placed, box, forbidden, e) \union InPort(placed, box, forbidden, e) :
           e \in {f \in placed : f.kind # "pipe" /\ In(f.tile, box) /\ f.tile \notin forbidden}}

\* Where the belts that lead to a flow's entry begin.
ResolveChainHead(placed, box, s) ==
  LET walked == Upstream(placed, box, {}, s.item, s.entry.tile)
      t == Last(walked)
      f == Feeder(placed, t, s.item)
      here == {e \in Here(placed, t) : e.item = s.item /\ e.kind # "pipe"}
      \* The direction of the feeder that led there.
      arrived == IF Len(walked) = 1 THEN s.entry.dir
                 ELSE Feeder(placed, walked[Len(walked) - 1], s.item).dir
  IN  IF Feeders(placed, t, s.item) # {} /\ ~In(f.tile, box) THEN Port(t, f.dir, s.item, TRUE, FALSE)
      ELSE Port(t, IF here = {} THEN arrived ELSE Earliest(here).dir, s.item, TRUE, FALSE)

Boundaries(placed, region, specs) ==
  LET ports == TopologyBoundaries(placed, region.box, region.forbidden)
  IN  ports \union {ResolveChainHead(placed, region.box, s) :
                      s \in {r \in specs : \A p \in ports : p.item = r.item => ~p.input}}

-----------------------------------------------------------------------------
(* Ways through the zone.                                                  *)

\* The dives that a stretch of a path allows: straight, and not too long.
Dives(path, i, j, leave) ==
  {u \in (i..j) \X (i..j) :
     /\ u[1] + 2 <= u[2] /\ u[2] <= u[1] + Reach + 1
     /\ \A k \in u[1] .. u[2] :
          (IF k = j THEN leave ELSE DirectionAt(path, k)) = DirectionAt(path, u[1])}

\* The entities of a stretch that leaves facing `leave` and dives as given.
Laid(path, item, i, j, leave, dives) ==
  LET under == UNION {u[1] + 1 .. u[2] - 1 : u \in dives}
      kind(k) == IF \E u \in dives : u[1] = k THEN "in"
                 ELSE IF \E u \in dives : u[2] = k THEN "out" ELSE "belt"
  IN  {[tile |-> path[k], dir |-> IF k = j THEN leave ELSE DirectionAt(path, k),
        item |-> item, kind |-> kind(k)] : k \in (i..j) \ under}

\* A flow that comes in facing `arrive` is not turned back, and goes
\* straight on into an underground.
Stretches(path, item, i, j, arrive, leave) ==
  LET apart(D) == \A a, b \in D : a # b => a[2] < b[1] \/ b[2] < a[1]
      choices == {{}} \union {D \in {ToSet(f) : f \in [1 .. MaxUgs -> Dives(path, i, j, leave)]} : apart(D)}
      takes(way) == \A e \in way : e.tile = path[i] => IF e.kind = "in" THEN e.dir = arrive
                                                       ELSE e.dir # (arrive + 2) % 4
  IN  {way \in {Laid(path, item, i, j, leave, D) : D \in choices} : takes(way)}

Allowed(way, region) == \A e \in way : e.tile \in TilesOf(region.box) \ region.forbidden

\* All ways of one flow: each of its entries leads to the next exit along the
\* path, and none is left over.
Ways(plan, region, s, ports) ==
  LET path == plan.path[s]
      at(p) == IF ~p.interior THEN p.tile ELSE IF p.input THEN Ahead(p.tile, p.dir) ELSE Behind(p.tile, p.dir)
      index(p) == {i \in DOMAIN path : path[i] = at(p)}
      mine == {p \in ports : p.item = plan.item[s]}
      ins == {p \in mine : p.input}
      outs == mine \ ins
      exits(p) == {q \in outs : Min(index(q)) >= Min(index(p))}
      exit(p) == CHOOSE q \in exits(p) : \A r \in exits(p) : Min(index(q)) <= Min(index(r))
      paired == /\ \A p \in mine : index(p) # {}
                /\ \A p \in ins : exits(p) # {}
                /\ {exit(p) : p \in ins} = outs /\ Cardinality(ins) = Cardinality(outs)
      ways(p) == {w \in Stretches(path, plan.item[s], Min(index(p)), Min(index(exit(p))), p.dir, exit(p).dir) :
                    Allowed(w, region)}
  IN  IF mine = {} THEN {{}}
      ELSE IF ~paired THEN {}
      ELSE FoldSet(LAMBDA p, W : {a \union b : a \in W, b \in ways(p)}, {{}}, ins)

\* Belts of no spec: what comes in on a tile goes out there.
Passing(plan, ports) ==
  LET others == {p \in ports : p.item \notin {plan.item[s] : s \in BeltSpecs(plan)}}
      at(p) == {q \in others : q.tile = p.tile}
      through(p) == /\ ~p.interior /\ Cardinality(at(p)) = 2
                    /\ \E q \in at(p) : q.item = p.item /\ q.input = ~p.input
  IN  IF \A p \in others : through(p)
      THEN {{[tile |-> p.tile, dir |-> p.dir, item |-> p.item, kind |-> "belt"] :
               p \in {q \in others : ~q.input}}}
      ELSE {}

Cost(way) == Cardinality({e \in way : e.kind = "belt"}) + 5 * Cardinality({e \in way : e.kind # "belt"})

OneEntityPerTile(ents) == \A a, b \in ents : a.tile = b.tile => a = b

\* No part of a cheapest solution: a way that costs more than another one that
\* takes the same tiles from the other flows.
Thrifty(plan, s, ways, kept) ==
  LET wanted == {e.tile : e \in UNION kept}
                \union UNION {ToSet(plan.path[r]) : r \in DOMAIN plan.path \ {s}}
      taken(w) == {e.tile : e \in w} \intersect wanted
  IN  {w \in ways : \A v \in ways : taken(v) = taken(w) => Cost(w) <= Cost(v)}

\* A way for every flow.
Joined(plan, region, ports) ==
  LET kept == Passing(plan, ports)
      join(s, W) == {a \union b : a \in W, b \in Thrifty(plan, s, Ways(plan, region, s, ports), kept)}
  IN  FoldSet(join, kept, BeltSpecs(plan))

\* The cheapest of all: none when the ports cannot be joined.
Solutions(plan, region, ports) ==
  LET all == {w \in Joined(plan, region, ports) : OneEntityPerTile(w) /\ Allowed(w, region)}
      least == Min({Cost(w) : w \in all})
  IN  {w \in all : Cost(w) = least}

-----------------------------------------------------------------------------
(* The walker.                                                             *)

\* What would stand on each tile.
Shadow(placed, solution) ==
  LET new == {e.tile : e \in solution}
  IN  [t \in new \union {e.tile : e \in placed} |->
         IF t \in new THEN CHOOSE e \in solution : e.tile = t ELSE Latest(Here(placed, t))] @@ <<>>

\* Undergrounds are paired with the nearest exit ahead, however far.
Reached(shadow, item, start) ==
  LET mine == {t \in DOMAIN shadow : shadow[t].item = item /\ shadow[t].kind # "pipe"}
      unit(t) == Ahead(<<0, 0>>, shadow[t].dir)
      ahead(t, o) == /\ shadow[o].kind = "out" /\ shadow[o].dir = shadow[t].dir
                     /\ \E n \in 2 .. 64 : o = <<t[1] + n * unit(t)[1], t[2] + n * unit(t)[2]>>
      far(a, b) == Max({a[1] - b[1], b[1] - a[1], a[2] - b[2], b[2] - a[2]})
      pair(t) == LET outs == {o \in mine : shadow[t].kind = "in" /\ ahead(t, o)}
                 IN  {o \in outs : \A q \in outs : far(t, o) <= far(t, q)}
      next == [t \in mine |-> (pair(t) \union {Ahead(t, shadow[t].dir)}) \intersect mine] @@ <<>>
  IN  FoldSet(LAMBDA t, S : S \union UNION {next[u] : u \in S}, {start} \intersect mine, mine)

\* Where the flows near the box would break. Flows that meet a pipe there are
\* left to the cluster of that crossing.
BreaksNear(plan, placed, near, solution) ==
  LET shadow == Shadow(placed, solution)
      pipes == UNION {ToSet(plan.path[s]) : s \in plan.pipes}
      tiles(s) == SubSeq(plan.path[s], First(plan.path[s], near), Final(plan.path[s], near))
      walked == {s \in BeltSpecs(plan) : InBox(plan.path[s], near) # {}
                                         /\ ToSet(tiles(s)) \intersect pipes = {}}
      carrying(s) == {i \in DOMAIN tiles(s) : /\ tiles(s)[i] \in DOMAIN shadow
                                              /\ shadow[tiles(s)[i]].item = plan.item[s]}
      start(s) == tiles(s)[Min(carrying(s))]
  IN  {tiles(s)[1] : s \in {r \in walked : carrying(r) = {}}}
      \union {start(s) : s \in {r \in walked : /\ carrying(r) # {} /\ start(r) # Last(tiles(r))
                                                /\ Last(tiles(r)) \notin Reached(shadow, plan.item[r], start(r))}}

BreaksInside(plan, placed, box, solution) == BreaksNear(plan, placed, box, solution)

Breaks(plan, placed, box, solution) ==
  BreaksNear(plan, placed, [l |-> box.l - 1, t |-> box.t - 1, r |-> box.r + 1, b |-> box.b + 1], solution)
=============================================================================
