---------------------------- MODULE BeltTopology ----------------------------
(***************************************************************************)
(* How belt entities become a belt network                                 *)
(* (crates/meter/src/network.rs, NetworkBuilder): the geometry of          *)
(* directions and lanes, the tiles of an entity, the pairing of            *)
(* underground belts and the link from each tile to the next, as operators *)
(* on a sequence of tiles.                                                 *)
(*                                                                         *)
(* A position is <<x, y>> with y growing to the south.  A tile is          *)
(* [pos, dir, tier, kind, splitter, partner]; splitter numbers the         *)
(* splitter a half belongs to and partner is the other half's tile.        *)
(***************************************************************************)
EXTENDS Integers, Sequences, SequencesExt, Functions

CONSTANT MaxGap      \* ug_max_gap, by tier

Dirs == {"North", "East", "South", "West"}
NoTile == 0
Lanes == {0, 1}      \* left, right
Straight == 2        \* LaneMap::Straight; 0 and 1 are LaneMap::OntoLane
NoLane == -1

Delta == [North |-> <<0, -1>>, East |-> <<1, 0>>, South |-> <<0, 1>>, West |-> <<-1, 0>>]
Opposite == [North |-> "South", East |-> "West", South |-> "North", West |-> "East"]
LeftOf == [North |-> "West", West |-> "South", South |-> "East", East |-> "North"]

Moved(pos, dir, steps) == <<pos[1] + Delta[dir][1] * steps, pos[2] + Delta[dir][2] * steps>>

TileAt(tiles, pos) == SelectInSeq(tiles, LAMBDA t : t.pos = pos)
-----------------------------------------------------------------------------
(* Tiles of an entity.                                                     *)

\* Mutant: the second half is to the left of the facing.
CellsToTheLeft(e) ==
  IF e.kind = "splitter" THEN <<e.pos, Moved(e.pos, LeftOf[e.dir], 1)>> ELSE <<e.pos>>

\* A splitter covers a second tile, to the east or to the south.
Cells(e) ==
  IF e.kind # "splitter" THEN <<e.pos>>
  ELSE IF e.dir \in {"North", "South"} THEN <<e.pos, Moved(e.pos, "East", 1)>>
  ELSE <<e.pos, Moved(e.pos, "South", 1)>>

NewTile(e, pos, splitter, partner) ==
  [pos |-> pos, dir |-> e.dir, tier |-> e.tier, kind |-> e.kind,
   splitter |-> splitter, partner |-> partner]

\* Cells that another entity has taken are skipped.
FreeCells(tiles, e) ==
  LET cells == Cells(e)
      free == {i \in DOMAIN cells : TileAt(tiles, cells[i]) = NoTile}
  IN  IF free = {} THEN <<>>
      ELSE IF free = DOMAIN cells THEN cells
      ELSE <<cells[CHOOSE i \in free : TRUE]>>

\* A splitter is whole only when both its cells were free.
WithEntity(tiles, e, splitter) ==
  LET free == FreeCells(tiles, e)
      partner(i) == IF Len(free) = 2 THEN Len(tiles) + 3 - i ELSE NoTile
  IN  tiles \o [i \in DOMAIN free |-> NewTile(e, free[i], splitter, partner(i))]
-----------------------------------------------------------------------------
(* Underground pairing.                                                    *)

MatchingExit(tiles, id, cand) ==
  /\ tiles[cand].kind = "exit"
  /\ tiles[cand].tier = tiles[id].tier
  /\ tiles[cand].dir = tiles[id].dir

\* Steps ahead of an entrance at which an exit is found, given the claimed.
ExitSteps(tiles, id, claimed) ==
  {step \in 1..(MaxGap[tiles[id].tier] + 1) :
     LET cand == TileAt(tiles, Moved(tiles[id].pos, tiles[id].dir, step))
     IN  cand # NoTile /\ MatchingExit(tiles, id, cand) /\ cand \notin claimed}

NearestExit(tiles, id, steps) ==
  LET nearest == CHOOSE s \in steps : \A r \in steps : s <= r
  IN  IF steps = {} THEN NoTile
      ELSE TileAt(tiles, Moved(tiles[id].pos, tiles[id].dir, nearest))

\* Mutant: exits are not claimed.
PairUnclaimed(tiles, id, claimed) ==
  NearestExit(tiles, id, ExitSteps(tiles, id, {}))

\* One entrance takes the nearest exit that none before it has claimed.
PairEntrance(tiles, id, claimed) ==
  NearestExit(tiles, id, ExitSteps(tiles, id, claimed))

EntrancesBefore(tiles, id) == {e \in 1..(id - 1) : tiles[e].kind = "entrance"}

\* Entrance -> its exit, in the order of the tiles.
Pairs(tiles) ==
  LET pairs[id \in DOMAIN tiles] ==
        IF tiles[id].kind = "entrance"
        THEN PairEntrance(tiles, id, {pairs[e] : e \in EntrancesBefore(tiles, id)} \ {NoTile})
        ELSE NoTile
  IN  pairs
-----------------------------------------------------------------------------
(* Links to the tile ahead.                                                *)

Behind(tile) == Moved(tile.pos, Opposite[tile.dir], 1)
BackFeed(target, source) == source.pos = Behind(target)

\* The lane of the target on the side of pos, by the sign of the projection
\* on the target's left.
NearLane(target, pos) ==
  LET left == Delta[LeftOf[target.dir]]
      projection == (pos[1] - target.pos[1]) * left[1] + (pos[2] - target.pos[2]) * left[2]
  IN  IF projection > 0 THEN 0 ELSE 1

\* Unpaired tiles that have tile t straight ahead.
Facing(tiles, pairs, t) ==
  {id \in DOMAIN tiles : pairs[id] = NoTile /\ Moved(tiles[id].pos, tiles[id].dir, 1) = tiles[t].pos}

\* The face of an exit is not a connection, except for an unpaired entrance.
Connects(tiles, id, t) ==
  \/ tiles[t].kind # "exit"
  \/ tiles[id].kind = "entrance"
  \/ BackFeed(tiles[t], tiles[id])

DownstreamOf(tiles, pairs, id) ==
  LET ahead == TileAt(tiles, Moved(tiles[id].pos, tiles[id].dir, 1))
  IN  IF pairs[id] # NoTile THEN pairs[id]
      ELSE IF ahead # NoTile /\ Connects(tiles, id, ahead) THEN ahead
      ELSE NoTile

\* Mutant: every feed from the side is a curve.
LaneMapAllCurves(tiles, pairs, id, t) ==
  IF tiles[t].kind = "entrance" /\ pairs[id] = NoTile /\ ~BackFeed(tiles[t], tiles[id])
  THEN 1 - NearLane(tiles[t], tiles[id].pos) ELSE Straight

\* How the lanes of tile id continue on its downstream tile t: both from
\* behind; on the far lane of an entrance; both around a curve, which is the
\* only feeder; else on the near lane.
LaneMapOf(tiles, pairs, id, t) ==
  IF pairs[id] # NoTile \/ BackFeed(tiles[t], tiles[id]) THEN Straight
  ELSE IF tiles[t].kind = "entrance" THEN 1 - NearLane(tiles[t], tiles[id].pos)
  ELSE IF Facing(tiles, pairs, t) = {id} THEN Straight
  ELSE NearLane(tiles[t], tiles[id].pos)

TargetLane(onto, lane) == IF onto = Straight THEN lane ELSE onto

\* The inside lane of a quarter turn, or none.
InnerLane(source, target) ==
  IF target = LeftOf[source] THEN 0
  ELSE IF source = LeftOf[target] THEN 1
  ELSE NoLane

\* Links and lane maps lead from tiles to tiles, and never to the tile whose
\* item is handed on, by its own link or by that of its other half.
WellWired(tiles, links, onto) ==
  LET ids == DOMAIN tiles
  IN  /\ NoTile \notin ids
      /\ links \in [ids -> ids \cup {NoTile}]
      /\ onto \in [ids -> Lanes \cup {Straight}]
      /\ \A t \in ids : /\ links[t] # t
                        /\ tiles[t].partner \in ids \cup {NoTile}
                        /\ tiles[t].partner # NoTile => links[tiles[t].partner] # t
-----------------------------------------------------------------------------
\* The stack of compute_order, run to its end for the given links; the
\* states in between are those of UpdateOrderStack.
UpdateOrderOf(links) ==
  LET n == Len(links)
      ascending(S) == SelectSeq([t \in 1..n |-> t], LAMBDA t : t \in S)
      feeders(t) == {u \in 1..n : links[u] = t}
      pop(s, i) == IF s.stack = <<>> THEN s
                   ELSE [stack |-> Front(s.stack) \o ascending(feeders(Last(s.stack))),
                         order |-> Append(s.order, Last(s.stack))]
      sorted == FoldLeft(pop, [stack |-> ascending(feeders(NoTile)), order |-> <<>>],
                         [i \in 1..n |-> i]).order
  IN  sorted \o ascending((1..n) \ Range(sorted))

\* Every tile is in an order of the tiles once.  The first ones come after the
\* tile they lead to, the others only lead to one another.
WellOrdered(links, order) ==
  /\ Range(order) = DOMAIN links
  /\ \A i, j \in DOMAIN order : order[i] = order[j] => i = j
  /\ \E sorted \in 0..Len(order) : \A i \in DOMAIN order :
       IF i > sorted THEN \E j \in DOMAIN order : j > sorted /\ order[j] = links[order[i]]
       ELSE links[order[i]] # NoTile => \E j \in DOMAIN order : j < i /\ order[j] = links[order[i]]
=============================================================================
