----------------------------- MODULE BeltNetwork -----------------------------
(***************************************************************************)
(* The belts of a factory in motion (BeltNetwork,                          *)
(* crates/meter/src/network.rs): the tiles and links of a blueprint, two   *)
(* lanes on every tile, the state of the splitters, and the tick that      *)
(* works the tiles in the update order.                                    *)
(*                                                                         *)
(* A network is a record [lanes, toggle, debt, remembered, exitedLog].     *)
(* Lanes are by tile and lane, splitter memory by half and lane, the       *)
(* toggle by splitter and lane.  The progress of the tiers is kept apart,  *)
(* as a function progress from tiers to units.                             *)
(***************************************************************************)
EXTENDS BeltTopology, BeltLane, SplitterRouting

CONSTANTS
  Layout,         \* the blueprint: a sequence of entities
  Tiles, Downstream, Onto, UpdateOrder,   \* the network made of it
  SinkPositions,  \* boundary outputs of the manifest
  SlotsPerTile,
  SlotsPerTick,   \* by tier, in units
  SideloadLate, SideloadEarly,   \* entry points of sideloads, in units
  Midpoint,                      \* where inserters drop
  InnerTurn, OuterTurn           \* lengths of the lanes of a curve

ASSUME NetworkAssumption ==
  /\ SlotsPerTile \in Nat \ {0}
  /\ \A tier \in DOMAIN SlotsPerTick : SlotsPerTick[tier] \in 1..Unit
  /\ {SideloadLate, SideloadEarly, Midpoint} \subseteq 0..(SlotsPerTile * Unit)
-----------------------------------------------------------------------------
(* What the builder makes of a blueprint.                                  *)
TilesOf(layout) ==
  FoldLeft(LAMBDA ts, i : WithEntity(ts, layout[i], i), <<>>, [i \in DOMAIN layout |-> i])

LinksOf(tiles, pairs) == [t \in DOMAIN tiles |-> DownstreamOf(tiles, pairs, t)]

LaneMapsOf(tiles, pairs, links) ==
  [t \in DOMAIN tiles |-> IF links[t] = NoTile THEN Straight ELSE LaneMapOf(tiles, pairs, t, links[t])]

Build(layout) ==
  LET tiles == TilesOf(layout)
      links == LinksOf(tiles, Pairs(tiles))
  IN  [tiles |-> tiles, downstream |-> links, onto |-> LaneMapsOf(tiles, Pairs(tiles), links),
       order |-> UpdateOrderOf(links)]

TileIds == DOMAIN Tiles

\* Nothing of it changes after the build.
ASSUME NetworkIsBuilt ==
  Build(Layout) = [tiles |-> Tiles, downstream |-> Downstream, onto |-> Onto, order |-> UpdateOrder]

\* What the links of every blueprint are like, and the order of its tiles.
ASSUME NetworkIsWired ==
  /\ WellWired(Tiles, Downstream, Onto)
  /\ UpdateOrder \in Seq(TileIds) /\ WellOrdered(Downstream, UpdateOrder)

HalfTiles == {t \in TileIds : Tiles[t].kind = "splitter"}
SplitterIds == {Tiles[t].splitter : t \in HalfTiles}
IsSink(t) == Tiles[t].pos \in SinkPositions
BeltTiers == {Tiles[t].tier : t \in TileIds}

\* t turns into the flank of its downstream tile, and is its only feeder.
Curves(t) ==
  /\ Downstream[t] # NoTile
  /\ Onto[t] = Straight
  /\ Tiles[t].dir # Tiles[Downstream[t]].dir
TurnFeeder == {Downstream[t] : t \in {u \in TileIds : Curves(u)}}

\* The inner lane of a curve that itself sideloads holds one item.
ShortLanes ==
  {<<Downstream[t], InnerLane(Tiles[t].dir, Tiles[Downstream[t]].dir)>> :
     t \in {u \in TileIds : /\ Curves(u)
                            /\ Downstream[Downstream[u]] # NoTile
                            /\ Onto[Downstream[u]] # Straight}}

EmptyNetwork ==
  [lanes |-> [t \in TileIds |-> [l \in Lanes |->
                IF <<t, l>> \in ShortLanes THEN NewLane(1) ELSE NewLane(SlotsPerTile)]],
   toggle |-> [s \in SplitterIds |-> [l \in Lanes |-> 0]],
   debt |-> [t \in HalfTiles |-> [l \in Lanes |-> 0]],
   remembered |-> [t \in HalfTiles |-> [l \in Lanes |-> 0]],
   exitedLog |-> <<>>]
-----------------------------------------------------------------------------
(* Handing an item on: the lanes of the target tile after it, or none.     *)
SideloadPoint(source, target) ==
  IF NearLane(Tiles[target], Tiles[source].pos) = 0 THEN SideloadLate ELSE SideloadEarly

SideloadMode(source, lane, target) ==
  IF source \notin TurnFeeder THEN "drop"
  ELSE IF InnerLane(Tiles[source].dir, Tiles[target].dir) = lane THEN "inner"
  ELSE "merge"

Sideload(net, progress, source, lane, target) ==
  [position |-> SideloadPoint(source, target),
   phase |-> progress[Tiles[target].tier],
   item |-> ExitItem(net.lanes[source][lane]),
   mode |-> SideloadMode(source, lane, target)]

OntoLane(net, lane, via) == net.lanes[Downstream[via]][TargetLane(Onto[via], lane)]

\* Mutant: an item enters at the first free slot, past those that hold it up.
ReceptionsAnywhere(net, progress, source, lane, via) ==
  LET on == OntoLane(net, lane, via)
      load == Sideload(net, progress, source, lane, Downstream[via])
  IN  IF Onto[via] = Straight
      THEN {Put(on, i, load.item, 0) : i \in {f \in Free(on) : \A j \in Free(on) : f <= j}}
      ELSE InsertionsAt(on, load.position, load.phase, load.item, load.mode)

\* try_insert_downstream of the exit item of source's lane through the link
\* of tile via, which is source or the other half of its splitter.
Receptions(net, progress, source, lane, via) ==
  LET on == OntoLane(net, lane, via)
      load == Sideload(net, progress, source, lane, Downstream[via])
  IN  IF Onto[via] = Straight
      THEN IF EntryFree(on) THEN {EnterAt(on, load.item, ExitOffset(net.lanes[source][lane]))} ELSE {}
      ELSE InsertionsAt(on, load.position, load.phase, load.item, load.mode)

Vacated(net, t, lane) == Without(net.lanes[t][lane], {Exit(net.lanes[t][lane])})

\* The exit item goes through via's link onto a lane that is then on.
HandOn(net, t, lane, via, on) ==
  LET vacated == [net.lanes EXCEPT ![t][lane] = Vacated(net, t, lane)]
  IN  [net EXCEPT !.lanes = [vacated EXCEPT ![Downstream[via]][TargetLane(Onto[via], lane)] = on]]

\* A boundary output drains; any other end of the line holds.
DrainExit(net, t, lane) ==
  [net EXCEPT !.lanes[t][lane] = Vacated(net, t, lane),
              !.exitedLog = Append(@, ExitItem(net.lanes[t][lane]))]

Waits(net, t, lane) == ExitItem(net.lanes[t][lane]) # Empty

(* A splitter half has its own link as output 0 and its partner's as       *)
(* output 1; any other tile has output 0.                                  *)
Half(t) == IF Tiles[t].partner # NoTile /\ t > Tiles[t].partner THEN 1 ELSE 0
Via(t, output) == IF output = 0 THEN t ELSE Tiles[t].partner
HasOutput(t, output) == Via(t, output) # NoTile /\ Downstream[Via(t, output)] # NoTile

\* The network once the exit item has left by the output; none when it is
\* refused there.
Departures(net, progress, t, lane, output) ==
  IF HasOutput(t, output)
  THEN {HandOn(net, t, lane, Via(t, output), on) : on \in Receptions(net, progress, t, lane, Via(t, output))}
  ELSE IF IsSink(t) THEN {DrainExit(net, t, lane)} ELSE {}

OrElse(this, that) == IF this # {} THEN this ELSE that

PlainExit(net, progress, t, lane) == Departures(net, progress, t, lane, 0)

(* A splitter half tries the output it remembers or whose turn it is, then *)
(* the other.                                                              *)
TriedFirst(net, t, lane) ==
  FirstOutput(Half(t), net.debt[t][lane], net.remembered[t][lane], net.toggle[Tiles[t].splitter][lane])

Owed(net, t, lane, first, which) ==
  DebtAfter(net.debt[t][lane], net.remembered[t][lane], first, which, HasOutput(t, first))

\* moved, in which the item has left by output which, with its books.
Booked(net, moved, t, lane, first, which) ==
  LET owed == Owed(net, t, lane, first, which)
  IN  [moved EXCEPT
         !.debt[t][lane] = owed,
         !.remembered[t][lane] = IF net.debt[t][lane] = 0 /\ owed > 0 THEN first ELSE @,
         !.toggle[Tiles[t].splitter][lane] = ToggleAfter(Half(t), owed, which, @)]

Routed(net, progress, t, lane, first, which) ==
  {Booked(net, moved, t, lane, first, which) : moved \in Departures(net, progress, t, lane, which)}

\* Mutant: a blocked output blocks the item.
SplitterExitStubborn(net, progress, t, lane) ==
  LET first == TriedFirst(net, t, lane) IN Routed(net, progress, t, lane, first, first)

SplitterExit(net, progress, t, lane) ==
  LET first == TriedFirst(net, t, lane)
  IN  OrElse(Routed(net, progress, t, lane, first, first),
             Routed(net, progress, t, lane, first, 1 - first))

\* One exit of a tile; an item that nobody takes stays.
HandedOn(net, progress, t, lane) ==
  CHOOSE after \in
    IF ~Waits(net, t, lane) THEN {net}
    ELSE OrElse(IF Tiles[t].kind = "splitter" THEN SplitterExit(net, progress, t, lane)
                ELSE PlainExit(net, progress, t, lane),
                {net}) : TRUE

Risen(net, t) == [net EXCEPT !.lanes[t] = [l \in Lanes |-> ShiftForward(@[l])]]

\* step_tile: both exits, then both lanes move up.
StepTile(net, progress, t) ==
  Risen(HandedOn(HandedOn(net, progress, t, 0), progress, t, 1), t)

\* The tiles of the tiers that step, one after the other.
StepInOrder(net, progress, stepping, tiles) ==
  LET after[i \in 0..Len(tiles)] ==
        IF i = 0 THEN net
        ELSE IF Tiles[tiles[i]].tier \in stepping THEN StepTile(after[i - 1], progress, tiles[i])
        ELSE after[i - 1]
  IN  after[Len(tiles)]

\* Mutant: the tiles are worked in the order of the blueprint.
StepInBlueprintOrder(net, progress, stepping) ==
  StepInOrder(net, progress, stepping, [t \in TileIds |-> t])

StepAll(net, progress, stepping) == StepInOrder(net, progress, stepping, UpdateOrder)

Advanced(progress, tier) == progress[tier] + SlotsPerTick[tier]
Stepping(progress) == {tier \in DOMAIN progress : Advanced(progress, tier) >= Unit}
NextProgress(progress) ==
  [tier \in DOMAIN progress |->
     IF tier \in Stepping(progress) THEN Advanced(progress, tier) - Unit ELSE Advanced(progress, tier)]
-----------------------------------------------------------------------------
(* What inserters do to a tile.                                            *)

\* Take up to max accepted items from both lanes, the left one first.
Taken(net, t, accepted, max) ==
  LET left == Takes(net.lanes[t][0], accepted, max)
  IN  <<left, Takes(net.lanes[t][1], accepted, max - Cardinality(left))>>

TakeFromTile(net, t, accepted, max) ==
  [net EXCEPT !.lanes[t] = [l \in Lanes |-> Without(@[l], Taken(net, t, accepted, max)[l + 1])]]

\* Length of a lane up to the entry of the next tile.
HandoffLength(t, lane) ==
  LET inner == InnerLane(Tiles[t].dir, Tiles[Downstream[t]].dir)
  IN  IF ~Curves(t) \/ inner = NoLane THEN SlotsPerTile * Unit
      ELSE IF lane = inner THEN InnerTurn ELSE OuterTurn

\* The transport line ahead of a lane: <<tile, lane, distance>>, as far as
\* the tiles do not repeat.  Distances add up along the line, which is what
\* the code's lane coordinates come to where no two paths join the same
\* two lanes.
LineAhead ==
  LET beyond(line) ==
        {<<Downstream[n[1]], TargetLane(Onto[n[1]], n[2]), n[3] + HandoffLength(n[1], n[2])>> :
           n \in {m \in line : Downstream[m[1]] # NoTile}}
      from(start) ==
        FoldLeft(LAMBDA line, i :
                   line \cup {n \in beyond(line) : \A m \in line : <<m[1], m[2]>> # <<n[1], n[2]>>},
                 {start}, [i \in 1..(2 * Len(Tiles)) |-> i]) \ {start}
  IN  [node \in TileIds \X Lanes |-> from(<<node[1], node[2], 0>>)] @@ <<>>

\* Every network that a drop of the item leads to; none when the lane far
\* from the hand is blocked, on the tile or on the line ahead.
Collides(net, progress, node) ==
  \E i \in Occupied(net.lanes[node[1]][node[2]]) :
    Distance(node[3] + PointOf(net.lanes[node[1]][node[2]], i, progress[Tiles[node[1]].tier]), Midpoint)
      <= Window

DropsOnto(net, progress, t, far, item) ==
  {[net EXCEPT !.lanes[t][far] = on] :
     on \in InsertionsAt(net.lanes[t][far], Midpoint, progress[Tiles[t].tier], item, "drop")}

Drops(net, progress, t, from, item) ==
  UNION {DropsOnto(net, progress, t, far, item) :
           far \in {l \in Lanes \ {NearLane(Tiles[t], from)} :
                      \A node \in LineAhead[<<t, l>>] : ~Collides(net, progress, node)}}
=============================================================================
