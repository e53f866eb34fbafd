------------------------------ MODULE Topology ------------------------------
(***************************************************************************)
(* NetworkBuilder::build (crates/meter/src/network.rs) on blueprints of    *)
(* belts, undergrounds and splitters: the tiles of every entity in turn,   *)
(* then the pairing of undergrounds, the links, and the update order.      *)
(*                                                                         *)
(* The blueprints that are built are those of the families in Families: so *)
(* many entities of these kinds on this ground, in any order or, where     *)
(* inOrder is set, in reading order, which keeps larger grounds in reach.  *)
(***************************************************************************)
EXTENDS BeltTopology

CONSTANT Families

ASSUME TopologyAssumption ==
  \A f \in Families :
    /\ f.columns \subseteq Nat /\ f.rows \subseteq Nat /\ f.entities \in Nat
    /\ f.kinds \subseteq {"belt", "entrance", "exit", "splitter"}
    /\ f.facings \subseteq Dirs
    /\ \A tier \in f.tiers : MaxGap[tier] \in Nat
    /\ f.inOrder \in BOOLEAN

VARIABLES
  family,      \* where the entities are taken from
  phase,       \* "entities", "paired", "linked"
  entities,    \* those placed so far
  tiles,
  notes,       \* TopologyNote, without the cycle note
  pairs,       \* entrance -> exit, after the pairing
  downstream,  \* tile -> tile, after the links
  onto,        \* tile -> Straight or the lane it sideloads onto
  outDegree, queue, order, loose   \* of the sort

Order == INSTANCE UpdateOrderStack

vars == <<family, phase, entities, tiles, notes, pairs, downstream, onto, outDegree, queue, order, loose>>

Entity ==
  [kind : family.kinds, dir : family.facings, tier : family.tiers, pos : family.columns \X family.rows]

Init ==
  /\ family \in Families
  /\ phase = "entities"
  /\ entities = <<>> /\ tiles = <<>> /\ notes = {}
  /\ pairs = <<>> /\ downstream = <<>> /\ onto = <<>>
  /\ outDegree = <<>> /\ queue = <<>> /\ order = <<>> /\ loose = Order!Open

Reads(a, b) == a.pos[2] < b.pos[2] \/ (a.pos[2] = b.pos[2] /\ a.pos[1] < b.pos[1])

Noted(e, made) ==
  IF e.kind = "splitter" /\ made < 2 THEN {<<"OrphanSplitterHalf", e.pos>>} ELSE {}

\* Mutant: the number of the splitter is never advanced.
AddTilesOneSplitter(e) ==
  LET grown == WithEntity(tiles, e, 1)
  IN  /\ phase = "entities"
      /\ Len(entities) < family.entities
      /\ grown # tiles
      /\ family.inOrder /\ entities # <<>> => Reads(Last(entities), e)
      /\ entities' = Append(entities, e)
      /\ tiles' = grown
      /\ notes' = notes \cup Noted(e, Len(grown) - Len(tiles))
      /\ UNCHANGED <<family, phase, pairs, downstream, onto, outDegree, queue, order, loose>>

(* Step 1, for one entity; one whose cells are all taken is left out.      *)
AddTiles(e) ==
  LET grown == WithEntity(tiles, e, Len(entities) + 1)
  IN  /\ phase = "entities"
      /\ Len(entities) < family.entities
      /\ grown # tiles
      /\ family.inOrder /\ entities # <<>> => Reads(Last(entities), e)
      /\ entities' = Append(entities, e)
      /\ tiles' = grown
      /\ notes' = notes \cup Noted(e, Len(grown) - Len(tiles))
      /\ UNCHANGED <<family, phase, pairs, downstream, onto, outDegree, queue, order, loose>>

(* Step 2, pair_undergrounds.                                              *)
PairUndergrounds ==
  /\ phase = "entities"
  /\ phase' = "paired"
  /\ pairs' = Pairs(tiles)
  /\ notes' = notes \cup {<<"UnpairedUnderground", tiles[id].pos>> :
                            id \in {i \in DOMAIN tiles : tiles[i].kind = "entrance" /\ Pairs(tiles)[i] = NoTile}}
  /\ UNCHANGED <<family, entities, tiles, downstream, onto, outDegree, queue, order, loose>>

(* Steps 3 and 4, link_downstream and the start of compute_order.          *)
LinkDownstream ==
  /\ phase = "paired"
  /\ phase' = "linked"
  /\ downstream' = [id \in DOMAIN tiles |-> DownstreamOf(tiles, pairs, id)]
  /\ onto' = [id \in DOMAIN tiles |->
                IF downstream'[id] = NoTile THEN Straight
                ELSE LaneMapOf(tiles, pairs, id, downstream'[id])]
  /\ outDegree' = Order!StartDegrees(downstream')
  /\ queue' = Order!StartQueue(downstream')
  /\ UNCHANGED <<family, entities, tiles, notes, pairs, order, loose>>

Sort ==
  /\ phase = "linked"
  /\ Order!Pop \/ Order!Drained
  /\ UNCHANGED <<family, phase, entities, tiles, notes, pairs, onto>>

Next ==
  \/ \E e \in Entity : AddTiles(e)
  \/ PairUndergrounds
  \/ LinkDownstream
  \/ Sort

Spec == Init /\ [][Next]_vars

Linked == phase = "linked"
Ordered == loose # Order!Open
-----------------------------------------------------------------------------
(* The two halves of a splitter know each other, and nothing else shares   *)
(* their splitter: step_splitter_exit indexes the partner's downstream and *)
(* tells the halves apart by their tile numbers.                           *)
HalvesMatch ==
  \A s, t \in DOMAIN tiles :
    /\ tiles[s].partner = t /\ t # NoTile => tiles[t].partner = s
    /\ tiles[s].kind = "splitter" /\ s # t =>
         (tiles[t].splitter = tiles[s].splitter <=> tiles[s].partner = t)

(* U5, whatever the order of the blueprint: an exit serves one entrance;   *)
(* between an entrance and its exit, and before an unpaired entrance's     *)
(* reach, there is no matching exit that nobody took.                      *)
UndergroundsPaired ==
  phase # "entities" =>
    \A id \in DOMAIN tiles :
      LET ahead(step) == Moved(tiles[id].pos, tiles[id].dir, step)
      IN  /\ pairs[id] # NoTile => MatchingExit(tiles, id, pairs[id])
          /\ \A other \in DOMAIN tiles : pairs[id] # NoTile /\ pairs[other] = pairs[id] => other = id
          /\ tiles[id].kind = "entrance" =>
               \A step \in ExitSteps(tiles, id, Range(pairs) \ {NoTile}) :
                 \E nearer \in 1..(step - 1) :
                   pairs[id] # NoTile /\ tiles[pairs[id]].pos = ahead(nearer)

Feeders(t) == {id \in DOMAIN tiles : downstream[id] = t}
OnFlank(id, t) ==
  tiles[id].pos \in {Moved(tiles[t].pos, LeftOf[tiles[t].dir], 1),
                     Moved(tiles[t].pos, Opposite[LeftOf[tiles[t].dir]], 1)}

(* B8, B10, U7: two sideloads from opposite flanks fill different lanes, so *)
(* neither can starve the other; and nothing sideloads where a curve goes  *)
(* on with both lanes.                                                     *)
FlanksShareNoLane ==
  Linked =>
    \A t \in DOMAIN tiles : \A a, b \in {id \in Feeders(t) : OnFlank(id, t) /\ pairs[id] = NoTile} :
      a # b => onto[a] \in Lanes /\ onto[b] \in Lanes /\ onto[a] # onto[b]

\* A quarter turn of the whole blueprint, clockwise about the origin.
TurnDir(d) == CHOOSE r \in Dirs : LeftOf[r] = d
TurnPos(pos) == <<-pos[2], pos[1]>>
Turned(e) ==
  [e EXCEPT !.dir = TurnDir(@),
            !.pos = IF e.kind = "splitter" /\ e.dir \in {"East", "West"}
                    THEN <<-@[2] - 1, @[1]>> ELSE TurnPos(@)]

\* The tiles of a whole blueprint.
TilesOf(es) ==
  LET tiled[n \in 0..Len(es)] == IF n = 0 THEN <<>> ELSE WithEntity(tiled[n - 1], es[n], n)
  IN  tiled[Len(es)]

\* The links of a network as a relation between positions.
LinksOf(ts) ==
  LET ps == Pairs(ts)
      linked == {id \in DOMAIN ts : DownstreamOf(ts, ps, id) # NoTile}
  IN  {<<ts[id].pos, ts[DownstreamOf(ts, ps, id)].pos, LaneMapOf(ts, ps, id, DownstreamOf(ts, ps, id))>> :
         id \in linked}

(* The network does not depend on which way the layout faces: turning the  *)
(* blueprint turns every link with it and keeps its lanes.  A splitter     *)
(* footprint or a lane decided by compass instead of by facing breaks one  *)
(* orientation and looks right in the others.                              *)
QuarterTurnInvariant ==
  Linked =>
    LinksOf(TilesOf([i \in DOMAIN entities |-> Turned(entities[i])]))
      = {<<TurnPos(tiles[id].pos), TurnPos(tiles[downstream[id]].pos), onto[id]>> :
           id \in {i \in DOMAIN tiles : downstream[i] # NoTile}}

Abstract == INSTANCE UpdateOrder WITH
  ready <- ToSet(queue),
  order <- Order!Sorted,
  leftover <- Order!Leftover,
  linked <- Linked,
  ordered <- Ordered

(* The stack is one of the orders the sort allows, so what is proved of    *)
(* the sort is true of the order the meter steps its tiles in.             *)
SortsDownstreamFirst == Abstract!Spec

(* Every tile of the network, in a loop or not, is in the order once: none *)
(* is frozen and none moves twice in a tick.                               *)
EveryTileOnce ==
  Ordered => ToSet(order) = DOMAIN tiles /\ Len(order) = Len(tiles)

\* Tiles that an item never leaves: it is always handed on to one of them.
Trap(C) == \A t \in C : downstream[t] \in C

(* The sorted tiles are exactly those whose items can leave at an end: a   *)
(* loop somewhere costs no other line its order.                           *)
SortedIsWhatDrains ==
  Ordered => ToSet(Order!Sorted)
               = {t \in DOMAIN tiles : ~\E C \in SUBSET DOMAIN tiles : t \in C /\ Trap(C)}
=============================================================================
