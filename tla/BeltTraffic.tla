----------------------------- MODULE BeltTraffic -----------------------------
(***************************************************************************)
(* A belt network and everything that acts on it: boundary feeds at the    *)
(* entry of a tile, inserters that drop on and pick from a tile, and the   *)
(* tick (BeltNetwork::tick).  Within a factory tick the feeds and the      *)
(* inserters come before the belts; here they act at any moment.           *)
(*                                                                         *)
(* Items are numbered in the order they arrive.                            *)
(***************************************************************************)
EXTENDS BeltNetwork

CONSTANTS
  Feeds,           \* tile positions of boundary inputs
  DropSpots,       \* <<tile position, hand position>> of dropping inserters
  Picks,           \* tile positions of picking inserters
  MaxArrivals, MaxPicked   \* bounds: items that arrive, and that inserters take

VARIABLES
  net,
  progress,    \* of every tier, in units
  arrived,
  delivered,   \* items that left at boundary outputs
  picked       \* items that inserters took

trafficVars == <<net, progress, arrived, delivered, picked>>

TrafficInit ==
  /\ net = EmptyNetwork
  /\ progress = [tier \in BeltTiers |-> 0]
  /\ arrived = 0
  /\ delivered = {}
  /\ picked = {}

Arrive(n) ==
  /\ arrived + n <= MaxArrivals
  /\ arrived' = arrived + n
  /\ UNCHANGED <<progress, delivered, picked>>

(* A saturated feed pushes an item onto the entry of both lanes.           *)
Feed(t) ==
  LET free == {l \in Lanes : EntryFree(net.lanes[t][l])}
      item(l) == arrived + 1 + Cardinality({k \in free : k < l})
  IN  /\ free # {}
      /\ net' = [net EXCEPT !.lanes[t] =
                   [l \in Lanes |-> IF l \in free THEN EnterAt(@[l], item(l), 0) ELSE @[l]]]
      /\ Arrive(Cardinality(free))

Drop(t, from) ==
  /\ net' \in Drops(net, progress, t, from, arrived + 1)
  /\ Arrive(1)

Pick(t, accepted, max) ==
  LET taken == Taken(net, t, accepted, max)
      items == {net.lanes[t][0].slots[i] : i \in taken[1]} \cup {net.lanes[t][1].slots[i] : i \in taken[2]}
  IN  /\ items # {} /\ Cardinality(picked \cup items) <= MaxPicked
      /\ net' = TakeFromTile(net, t, accepted, max)
      /\ picked' = picked \cup items
      /\ UNCHANGED <<progress, arrived, delivered>>

Tick ==
  \E phases \in {NextProgress(progress)} : \E moved \in {StepAll(net, phases, Stepping(progress))} :
    /\ progress' = phases
    /\ delivered' = delivered \cup Range(moved.exitedLog)
    /\ net' = [moved EXCEPT !.exitedLog = <<>>]
    /\ UNCHANGED <<arrived, picked>>

ItemsOnTile(n, t) == UNION {ItemsOn(n.lanes[t][l]) : l \in Lanes}

TrafficNext ==
  \/ \E t \in {u \in TileIds : Tiles[u].pos \in Feeds} : Feed(t)
  \/ \E t \in TileIds, spot \in DropSpots : Tiles[t].pos = spot[1] /\ Drop(t, spot[2])
  \/ \E t \in {u \in TileIds : Tiles[u].pos \in Picks}, max \in 1..2 :
       \E accepted \in SUBSET ItemsOnTile(net, t) : Pick(t, accepted, max)
  \/ Tick

TrafficSpec == TrafficInit /\ [][TrafficNext]_trafficVars

\* The world ticks until the measurement ends; nothing else has to happen.
\* Only Tick changes the progress, so this is weak fairness of Tick in a form
\* whose ENABLED is cheap to evaluate.
Advance == progress' = NextProgress(progress)
FairSpec == TrafficSpec /\ WF_progress(Advance)
-----------------------------------------------------------------------------
Nodes == {<<t, l, i>> : t \in TileIds, l \in Lanes, i \in 0..(SlotsPerTile - 1)}
Holds(n, node) ==
  /\ node[3] \in SlotsOf(n.lanes[node[1]][node[2]])
  /\ n.lanes[node[1]][node[2]].slots[node[3]] # Empty
ItemAt(n, node) == n.lanes[node[1]][node[2]].slots[node[3]]
ItemsIn(n) == UNION {ItemsOnTile(n, t) : t \in TileIds}
Places(n) ==
  LET held == {node \in Nodes : Holds(n, node)}
  IN  [item \in ItemsIn(n) |-> CHOOSE node \in held : ItemAt(n, node) = item]

(* Over the whole network nothing is lost, duplicated or both delivered    *)
(* and still there: belts that end inside the layout hold their items,     *)
(* splitters and sideloads pass each on once.                              *)
EveryItemOnce ==
  LET held == {node \in Nodes : Holds(net, node)}
  IN  /\ Cardinality(held) + Cardinality(delivered) + Cardinality(picked) = arrived
      /\ ItemsIn(net) \cup delivered \cup picked = 1..arrived

\* The lanes ahead of a lane before the line is sideloaded onto another.
LineNodes ==
  LET along(nodes, i) ==
        nodes \cup {<<Downstream[n[1]], n[2]>> :
                    n \in {m \in nodes : Downstream[m[1]] # NoTile /\ Onto[m[1]] = Straight}}
  IN  [node \in TileIds \X Lanes |->
         FoldLeft(along, {node}, [i \in TileIds |-> i]) \ {node}] @@ <<>>

\* x is ahead of y on the line that y is on; a sideload joins another line.
Leads(x, y) ==
  \/ x[1] = y[1] /\ x[2] = y[2] /\ x[3] > y[3]
  \/ <<x[1], x[2]>> \in LineNodes[<<y[1], y[2]>>]

(* Order is FIFO (belt.rs, property 3) along a whole line, over handoffs,  *)
(* curves and undergrounds, whatever is merged or dropped in between: an   *)
(* item ahead on the same line is never passed and leaves first.           *)
LineKeepsOrder ==
  [][\A was \in {Places(net)}, is \in {Places(net')} :
       \A a, b \in DOMAIN was :
         Leads(was[a], was[b]) =>
           /\ {a, b} \subseteq DOMAIN is => ~Leads(is[b], is[a])
           /\ b \in delivered' => a \notin DOMAIN is]_trafficVars

\* Tiles from which some way leads to a boundary output; a splitter half
\* also goes on by its partner's branch.
BranchTiles(t) == {Downstream[Via(t, output)] : output \in {o \in Outputs : HasOutput(t, o)}}
Ahead(t) == IF t \in HalfTiles THEN BranchTiles(t) ELSE {Downstream[t]} \ {NoTile}
Draining ==
  FoldLeft(LAMBDA known, i : known \cup {t \in TileIds : Ahead(t) \cap known # {}},
           {t \in TileIds : IsSink(t) /\ Ahead(t) = {}}, [i \in TileIds |-> i])

OnTheMove == UNION {ItemsOnTile(net, t) : t \in Draining}

(* S3, S4, and the reason a boundary output drains: with no more arrivals  *)
(* the tiles that have a way out run empty, although the other branch of a *)
(* splitter is dead and whatever the splitter owes it, whatever else       *)
(* merges in, and whether or not inserters pick.                           *)
FlowNeverStops == OnTheMove # {} ~> OnTheMove = {}

Feeders(t) == {u \in TileIds : t \in Ahead(u)}

\* Tiles of one tier that lead from t to an output without merges; inside
\* the run each is fed by the one behind it alone.
FreeRun(t, run) ==
  /\ t \in run
  /\ \A u \in run :
       /\ Tiles[u].kind # "splitter" /\ Tiles[u].tier = Tiles[t].tier /\ Onto[u] = Straight
       /\ \A f \in Feeders(u) : Onto[f] = Straight
       /\ u # t => \E f \in run : Feeders(u) = {f}
       /\ IF Downstream[u] = NoTile THEN IsSink(u) ELSE Downstream[u] \in run \ {t}
FreeRuns == {t \in TileIds : \E run \in SUBSET TileIds : FreeRun(t, run)}

\* The place one slot on, which may be the entry of the next tile.
OneOn(n, node) ==
  IF node[3] # Exit(n.lanes[node[1]][node[2]]) THEN <<node[1], node[2], node[3] + 1>>
  ELSE <<Downstream[node[1]], node[2], 0>>

(* Items on a free-flowing lane all advance together, so spacing is        *)
(* preserved (belt.rs, properties 1 and 2), across handoffs and             *)
(* undergrounds and however compressed the line: a whole-slot step moves    *)
(* every item by one slot.  This is what the update order is for.           *)
FreeRunAdvances ==
  [][progress' # progress =>
       \A was \in {Places(net)}, is \in {Places(net')} :
         \A t \in FreeRuns : \A item \in ItemsOnTile(net, t) :
           Tiles[t].tier \in Stepping(progress) =>
             IF item \in DOMAIN is THEN is[item] = OneOn(net, was[item])
             ELSE OneOn(net, was[item])[1] = NoTile]_trafficVars
=============================================================================
