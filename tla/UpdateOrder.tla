----------------------------- MODULE UpdateOrder -----------------------------
(***************************************************************************)
(* The order in which a belt network steps its tiles                       *)
(* (NetworkBuilder::compute_order, crates/meter/src/network.rs): Kahn's    *)
(* algorithm over the downstream links, sinks first.                       *)
(*                                                                         *)
(* A tile has at most one downstream tile, so its out-degree is 0 or 1.    *)
(* The worklist is a set here and any member of it may be emitted next;    *)
(* UpdateOrderStack takes the one the code takes.  The code also tests     *)
(* whether a tile taken from the worklist has been seen; EmittedOnce says  *)
(* that it never has.                                                      *)
(***************************************************************************)
EXTENDS Integers, Sequences

CONSTANT NoTile       \* the downstream of a tile that has none

VARIABLES
  downstream,  \* tile -> the tile it feeds, or NoTile
  outDegree,   \* out-degree still to be discharged
  ready,       \* queue
  order,       \* tiles in the order they are emitted
  leftover,    \* tiles never emitted, appended behind the others
  linked,      \* the tiles are known and their links made
  ordered      \* the worklist has run dry

vars == <<downstream, outDegree, ready, order, leftover, linked, ordered>>

AllTiles == DOMAIN downstream

Emitted == {order[i] : i \in DOMAIN order}
FeedersOf(t) == {u \in AllTiles : downstream[u] = t}

Init ==
  /\ downstream = <<>> /\ outDegree = <<>>
  /\ ready = {} /\ order = <<>> /\ leftover = {}
  /\ linked = FALSE /\ ordered = FALSE

(* Any tiles and any links between them; those the builder makes are a     *)
(* part of these.                                                          *)
Link ==
  /\ ~linked
  /\ linked' = TRUE
  /\ downstream' \in [DOMAIN downstream' -> DOMAIN downstream' \cup {NoTile}]
  /\ NoTile \notin DOMAIN downstream'
  /\ outDegree' = [t \in DOMAIN downstream' |-> IF downstream'[t] = NoTile THEN 0 ELSE 1]
  /\ ready' = {t \in DOMAIN downstream' : downstream'[t] = NoTile}
  /\ UNCHANGED <<order, leftover, ordered>>

(* A ready tile is emitted; its feeders have nothing else to wait for.     *)
Emit(t) ==
  /\ t \in ready
  /\ order' = Append(order, t)
  /\ outDegree' = [u \in AllTiles |-> IF downstream[u] = t THEN 0 ELSE outDegree[u]]
  /\ ready' = (ready \ {t}) \cup {u \in FeedersOf(t) : outDegree[u] > 0}
  /\ UNCHANGED <<downstream, leftover, linked, ordered>>

(* The worklist is empty: what was not emitted goes behind, in no          *)
(* particular order, and is noted as CycleInUpdateOrder.                   *)
Finish ==
  /\ linked
  /\ ready = {}
  /\ ~ordered
  /\ leftover' = AllTiles \ Emitted
  /\ ordered' = TRUE
  /\ UNCHANGED <<downstream, outDegree, ready, order, linked>>

Next == Link \/ (\E t \in AllTiles : Emit(t)) \/ Finish

Spec == Init /\ [][Next]_vars
-----------------------------------------------------------------------------
TypeOK ==
  /\ downstream \in [AllTiles -> AllTiles \cup {NoTile}]
  /\ outDegree \in [AllTiles -> {0, 1}]
  /\ ready \subseteq AllTiles
  /\ order \in Seq(AllTiles)
  /\ leftover \subseteq AllTiles
  /\ linked \in BOOLEAN
  /\ ordered \in BOOLEAN

(* Downstream-first: a tile is stepped after the tile it feeds, so it may  *)
(* move into the slot its successor vacated in the same step               *)
(* (BeltNetwork::tick).  Without it a compressed line would pass one item  *)
(* per gap per step.                                                       *)
DownstreamFirst ==
  \A i \in DOMAIN order :
    downstream[order[i]] # NoTile => \E j \in DOMAIN order : j < i /\ order[j] = downstream[order[i]]

(* No tile is stepped twice in a tick, and none is waiting that has been   *)
(* emitted: the test of seen in the code never finds anything.             *)
EmittedOnce ==
  /\ \A i, j \in DOMAIN order : order[i] = order[j] => i = j
  /\ \A t \in ready : t \notin Emitted

(* What is left over stays together: from a left over tile the items never *)
(* reach a tile of the sorted part, nor an end of the line, so the         *)
(* arbitrary part of the order is no part of any line that delivers.       *)
LeftoverNeverDrains ==
  \A t \in leftover : downstream[t] \in leftover
=============================================================================
