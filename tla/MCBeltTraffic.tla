---------------------------- MODULE MCBeltTraffic ----------------------------
(* Layouts for TLC.                                                        *)
EXTENDS BeltTraffic

GapByTier == [turbo |-> 10, red |-> 6]
\* In 64ths of a slot: turbo belts step every second tick, red every fourth.
TierSpeeds == [turbo |-> 32, red |-> 16]
Tiered(kind, tier, dir, x, y) == [kind |-> kind, dir |-> dir, tier |-> tier, pos |-> <<x, y>>]
At(kind, dir, x, y) == Tiered(kind, "turbo", dir, x, y)

\* A feeder that comes around a curve is sideloaded onto a slower line, which
\* leads into the second half of a splitter.  The splitter's first branch ends
\* inside the layout, and behind its second is an underground pair.
Yard ==
  << At("belt", "East", 0, 1), Tiered("belt", "red", "East", 1, 1),
     At("belt", "East", 0, 0), At("belt", "South", 1, 0),
     At("splitter", "East", 2, 0), At("belt", "East", 3, 0),
     At("entrance", "East", 3, 1), At("exit", "East", 5, 1) >>

\* What the builder makes of it: the entrance and the exit are linked, the
\* curve at <<1, 0>> is sideloaded onto the near lane of <<1, 1>>.
Tile(kind, tier, dir, x, y, splitter, partner) ==
  [kind |-> kind, tier |-> tier, dir |-> dir, pos |-> <<x, y>>, splitter |-> splitter, partner |-> partner]

YardTiles ==
  << Tile("belt", "turbo", "East", 0, 1, 1, 0), Tile("belt", "red", "East", 1, 1, 2, 0),
     Tile("belt", "turbo", "East", 0, 0, 3, 0), Tile("belt", "turbo", "South", 1, 0, 4, 0),
     Tile("splitter", "turbo", "East", 2, 0, 5, 6), Tile("splitter", "turbo", "East", 2, 1, 5, 5),
     Tile("belt", "turbo", "East", 3, 0, 6, 0), Tile("entrance", "turbo", "East", 3, 1, 7, 0),
     Tile("exit", "turbo", "East", 5, 1, 8, 0) >>
YardDownstream == <<2, 6, 4, 2, 7, 8, 0, 9, 0>>
YardOnto == <<Straight, Straight, Straight, 0, Straight, Straight, Straight, Straight, Straight>>
YardOrder == <<9, 8, 6, 2, 4, 3, 1, 7, 5>>

YardSinks == {<<5, 1>>}
YardFeeds == {<<0, 1>>}
YardDrops == {<< <<0, 0>>, <<0, -1>> >>}
YardPicks == {<<3, 0>>}
=============================================================================
