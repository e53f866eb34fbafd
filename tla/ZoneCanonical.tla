--------------------------- MODULE ZoneCanonical ---------------------------
(***************************************************************************)
(* The key of the zone cache (crates/core/src/zone_cache.rs) and the way a *)
(* solution is stored under it and replayed: crossing zones that are       *)
(* images of one another under the eight symmetries of a rectangle share   *)
(* one signature, so a solution found in one of them serves them all.      *)
(*                                                                         *)
(* A zone is [at, w, h, ports, forbidden, item, tier, reach]: its origin,  *)
(* its size, its ports [tile, dir, ch, input, interior] and forbidden      *)
(* tiles (both in coordinates of the zone), and for each channel the item, *)
(* the rank of the belts it meets outside, and the reach of its            *)
(* undergrounds. Directions and edges are 0 North, 1 East, 2 South, 3 West.*)
(* An entity is [tile, dir, item, tier]; undergrounds are left out.        *)
(***************************************************************************)
EXTENDS Integers, FiniteSets, Sequences, SequencesExt

Orientations == [rotation: 0..3, reflect: BOOLEAN]

Ahead(t, d) == << <<t[1], t[2] - 1>>, <<t[1] + 1, t[2]>>,
                  <<t[1], t[2] + 1>>, <<t[1] - 1, t[2]>> >>[d + 1]

ZoneTiles(z) == (0 .. z.w - 1) \X (0 .. z.h - 1)
Channels(z) == {p.ch : p \in z.ports}

\* What a zone is made of, its belts and items apart.
IsZone(z) ==
  /\ z.at \in Int \X Int /\ z.w \in Nat /\ z.h \in Nat
  /\ IsFiniteSet(z.ports)
  /\ z.ports \subseteq [tile : Int \X Int, dir : 0..3, ch : Nat, input : BOOLEAN, interior : BOOLEAN]
  /\ z.forbidden \subseteq Int \X Int

-----------------------------------------------------------------------------
(* The symmetries: a reflection about the vertical axis, then quarter turns.*)

Turn(r, t, w, h) ==
  << t, <<h - 1 - t[2], t[1]>>, <<w - 1 - t[1], h - 1 - t[2]>>,
     <<t[2], w - 1 - t[1]>> >>[r + 1]

TransformTile(t, w, h, o) ==
  Turn(o.rotation, IF o.reflect THEN <<w - 1 - t[1], t[2]>> ELSE t, w, h)

\* tw and th are the sides of the transformed zone.
TransformTileInverse(t, tw, th, o) ==
  LET back == Turn((4 - o.rotation) % 4, t, tw, th)
      w == IF o.rotation % 2 = 0 THEN tw ELSE th
  IN  IF o.reflect THEN <<w - 1 - back[1], back[2]>> ELSE back

Mirrored(d) == (4 - d) % 4

TransformDirection(d, o) ==
  ((IF o.reflect /\ d % 2 = 1 THEN Mirrored(d) ELSE d) + o.rotation) % 4

TransformDirectionInverse(d, o) ==
  LET back == (d + 4 - o.rotation) % 4
  IN  IF o.reflect /\ back % 2 = 1 THEN Mirrored(back) ELSE back

\* Mutant: the sides of the zone do not turn with it.
TransformPortSquare(q, w, h, o) ==
  LET mirrored == IF ~o.reflect THEN q
                  ELSE IF q.edge % 2 = 1 THEN [q EXCEPT !.edge = Mirrored(@)]
                  ELSE [q EXCEPT !.offset = w - 1 - @]
      turn(v) == [edge |-> (v.edge + 1) % 4,
                  offset |-> IF v.edge % 2 = 0 THEN v.offset ELSE h - 1 - v.offset]
      once == turn(mirrored)
      twice == turn(once)
  IN  << mirrored, once, twice, turn(twice) >>[o.rotation + 1]

\* A port of the signature is an edge and an offset along it, both as seen
\* from the zone with sides w and h. Its height is w after every other turn.
TransformPort(q, w, h, o) ==
  LET mirrored == IF ~o.reflect THEN q
                  ELSE IF q.edge % 2 = 1 THEN [q EXCEPT !.edge = Mirrored(@)]
                  ELSE [q EXCEPT !.offset = w - 1 - @]
      turn(v, height) == [edge |-> (v.edge + 1) % 4,
                          offset |-> IF v.edge % 2 = 0 THEN v.offset ELSE height - 1 - v.offset]
      once == turn(mirrored, h)
      twice == turn(once, w)
  IN  << mirrored, once, twice, turn(twice, h) >>[o.rotation + 1]

-----------------------------------------------------------------------------
(* The signature.                                                          *)

\* The edges that tile t of the zone lies on.
Edges(z, t) ==
  {e \in 0..3 : \/ e = 0 /\ t[2] = 0
                \/ e = 1 /\ t[1] = z.w - 1
                \/ e = 2 /\ t[2] = z.h - 1
                \/ e = 3 /\ t[1] = 0}

\* The edge a port lies on. In a corner, and inside the zone, the direction
\* of the flow names it.
EdgeAndOffset(z, p) ==
  LET on == Edges(z, p.tile)
      edge == IF Cardinality(on) = 1 THEN CHOOSE e \in on : TRUE ELSE p.dir
  IN  [edge |-> edge, offset |-> IF edge % 2 = 0 THEN p.tile[1] ELSE p.tile[2]]

\* The flow through p comes in, or goes out, over an edge that its tile lies on.
Crosses(z, p) ==
  ~p.interior /\ (IF p.input THEN (p.dir + 2) % 4 ELSE p.dir) \in Edges(z, p.tile)

\* What the signature says of channel c in orientation o: the endpoints of
\* either kind, with their number, and the reach.
ChannelKey(z, c, o) ==
  LET key(p) == TransformPort(EdgeAndOffset(z, p), z.w, z.h, o)
      bag(in) == LET ends == {p \in z.ports : p.ch = c /\ p.input = in}
                 IN  {<<key(p), Cardinality({q \in ends : key(q) = key(p)})>> : p \in ends}
  IN  [ins |-> bag(TRUE), outs |-> bag(FALSE), reach |-> z.reach[c]]

ChannelKeys(z, o) == [c \in Channels(z) |-> ChannelKey(z, c, o)]

\* The code sorts the strings of the keys, equal ones by the number of the
\* channel; a position in that order is a key and a position among its equals.
Token(key, c) == [key |-> key[c],
                  nth |-> Cardinality({d \in DOMAIN key : key[d] = key[c] /\ d <= c})]
Tokens(key) == {Token(key, c) : c \in DOMAIN key}

Rendering(z, o) ==
  [w |-> IF o.rotation % 2 = 0 THEN z.w ELSE z.h,
   h |-> IF o.rotation % 2 = 0 THEN z.h ELSE z.w,
   channels  |-> Tokens(ChannelKeys(z, o)),
   forbidden |-> {TransformTile(t, z.w, z.h, o) : t \in z.forbidden}]

\* The least of the eight renderings (in any fixed order of renderings), and
\* the first orientation that shows it.
Canonicalise(z) ==
  LET rendering == [o \in Orientations |-> Rendering(z, o)]
      least == CHOOSE s \in Range(rendering) : TRUE
      rank(o) == 2 * o.rotation + (IF o.reflect THEN 1 ELSE 0)
      shows == {o \in Orientations : rendering[o] = least}
      first == CHOOSE a \in shows : \A b \in shows : rank(a) <= rank(b)
  IN  [signature |-> least, o |-> first, key |-> ChannelKeys(z, first)]

-----------------------------------------------------------------------------
(* Storing and replaying a solution.                                       *)

\* An item becomes the token of one channel that carries it.
CarriesToToken(z, form, item) ==
  CHOOSE t \in Tokens(form.key) : \E c \in Channels(z) : Token(form.key, c) = t /\ z.item[c] = item

\* Mutant: channels are told apart by their place among equals alone.
CarriesFromTokenByPlace(z, form, token) ==
  z.item[CHOOSE c \in Channels(z) : Token(form.key, c).nth = token.nth]

CarriesFromToken(z, form, token) ==
  z.item[CHOOSE c \in Channels(z) : Token(form.key, c) = token]

\* What record_zone_outcome keeps of a solution in world coordinates.
Stored(z, form, ents) ==
  {[tile |-> TransformTile(<<e.tile[1] - z.at[1], e.tile[2] - z.at[2]>>, z.w, z.h, form.o),
    dir  |-> TransformDirection(e.dir, form.o),
    token |-> CarriesToToken(z, form, e.item)] : e \in ents}

\* The fastest belt that any port of an item meets.
ItemTier(z, item) ==
  LET ranks == {z.tier[c] : c \in {d \in Channels(z) : z.item[d] = item}}
  IN  CHOOSE r \in ranks : \A q \in ranks : q <= r

\* What lookup_zone_result makes of it in zone z.
Replayed(z, form, stored) ==
  {LET t == TransformTileInverse(s.tile, form.signature.w, form.signature.h, form.o)
       item == CarriesFromToken(z, form, s.token)
   IN  [tile |-> <<t[1] + z.at[1], t[2] + z.at[2]>>,
        dir  |-> TransformDirectionInverse(s.dir, form.o),
        item |-> item, tier |-> ItemTier(z, item)] : s \in stored}

-----------------------------------------------------------------------------
(* Solutions.                                                              *)

\* The tile in the zone that a port constrains, in world coordinates: beside
\* it when the port is an entity inside the zone that must stay.
PortTile(z, p) ==
  LET t == IF ~p.interior THEN p.tile
           ELSE Ahead(p.tile, IF p.input THEN p.dir ELSE (p.dir + 2) % 4)
  IN  <<t[1] + z.at[1], t[2] + z.at[2]>>

\* The least part of ents with all of start and what next leads to from it.
LedTo(ents, start, next) ==
  {e \in ents : \A S \in SUBSET ents :
     start \subseteq S /\ (\A s \in next : s[1] \in S => s[2] \in S) => e \in S}

On(ents, tiles) == {e \in ents : e.tile \in tiles}
Steps(ents) == {s \in ents \X ents : Ahead(s[1].tile, s[1].dir) = s[2].tile}

\* Where the belts from these tiles lead, and whence belts lead to them.
Downstream(ents, tiles) == LedTo(ents, On(ents, tiles), Steps(ents))
Upstream(ents, tiles) == LedTo(ents, On(ents, tiles), {<<s[2], s[1]>> : s \in Steps(ents)})

PortTiles(z, in) == {PortTile(z, p) : p \in {q \in z.ports : q.input = in}}

\* The entities on a way from an input to an output; none at all when a port
\* on the perimeter has lost its belt.
PruneDangling(z, ents) ==
  IF \E p \in z.ports : ~p.interior /\ On(ents, {PortTile(z, p)}) = {} THEN {}
  ELSE Downstream(ents, PortTiles(z, TRUE)) \intersect Upstream(ents, PortTiles(z, FALSE))

\* What the SAT encoding asks of a solution: from every input of a channel
\* belts of its item lead to one of its outputs, over free tiles only.
Solves(z, ents) ==
  LET free == {<<t[1] + z.at[1], t[2] + z.at[2]>> : t \in ZoneTiles(z) \ z.forbidden}
      flow(p) == Downstream(ents, {PortTile(z, p)})
  IN  /\ \A e \in ents : e.tile \in free /\ On(ents, {e.tile}) = {e}
      /\ \A p \in z.ports : p.input =>
           /\ \A e \in flow(p) : e.item = z.item[p.ch]
           /\ \E q \in z.ports : /\ ~q.input /\ q.ch = p.ch
                                 /\ \E e \in flow(p) : e.tile = PortTile(z, q) /\ e.dir = q.dir
=============================================================================
