---------------------------- MODULE MCZoneCache ----------------------------
(* Small zones for ZoneCache: two shapes of two channels and one that has no *)
(* solution, each in several positions, mirrored and turned.                *)
EXTENDS ZoneCache

Port(tile, dir, ch, input, interior) ==
  [tile |-> tile, dir |-> dir, ch |-> ch, input |-> input, interior |-> interior]

\* A straight channel above one that turns down in the last column; the
\* second has the faster belts.
Fork == [at |-> <<0, 0>>, w |-> 3, h |-> 2, forbidden |-> {},
         ports |-> {Port(<<0, 0>>, 1, 0, TRUE, FALSE), Port(<<2, 0>>, 1, 0, FALSE, FALSE),
                    Port(<<0, 1>>, 1, 1, TRUE, FALSE), Port(<<2, 1>>, 2, 1, FALSE, FALSE)},
         item |-> <<"iron", "copper">>, tier |-> <<1, 2>>, reach |-> <<4, 6>>]
\* One channel round a tile that must stay free, and one that is walled in.
Bend == [at |-> <<0, 0>>, w |-> 2, h |-> 2, forbidden |-> {<<1, 0>>},
         ports |-> {Port(<<0, 0>>, 2, 0, TRUE, FALSE), Port(<<1, 1>>, 1, 0, FALSE, FALSE)},
         item |-> <<"iron">>, tier |-> <<1>>, reach |-> <<4>>]
Wall == [Bend EXCEPT !.forbidden = {<<1, 0>>, <<0, 1>>}]

\* Channels are numbered from 0 in the code; sequences shift them by one.
Numbered(z) == [z EXCEPT !.ports = {[p EXCEPT !.ch = @ + 1] : p \in z.ports}]

Moved(z, o, at) ==
  [z EXCEPT !.at = at,
            !.w = IF o.rotation % 2 = 0 THEN z.w ELSE z.h,
            !.h = IF o.rotation % 2 = 0 THEN z.h ELSE z.w,
            !.forbidden = {TransformTile(t, z.w, z.h, o) : t \in z.forbidden},
            !.ports = {[p EXCEPT !.tile = TransformTile(@, z.w, z.h, o),
                                 !.dir = TransformDirection(@, o)] : p \in z.ports}]

Swapped(z) == [z EXCEPT !.ports = {[p EXCEPT !.ch = 3 - @] : p \in z.ports},
                        !.item = <<@[1], "stone">>, !.tier = Reverse(@), !.reach = Reverse(@)]

Belt(x, y, d, c) == [tile |-> <<x, y>>, dir |-> d, ch |-> c]
ForkBelts == {Belt(0, 0, 1, 1), Belt(1, 0, 1, 1), Belt(2, 0, 1, 1),
              Belt(0, 1, 1, 2), Belt(1, 1, 1, 2), Belt(2, 1, 2, 2)}
BendBelts == {Belt(0, 0, 2, 1), Belt(0, 1, 1, 1), Belt(1, 1, 1, 1)}

\* The belts of shape z where y is z in orientation o.
MovedBelts(belts, z, o, y) ==
  {[tile |-> LET t == TransformTile(b.tile, z.w, z.h, o) IN <<t[1] + y.at[1], t[2] + y.at[2]>>,
    dir |-> TransformDirection(b.dir, o), item |-> y.item[b.ch], tier |-> 1] : b \in belts}

Upright == [rotation |-> 0, reflect |-> FALSE]
Turned == [rotation |-> 1, reflect |-> FALSE]
Mirror == [rotation |-> 1, reflect |-> TRUE]
Back == [rotation |-> 3, reflect |-> FALSE]

Fork1 == Numbered(Fork)
Fork2 == Moved(Numbered(Fork), Mirror, <<1, 2>>)
Fork3 == Swapped(Moved(Numbered(Fork), Back, <<3, 2>>))
Other(belts) == {[b EXCEPT !.ch = 3 - @] : b \in belts}

MCShape == <<Fork1, Fork2, Fork3, Moved(Numbered(Bend), Back, <<4, 0>>),
             Numbered(Wall), Moved(Numbered(Wall), Turned, <<4, 1>>)>>
MCAnswers == <<<<MovedBelts(ForkBelts, Fork, Upright, Fork1)>>, <<MovedBelts(ForkBelts, Fork, Mirror, Fork2)>>,
               <<MovedBelts(Other(ForkBelts), Fork, Back, Fork3)>>, <<MovedBelts(BendBelts, Bend, Back, MCShape[4])>>,
               <<>>, <<>>>>

\* What the theorems assume of the zones and of the solver holds of these: the
\* solutions given are solutions.
ASSUME PortsCross
ASSUME ItemsHaveChannels
ASSUME SolverSolves
ASSUME ImagesSolveAlike

Symmetry == Permutations(Process)
=============================================================================
