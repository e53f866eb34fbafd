----------------------------- MODULE MCJunctions -----------------------------
(***************************************************************************)
(* Routed layouts for Junctions: a few trunks that come down, belts that   *)
(* cross them, pipes, rows and balancers in the way.                       *)
(***************************************************************************)
EXTENDS Junctions

Down(x, a, b) == [i \in 1 .. b - a + 1 |-> <<x, a + i - 1>>]
Right(y, a, b) == [i \in 1 .. b - a + 1 |-> <<a + i - 1, y>>]
Left(y, a, b) == [i \in 1 .. a - b + 1 |-> <<a - i + 1, y>>]

Entity(t, d, item, kind, seg) ==
  [tile |-> t, dir |-> d, item |-> item, kind |-> kind, seg |-> seg, at |-> 0]
Belts(path, item, kind, seg) ==
  [i \in DOMAIN path |-> Entity(path[i], DirectionAt(path, i), item, kind, seg)]

\* Trunks and what else stands there come first; then each belt is laid where
\* nothing is, in order. A row has its claim, and is not in the list.
Route(trunks, pipes, ghosts, built, rows, hard, protected) ==
  LET path == FoldLeft(LAMBDA m, s : m @@ (s[1] :> s[2]), <<>>, trunks \o pipes \o ghosts)
      all(specs, kind, seg) ==
        FoldLeft(LAMBDA q, s : q \o Belts(s[2], s[1], kind, seg), <<>>, specs)
      taken(q) == {q[i].tile : i \in DOMAIN q} \union {e.tile : e \in rows} \union hard
      lay(q, e) == IF e.tile \in taken(q) THEN q ELSE Append(q, [e EXCEPT !.at = Len(q) + 1])
      laid == FoldLeft(lay, <<>>, built \o all(trunks, "belt", "trunk") \o all(pipes, "pipe", "trunk")
                                        \o all(ghosts, "belt", "ghost"))
      ents == ToSet(laid)
      ghost == {e \in ents : e.seg = "ghost"}
      held == Place(Place(Place(Place(<<>>, ents \ ghost, "permanent"), ghost, "ghost"), rows, "row"),
                    {Entity(t, 0, "none", "machine", "hard") : t \in hard}, "hard")
  IN  [plan |-> [path |-> path, item |-> [s \in DOMAIN path |-> s], pipes |-> {s[1] : s \in ToSet(pipes)},
                 obstacles |-> SnapshotJunctionObstacles(held), protected |-> protected],
       placed |-> ents, claims |-> held]

\* A belt that goes under one trunk, and under two.
OneTrunk == Route(<< <<"t", Down(4, 1, 5)>> >>, <<>>, << <<"g", Right(3, 2, 6)>> >>, <<>>, {}, {}, {})
TwoTrunks == Route(<< <<"t", Down(4, 1, 5)>>, <<"u", Down(5, 1, 5)>> >>, <<>>,
                   << <<"g", Right(3, 2, 7)>> >>, <<>>, {}, {}, {})

\* Four columns of trunks, pipes or nothing, with a belt or two across.
Columns == 4 .. 7
Named == (4 :> "a" @@ 5 :> "b" @@ 6 :> "c" @@ 7 :> "d")
Across(kind, second) ==
  LET of(k) == SelectSeq(<<4, 5, 6, 7>>, LAMBDA x : kind[x] = k)
      down(k) == [i \in DOMAIN of(k) |-> <<Named[of(k)[i]], Down(of(k)[i], 1, 8)>>]
  IN  Route(down("trunk"), down("pipe"), << <<"g", Right(3, 2, 9)>> >> \o second, <<>>, {}, {}, {})
SecondBelts == {<<>>, << <<"h", Right(5, 2, 9)>> >>, << <<"h", Left(4, 9, 2)>> >>}
Grid == {Across(kind, h) : kind \in [Columns -> {"trunk", "pipe", "none"}], h \in SecondBelts}

\* Two belts and a trunk at one tile.
ThreeFlows == Route(<< <<"t", Down(4, 1, 5)>> >>, <<>>,
                    << <<"g", Right(3, 2, 6)>>, <<"h", Left(3, 7, 2)>> >>, <<>>, {}, {}, {})

\* A belt that turns right behind the trunk.
Corner == Route(<< <<"t", Down(4, 1, 6)>> >>, <<>>, << <<"g", Right(3, 2, 5) \o Down(5, 4, 6)>> >>,
                <<>>, {}, {}, {})

\* Two pipes make the region grow over one of the crossings of another belt.
Overlap == Route(<< <<"t", Down(4, 1, 7)>>, <<"u", Down(6, 5, 9)>>, <<"v", Down(9, 5, 9)>> >>,
                 << <<"p", Down(5, 1, 5)>>, <<"q", Down(6, 1, 4)>> >>,
                 << <<"g", Right(4, 1, 9)>>, <<"h", Right(6, 5, 11)>> >>, <<>>, {}, {}, {})

\* A machine, a splitter and a large balancer beside the crossings; the belt
\* is fed by a tap.
Beside ==
  Route(<< <<"t", Down(4, 1, 7)>> >>, << <<"p", Down(5, 1, 7)>> >>, << <<"g", Right(3, 3, 8)>> >>,
        <<Entity(<<3, 3>>, 1, "g", "out", "tapoff"), Entity(<<6, 2>>, 2, "b", "splitter", "balancer"),
          Entity(<<6, 5>>, 2, "c", "splitter", "balancer"), Entity(<<7, 5>>, 2, "c", "splitter", "balancer")>>,
        {}, {<<3, 2>>}, {<<6, 5>>, <<7, 5>>})

\* The belt dives twice; its second exit may come up where the first solution
\* has laid a belt.
Upgraded ==
  Route(<< <<"a", Down(4, 1, 5)>>, <<"b", Down(6, 1, 5)>>, <<"c", Down(9, 1, 5)>> >>,
        << <<"p", Down(12, 1, 5)>>, <<"q", Down(13, 1, 5)>>, <<"r", Down(14, 1, 5)>> >>,
        << <<"g", Left(3, 17, 2)>> >>, <<>>, {}, {}, {})

\* The pipe's own solution may leave the belt broken, which nobody walks.
Unwalked ==
  Route(<< <<"a", Down(4, 1, 5)>>, <<"b", Down(6, 1, 5)>>, <<"c", Down(8, 1, 5)>> >>, << <<"p", Down(10, 1, 5)>> >>,
        << <<"g", Left(3, 12, 2)>> >>, <<>>, {}, {}, {})

MCPlans == Grid \union {ThreeFlows, Corner, Overlap, Beside, Upgraded, Unwalked}

\* Belts of a merge tree turn at a corner of the region round a pipe.
MergeTreePlans ==
  {Route(<<>>, << <<"p", Down(4, 1, 5)>> >>, << <<"g", Right(3, 2, 6)>> >>,
         <<Entity(<<2, 2>>, 1, "m", "belt", "mergetree"), Entity(<<3, 2>>, 0, "m", "belt", "mergetree")>>,
         {}, {}, {<<2, 2>>, <<3, 2>>})}

\* What the theorem about splitters takes of a layout.
ASSUME \A p \in Plans : SplittersAside(p)
=============================================================================
