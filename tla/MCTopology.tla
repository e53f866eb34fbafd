----------------------------- MODULE MCTopology -----------------------------
\* Reach of the underground tiers, in tiles between entrance and exit.  The
\* ratio of the game is kept in small: a long and a short tier.
EXTENDS Topology

GapByTier == [yellow |-> 1, red |-> 2]

\* Three entities of every kind on a block of 3 x 2 corners: lines, turns,
\* sideloads from both flanks, loops, undergrounds fed from every side,
\* splitters in line, side by side and overlapping.
Block ==
  [columns |-> 0..2, rows |-> 0..1, facings |-> Dirs, tiers |-> {"yellow"},
   kinds |-> {"belt", "splitter", "entrance", "exit"}, entities |-> 3, inOrder |-> TRUE]

\* Undergrounds of two tiers along one row, in any order: nested, crossing,
\* out of reach, after one another.
Row ==
  [columns |-> 0..4, rows |-> {0}, facings |-> {"East"}, tiers |-> {"yellow", "red"},
   kinds |-> {"entrance", "exit"}, entities |-> 4, inOrder |-> FALSE]

\* Belts alone: rings of two, with lines that run into them, and of four.
Ring ==
  [columns |-> 0..2, rows |-> 0..1, facings |-> Dirs, tiers |-> {"yellow"},
   kinds |-> {"belt"}, entities |-> 4, inOrder |-> TRUE]

Grounds == {Block, Row, Ring}
=============================================================================
