\* Two shapes that can be solved and one that cannot, in several positions, for
\* two processes of either build; two calls reach the solver.
SPECIFICATION Spec
CONSTANTS
  Process = {p1, p2}
  Zones = {1, 2, 3, 4, 5, 6}
  Shape <- MCShape
  Answers <- MCAnswers
  Budgets = {1, 2}
  Versions = {1, 2}
  Oversized = {4}
  MaxSolves = 2
INVARIANTS ReplaySolves RefusalIsRight KnownInAllImages KnowsWhatWasLearnt
SYMMETRY Symmetry
