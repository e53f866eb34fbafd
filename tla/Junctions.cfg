SPECIFICATION Spec
CONSTANTS
  MaxGrowthIters = 5
  MaxRegionTiles = 64
  Reach = 4
  CeilingTiles = 49
  MaxUgs = 2
  HullBudget = 48
  Plans <- MCPlans
INVARIANTS NoPanic ListMatchesClaims SolvedFlowsRun LostOnlyBesideSolved
PROPERTIES FixturesStay WorkRunsOut
