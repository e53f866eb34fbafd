\* A cycle of 3.5 ticks (7 units, 2 per tick) and a hand of two: the half
\* tick of overshoot is carried through a dozen swings.
CONSTANTS
  Cycle = 7
  TickUnit = 2
  HandSize = 2
  RunTicks = 44
SPECIFICATION Spec
INVARIANTS SteadyPeriod HandAccount
\* The measurement run ends after RunTicks ticks.
CHECK_DEADLOCK FALSE
