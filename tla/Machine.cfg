\* Crafts of one and a half ticks that yield one and a half items and as much
\* fluid; the output cap is hit after two crafts, and the run is long
\* enough for five crafts with a block, a shortage and a reset in between.
CONSTANTS
  plate = plate
  water = water
  Solids = {plate}
  Fluids = {water}
  Need <- MCNeed
  BufferCrafts = 1
  CraftTime = 3
  TickUnit = 2
  SolidYield = 3
  FluidYield = 3
  Unit = 2
  OutputCap = 3
  FluidIsBounded = TRUE
  Hand = 2
  RunTicks = 9
SPECIFICATION Spec
INVARIANTS CraftTimer TicksAttributed EmissionExact OutputBounded
\* The measured window ends after RunTicks ticks.
CHECK_DEADLOCK FALSE
