\* A block of everything, a row of undergrounds and rings of belts.
CONSTANTS
  MaxGap <- GapByTier
  Families <- Grounds
SPECIFICATION Spec
INVARIANTS HalvesMatch FlanksShareNoLane QuarterTurnInvariant UndergroundsPaired EveryTileOnce SortedIsWhatDrains
PROPERTY SortsDownstreamFirst
\* The sort ends when the stack is empty.
CHECK_DEADLOCK FALSE
