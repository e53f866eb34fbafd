\* A curve that merges onto a slower line, a splitter with a dead branch that
\* an inserter empties now and then, and an underground pair behind the other
\* branch: turbo and red belts at their own speeds.
CONSTANTS
  MaxGap <- GapByTier
  Layout <- Yard
  Tiles <- YardTiles
  Downstream <- YardDownstream
  Onto <- YardOnto
  UpdateOrder <- YardOrder
  Unit = 64
  SlotsPerTile = 2
  SlotsPerTick <- TierSpeeds
  SideloadLate = 94
  SideloadEarly = 34
  Midpoint = 64
  InnerTurn = 53
  OuterTurn = 147
  MemoryCap = 1
  SinkPositions <- YardSinks
  Feeds <- YardFeeds
  DropSpots <- YardDrops
  Picks <- YardPicks
  MaxArrivals = 5
  MaxPicked = 1
SPECIFICATION FairSpec
INVARIANTS EveryItemOnce
PROPERTIES LineKeepsOrder FreeRunAdvances FlowNeverStops
