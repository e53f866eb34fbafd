\* Two hands of one item over a belt with everything on it, and one fluid
\* among two producers and three consumers of different appetites.
CONSTANTS
  coal = coal
  plate = plate
  stone = stone
  left = left
  middle = middle
  right = right
  Items <- Goods
  Ingredients <- Recipe
  Need <- Grenade
  BufferCrafts = 1
  Hands = {left, right}
  Carries <- Sushi
  HandSize = 1
  Producers = {1, 2}
  Consumers = {1, 2, 3}
  Appetite <- Appetites
  TankCrafts = 1
  Emission = 2
  OutputCap = 2
  Fed = 2
SPECIFICATION FairPlantSpec
INVARIANTS NoGridlock
PROPERTIES CraftsGoOn FluidConserved ScarcityShared
