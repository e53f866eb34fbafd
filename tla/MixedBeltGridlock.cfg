\* Hands of two items over a belt with everything on it.
CONSTANTS
  coal = coal
  plate = plate
  stone = stone
  left = left
  middle = middle
  right = right
  Items <- Goods
  Ingredients <- Recipe
  Need <- Grenade
  BufferCrafts = 2
  Hands = {left, right}
  Carries <- Sushi
  HandSize = 2
SPECIFICATION FairSpec
PROPERTIES HandEmpties
