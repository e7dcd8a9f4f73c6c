SPECIFICATION Spec
CONSTANTS
  p1 = p1
  p2 = p2
  north = north
  south = south
  continent = continent
  Players <- TwoPlayers
  Parts <- TwoParts
  MapIdOf <- OneContinent
  Dungeon = dungeon
  Homebind = north
  MaxInstances = 2
  MaxMoves <- TwiceAndOnce
  None = None
INVARIANTS
  Inv
  GroupIsTogether
PROPERTIES
  MapsStayDuringUpdate
  TransferEnds
