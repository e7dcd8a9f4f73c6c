SPECIFICATION Spec
CONSTANTS
  p1 = p1
  p2 = p2
  Players <- TwoPlayers
  Guid <- Guids
  Counts <- NoneToTwo
  FirstCount = 1
  MaxQueue = 1
  Addressing <- ToAll
  MaxPackets <- TwoAndNone
  MaxReloads = 1
  MaySplit <- TwoPlayers
  None = None
INVARIANTS
  Inv
  InOrder
  ListenerHasSocket
PROPERTIES
  QueuesServed
CHECK_DEADLOCK FALSE
