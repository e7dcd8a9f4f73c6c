SPECIFICATION TradeSpec
CONSTANTS
  alice = alice
  bob = bob
  carol = carol
  ring = ring
  cloak = cloak
  Players <- ThreePlayers
  Items <- TwoItems
  NumTraded = 1
  Casters = {bob}
  Capacity <- RoomForOne
  FirstItems <- OneEach
  FirstMoney <- Purses
  MaxMoney = 1
  None = None
INVARIANT
  TradeInv
PROPERTY
  ExchangeSpec
