\* Priority queues: four sessions of four accounts, two regions, no character
SPECIFICATION FairSpec
CONSTANTS
  Sessions = {1, 2, 3, 4}
  Accounts = {1, 2, 3, 4}
  Ips = {"ip", "own"}
  Characters = {}
  None = None
  AccountOf <- OwnAccount
  RegionOf <- TwoRegions
  IpOf <- TwoAddresses
  BasePriority <- Raised
  Privileged = {}
  OwnerOf <- OwnCharacter
  PriorityQueue = TRUE
  HardLimit = 2
  MaxPop <- Full
  LoginPerTick = 2
  PlayerLimit = 0
  AgePerTick = 1
  IpPenalty = 1
  GracePeriod = FALSE
  LogoutDelay = FALSE
  MaxHolders = 0
  MayStop = FALSE
INVARIANT QueueInv
PROPERTIES NobodyIsOvertaken QueueMoves
