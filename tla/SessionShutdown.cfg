\* Stopping the server while a player without a client is in the world
SPECIFICATION Spec
CONSTANTS
  Sessions = {1}
  Accounts = {1}
  Ips = {"ip"}
  Characters = {"c"}
  None = None
  AccountOf <- OneAccount
  RegionOf <- OneRegion
  IpOf <- SameAddress
  BasePriority <- Flat
  Privileged = {}
  OwnerOf <- OneOwner
  PriorityQueue = FALSE
  HardLimit = 9
  MaxPop <- Full
  LoginPerTick = 1
  PlayerLimit = 0
  AgePerTick = 0
  IpPenalty = 0
  GracePeriod = FALSE
  LogoutDelay = TRUE
  MaxHolders = 2
  MayStop = TRUE
INVARIANTS ShutdownSaves
