\* One place, the single queue: an account with two sessions and two
\* characters, and a second account
SPECIFICATION FairSpec
CONSTANTS
  Sessions = {1, 2, 3}
  Accounts = {1, 2}
  Ips = {"ip"}
  Characters = {"c", "d"}
  None = None
  AccountOf <- TwoAccounts
  RegionOf <- OneRegion
  IpOf <- SameAddress
  BasePriority <- Flat
  Privileged = {}
  OwnerOf <- OneOwner
  PriorityQueue = FALSE
  HardLimit = 2
  MaxPop <- Full
  LoginPerTick = 1
  PlayerLimit = 0
  AgePerTick = 0
  IpPenalty = 0
  GracePeriod = TRUE
  LogoutDelay = TRUE
  MaxHolders = 2
  MayStop = TRUE
INVARIANTS ControlInv AdmissionInv
PROPERTIES LoginEnds DisconnectedLeave
