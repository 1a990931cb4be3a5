SPECIFICATION FSpec
CONSTANTS
  k0 = k0
  k1 = k1
  k2 = k2
  a0 = a0
  a1 = a1
  dest = dest
  call1 = call1
  call2 = call2
  call3 = call3
  NoOwner = NoOwner
  Key <- MCKey
  Address <- MCAddress
  ZeroKey = k0
  ZeroAddress = a0
  InitArgs <- GovernedTreasury
  UpdateArgs <- NoUpdates
  Transfer <- TopUps
  CleanupLimits <- NoLimits
  MAX_QUEUED_REQUESTS = 2
  MAX_CUSTODIAN_COUNT = 3
  EXPIRATION_TIME = 2
  DEFAULT_CLEANUP = 2
  LT_SPAN = 2
  MAX_TIME = 3
  Call <- MCCall
  CustodianOf <- SameCustodian
  TransferOf <- SameTopUp
  Other <- OtherCustodians
  POLL_SECONDS = 0
  MESSAGE_LIFE = 2
  MAX_RESTARTS = 0
INVARIANTS
  ReturnsItsOwnRequest
