SPECIFICATION FSpec
CONSTANTS
  k0 = k0
  k1 = k1
  k2 = k2
  a0 = a0
  a1 = a1
  dest = dest
  call1 = call1
  call2 = call2
  call3 = call3
  NoOwner = NoOwner
  Key <- MCKey
  Address <- MCAddress
  ZeroKey = k0
  ZeroAddress = a0
  InitArgs <- SomeTreasuries
  UpdateArgs <- ToOneSignature
  Transfer <- TopUps
  CleanupLimits <- NoLimits
  MAX_QUEUED_REQUESTS = 3
  MAX_CUSTODIAN_COUNT = 3
  EXPIRATION_TIME = 1
  DEFAULT_CLEANUP = 2
  LT_SPAN = 2
  MAX_TIME = 2
  Call <- ThreeCalls
  CustodianOf <- SameCustodian
  TransferOf <- SameTopUp
  Other <- OtherCustodians
  POLL_SECONDS = 0
  MESSAGE_LIFE = 1
  MAX_RESTARTS = 1
INVARIANTS
  TopUpsKeptApart
PROPERTIES
  NeverReleasedBySubmit
SYMMETRY CallsAreAlike
