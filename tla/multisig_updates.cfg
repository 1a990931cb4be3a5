SPECIFICATION Spec
CONSTANTS
  k0 = k0
  k1 = k1
  k2 = k2
  a0 = a0
  a1 = a1
  dest = dest
  NoOwner = NoOwner
  Key <- MCKey
  Address <- MCAddress
  ZeroKey = k0
  ZeroAddress = a0
  InitArgs <- UpdateInit
  UpdateArgs <- AllUpdates
  Transfer <- TransferKinds
  CleanupLimits <- ZeroLimit
  MAX_QUEUED_REQUESTS = 1
  MAX_CUSTODIAN_COUNT = 3
  EXPIRATION_TIME = 2
  DEFAULT_CLEANUP = 1
  LT_SPAN = 1
  MAX_TIME = 4
INVARIANTS
  ThresholdsSane
PROPERTIES
  OnlyLiveUpdatesApply
  ImplementsQuorumWallet
