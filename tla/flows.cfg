SPECIFICATION FlowsSpec
CONSTANTS
  Hash = {b1, b2, b3}
  Matching = {b1, b2}
  Connection = {c1, c2}
  Garbage = Garbage
  CAPACITY = 2
  CHANNEL = 1
  MAX_RECEIVED = 6
  MAX_QUEUED = 2
  Deployer = {"d1", "d2"}
  Terms = {"t1", "t2"}
  MAX_DEPLOYS = 3
  Message <- SomeMessages
  PAGE = 2
  MAX_FIRST = 2
  MAX_LAG = 1
  MAX_LOG = 3
  MAX_RESTARTS = 1
  Onboarder = {"o1", "o2"}
  LAYERS = 2
  MAX_NOTES = 3
  LAST_GENERATION = 2
  MAX_STARTS = 3
  Kind = {"Generic", "V1", "V2"}
  ForwardOnly = {"Generic"}
  Wallet = {w1, w2}
  Caller = {p1, p2}
  MAX_CALLS = 1
  WINDOW = 3
  MAX_DELAY = 1
  MAX_TIME = 6
INVARIANTS
  BatchesAccountedFor
  DuplicatesAreRecent
  PointersNameLots
  CaughtUpIsComplete
  MintingIsSerial
  GasFollowsTheNote
  RestartsLoseNothing
  NoFalseSuccess
PROPERTIES
  ExitCompletes
  DeployCallsEnd
  StreamIsTheFeed
  ShortIsConfirmed
  LimiterHolds
CHECK_DEADLOCK FALSE
