SPECIFICATION ToolsSpec
CONSTANTS
  Account = {"a1", "a2"}
  External = "external"
  Block <- TwoBlocks
  AbiFile <- OneAbi
  GlobalAbis <- OtherAbi
  NoName = "unknown"
  Configured <- SharedRule
  Wish <- AllOrFunding
  MAX_RULES = 2
  ServerToken <- TwoBytes
  Header <- Around
  Task = {"t1", "t2"}
  Operation = {"upsert", "get", "list", "ingest"}
  MAX_CALLS_MADE = 3
  MAX_RESTARTS = 1
  Worker = {"call1", "call2"}
  Roles <- TwoRoles
  MAX_PAIRS = 3
  MAX_WALLETS = 2
  Buyer = {"b1", "b2"}
  User = {"b2"}
  BUDGET = 2
  Amount = {1, 2}
  Price = {1, 2}
  MAX_PLACED = 3
  Writer = {"first", "second"}
  PackageOf <- Shrinking
  Chunk = {"a", "b", "c"}
  Empty = "empty"
  MAX_CHUNKS = 2
  MAX_TRIES = 2
INVARIANTS
  FactsTellMessagesApart
  HonestContract
  OutcomesAreTrue
  WalletsStayUsable
  SnapshotIsConsistent
  PackagesPersist
  SettledReadsAreWhole
PROPERTIES
  SubscriptionsHold
  PaymentsAreHonest
CHECK_DEADLOCK FALSE
