SPECIFICATION Spec
CONSTANTS
  shop = shop
  rival = rival
  Handler = {h1}
  Role = {agent}
  Stranger = {other}
  REQ = 2
  Dest <- TwoAccounts
  MAX_AMOUNT = 1
  GAS = 1
  Policy <- SomePolicies
  Change <- SomeChanges
  Asked <- SomeTransfers
  NoPolicy = NoPolicy
  NoLimit = NoLimit
  Unreadable = Unreadable
  Nobody = Nobody
  Idle = Idle
  MAX_TX = 2
  MAX_INFLIGHT = 1
INVARIANTS
  SignedWithinPolicy
  ReportedPolicyHolds
