SPECIFICATION FairSpec
CONSTANTS
  n1 = n1
  n2 = n2
  n3 = n3
  n4 = n4
  good = good
  Addr <- MCAddr
  Configs <- MCConfigs
  MAX_ACTIVE = 2
  COOLDOWN = 4
  Reliable <- OnlyGood
  Unreachable <- FourUnreachable
  LIFE = 2
  MAX_RELOADS = 2
INVARIANTS
  SubscribersAreOfNodes
  SlotsFilled
PROPERTIES
  NodesRestBeforeReconnect
  ReloadTakesEffect
  FailoverReachesGoodNode
