SPECIFICATION Spec
CONSTANTS
  n1 = n1
  n2 = n2
  n3 = n3
  n4 = n4
  good = good
  Addr <- MCAddr
  Configs <- MCConfigs
  MAX_ACTIVE = 2
  COOLDOWN = 3
  Reliable <- OnlyGood
  Unreachable <- FourUnreachable
  LIFE = 0
  MAX_RELOADS = 1
INVARIANTS
  PoolKeepsRunning
