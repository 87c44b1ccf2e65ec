SPECIFICATION FairSpec
CONSTANTS
  h1 = h1
  h2 = h2
  Free = Free
  Handlers = {h1, h2}
  LockTtl = 1
  Lives = {0, 2}
  MaxLife = 2
  DefaultLife = 2
  RefreshLives = {0, 2}
  DefaultRefresh = 4
  Margin = 2
  MinMargin = 1
  Buffer = 0
  MinTtl = 1
  MaxTtl = 3
  MaxFaults = 1
  MaxSeeds = 1
INVARIANTS NoReplay StoredTokenRedeemable RefreshTokenOutlived
PROPERTIES FailureNotRepeated EventuallyAuthenticated
CHECK_DEADLOCK FALSE
