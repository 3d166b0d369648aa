SPECIFICATION FairSpec
CONSTANTS
  Claims = {c1, c2}
  Workers = {w1}
  Payout = 2
  PoolDrops = 4
  DisputeTime = 1
  CancelTime = 3
  LockTTL = 1
  LastCreate = 0
  MaxTime = 4
  RatioNum = 3
  RatioDen = 2
INVARIANT SettledOnce
CHECK_DEADLOCK FALSE
