SPECIFICATION FairSpec
CONSTANTS
  Claims = {c1}
  Workers = {w1, w2}
  Payout = 2
  PoolDrops = 4
  DisputeTime = 3
  CancelTime = 5
  LockTTL = 2
  LastCreate = 0
  MaxTime = 6
  RatioNum = 3
  RatioDen = 2
INVARIANTS TypeOK LockedFinishesApart
PROPERTIES PaidAcrossDeadline HeldIsResolved
CHECK_DEADLOCK FALSE
