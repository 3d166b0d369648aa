SPECIFICATION Spec
CONSTANTS
  Gates = {"credential"}
  Policies <- MCPolicies
  Ledgers <- MCLedgers
  PoolLevels <- MCPoolLevels
  MaxTime = 2
  MaxMoves = 2
  MaxSlots = 1
  ReadyAt = 1
  DrawLimit = 1
  RatioNum = 3
  RatioDen = 2
  ReadsMayFail = TRUE
INVARIANT TypeOK
PROPERTIES PromiseKept ConformanceAgrees SlotsForValidClaims
