SPECIFICATION FairSpec
CONSTANTS
  Loans = {l1, l2}
  ConfirmCount = 2
  MaxStream = 1
INVARIANT TypeOK
PROPERTIES NoFalseDefault NoCandidateLost DefaultReported StopReturns
CHECK_DEADLOCK FALSE
