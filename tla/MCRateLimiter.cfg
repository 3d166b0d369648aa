CONSTANTS
  Tokens = {t1, t2, t3}
  Threads = {}
  WindowS = 2
  MaxAttempts = 2
  MaxEntries = 2
  EvictCount = 1
  MaxTime = 5
  MaxCalls = 3
SYMMETRY TokenSymmetry
SPECIFICATION Spec
INVARIANTS
  TypeOK
  WindowBound
  RefusalJustified
  DictBounded
CHECK_DEADLOCK FALSE
