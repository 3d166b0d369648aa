CONSTANTS
  Tokens = {t1}
  Threads = {a, b}
  WindowS = 2
  MaxAttempts = 2
  MaxEntries = 2
  EvictCount = 1
  MaxTime = 5
  MaxCalls = 5
SPECIFICATION ThreadedSpec
INVARIANT DocstringBound
CHECK_DEADLOCK FALSE
