SPECIFICATION Spec
CONSTANTS
  MaxOutstanding = 2
  Retries = 0
  MaxCtx = 3
  MaxTid = 3
  MaxNest = 1
  MaxDepth = 1
  MaxRuns = 2
INVARIANT TimerPerKey
INVARIANT WindowBound
INVARIANT ResumedWithItsAnswer
CHECK_DEADLOCK FALSE
