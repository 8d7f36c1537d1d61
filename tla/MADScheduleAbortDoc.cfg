SPECIFICATION Spec
CONSTANTS
  MaxOutstanding = 2
  Retries = 0
  MaxCtx = 3
  MaxTid = 2
  MaxNest = 1
  MaxDepth = 0
  MaxRuns = 2
INVARIANT RunCompletesItsWork
CHECK_DEADLOCK FALSE
