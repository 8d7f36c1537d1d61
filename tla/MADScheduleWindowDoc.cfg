SPECIFICATION Spec
CONSTANTS
  MaxOutstanding = 1
  Retries = 0
  MaxCtx = 2
  MaxTid = 2
  MaxNest = 2
  MaxDepth = 0
  MaxRuns = 1
INVARIANT OutstandingAtMostMax
CHECK_DEADLOCK FALSE
