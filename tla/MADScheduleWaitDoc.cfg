SPECIFICATION Spec
CONSTANTS
  MaxOutstanding = 2
  Retries = 0
  MaxCtx = 3
  MaxTid = 2
  MaxNest = 2
  MaxDepth = 0
  MaxRuns = 1
INVARIANT WaitsForSpawned
CHECK_DEADLOCK FALSE
