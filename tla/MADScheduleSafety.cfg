SPECIFICATION Spec
CONSTANTS
  MaxOutstanding = 2
  Retries = 1
  MaxCtx = 3
  MaxTid = 2
  MaxNest = 2
  MaxDepth = 0
  MaxRuns = 1
INVARIANT TypeOK
INVARIANT OneHome
INVARIANT NoLostWakeup
INVARIANT CleanRunCompletes
CHECK_DEADLOCK FALSE
