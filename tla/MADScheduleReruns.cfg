SPECIFICATION FairSpec
CONSTANTS
  MaxOutstanding = 1
  Retries = 1
  MaxCtx = 2
  MaxTid = 2
  MaxNest = 2
  MaxDepth = 0
  MaxRuns = 2
INVARIANT ResumedWithItsAnswer
PROPERTY RpcSpec
PROPERTY EveryRunEnds
CHECK_DEADLOCK FALSE
