SPECIFICATION Spec
CONSTANTS
  Depth = 2
  MaxSendWr = 1
  MaxRecvWr = 2
  Retries = 0
  MaxTid = 1
  MaxForeign = 2
  MaxEvents = 1
INVARIANT ErrorNamesItsQueue
CHECK_DEADLOCK FALSE
