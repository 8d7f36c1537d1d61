SPECIFICATION FairSpec
CONSTANTS
  Depth = 2
  MaxSendWr = 1
  MaxRecvWr = 2
  Retries = 1
  MaxTid = 2
  MaxForeign = 1
  MaxEvents = 1
INVARIANT TypeOK
INVARIANT BufferInOnePlace
INVARIANT ReceivesStayPosted
INVARIANT QueuesFit
INVARIANT NoMissedCompletion
PROPERTY RpcSpec
PROPERTY EveryCallEnds
CHECK_DEADLOCK FALSE
