SPECIFICATION FairSASpec
CONSTANTS
  None = None
  NoReply = NoReply
  Raised = Raised
  ErrorMAD <- Busted
  Permissive = Permissive
  Request <- MCRequest
  ClassOf <- MCClassOf
  Answers <- MCAnswers
  Size <- MCSize
  Path <- MCPath
  Timeout <- MCTimeout
  Half = 1
  Retries = 1
  MaxCalls = 3
  MaxFails = 1
  Hops <- MCHops
  DLID <- MCDLID
  drDLID <- MCdrDLID
  SAPath = "sa"
  PortSAPath = "sa"
  LocalLid = 1
  Noted <- MCNoted
  Switches <- MCSwitches
  Link <- MCLink
  Recorded <- MCRecorded
  Gets <- MCGets
INVARIANTS TypeOK NeverEAGAIN AsDirect
PROPERTIES Exchanges GetsEnd
CHECK_DEADLOCK FALSE
