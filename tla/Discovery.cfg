SPECIFICATION FairSpec
CONSTANTS
  None = None
  Device <- MCDevice
  Kind <- MCKind
  NumPorts <- MCNumPorts
  Link <- MCLink
  Lid <- MCLid
  Lmc <- MCLmc
  Local <- MCLocal
  Shy <- MCShy
  Late <- MCLate
  Sorted <- MCSorted
  Items <- MCItems
  Routings <- MCRoutings
  MaxCopies = 2
  Window = 2
  MaxDepth = 4
  MaxTodo = 2
  MaxHops = 4
INVARIANTS TypeOK IndexesAgree OneNodePerDevice TopologyIsTrue PathsLeadThere LoadedIsThere RoutesLeadThere ReadOnce
PROPERTIES NoneLeftAsleep LoadEnds
