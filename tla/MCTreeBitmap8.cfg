SPECIFICATION Spec
CONSTANTS
  Strides = 2
  Value = {v1, v2}
  None = None
  Nets <- Nets8
  Addrs <- Addrs8
  DropMayPanic = FALSE
SYMMETRY ValueSymmetry
INVARIANTS
  TypeOK WellLinked Anchored NoDeadNodes CountExact BestSoFar HistoryFree
PROPERTIES
  ImplementsRoutingTable
  PruneOnlyDead
