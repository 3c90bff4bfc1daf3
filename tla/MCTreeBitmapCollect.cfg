SPECIFICATION CollectSpec
CONSTANTS
  Strides = 3
  Value = {v1, v2}
  None = None
  Nets <- NetsCollect
  Addrs <- AddrsCollect
  DropMayPanic = FALSE
INVARIANTS
  RoundTrip
PROPERTIES
  ImplementsFairIteration CollectEnds
