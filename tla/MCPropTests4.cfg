SPECIFICATION TestSpec
CONSTANTS
  Strides = 8
  Value = {v1, v2}
  None = None
  Nets <- TestNets
  Addrs <- TestAddrs
  DropMayPanic = FALSE
  Ips <- Ips4
  OpNets <- OpNets4
  MaxOps = 2
INVARIANTS
  AssertionsHold
PROPERTIES
  TestsEnd
