SPECIFICATION Ipv6TestSpec
CONSTANTS
  Strides = 32
  Value = {v1, v2}
  None = None
  Nets <- TestNets
  Addrs <- TestAddrs
  DropMayPanic = FALSE
  Ips <- Ips6
  OpNets = {}
  MaxOps = 0
SYMMETRY ValueSymmetry
INVARIANTS
  AssertionsHold
