SPECIFICATION FuzzSpec
CONSTANTS
  Strides = 3
  Value = {v1}
  None = None
  Nets <- FuzzNets
  Addrs <- FuzzAddrs12
  DropMayPanic = FALSE
  FuzzAddrs <- FuzzAddrs12
  FuzzLens = {0, 5, 9, 12, 255}
INVARIANTS
  NoPanic FramesValid
PROPERTIES
  ImplementsFairRoutingTable Responds
