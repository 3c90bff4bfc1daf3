SPECIFICATION IterSpec
CONSTANTS
  Strides = 2
  Value = {v1, v2}
  None = None
  Nets <- NetsIter
  Addrs <- AddrsIter
  DropMayPanic = FALSE
SYMMETRY ValueSymmetry
INVARIANTS
  IterTypeOK FramesOnPath StackWithinCapacity ShiftsInRange DepthFirst
PROPERTIES
  ImplementsIteration
