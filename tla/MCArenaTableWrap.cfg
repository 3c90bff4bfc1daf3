SPECIFICATION Spec
CONSTANTS
  Strides = 1
  Value = {v1}
  None = None
  Nets <- NetsSmall
  Addrs <- AddrsSmall
  DropMayPanic = FALSE
  NULL = 7
  MaxNodes = 12
CHECK_DEADLOCK FALSE
INVARIANTS
  InsertedIsContained
