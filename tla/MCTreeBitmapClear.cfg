SPECIFICATION Spec
CONSTANTS
  Strides = 2
  Value = {v1, v2}
  None = None
  Nets <- NetsPanic
  Addrs <- AddrsPanic
  DropMayPanic = TRUE
INVARIANTS
  CompactValues
