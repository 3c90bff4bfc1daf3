SPECIFICATION Spec
CONSTANTS
  Strides = 2
  Value = {v1}
  None = None
  Nets <- NetsPanic
  Addrs <- AddrsPanic
  DropMayPanic = FALSE
INVARIANTS
  LookupVisitsAtMostStrides
