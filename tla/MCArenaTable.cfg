SPECIFICATION Spec
CONSTANTS
  Strides = 1
  Value = {v1, v2}
  None = None
  Nets <- NetsArena
  Addrs <- AddrsArena
  DropMayPanic = TRUE
  NULL = 15
  MaxNodes = 9
CHECK_DEADLOCK FALSE
INVARIANTS
  ArenaTypeOK LinksForward PrunedIsBlank NoEmptyNodes FramesLinked ArenaBestSoFar
PROPERTIES
  ArenaImplementsTable ArenaResponds
