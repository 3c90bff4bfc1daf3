SPECIFICATION Spec
CONSTANTS
  Strides = 3
  MaxOnes = 4
CHECK_DEADLOCK FALSE
INVARIANTS
  RankAgrees HitAgrees ScanAgrees PathAgrees EntryAgrees
