SPECIFICATION LimboSpec
CONSTANTS
  MaxKeys = 3
  MaxConcurrent = 2
  MaxUpdates = 4
INVARIANTS
  LimboTypeOK
  ResolutionsInOrder
PROPERTY LimboEnds
CHECK_DEADLOCK FALSE
