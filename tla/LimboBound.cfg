SPECIFICATION LimboSpec
CONSTANTS
  MaxKeys = 3
  MaxConcurrent = 2
  MaxUpdates = 4
INVARIANT ResolutionsBounded
CHECK_DEADLOCK FALSE
