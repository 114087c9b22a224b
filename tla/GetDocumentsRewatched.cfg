SPECIFICATION AnsweringSpec
CONSTANTS
  MaxGets = 2
  MaxFaults = 0
PROPERTY SyncedMeansCurrent
CHECK_DEADLOCK FALSE
