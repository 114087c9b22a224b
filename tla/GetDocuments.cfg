SPECIFICATION AnsweringSpec
CONSTANTS
  MaxGets = 2
  MaxFaults = 2
INVARIANTS
  TypeOK
  LayersAgree
  OneAnswerEach
PROPERTIES
  SnapshotOfPresentWatch
  GetsEnd
CHECK_DEADLOCK FALSE
