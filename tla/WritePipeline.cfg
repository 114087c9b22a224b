SPECIFICATION Spec
CONSTANTS
  MaxWrites = 4
  Refused = {2}
  MaxPendingWrites = 2
  MaxFaults = 3
INVARIANTS
  TypeOK
  LayersInOrder
  StreamIsAttended
PROPERTIES
  KeepsPromise
  EveryWriteSettles
CHECK_DEADLOCK FALSE
