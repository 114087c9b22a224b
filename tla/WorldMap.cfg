SPECIFICATION Spec
CONSTANTS
  Places = {p1, p2}
  NoPlace = NoPlace
  MaxInFlight = 2
  MaxQueue = 3
  MaxPresses = 2
INVARIANTS
  TypeOK
  LoadButtonIsRight
PROPERTIES
  ButtonsComeToRest
