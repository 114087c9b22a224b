SPECIFICATION Spec
CONSTANTS
  MaxBoxes = 3
  MaxAnchors = 2
  MaxStep = 4
  CoolDownTicks = 2
INVARIANTS
  TypeOK
  CoolDownHasItsReset
  NoStopSkipped
PROPERTIES
  AnnouncesRoute
  CurrentIsAnnounced
