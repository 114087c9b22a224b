SPECIFICATION Spec
CONSTANTS
  MaxViews = 2
  MaxAsked = 2
  MaxAnchors = 2
INVARIANTS
  TypeOK
  NeverMoreThanAsked
  HiddenWithAnchor
PROPERTIES
  AnchorIsRetried
  PointRequestEnds
