SPECIFICATION Spec
CONSTANTS
  Views = {v1, v2}
  NoView = nil
  Home = v1
  AlignWindow = 4
  PositionWindow = 2
INVARIANTS
  TypeOK
  SquareIsRight
  FollowsItsView
PROPERTIES
  NoFlicker
  Settles
