SPECIFICATION Spec
CONSTANTS
  MaxFrames = 3
  Labels = {"door", "stairs"}
  Depths = {1, 2}
INVARIANTS
  TypeOK
  LastImageWins
PROPERTIES
  ScreenCatchesUp
