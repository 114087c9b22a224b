SPECIFICATION Spec
CONSTANTS
  Words = {left}
  NoDoc = NoDoc
  MaxId = 1
  MaxPlaces = 2
  MaxDirections = 1
  MaxPoints = 1
INVARIANTS
  TypeOK
  PlacesAreSafe
  OpenPlaceIsRight
PROPERTIES
  FileIdsKept
  UploadIsRight
  PointReachesFile
