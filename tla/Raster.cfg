SPECIFICATION Spec
CONSTANTS
  MaxWidth = 3
  MaxHeight = 3
  TileWidths = {2}
  TileLengths = {2}
  StripRows = {2}
  Orientations = {1, 2, 3, 4, 6}
  Samples = 3
  MaxFailures = 1
INVARIANT TypeOK
INVARIANT InPlace
INVARIANT RestUntouched
INVARIANT EdgeTiles
INVARIANT ToldOfFailures
PROPERTY Finishes
CHECK_DEADLOCK FALSE
