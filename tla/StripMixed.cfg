SPECIFICATION Spec
CONSTANTS
  Length = 3
  RowsPerStrip = 2
  Planes = 1
  Counts = {0, 1}
  Unit = 2
  MayRunOut = FALSE
  ShortReads = FALSE
  MayBeCorrupt = FALSE
INVARIANT RowAlwaysAsAsked
CHECK_DEADLOCK FALSE
