SPECIFICATION Spec
CONSTANTS
  Length = 2
  RowsPerStrip = 2
  Planes = 2
  Counts = {0, 1, 3}
  Unit = 2
  MayRunOut = TRUE
  ShortReads = TRUE
  MayBeCorrupt = TRUE
INVARIANT TypeOK
INVARIANT RowAsAsked
INVARIANT StripAsAsked
INVARIANT BufferKept
INVARIANT DecodesInBuffer
CHECK_DEADLOCK FALSE
