SPECIFICATION Spec
CONSTANTS
  Len = 4
  ExactAvailable = FALSE
  FullSkip = TRUE
  MarkSupported = TRUE
  MarkStrict = FALSE
  Throws = {"read", "available"}
  Capacity = 2
  Word = 6
  MaxSize = 3
  MaxOffset = 5
  Origins = {"beg"}
INVARIANT TypeOK
INVARIANT PositionAgrees
INVARIANT BufferIsTrue
PROPERTY IsRandomAccessFile
CHECK_DEADLOCK FALSE
