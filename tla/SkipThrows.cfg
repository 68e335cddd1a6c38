SPECIFICATION Spec
CONSTANTS
  Len = 4
  ExactAvailable = FALSE
  FullSkip = TRUE
  MarkSupported = TRUE
  MarkStrict = FALSE
  Throws = {"skip"}
  Capacity = 2
  Word = 32
  MaxSize = 3
  MaxOffset = 5
  Origins = {"beg"}
INVARIANT SkipExceptionSeen
CHECK_DEADLOCK FALSE
