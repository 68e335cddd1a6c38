SPECIFICATION FairSpec
CONSTANTS
  Len = 5
  ExactAvailable = TRUE
  FullSkip = TRUE
  MarkSupported = TRUE
  MarkStrict = TRUE
  Throws = {}
  Capacity = 2
  Word = 22
  MaxSize = 5
  MaxOffset = 6
  Origins = {"beg"}
INVARIANT RewindWithinMark
PROPERTY CompleteReads
PROPERTY RequestsAnswered
CHECK_DEADLOCK FALSE
