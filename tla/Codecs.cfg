SPECIFICATION Spec
CONSTANTS
  Values = {0, 1}
  RowSize = 6
  PackBitsLengths = {10}
  LzwLengths = {10}
  ForeignSize = 10
  RawSize = 8
  Limit = 4
  MaxCodes <- Codes
  CSIZE = 12
  CHECK_GAP = 3
  ForeignBits = 77
  Requests = {2, 5, 10}
  ForeignBytes = 3
  MakeUp = 2
  LongMakeUp = 4
  FaxRows <- Rows
  Damage = 1
INVARIANT TypeOK
INVARIANT RoundTrip
INVARIANT InBuffers
INVARIANT ReadAsWritten
INVARIANT NoLoopInTable
INVARIANT FillsTheRow
INVARIANT RowsRight
INVARIANT NoRowSkipped
PROPERTY CallsReturn
CHECK_DEADLOCK FALSE
