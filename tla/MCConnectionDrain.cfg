SPECIFICATION Spec
CHECK_DEADLOCK FALSE
CONSTANTS
  HeaderSize = 3
  Words = 2
  WordBits = 2
  UInt8Range = 4
  Scripts <- Large
  ClientHeader = 3
  RcvBuf = 9
  SndBuf = 4
  InitialSize = 3
  MaxSize = 6
  Avail = {6}
  Reliable = {TRUE}
INVARIANTS
  ReadsDrained
