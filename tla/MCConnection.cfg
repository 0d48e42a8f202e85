SPECIFICATION Spec
CHECK_DEADLOCK FALSE
CONSTANTS
  HeaderSize = 3
  Words = 2
  WordBits = 2
  UInt8Range = 4
  Scripts <- Traffic
  ClientHeader = 3
  RcvBuf = 8
  SndBuf = 4
  InitialSize = 3
  MaxSize = 6
  Avail = {0, 3, 6}
  Reliable = {TRUE, FALSE}
INVARIANTS
  TypeOK
  UnsentBytesAreArmed
  DeferredPacketsResume
  ResponsesIntact
  PacketsIntact
PROPERTIES
  LostOnlyWhenFull
  ClosedForCause
  ServesSession
