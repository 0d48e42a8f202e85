SPECIFICATION FairSpec
CHECK_DEADLOCK FALSE
CONSTANTS
  HeaderSize = 3
  Words = 2
  WordBits = 2
  UInt8Range = 4
  Scripts <- Answered
  ClientHeader = 3
  RcvBuf = 5
  SndBuf = 3
  InitialSize = 2
  MaxSize = 4
  Avail = {4}
  Reliable = {TRUE}
PROPERTIES
  EveryPacketHandled
  EveryResponseDelivered
  PeerGoneIsNoticed
