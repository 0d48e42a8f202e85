SPECIFICATION MCSpec
CHECK_DEADLOCK FALSE
CONSTANTS
  ByteRange = 256
  VR_MAGIC = 22409
  VR_PROTOCOL_VERSION = 1
  VR_PKT_ERROR = 9
  FlagRange = 4
INVARIANTS
  RoundTrip
  UnitsAgree
