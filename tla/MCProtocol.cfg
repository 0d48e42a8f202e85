SPECIFICATION Spec
CONSTANTS
  Words = 3
  WordBits = 2
  UInt8Range = 6
INVARIANTS
  TypeOK
  CountMatchesBitmap
PROPERTIES
  OpenGivesFreshStream
