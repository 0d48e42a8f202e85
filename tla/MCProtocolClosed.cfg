SPECIFICATION Spec
CONSTANTS
  Words = 3
  WordBits = 2
  UInt8Range = 6
INVARIANT
  ClosedHasNoStream
