SPECIFICATION Spec
CONSTANTS
  Byte = {b1, b2}
  Uninit = Uninit
  InitialSize = 2
  MaxSize = 5
  PosRange = 5
  HeaderPad = 1
  MaxSpan = 2
SYMMETRY Symmetry
INVARIANTS
  TypeOK
  RingInv
  NeverTorn
  EnqueueAppends
  RecvSeesAllRoom
  ReserveIsLoop
PROPERTIES
  ErrorKeepsContents
  Fifo
