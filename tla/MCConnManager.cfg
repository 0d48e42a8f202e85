SPECIFICATION FairSpec
CHECK_DEADLOCK FALSE
CONSTANTS
  Conn = {c1, c2, c3, c4}
  Null = Null
  MaxConns = 1
  FirstCapacity = 2
INVARIANTS
  TypeOK
  SlotsExact
PROPERTIES
  ShutdownFreesAll
