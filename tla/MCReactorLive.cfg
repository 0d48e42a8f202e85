SPECIFICATION FairSpec
CHECK_DEADLOCK FALSE
CONSTANTS
  Client = {c1, c2}
  Conn = {p1, p2}
  Listener = Listener
  Null = Null
  MaxConns = 1
  FirstCapacity = 2
  NFds = 8
  Inherited = {0, 1, 2}
  MaxEvents = 1
  Large = {c1}
  MayFail = FALSE
PROPERTIES
  BacklogServed
  GoneIsNoticed
  ShutdownHonoured
