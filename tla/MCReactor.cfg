SPECIFICATION Spec
CHECK_DEADLOCK FALSE
SYMMETRY Symmetry
CONSTANTS
  Client = {c1, c2, c3}
  Conn = {p1, p2}
  Listener = Listener
  Null = Null
  MaxConns = 1
  FirstCapacity = 2
  NFds = 7
  Inherited = {0, 1, 2}
  MaxEvents = 2
  Large = {}
  MayFail = TRUE
INVARIANTS
  TypeOK
  BatchIsLive
  InterestExact
  DescriptorsOwned
  ClientsAccounted
  NoEventLost
  BacklogWaitsOnlyAfterError
PROPERTIES
  ManagerUsed
