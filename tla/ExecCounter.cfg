SPECIFICATION Spec
CHECK_DEADLOCK FALSE
CONSTANTS
  Cpu = {c1, c2, c3}
  Pid = {p1, p2, p3}
  MaxEntries = 2
  MaxExecs = 3
INVARIANTS
  NeverOvercounts
  CountedExactly
