SPECIFICATION FairSpec
CONSTANTS
  Callers = {c1, c2, c3}
  Readers = {r1}
  Values = {v1}
  ReadLimit = 2
  MaxRecords = 3
  Faults = {"write", "sync"}
INVARIANT ObservedStable
PROPERTY CallsReturn
CHECK_DEADLOCK FALSE
