SPECIFICATION Spec
CONSTANTS
  Callers = {c1, c2, c3}
  Readers = {}
  Values = {v1, v2}
  ReadLimit = 2
  MaxRecords = 4
  Faults = {"write", "sync", "power", "corrupt"}
SYMMETRY Symmetry
INVARIANTS TypeOK AckedDurable WaitersHaveALeader CloseExcludesSync PositionsDense
PROPERTY Implements
CHECK_DEADLOCK FALSE
