SPECIFICATION Spec
CONSTANTS
  Members = {m1}
  Limit = 2
  MaxRecords = 2
  MaxCommits = 2
  FaultSets = {{"power"}}
INVARIANTS AtLeastOnce
CHECK_DEADLOCK FALSE
