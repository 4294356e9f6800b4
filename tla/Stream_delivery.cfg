SPECIFICATION FairSpec
CONSTANTS
  Members = {m1, m2}
  Limit = 2
  MaxRecords = 3
  MaxCommits = 3
  FaultSets = {{}, {"sync", "member", "process"}, {"sync", "power", "wipe"}}
INVARIANTS TypeOK NothingSkipped OffsetsDoNotRollBack
PROPERTIES EventuallyProcessed
CHECK_DEADLOCK FALSE
