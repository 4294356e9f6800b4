SPECIFICATION Spec
CONSTANTS
  Keys = {k1, k2}
  Values = {v1}
  NoValue = NoValue
  Operators = {o1, o2}
  Client = Client
  Paths = {p1}
  NoFile = NoFile
  MaxLog = 3
  MaxWrites = 2
  MaxResets = 2
  FaultSets = {{"client", "overlap"}, {"client", "disk", "process", "power"}, {"client", "write", "remove", "reopen", "process"}, {"client", "corrupt"}, {"client", "leader", "process"}, {"dirent", "power", "overlap"}}
SYMMETRY Symmetry
INVARIANTS TypeOK NothingPastPoint LoadedWasTaken AckedIsRestorable RestoredIsBackup
CHECK_DEADLOCK FALSE
