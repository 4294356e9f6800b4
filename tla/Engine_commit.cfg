SPECIFICATION Spec
CONSTANTS
  Keys = {k1, k2}
  Values = {v1}
  IdemKeys = {i1}
  NoIdem = NoIdem
  NoValue = NoValue
  Clients = {c1, c2}
  TTLs = {1}
  MaxLog = 3
  MaxTime = 2
  FaultSets = {{"reopen", "process", "power"}, {"write", "sync", "remove", "power", "wipe"}, {"clock", "process", "write"}, {"power", "remove", "wipe"}}
SYMMETRY Symmetry
INVARIANTS TypeOK StateMatchesStream CommittedOnce NoLostUpdate AckedSurvives VisibleIsDurable
PROPERTIES ImplementsKeyValue
CHECK_DEADLOCK FALSE
