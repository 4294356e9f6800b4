SPECIFICATION Spec
CONSTANTS
  Keys = {k1}
  Values = {v1}
  IdemKeys = {i1}
  NoIdem = NoIdem
  NoValue = NoValue
  Clients = {c1, c2}
  TTLs = {0}
  MaxLog = 3
  MaxTime = 0
  FaultSets = {{"sync"}}
INVARIANTS OncePerKey
CHECK_DEADLOCK FALSE
