SPECIFICATION Spec
CONSTANTS
  Keys = {k1, k2}
  Values = {v1}
  NoValue = NoValue
  Operators = {o1, o2}
  Client = Client
  Paths = {p1}
  NoFile = NoFile
  MaxLog = 3
  MaxWrites = 2
  MaxResets = 2
  FaultSets = {{"client"}}
SYMMETRY Symmetry
INVARIANTS PointIsExact
CHECK_DEADLOCK FALSE
