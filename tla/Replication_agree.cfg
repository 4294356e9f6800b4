SPECIFICATION Spec
CONSTANTS
  v1 = v1
  v2 = v2
  i1 = i1
  i2 = i2
  Keys = {k1}
  Values = {v1, v2}
  IdemKeys = {i1, i2}
  NoIdem = NoIdem
  NoValue = NoValue
  Nodes = {n1, n2}
  Settings <- MCSettings
  MaxDirect = 1
  MaxPositions = 3
  MaxTime = 2
SYMMETRY Symmetry
INVARIANTS TypeOK ReplicasAgree ContentsAgree AnswersAgree KeyedOnce AddedIsListed
CHECK_DEADLOCK FALSE
