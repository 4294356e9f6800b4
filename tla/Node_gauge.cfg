SPECIFICATION Spec
CONSTANTS
  Callers = {c1, c2}
  Settings <- Unordered
  Width = 3
  MaxLength = 6
INVARIANTS GaugeNeverLags
CHECK_DEADLOCK FALSE
