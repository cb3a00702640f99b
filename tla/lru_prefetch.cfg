SPECIFICATION Spec
CONSTANTS
  Assoc = 3
  LineSize = 4
  Invalid = Invalid
  NoWindow = NoWindow
  Windows <- FewWindows
  MaxTime = 5
INVARIANTS WholeWindows
CHECK_DEADLOCK FALSE
