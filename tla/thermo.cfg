SPECIFICATION Spec
CONSTANTS
  Assoc = 3
  LineSize = 4
  Invalid = Invalid
  NoWindow = NoWindow
  Windows <- FewWindows
  Weight <- MCWeight
  MaxTime = 4
INVARIANTS WholeWindows CodeAssertions
PROPERTIES FirstVictimIsNoHotter ImplementsWindowCache
CHECK_DEADLOCK FALSE
