SPECIFICATION Spec
CONSTANTS
  Assoc = 3
  LineSize = 4
  Invalid = Invalid
  NoWindow = NoWindow
  Windows <- WindowsAndBypassed
  Weight <- MCWeight
  BypassMap <- MCBypassMap
  DynamicBypass = TRUE
  BypassRate = 666
  RemoveLock = 2
  MaxRrpv = 3
INVARIANTS TypeOK WholeWindows CodeAssertions
PROPERTIES OwnLinesStay EvictsLightestUnlessLocked ImplementsWindowCache InsertionProgress InsertionEnds
