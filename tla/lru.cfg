SPECIFICATION Spec
CONSTANTS
  Assoc = 3
  LineSize = 4
  Invalid = Invalid
  NoWindow = NoWindow
  Windows <- FewWindows
  MaxTime = 4
INVARIANTS WholeWithoutPrefetch OneStampPerWindow
PROPERTIES ImplementsWithoutPrefetch
CHECK_DEADLOCK FALSE
