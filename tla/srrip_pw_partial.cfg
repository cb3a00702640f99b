SPECIFICATION Spec
CONSTANTS
  Assoc = 3
  LineSize = 4
  Invalid = Invalid
  NoWindow = NoWindow
  Windows <- AllWindows
  MaxRrpv = 3
INVARIANTS WholeWindows
