SPECIFICATION Spec
CONSTANTS
  Addrs <- MCAddrs
  LineSize = 3
  QueueSize = 3
  MaxOps = 5
  NoBranch = NoBranch
INVARIANTS ConsecutiveOps
CHECK_DEADLOCK FALSE
