SPECIFICATION Spec
CONSTANTS
  Addrs <- MCAddrs
  LineSize = 3
  QueueSize = 3
  MaxOps = 5
  NoBranch = NoBranch
INVARIANTS UopQueueInBounds
CHECK_DEADLOCK FALSE
