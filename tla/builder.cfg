SPECIFICATION Spec
CONSTANTS
  Addrs <- MCAddrs
  LineSize = 3
  QueueSize = 3
  MaxOps = 5
  NoBranch = NoBranch
INVARIANTS ConsecutiveOnPath OneLinePerWindow ExactRange
PROPERTIES NothingLost
CHECK_DEADLOCK FALSE
