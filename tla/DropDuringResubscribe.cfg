SPECIFICATION Spec
CONSTANTS
  k1 = k1
  k2 = k2
  Keys <- OneKey
  MaxSockets = 3
  MaxRequests = 3
INVARIANT NothingLost
CHECK_DEADLOCK FALSE
