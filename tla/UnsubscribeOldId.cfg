SPECIFICATION Spec
CONSTANTS
  k1 = k1
  k2 = k2
  Keys <- OneKey
  MaxSockets = 2
  MaxRequests = 2
INVARIANT UnsubscribedKeyIsSilent
CHECK_DEADLOCK FALSE
