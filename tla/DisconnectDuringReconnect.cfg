SPECIFICATION Spec
CONSTANTS
  u1 = u1
  Users <- MCUsers
  Callers <- MCCallers
  Nobody = Nobody
  MaxSockets = 3
  AutoReconnect = TRUE
  MaxAttempts = 2
  Tunings <- SwitchOff
INVARIANT DisconnectIsFinal
