SPECIFICATION ListenersSpec
CONSTANTS
  u1 = u1
  cb1 = cb1
  cb2 = cb2
  Users <- MCUsers
  Callers <- MCCallers
  Callback <- MCCallback
  Nobody = Nobody
  MaxSockets = 2
  AutoReconnect = TRUE
  MaxAttempts = 2
  Tunings <- SwitchOff
SYMMETRY Symmetry
INVARIANTS
  ListenersKept
  RemovedAreSilent
