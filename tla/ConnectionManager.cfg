SPECIFICATION ManagerSpec
CONSTANTS
  c1 = c1
  c2 = c2
  Nobody = Nobody
  Callers <- MCCallers
  MaxSockets = 3
INVARIANTS
  ManagerTypeOK
  NoStuckConnecting
  SingleFlight
  NobodyForgotten
  NothingOrphaned
PROPERTIES
  ResolvesConnectedInTime
  EveryCallSettles
