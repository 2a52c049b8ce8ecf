SPECIFICATION ManagerSpec
CONSTANTS
  c1 = c1
  c2 = c2
  Nobody = Nobody
  Callers <- MCCallers
  MaxSockets = 3
PROPERTY ResolvesConnected
