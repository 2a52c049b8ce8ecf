SPECIFICATION Spec
CONSTANTS
  k1 = k1
  k2 = k2
  k3 = k3
  k4 = k4
  k5 = k5
  Pubkey <- MCPubkey
  NoPayer = NoPayer
  MaxU8 = 3
  MaxReads = 5
SYMMETRY Interchangeable
INVARIANTS
  TableTypeOK
  TableIsUnion
  HeaderTellsFlags
  IndicesResolve
  RefusedOnlyIfTooBig
CHECK_DEADLOCK FALSE
