SPECIFICATION Spec
CONSTANTS
  c1 = c1
  c2 = c2
  c3 = c3
  c4 = c4
  a1 = a1
  a2 = a2
  Conns = {c1, c2, c3, c4}
  Agents = {a1, a2}
  NoConn = NoConn
  NoAgent = NoAgent
  MaxConnections = 3
  MaxPerAgent = 2
  MaxRestarts = 1
SYMMETRY Symmetry
INVARIANTS
  ClaimsWithinLimits
  ServedProperly
PROPERTY RevocationSticks
CHECK_DEADLOCK FALSE
