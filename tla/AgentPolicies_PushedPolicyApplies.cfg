SPECIFICATION PolicySpec
CONSTANTS
  c1 = c1
  c2 = c2
  a1 = a1
  p1 = p1
  p2 = p2
  Conns = {c1, c2}
  Agents = {a1}
  NoConn = NoConn
  NoAgent = NoAgent
  MaxConnections = 2
  MaxPerAgent = 2
  MaxRestarts = 1
  Patches = {p1, p2}
  NoPatch = NoPatch
  MayBeLate = FALSE
PROPERTY PushedPolicyApplies
CHECK_DEADLOCK FALSE
