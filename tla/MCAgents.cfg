SPECIFICATION AgentsSpec
CONSTANTS
  Conns = {c1, c2}
  Agents = {a1}
  NoConn = NoConn
  NoAgent = NoAgent
  MaxConnections = 2
  MaxPerAgent = 2
  MaxRestarts = 1
  Actions = {x1}
  Patches = {p1, p2}
  NoPatch = NoPatch
  MayBeLate = TRUE
  DeviceIds = {d1, d2}
  Aliases = {n1}
  DeviceKeys = {k1, k2}
  NoKey = NoKey
  Edits = {e1, e2}
  Jobs = {j1}
INVARIANTS
  RowsMatchPending
  VersionsAgree
  RowsTellService
  OneLife
PROPERTIES
  OutcomeIsFinal
  RevokedDoesNothing
  ActionsSettle
  ActingConnectionsLeave
CHECK_DEADLOCK FALSE
