SPECIFICATION FairSystemSpec
CONSTANTS
  s1 = s1
  t1 = t1
  t2 = t2
  u1 = u1
  SessionIds = {s1}
  NoSession = NoSession
  MaxSessions = 1
  Ttls = {1, 2}
  MaxClock = 2
  MaxUses = 0
  TunnelIds = {t1, t2}
  NoTunnel = NoTunnel
  Tools = {u1}
  Kinds = {"local", "remote"}
INVARIANTS
  ListenerDoneMeansClosed
  GaugeRight
PROPERTIES
  ImplementsSessionManager
CHECK_DEADLOCK FALSE
