SPECIFICATION SystemSpec
CONSTANTS
  s1 = s1
  s2 = s2
  t1 = t1
  u1 = u1
  SessionIds = {s1, s2}
  NoSession = NoSession
  MaxSessions = 1
  Ttls = {1}
  MaxClock = 1
  MaxUses = 0
  TunnelIds = {t1}
  NoTunnel = NoTunnel
  Tools = {u1}
  Kinds = {"local", "remote"}
INVARIANT NoOrphanTunnel
CHECK_DEADLOCK FALSE
