SPECIFICATION FairSpec
CONSTANTS
  s1 = s1
  s2 = s2
  s3 = s3
  SessionIds = {s1, s2, s3}
  NoSession = NoSession
  MaxSessions = 1
  Ttls = {1}
  MaxClock = 2
  MaxUses = 1
PROPERTIES
  AdmissionSettles
  StaleSessionsLeave
  DestroyReturns
  ImplementsPool
CHECK_DEADLOCK FALSE
