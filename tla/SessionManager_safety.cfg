SPECIFICATION Spec
CONSTANTS
  s1 = s1
  s2 = s2
  s3 = s3
  s4 = s4
  SessionIds = {s1, s2, s3, s4}
  NoSession = NoSession
  MaxSessions = 2
  Ttls = {1}
  MaxClock = 2
  MaxUses = 1
SYMMETRY Symmetry
INVARIANTS
  SlotsAccounted
  CapacityRespected
  EvictionSound
  NothingOutlivesSession
PROPERTY ClosedOnce
CHECK_DEADLOCK FALSE
