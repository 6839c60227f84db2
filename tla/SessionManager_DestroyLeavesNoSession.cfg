SPECIFICATION Spec
CONSTANTS
  s1 = s1
  s2 = s2
  SessionIds = {s1, s2}
  NoSession = NoSession
  MaxSessions = 1
  Ttls = {1}
  MaxClock = 2
  MaxUses = 1
INVARIANT DestroyLeavesNoSession
CHECK_DEADLOCK FALSE
