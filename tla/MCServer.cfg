SPECIFICATION ServerSpec
CONSTANTS
  HttpIds = {i1, i2, i3}
  HttpMax = 1
  HttpIdleTtl = 1
  HttpMaxClock = 2
  CallSessions = {s1}
  NoCallSession = NoCallSession
  GlobalKey = GlobalKey
  GlobalMax = 3
  GlobalWindow = 2
  SessionMax = 1
  SessionWindow = 3
  MaxCalls = 5
  LimitMaxClock = 4
  TxIds = {t1, t2}
  Browsers = {b1, b2}
  NoTx = NoTx
  OAuthClients = {c1, c2}
  Verifiers = {v1}
  NoGrantor = NoGrantor
  Peers = {p1}
  MaxOAuthClients = 1
  PeerMax = 1
  PeerWindow = 1
  CodeTtl = 1
  OAuthMaxClock = 2
  Logins = {l1, l2}
  WebBrowsers = {w1, w2}
  NoLogin = NoLogin
  LoginTtl = 1
  WebSessionTtl = 1
  WebMaxClock = 2
  Messages = {m1, m2}
  NonceTtl = 2
  FutureSkew = 1
  MaxSeen = 1
  MaxVersion = 2
  MaxRepeats = 2
  WindowMaxClock = 4
INVARIANTS
  RegistryMatches
  ClosedStaysDown
  LimitsAreExact
  OneTokenPerApproval
  OneSessionPerLogin
  RepeatsAreKnown
PROPERTY
  CloseReturns
CHECK_DEADLOCK FALSE
