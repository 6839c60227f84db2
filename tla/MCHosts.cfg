SPECIFICATION HostsSpec
CONSTANTS
  Runs = {r1, r2}
  Pids = {p1, p2}
  NoPid = NoPid
  Writers = {w1, w2}
  Readers = {d1}
  OldFile = OldFile
  LogEvents = 7
  MaxLines = 1
  MaxArchives = 2
  LogTail = 1
  FileCalls = {c1, c2}
  TempNames = {n1}
  SizeLimit = 1
  MaxBlocks = 2
  OutputChunks <- MCChunks
  MaxOutput = 3
  MaxBytes = 3
  MarkerBytes = 1
  MaxChunks = 2
  EnsureCalls = {c1, c2}
  FileLines = {l1, l2}
  NoLine = NoLine
  PatchLine = l2
  Segments = {"a", "b"}
  PathLength = 2
  ListedPrefixes <- MCPrefixes
  DefaultAllow <- MCDefault
  LoginDirs <- MCLoginDirs
  LocalLinks <- MCLinks
  Hosts = {h1, h2}
  HostLists <- MCHostLists
  PortLists <- MCPortLists
  LastPort = 1
  Opens = {o1, o2}
  HostKeys = {"k1", "k2"}
  OpenRequests <- MCRequests
  KnownHostsFiles <- MCFiles
  DefaultKeyFiles <- MCKeyFiles
  Lookups = {l1, l2, l3}
  NoLookup = NoLookup
  HostAliases = {"web"}
  Covers <- MCCovers
  Options = {"hostname", "user"}
  Unset = Unset
  ConfigFiles <- MCConfigFiles
  ConfigTtl = 1
  ConfigMaxClock = 4
  Systems <- MCSystems
  OsCalls = {c1, c2}
INVARIANTS
  WritesAreWholeAndKept
  ActivityInOrder
  FilesAreReplacedAtOnce
  OutputIsAccountedFor
  SuccessIsReal
  ApprovalsAreSound
  OneKeyPerEndpoint
  LookupsFollowTheFile
  OsIsTheHosts
PROPERTY
  CommandsEnd
CHECK_DEADLOCK FALSE
