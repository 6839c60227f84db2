SPECIFICATION HostSpec
CONSTANTS
  EnsureCalls = {c1}
  FileLines = {l1, l2}
  NoLine = NoLine
  PatchLine = l2
INVARIANT OtherLinesStay
CHECK_DEADLOCK FALSE
