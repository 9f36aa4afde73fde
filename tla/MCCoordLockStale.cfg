SPECIFICATION MCSpec
CONSTANTS
  c1 = c1
  c2 = c2
  c3 = c3
  p1 = p1
  p2 = p2
  p3 = p3
  Callers = {c1, c2}
  Procs = {p1, p2}
  ProcOf <- MCProcOfEach
  Predecessor = Predecessor
  Nobody = Nobody
  Absent = Absent
  LeftBehind = TRUE
  MaxTries = 2
  MaxCrashes = 0
  MaxFailures = 0
  Reused = {}
  Contenders = {p1}
  PidReused = {}
  NoOwner = NoOwner
  NoFile = NoFile
  Unread = Unread
  MaxEnds = 0
INVARIANT MutualExclusion
CHECK_DEADLOCK FALSE
