SPECIFICATION MCSpec
CONSTANTS
  c1 = c1
  c2 = c2
  c3 = c3
  p1 = p1
  p2 = p2
  p3 = p3
  Callers = {c1, c2, c3}
  Procs = {p1, p2}
  ProcOf <- MCProcOf
  Predecessor = Predecessor
  Nobody = Nobody
  Absent = Absent
  LeftBehind = FALSE
  MaxTries = 1
  MaxCrashes = 1
  MaxFailures = 1
  Reused = {p2}
  Contenders = {p1, p2, p3}
  PidReused = {p1}
  NoOwner = NoOwner
  NoFile = NoFile
  Unread = Unread
  MaxEnds = 2
INVARIANTS
  SafeUntilRace
  SafeUntilExit
PROPERTIES
  EveryCallEnds
  LeftLocksGo
CHECK_DEADLOCK FALSE
