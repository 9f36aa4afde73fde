SPECIFICATION MCSpec
CONSTANTS
  Agents = {a1, a2}
  Loadout = Loadout
  Paths = {p1}
  NoOwner = NoOwner
  NoAgent = NoAgent
  Corrupt = Corrupt
  Tears = {"part"}
  MaxSeq = 1
  MaxFailures = 1
  Routers = {r1, r2}
  Main = Main
  Idle = Idle
  Untracked = Untracked
  Passive = {0}
  MaxTurns = 2
  MaxEvents = 3
  MaxDeaths = 2
  MaxSwitches = 1
INVARIANTS
  WritersSound
  SessionSound
PROPERTIES
  HaltedCallsWriteNothing
  ImplementsLog
  NoTurnWhileKilled
CHECK_DEADLOCK FALSE
