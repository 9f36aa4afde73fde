SPECIFICATION MCSpec
CONSTANTS
  Decisions = {"cache", "wait"}
  Paths = {"src"}
  Mentions <- MCMentions
  Proposer = "claude-code"
  Reviewer = "codex"
  Appliers = {x1, x2}
  Workers = {y1, y2}
  x1 = x1
  x2 = x2
  y1 = y1
  y2 = y2
  Rounds = 1
  MaxRuns = 1
  MaxFaults = 1
  MaxSwitches = 1
  MaxTries = 2
  MaxPlans = 2
  Owners = {"x", "y"}
  Root = "."
  Places = {".", "api", "lib", "web"}
  Below <- MCBelow
  Spellings = {"./api", "lib/../api", "../web"}
  Names <- MCNames
  Overlaps <- MCOverlaps
  Files = {"a1", "a2", "w1"}
  ContractName <- MCContractName
  Imports <- MCImports
  Splits <- MCSplits
  Histories <- MCHistories
  AgentOf <- MCAgentOf
  Threshold = 60
  Commands = {"p1", "p2"}
  MaxSteps = 3
  Earlier <- MCEarlier
  Shelves <- MCShelves
  Entries <- MCEntries
  Profiles <- MCProfiles
  Editors = {x1, x2}
  MaxChanges = 3
INVARIANTS
  RoomSound
  ReportsHold
  PlansFollowDependencies
PROPERTIES
  ImplementsTaskBoard
  RoomIsLeft
CHECK_DEADLOCK FALSE
