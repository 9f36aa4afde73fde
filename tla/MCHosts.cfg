SPECIFICATION MCSpec
CONSTANTS
  a1 = a1
  a2 = a2
  p1 = p1
  p2 = p2
  j1 = j1
  j2 = j2
  f1 = f1
  toml = toml
  models = models
  n1 = n1
  n2 = n2
  k1 = k1
  k2 = k2
  c1 = c1
  c2 = c2
  ToolAgents = {a1}
  Installers = {p1, p2}
  MaxApplies = 2
  MaxSkillEdits = 1
  Jobs = {j1, j2}
  Times = {"early", "late"}
  MaxChanges = 3
  JsonFiles = {f1}
  CodexFile = toml
  ModelFile = models
  Names = {n1, n2}
  UserValues = {"users"}
  PlanValues = {"plans"}
  Packages = {k1}
  Commands = {c1, c2}
  MaxPlans = 2
  MaxUserEdits = 2
  MaxForces = 1
  Lines = {"answer", "refusal", "notice", "garbage"}
  MaxLines = 3
  OutputLimit = 2
  Senders = {"s1", "s2"}
  Receivers = {"x"}
  Pages <- MCPages
  Texts <- MCTexts
  Sources = {"f", "g"}
  Requests <- MCRequests
  TemplateFiles <- MCTemplateFiles
  MaxFileBytes = 4
  MaxTotalBytes = 6
  Growth = 1
  MaxSends = 2
  MaxAccidents = 1
  MaxOtherEdits = 1
  RatedPackages = {p1, p2}
  SkillNames = {n1, n2}
  Me = a1
  Others = {a2}
  Starts <- MCStarts
  Support = "adapted"
  Capacity = 2
  FullSample = 2
  StoreLimit = 3
  Words <- MCWords
  MaxPasses = 1
  MaxWear = 2
  References <- MCReferences
  Secrets <- MCSecrets
  SecretLimit = 3
  WindowsLimit = 2
  Askers = {c1, c2}
  MaxAsks <- MCMaxAsks
  MaxTroubles = 1
INVARIANTS
  ReportsStayInRange
  HostsSound
  HandoffsAreWhole
PROPERTIES
  UserEntriesSurvive
  VerificationEnds
CHECK_DEADLOCK FALSE
