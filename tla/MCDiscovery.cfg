SPECIFICATION MCSpec
CONSTANTS
  q1 = q1
  q2 = q2
  f1 = f1
  f2 = f2
  p1 = p1
  p2 = p2
  c1 = c1
  c2 = c2
  h1 = h1
  h2 = h2
  Entries <- MCEntries
  Layouts <- MCLayouts
  Queries = {q1, q2}
  RecordLimits = {1, 2, 9}
  PageLimits = {2, 9}
  MaxRedirects = 1
  MaxSearches = 2
  Counts = {1, 2}
  Finders = {f1, f2}
  Retention = 2
  MaxObservations = 2
  MaxTime = 4
  MaxFinds = 3
  Commits = {c1, c2}
  Unsafe = {c2}
  Reviewers = {p1, p2}
  MaxReviews = 3
  MaxEdits = 1
  Skills <- MCSkills
  BySource <- MCBySource
  Family <- MCFamily
  FamilyCap = 2
  Hosts = {h1, h2}
  Limits = {1, 3}
  PinSets <- MCPinSets
  Planners = {p1}
  MaxPlans = 1
  MaxOwn = 1
  MaxToggles = 1
  PackageFiles = {f1, f2}
  FileTexts = {"a", "b"}
  Publishers = {p1, p2}
  Resolvers = {h1}
  Fetchers = {h1, h2}
  MaxPublishes = 2
  MaxResolves = 2
  MaxRemoteMoves = 1
  MaxHarms = 1
  Reviewed = {p1, p2}
  Revisions = {c1, c2}
  Content <- MCContent
  Scanned <- MCScanned
  Indexers = {p1, p2}
  MaxIndexings = 2
  MaxMoves = 1
  MaxLosses = 1
  Kept = {"a", "b", "c"}
  CategoryOf <- MCCategoryOf
  OneYear = 2
  MaxIgnored = 1
  Turning = {"a"}
  Deciders = {p1, p2}
  MaxDecisions = 3
  MaxTurns = 2
INVARIANTS
  AnswersHold
  GrowthIsMeasured
  EvidenceHolds
  VersionsAreKept
PROPERTIES
  SelectionHolds
CHECK_DEADLOCK FALSE
