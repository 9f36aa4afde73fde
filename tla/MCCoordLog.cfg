SPECIFICATION Spec
CONSTANTS
  a1 = a1
  a2 = a2
  dir = dir
  file = file
  Agents = {a1, a2}
  Paths = {dir, file}
  Inside <- MCInside
  PathLists <- MCPathLists
  ClaimModes = {"exclusive"}
  Names = {api}
  Titles = {title}
  Loadout = Loadout
  NoOwner = NoOwner
  NoAgent = NoAgent
  AckSeqs = {2}
  MaxSeq = 3
  MaxRevision = 2
SYMMETRY AgentSymmetry
INVARIANT OwnershipSound
INVARIANT NumbersKept
INVARIANT OwnershipIsReplayed
PROPERTY CompactionKeepsOwnership
PROPERTY NewEventsAreUnacked
PROPERTY ImplementsRegistry
CHECK_DEADLOCK FALSE
