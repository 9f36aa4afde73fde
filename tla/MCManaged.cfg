SPECIFICATION Spec
CONSTANTS
  Packages <- MCPackages
  Agents = {"a"}
  Units = {"u", "w"}
  Provides <- MCProvides
  Before <- MCBefore
  Pinned <- MCPinned
  MaxRev = 2
  MaxBytes = 1
  Processes <- Commands
  x = x
  y = y
  MaxApplied = 2
  AtFirst = {"p"}
  MaxEdits = 2
INVARIANTS
  ManagedSound
PROPERTIES
  UnrecordedBytesSurvive
  LateStepsAreExact
SYMMETRY Symmetric
CHECK_DEADLOCK FALSE
