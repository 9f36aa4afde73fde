SPECIFICATION Spec
CONSTANTS
  Procs = {p1, p2}
  Paths = {x, y}
  TargetSets = {{x}, {x, y}}
  Nothing = Nothing
  NoEvidence = NoEvidence
  NoProc = NoProc
  CompletionMayFail = TRUE
  RollbackDies = FALSE
  StopAtStray = FALSE
  MaxTx = 2
  MaxCrashes = 0
  MaxFailures = 1
INVARIANT NoStaleBytes
