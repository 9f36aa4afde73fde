SPECIFICATION FairSpec
CONSTANTS
  Procs = {p1, p2}
  Paths = {x, y}
  TargetSets = {{x}, {x, y}}
  Nothing = Nothing
  NoEvidence = NoEvidence
  NoProc = NoProc
  CompletionMayFail = TRUE
  RollbackDies = TRUE
  StopAtStray = TRUE
  MaxTx = 2
  MaxCrashes = 2
  MaxFailures = 1
INVARIANT TransactionSound
PROPERTY OnlyHolderWrites
PROPERTY RollbackUndoesOnlyItsOwn
PROPERTY LockIsReleased
CHECK_DEADLOCK FALSE
