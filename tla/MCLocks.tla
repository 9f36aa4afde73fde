------------------------------ MODULE MCLocks ------------------------------
(***************************************************************************)
(* Instances of CoordLock, with three calls, two of them of one process,   *)
(* or two calls of two processes, and of FileLock, with three processes,   *)
(* one of whose pids is reused.                                            *)
(* They share nothing; a behaviour is about one of the two.                *)
(***************************************************************************)
EXTENDS CoordLock, FileLock

CONSTANTS c1, c2, c3, p1, p2, p3

VARIABLE focus

MCProcOf == [c \in Callers |-> IF c = c3 THEN p2 ELSE p1]
MCProcOfEach == [c \in Callers |-> IF c = c1 THEN p1 ELSE p2]

MCInit == focus \in {"coordination", "file"} /\ Init /\ FileInit
MCNext ==
  /\ UNCHANGED focus
  /\ \/ focus = "coordination" /\ Next /\ UNCHANGED fileVars
     \/ focus = "file" /\ FileNext /\ UNCHANGED vars
MCSpec ==
  /\ MCInit /\ [][MCNext]_<<focus, vars, fileVars>>
  /\ WF_vars(Age) /\ \A c \in Callers : WF_vars(Step(c))
  /\ WF_fileVars(FileAges) /\ \A p \in Contenders : WF_fileVars(Progress(p))

\* A lock that a dead process left goes away as soon as somebody waits for it,
\* without a person's help, in the coordination directory (lockCanBeRecovered)
\* and under the state home (reclaimIfAbandoned).
LeftLocksGo == AbandonedLockRecovered /\ AbandonedLockReclaimed
=============================================================================
