------------------------------ MODULE FileLock ------------------------------
(***************************************************************************)
(* acquireFileLock (src/core/install/file-lock.ts): the lock file behind   *)
(* the global mutation lock, the handoff state and the outcome store, one  *)
(* system call at a time.  A lock whose owner is gone is renamed away by   *)
(* whoever holds the directory `<path>.reclaim`, which mkdir creates for   *)
(* one contender at a time.                                                *)
(*                                                                         *)
(* A process stands for its pid and for the token of the call it is in.    *)
(* Of the clock three facts are kept: a waiting call may find its deadline *)
(* passed; a lock file grows old only when its creator has died, since a   *)
(* live one writes its record and refreshes the file well within the       *)
(* limits; a dead one's file does grow old.                                *)
(***************************************************************************)
EXTENDS Naturals, FiniteSets

CONSTANTS
  Contenders,  \* the processes, each in one call at a time
  PidReused,   \* those whose pid a stranger has taken by the time they are dead
  NoOwner,     \* no owner record in the lock file; no holder of the guard
  NoFile,      \* no lock file
  Unread,      \* what a contender has not looked at yet
  MaxEnds      \* bound: processes that crash

LockRecord == [by : Contenders, owner : Contenders \cup {NoOwner}, age : {"fresh", "old"}]

\* What reclaimIfAbandoned has learnt of the lock file.
View == [age : {"fresh", "old", Unread}, owner : Contenders \cup {NoOwner, Unread}]

ASSUME FileLockConstantsOK ==
  /\ NoFile \notin LockRecord
  /\ PidReused \subseteq Contenders
  /\ NoOwner \notin Contenders
  /\ Unread \notin Contenders \cup {NoOwner} /\ Unread \notin {"fresh", "old"}
  /\ MaxEnds \in Nat

VARIABLES
  file,   \* the lock file: who created it, the owner it names, whether it is old
  guard,  \* who made the directory `<path>.reclaim`
  at,     \* what every process does next
  view,   \* what a contender has read of the lock file
  gone    \* the processes that have died

fileVars == <<file, guard, at, view, gone>>

FileSteps == {"idle", "open", "write", "held", "remove", "mkdir", "inspect", "rename",
              "unguard", "wait"}

Blank == [age |-> Unread, owner |-> Unread]

FileTypeOK ==
  /\ file = NoFile \/ file \in LockRecord
  /\ guard \in Contenders \cup {NoOwner}
  /\ at \in [Contenders -> FileSteps]
  /\ view \in [Contenders -> View]
  /\ gone \subseteq Contenders

FileInit ==
  /\ file = NoFile
  /\ guard = NoOwner
  /\ at = [p \in Contenders |-> "idle"]
  /\ view = [p \in Contenders |-> Blank]
  /\ gone = {}

-----------------------------------------------------------------------------

MoveTo(p, from, to) ==
  /\ p \notin gone
  /\ at[p] = from /\ at' = [at EXCEPT ![p] = to]

\* Fault: every owner is taken for dead.
LooksAliveNever(o) == FALSE

\* processIsAlive, of the pid in an owner record.
LooksAlive(o) == o \notin gone \/ o \in PidReused

AcquireFileLock(p) ==
  /\ MoveTo(p, "idle", "open")
  /\ UNCHANGED <<file, guard, view, gone>>

\* open(path, "wx")
CreateFile(p) ==
  /\ IF file = NoFile
       THEN /\ MoveTo(p, "open", "write")
            /\ file' = [by |-> p, owner |-> NoOwner, age |-> "fresh"]
       ELSE MoveTo(p, "open", "mkdir") /\ UNCHANGED file
  /\ UNCHANGED <<guard, view, gone>>

\* The owner record goes to the file p created, wherever that now is.
WriteRecord(p) ==
  /\ MoveTo(p, "write", "held")
  /\ file' = IF file # NoFile /\ file.by = p
               THEN [file EXCEPT !.owner = p] ELSE file
  /\ UNCHANGED <<guard, view, gone>>

\* The record cannot be written: the path is removed, and the call throws.
WriteFails(p) ==
  /\ MoveTo(p, "write", "idle")
  /\ file' = NoFile
  /\ UNCHANGED <<guard, view, gone>>

\* release() reads the token of the path ...
ReadOwnRecord(p) ==
  /\ IF file # NoFile /\ file.owner = p
       THEN MoveTo(p, "held", "remove")
       ELSE MoveTo(p, "held", "idle")
  /\ UNCHANGED <<file, guard, view, gone>>

\* ... and removes whatever the path holds by now.
RemoveLock(p) ==
  /\ MoveTo(p, "remove", "idle")
  /\ file' = NoFile
  /\ UNCHANGED <<guard, view, gone>>

\* reclaimIfAbandoned: one contender at a time.
MakeGuard(p) ==
  /\ IF guard = NoOwner
       THEN MoveTo(p, "mkdir", "inspect") /\ guard' = p
       ELSE MoveTo(p, "mkdir", "wait") /\ UNCHANGED guard
  /\ UNCHANGED <<file, view, gone>>

\* stat and readFile run at the same time and end in either order; without a
\* file they throw.
StatFile(p) ==
  /\ p \notin gone /\ at[p] = "inspect" /\ view[p].age = Unread
  /\ IF file = NoFile
       THEN MoveTo(p, "inspect", "unguard") /\ UNCHANGED view
       ELSE view' = [view EXCEPT ![p].age = file.age] /\ UNCHANGED at
  /\ UNCHANGED <<file, guard, gone>>

Read(p) ==
  /\ p \notin gone /\ at[p] = "inspect" /\ view[p].owner = Unread
  /\ IF file = NoFile
       THEN MoveTo(p, "inspect", "unguard") /\ UNCHANGED view
       ELSE view' = [view EXCEPT ![p].owner = file.owner] /\ UNCHANGED at
  /\ UNCHANGED <<file, guard, gone>>

\* An owner that lives and a creator still within its limits are left alone.
InUse(p) ==
  /\ view[p].age = "fresh"
  /\ view[p].owner # NoOwner => LooksAlive(view[p].owner)

Decide(p) ==
  /\ view[p].age # Unread /\ view[p].owner # Unread
  /\ \/ InUse(p) /\ MoveTo(p, "inspect", "unguard")
     \/ ~InUse(p) /\ MoveTo(p, "inspect", "rename")
  /\ UNCHANGED <<file, guard, view, gone>>

\* The path is renamed away, whatever it holds by now.
RenameAway(p) ==
  /\ MoveTo(p, "rename", "unguard")
  /\ file' = NoFile
  /\ UNCHANGED <<guard, view, gone>>

RemoveGuard(p) ==
  /\ MoveTo(p, "unguard", "wait")
  /\ guard' = NoOwner
  /\ view' = [view EXCEPT ![p] = Blank]
  /\ UNCHANGED <<file, gone>>

\* The deadline has passed, or the call tries again after 50 ms.
Retry(p) ==
  /\ MoveTo(p, "wait", "open")
  /\ UNCHANGED <<file, guard, view, gone>>

TimeOut(p) ==
  /\ MoveTo(p, "wait", "idle")
  /\ UNCHANGED <<file, guard, view, gone>>

\* A process dies, or exits between two calls.
ProcessEnds(p) ==
  /\ p \notin gone /\ Cardinality(gone) < MaxEnds
  /\ gone' = gone \cup {p}
  /\ at' = [at EXCEPT ![p] = "idle"]
  /\ view' = [view EXCEPT ![p] = Blank]
  /\ UNCHANGED <<file, guard>>

\* The lock file of a dead process passes the limit that applies to it.
FileAges ==
  /\ file # NoFile /\ file.by \in gone /\ file.age = "fresh"
  /\ file' = [file EXCEPT !.age = "old"]
  /\ UNCHANGED <<guard, at, view, gone>>

\* The steps a call takes once it is made, short of its time-out.
Progress(p) ==
  \/ CreateFile(p) \/ WriteRecord(p) \/ ReadOwnRecord(p) \/ RemoveLock(p) \/ MakeGuard(p) \/ StatFile(p)
  \/ Read(p) \/ Decide(p) \/ RenameAway(p) \/ RemoveGuard(p) \/ Retry(p)

FileNext ==
  \/ \E p \in Contenders :
       AcquireFileLock(p) \/ Progress(p) \/ WriteFails(p) \/ TimeOut(p) \/ ProcessEnds(p)
  \/ FileAges

FileSpec == FileInit /\ [][FileNext]_fileVars

-----------------------------------------------------------------------------
(* Properties *)

Holds(p) == p \notin gone /\ at[p] \in {"held", "remove"}

\* Two live processes never hold the lock together.  A contender that reads a
\* record, sees its process exit after a release and only then renames the path
\* takes away the lock somebody else has created meanwhile.
OneFileHolder == \A p, q \in Contenders : Holds(p) /\ Holds(q) => p = q

\* A live holder's file stays at the path until the holder removes it: neither
\* recovery nor the release of somebody else takes it away.
HolderKeepsFile == \A p \in Contenders : Holds(p) => file # NoFile /\ file.owner = p

\* Both hold until a process has died or exited.
SafeUntilExit == gone = {} => OneFileHolder /\ HolderKeepsFile

\* Of the live processes at most one is in the middle of judging and removing
\* a lock, so no contender removes a lock that another has just put in place of
\* the one both have judged.
OneRecoverer ==
  \A p, q \in Contenders :
    /\ p \notin gone /\ at[p] \in {"inspect", "rename", "unguard"}
    /\ q \notin gone /\ at[q] \in {"inspect", "rename", "unguard"}
    => p = q

FileAbandoned == file # NoFile /\ file.by \in gone

\* A dead process's lock goes away once somebody waits for it, even when a
\* stranger has its pid: unless a process died while it recovered a lock, or
\* whoever waited gave up.
AbandonedLockReclaimed ==
  \A p \in Contenders :
    (FileAbandoned /\ p \notin gone /\ at[p] = "open") ~>
      (~FileAbandoned \/ guard \in gone \/ p \in gone \/ at[p] = "idle")

=============================================================================
