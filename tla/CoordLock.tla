----------------------------- MODULE CoordLock ------------------------------
(***************************************************************************)
(* withCoordinationLock (src/core/coordination/lock.ts): the lock every    *)
(* mutation of the coordination log takes.  Calls of one process wait in a *)
(* queue in memory; the first of them competes with other processes for    *)
(* the file .handoff/coordination.lock, one system call at a time.         *)
(*                                                                         *)
(* A call uses a fresh token, so a caller stands for one call and for its  *)
(* token.  The clock is left out but for two facts: a call may reach its   *)
(* deadline whenever it finds the lock taken, and a lock file without an   *)
(* owner record grows old once the call that created it no longer writes   *)
(* the record: it has died, or it has failed (while it writes, it is done  *)
(* well within the 30 s allowed).                                          *)
(***************************************************************************)
EXTENDS Naturals, Sequences, FiniteSets

CONSTANTS
  Callers,     \* the calls of withCoordinationLock
  Procs,       \* the processes that make them
  ProcOf,      \* the process of every caller
  Predecessor, \* the owner of a lock a crashed process left behind earlier
  Nobody,      \* the owner read from a lock file that holds no owner record
  Absent,      \* no lock file
  LeftBehind,  \* whether a crashed process left its lock behind
  Reused,      \* the processes whose pid a stranger may have once they are dead
  MaxTries,    \* bound: back-offs before the deadline passes
  MaxCrashes,  \* bound: processes that crash
  MaxFailures  \* bound: kinds of file operations that fail, each once

Owners == Callers \cup {Predecessor}

LockFile == [by : Owners, owner : Owners \cup {Nobody}, old : BOOLEAN]

ASSUME LockConstantsOK ==
  /\ Absent \notin LockFile
  /\ ProcOf \in [Callers -> Procs]
  /\ Predecessor \notin Callers /\ Nobody \notin Callers \cup {Predecessor}
  /\ LeftBehind \in BOOLEAN /\ Reused \subseteq Procs \cup {Predecessor}
  /\ MaxTries \in Nat /\ MaxCrashes \in Nat /\ MaxFailures \in Nat

VARIABLES
  lock,     \* the lock file: who created it, the owner it names, whether it is old
  pc,       \* what every caller does next
  queue,    \* the callers of every process, in the order they called
  seen,     \* the owner every caller last read from the lock file
  tries,    \* back-offs of every caller
  crashed,  \* the processes that have crashed or exited
  failed,   \* the file operations that have failed
  raced     \* history: whether a recovery may have met another lock than it judged

vars == <<lock, pc, queue, seen, tries, crashed, failed, raced>>

\* What a step leaves alone that neither dies, fails nor turns to a recovery.
events == <<crashed, failed, raced>>

Ended == {"done", "timeout", "failed", "dead"}

Steps == Ended \cup
  {"idle", "queued", "open", "write", "verify", "probe", "judge", "stat", "rename",
   "contend", "critical", "release", "unlink"}

FileOps == {"open", "write", "close", "verify", "probe", "stat", "rename", "rm", "release", "unlink"}

TypeOK ==
  /\ lock = Absent \/ lock \in LockFile
  /\ pc \in [Callers -> Steps]
  /\ queue \in [Procs -> Seq(Callers)]
  /\ seen \in [Callers -> Owners \cup {Nobody}]
  /\ tries \in [Callers -> 0..MaxTries]
  /\ crashed \subseteq Procs
  /\ failed \subseteq FileOps
  /\ raced \in BOOLEAN

Init ==
  /\ lock = IF LeftBehind
              THEN [by |-> Predecessor, owner |-> Predecessor, old |-> FALSE]
              ELSE Absent
  /\ pc = [c \in Callers |-> "idle"]
  /\ queue = [p \in Procs |-> <<>>]
  /\ seen = [c \in Callers |-> Nobody]
  /\ tries = [c \in Callers |-> 0]
  /\ crashed = {}
  /\ failed = {}
  /\ raced = FALSE

-----------------------------------------------------------------------------

OwnerIsDead(o) == o = Predecessor \/ (o \in Callers /\ ProcOf[o] \in crashed)

\* processIsAlive looks at the pid only: a dead owner may look alive for ever.
PidTaken(o) == OwnerIsDead(o) /\ (IF o = Predecessor THEN o ELSE ProcOf[o]) \in Reused

\* A call about to take away a lock that it has found, or will find, abandoned.
Recovering(c) == pc[c] = "rename" \/ (pc[c] = "judge" /\ OwnerIsDead(seen[c]))

Goto(c, from, to) == pc[c] = from /\ pc' = [pc EXCEPT ![c] = to]

\* Fault: the call ends but keeps its place at the head of the queue.
ReturnKeepsTurn(c, from, outcome) == Goto(c, from, outcome) /\ UNCHANGED queue

\* The call ends and lets the next caller of its process run.
Return(c, from, outcome) ==
  /\ Goto(c, from, outcome)
  /\ queue' = [queue EXCEPT ![ProcOf[c]] = Tail(@)]

\* withLocalLock: a call joins the tail of its process's queue ...
Call(c) ==
  /\ ProcOf[c] \notin crashed
  /\ Goto(c, "idle", "queued")
  /\ queue' = [queue EXCEPT ![ProcOf[c]] = Append(@, c)]
  /\ UNCHANGED <<lock, seen, tries, events>>

\* ... and starts when it has reached the head.
Start(c) ==
  /\ queue[ProcOf[c]] # <<>> /\ Head(queue[ProcOf[c]]) = c
  /\ Goto(c, "queued", "open")
  /\ UNCHANGED <<lock, queue, seen, tries, events>>

\* open(path, "wx"): creates the file, empty, or fails with EEXIST.
Open(c) ==
  /\ IF lock = Absent
       THEN /\ Goto(c, "open", "write")
            /\ lock' = [by |-> c, owner |-> Nobody, old |-> FALSE]
       ELSE Goto(c, "open", "probe") /\ UNCHANGED lock
  /\ UNCHANGED <<queue, seen, tries, events>>

\* The owner record goes to the file c created, wherever that now is.
Written(c) == IF lock # Absent /\ lock.by = c
                THEN [lock EXCEPT !.owner = c, !.old = FALSE] ELSE lock

Write(c) ==
  /\ Goto(c, "write", "verify")
  /\ lock' = Written(c)
  /\ UNCHANGED <<queue, seen, tries, events>>

\* The path is read back: the lock is held if it names c's token.
Verify(c) ==
  /\ \/ lock # Absent /\ lock.owner = c /\ Goto(c, "verify", "critical")
     \/ ~(lock # Absent /\ lock.owner = c) /\ Goto(c, "verify", "open")
  /\ UNCHANGED <<lock, queue, seen, tries, events>>

\* History: a call turns to recovery while another one is at it.
Competes(c) ==
  raced' = (raced \/ (Recovering(c)' /\ \E d \in Callers \ {c} : Recovering(d)))

\* lockCanBeRecovered reads the owner record ...
Probe(c) ==
  /\ \/ lock = Absent /\ Goto(c, "probe", "contend") /\ UNCHANGED seen
     \/ lock # Absent /\ lock.owner = Nobody /\ Goto(c, "probe", "stat") /\ UNCHANGED seen
     \/ /\ lock # Absent /\ lock.owner # Nobody
        /\ Goto(c, "probe", "judge")
        /\ seen' = [seen EXCEPT ![c] = lock.owner]
  /\ UNCHANGED <<lock, queue, tries, crashed, failed>>
  /\ Competes(c)

\* Fault: whoever the lock names is taken for dead.
JudgeBlind(c) ==
  /\ Goto(c, "judge", "rename")
  /\ UNCHANGED <<lock, queue, seen, tries, events>>

\* Fault: the owner of a lock is always taken to be alive.
JudgeTrusting(c) ==
  /\ Goto(c, "judge", "contend")
  /\ UNCHANGED <<lock, queue, seen, tries, events>>

\* ... and recovers the lock of an owner that is seen to be dead by then, ...
Judge(c) ==
  /\ \/ OwnerIsDead(seen[c]) /\ Goto(c, "judge", "rename")
     \/ ~OwnerIsDead(seen[c]) /\ Goto(c, "judge", "contend")
     \/ PidTaken(seen[c]) /\ Goto(c, "judge", "contend")
  /\ UNCHANGED <<lock, queue, seen, tries, events>>

\* ... or a lock file without an owner record once it is old.
Stat(c) ==
  /\ \/ lock # Absent /\ lock.old /\ Goto(c, "stat", "rename")
     \/ ~(lock # Absent /\ lock.old) /\ Goto(c, "stat", "contend")
  /\ UNCHANGED <<lock, queue, seen, tries, crashed, failed>>
  /\ Competes(c)

\* The path is renamed away, whatever it holds by now, and the copy removed.
Rename(c) ==
  /\ Goto(c, "rename", "open")
  /\ lock' = Absent
  /\ UNCHANGED <<queue, seen, tries, events>>

\* The lock is taken: give up if the deadline has passed, else back off.
Contend(c) ==
  /\ \/ /\ tries[c] < MaxTries
        /\ Goto(c, "contend", "open")
        /\ tries' = [tries EXCEPT ![c] = @ + 1]
        /\ UNCHANGED queue
     \/ Return(c, "contend", "timeout") /\ UNCHANGED tries
  /\ UNCHANGED <<lock, seen, events>>

\* The operation has run.
Leave(c) ==
  /\ Goto(c, "critical", "release")
  /\ UNCHANGED <<lock, queue, seen, tries, events>>

\* releaseOwnedLock reads the file: the token must be its own.  A file without
\* an owner record makes JSON.parse throw, and the call fails.
Release(c) ==
  /\ \/ lock # Absent /\ lock.owner = c /\ Goto(c, "release", "unlink") /\ UNCHANGED queue
     \/ lock # Absent /\ lock.owner = Nobody /\ Return(c, "release", "failed")
     \/ ~(lock # Absent /\ lock.owner \in {c, Nobody}) /\ Return(c, "release", "done")
  /\ UNCHANGED <<lock, seen, tries, events>>

\* ... and removes whatever the path holds by now.
Unlink(c) ==
  /\ Return(c, "unlink", "done")
  /\ lock' = Absent
  /\ UNCHANGED <<seen, tries, events>>

Fails(op) ==
  /\ op \notin failed /\ Cardinality(failed) < MaxFailures
  /\ failed' = failed \cup {op}

\* A file operation fails, and the call with it.  A failed write leaves a lock that
\* names nobody, and a failed close one that names a process which lives.
Throws(c) ==
  /\ \/ Fails("open") /\ Return(c, "open", "failed") /\ UNCHANGED lock
     \/ Fails("write") /\ Return(c, "write", "failed") /\ UNCHANGED lock
     \/ Fails("close") /\ Return(c, "write", "failed") /\ lock' = Written(c)
     \/ Fails("stat") /\ Return(c, "stat", "failed") /\ UNCHANGED lock
     \/ Fails("rename") /\ Return(c, "rename", "failed") /\ UNCHANGED lock
     \/ Fails("rm") /\ Return(c, "rename", "failed") /\ lock' = Absent
     \/ Fails("release") /\ Return(c, "release", "failed") /\ UNCHANGED lock
     \/ Fails("unlink") /\ Return(c, "unlink", "failed") /\ UNCHANGED lock
  /\ UNCHANGED <<seen, tries, crashed, raced>>

\* It fails and is taken for something else: EPERM for contention; a lock that cannot
\* be read back for another's; and one that cannot be read for one without a record,
\* so that its age decides, and the age of a recorded lock may be any.
Misjudges(c) ==
  /\ \/ Fails("open") /\ Goto(c, "open", "probe")
     \/ Fails("rename") /\ Goto(c, "rename", "open")
     \/ Fails("verify") /\ Goto(c, "verify", "open")
     \/ /\ Fails("probe") /\ lock # Absent /\ lock.owner # Nobody
        /\ Goto(c, "probe", "rename") \/ Goto(c, "probe", "contend")
  /\ UNCHANGED <<lock, queue, seen, tries, crashed, raced>>

\* A process dies or exits, with all its calls.  History: it may do so while another
\* call, that has read one of its records, is about to look whether it lives.
Crash(p) ==
  /\ p \notin crashed /\ Cardinality(crashed) < MaxCrashes
  /\ crashed' = crashed \cup {p}
  /\ queue' = [queue EXCEPT ![p] = <<>>]
  /\ pc' = [c \in Callers |->
              IF ProcOf[c] = p /\ pc[c] \notin Ended THEN "dead" ELSE pc[c]]
  /\ UNCHANGED <<lock, seen, tries, failed>>
  /\ raced' = (raced \/ \E c \in Callers : Recovering(c)' /\ ~Recovering(c))

\* A lock file its creator will never complete passes the stale threshold.
Age ==
  /\ lock # Absent /\ lock.owner = Nobody /\ ~lock.old
  /\ pc[lock.by] # "write"
  /\ lock' = [lock EXCEPT !.old = TRUE]
  /\ UNCHANGED <<pc, queue, seen, tries, events>>

Step(c) ==
  \/ Start(c) \/ Open(c) \/ Write(c) \/ Verify(c) \/ Probe(c) \/ Judge(c)
  \/ Stat(c) \/ Rename(c) \/ Contend(c) \/ Leave(c) \/ Release(c) \/ Unlink(c)

Next ==
  \/ \E c \in Callers : Call(c) \/ Step(c) \/ Throws(c) \/ Misjudges(c)
  \/ \E p \in Procs : Crash(p)
  \/ Age

Spec == Init /\ [][Next]_vars

\* A process that lives takes its next step; an abandoned file does age.
FairSpec == Spec /\ \A c \in Callers : WF_vars(Step(c)) /\ WF_vars(Age)

-----------------------------------------------------------------------------
(* Properties *)

\* "Serialize coordination mutations within this process and across processes."
MutualExclusion ==
  \A c, d \in Callers : pc[c] = "critical" /\ pc[d] = "critical" => c = d

\* A caller that has been let in keeps its lock until it removes it itself: no
\* recovery takes the lock of a live process.
HolderKeepsLock ==
  \A c \in Callers :
    pc[c] \in {"critical", "release", "unlink"} => lock # Absent /\ lock.owner = c

\* Whatever dies, fails or was left behind: until two calls recover at one time, a
\* process ends while another looks whether it lives, or a lock cannot be read.
SafeUntilRace == ~raced /\ "probe" \notin failed => MutualExclusion /\ HolderKeepsLock

\* Every call comes to an end, by the operation, by its deadline or by an error.
EveryCallEnds == \A c \in Callers : pc[c] = "queued" ~> pc[c] \in Ended

Abandoned == lock # Absent /\ OwnerIsDead(lock.owner) /\ ~PidTaken(lock.owner)

\* A lock that names a dead process is out of the way as soon as anybody who
\* lives competes for it; it need not wait for a person to remove it.  It may have to
\* when a stranger has the pid, or when the one who competes has an error.
AbandonedLockRecovered ==
  \A c \in Callers :
    (Abandoned /\ pc[c] = "open") ~>
      (~Abandoned \/ pc[c] \in {"dead", "failed"} \/ "probe" \in failed)

=============================================================================
