---------------------------- MODULE LocksProofs -----------------------------
(***************************************************************************)
(* What withCoordinationLock, acquireFileLock, the bridge lease and the    *)
(* token and log of the daemons guarantee for any number                   *)
(* of processes and calls.  The queue in memory always serializes the      *)
(* calls of one process.  The lock file of coordination serializes those   *)
(* of all processes until two recover a stale lock at one time (the run    *)
(* coord_lock_stale shows what follows), one ends while it is looked for,  *)
(* or a lock cannot be read; a lock of the                                 *)
(* state home is exclusive, and stays where it is, until a process has     *)
(* exited, while its recovery is always guarded.  A bridge has the lease   *)
(* alone until one has died, and a daemon that serves has the token on     *)
(* file, and leaves no gap behind what a client has got.                   *)
(***************************************************************************)
EXTENDS CoordLock, FileLock, BridgeLease, Daemon, SequenceTheorems, TLAPS

(* The coordination lock. *)

USE LockConstantsOK DEF LockConstantsOK, events

\* A call that has left the queue in memory and has not ended.
Running == Steps \ ({"idle", "queued"} \cup Ended)

\* The call that runs is the one at the head of its process's queue.
HeadRuns ==
  \A c \in Callers :
    pc[c] \in Running => queue[ProcOf[c]] # <<>> /\ Head(queue[ProcOf[c]]) = c

QueueInv == TypeOK /\ HeadRuns

\* Nothing of what takes the lock of a live call away has happened.
Calm == ~raced /\ "probe" \notin failed

\* A lock that its owner will not use any more.
Stale == lock # Absent /\ (OwnerIsDead(lock.owner) \/ (lock.owner = Nobody /\ lock.old))

\* Whoever creates or has the lock finds its file at the path; only a file without a
\* record is old, and not while its creator writes.
FileFollowsHolder ==
  /\ lock # Absent => (lock.old => lock.owner = Nobody)
  /\ \A c \in Callers :
       /\ pc[c] = "write" => lock # Absent /\ lock.by = c /\ lock.owner = Nobody /\ ~lock.old
       /\ pc[c] \in {"verify", "critical", "release", "unlink"} =>
            lock # Absent /\ lock.owner = c

\* A call about to recover is alone with that, and the lock it judged is still there.
RecoversJudged ==
  /\ \A c \in Callers :
       /\ pc[c] = "rename" => Stale
       /\ pc[c] = "judge" /\ OwnerIsDead(seen[c]) => lock # Absent /\ lock.owner = seen[c]
  /\ \A c, d \in Callers : Recovering(c) /\ Recovering(d) => c = d

DeadHaveEnded == \A c \in Callers : ProcOf[c] \in crashed => pc[c] \in Ended

\* The file open(path, "wx") creates is a lock file, and there.
LEMMA NewFile ==
  ASSUME NEW c \in Callers
  PROVE  LET f == [by |-> c, owner |-> Nobody, old |-> FALSE]
         IN  f \in LockFile /\ f # Absent
<1> DEFINE f == [by |-> c, owner |-> Nobody, old |-> FALSE]
<1>1. f \in LockFile
  BY Zenon DEF LockFile, Owners
<1> QED
  BY <1>1

LEMMA WrittenIsFile ==
  ASSUME lock = Absent \/ lock \in LockFile, NEW c \in Callers
  PROVE  Written(c) = Absent \/ Written(c) \in LockFile
BY DEF Written, LockFile, Owners

-----------------------------------------------------------------------------
(* The queue in memory *)

\* A call that ends gives way to its successor and leaves the types alone.
LEMMA ReturnKeepsQueue ==
  ASSUME QueueInv, NEW c \in Callers, NEW from \in Running,
         NEW outcome \in {"done", "timeout", "failed"}, Return(c, from, outcome)
  PROVE  /\ pc' \in [Callers -> Steps]
         /\ queue' \in [Procs -> Seq(Callers)]
         /\ HeadRuns'
<1> USE DEF QueueInv, TypeOK, Return, Goto, Running, Steps, Ended
<1>1. ProcOf[c] \in Procs /\ queue[ProcOf[c]] # <<>> /\ Head(queue[ProcOf[c]]) = c
  BY DEF HeadRuns
<1>2. pc' \in [Callers -> Steps]
  OBVIOUS
<1>3. queue' \in [Procs -> Seq(Callers)]
  BY <1>1
<1>4. HeadRuns'
  <2> SUFFICES ASSUME NEW d \in Callers, pc'[d] \in Running
               PROVE  queue'[ProcOf[d]] # <<>> /\ Head(queue'[ProcOf[d]]) = d
    BY DEF HeadRuns
  <2>1. d # c /\ pc[d] \in Running
    OBVIOUS
  <2>2. ProcOf[d] # ProcOf[c]
    BY <1>1, <2>1 DEF HeadRuns
  <2> QED
    BY <2>1, <2>2 DEF HeadRuns
<1> QED
  BY <1>2, <1>3, <1>4

\* A step of the call that runs, other than its end, leaves its queue alone.
LEMMA StepKeepsQueue ==
  ASSUME QueueInv, NEW c \in Callers, NEW from \in Running \cup {"queued"}, NEW to \in Running,
         Goto(c, from, to), UNCHANGED queue,
         from = "queued" => queue[ProcOf[c]] # <<>> /\ Head(queue[ProcOf[c]]) = c
  PROVE  /\ pc' \in [Callers -> Steps]
         /\ HeadRuns'
BY DEF QueueInv, TypeOK, Goto, Running, Steps, Ended, HeadRuns

LEMMA HeadOfAppend ==
  ASSUME NEW S, NEW q \in Seq(S), q # <<>>, NEW x
  PROVE  Append(q, x) # <<>> /\ Head(Append(q, x)) = Head(q)
<1>1. Len(Append(q, x)) = Len(q) + 1 /\ Len(q) \in Nat
  OBVIOUS
<1>2. Append(q, x) # <<>>
  BY <1>1
<1>3. Head(Append(q, x)) = Head(q)
  BY HeadTailAppend
<1> QED
  BY <1>2, <1>3

LEMMA CallKeepsQueue ==
  ASSUME QueueInv, NEW c \in Callers, Call(c)
  PROVE  QueueInv'
<1> USE DEF QueueInv, TypeOK, Call, Goto, Running, Steps, Ended
<1>1. TypeOK'
  OBVIOUS
<1>2. ASSUME NEW d \in Callers, pc'[d] \in Running
      PROVE  queue'[ProcOf[d]] # <<>> /\ Head(queue'[ProcOf[d]]) = d
  <2>1. queue[ProcOf[d]] # <<>> /\ Head(queue[ProcOf[d]]) = d
    BY <1>2 DEF HeadRuns
  <2>2. CASE ProcOf[d] = ProcOf[c]
    BY <2>1, <2>2, HeadOfAppend
  <2>3. CASE ProcOf[d] # ProcOf[c]
    BY <2>1, <2>3
  <2> QED
    BY <2>2, <2>3
<1> QED
  BY <1>1, <1>2 DEF HeadRuns

LEMMA CrashKeepsQueue ==
  ASSUME QueueInv, NEW p \in Procs, Crash(p)
  PROVE  QueueInv'
<1> USE DEF QueueInv, TypeOK, Crash, Running, Steps, Ended
<1>1. TypeOK'
  OBVIOUS
<1>2. ASSUME NEW d \in Callers, pc'[d] \in Running
      PROVE  queue'[ProcOf[d]] # <<>> /\ Head(queue'[ProcOf[d]]) = d
  <2>1. ProcOf[d] # p /\ pc[d] \in Running
    BY <1>2
  <2> QED
    BY <2>1 DEF HeadRuns
<1> QED
  BY <1>1, <1>2 DEF HeadRuns

(* Every operation of lock.ts keeps the lock file, the queues and the calls *)
(* within their types, and the queue of a process lets one call run.        *)
THEOREM QueueHolds == Spec => []QueueInv
<1>1. Init => QueueInv
  <2> SUFFICES ASSUME Init PROVE QueueInv
    OBVIOUS
  <2>1. lock = Absent \/ lock \in LockFile
    BY DEF Init, LockFile, Owners
  <2>2. HeadRuns /\ pc \in [Callers -> Steps]
    BY DEF Init, HeadRuns, Running, Steps
  <2>3. /\ queue \in [Procs -> Seq(Callers)] /\ seen \in [Callers -> Owners \cup {Nobody}]
        /\ tries \in [Callers -> 0..MaxTries] /\ crashed \subseteq Procs
        /\ failed \subseteq FileOps /\ raced \in BOOLEAN
    <3>1. queue \in [Procs -> Seq(Callers)]
      BY DEF Init
    <3>2. tries \in [Callers -> 0..MaxTries]
      BY DEF Init
    <3>3. seen \in [Callers -> Owners \cup {Nobody}]
      BY DEF Init
    <3> QED
      BY <3>1, <3>2, <3>3 DEF Init
  <2> QED
    BY <2>1, <2>2, <2>3 DEF QueueInv, TypeOK
<1>2. QueueInv /\ [Next]_vars => QueueInv'
  <2> SUFFICES ASSUME QueueInv, [Next]_vars PROVE QueueInv'
    OBVIOUS
  <2>1. ASSUME NEW c \in Callers, Start(c) PROVE QueueInv'
    BY <2>1, StepKeepsQueue DEF Start, QueueInv, TypeOK, Running, Steps, Ended
  <2>2. ASSUME NEW c \in Callers, Open(c) PROVE QueueInv'
    <3>1. lock' = Absent \/ lock' \in LockFile
      BY <2>2, NewFile DEF Open, QueueInv, TypeOK
    <3> QED
      BY <2>2, <3>1, StepKeepsQueue DEF Open, QueueInv, TypeOK, Running, Steps, Ended
  <2>3. ASSUME NEW c \in Callers, Write(c) PROVE QueueInv'
    <3>1. lock' = Absent \/ lock' \in LockFile
      BY <2>3, WrittenIsFile DEF Write, QueueInv, TypeOK
    <3> QED
      BY <2>3, <3>1, StepKeepsQueue DEF Write, QueueInv, TypeOK, Running, Steps, Ended
  <2>4. ASSUME NEW c \in Callers, Verify(c) PROVE QueueInv'
    BY <2>4, StepKeepsQueue DEF Verify, QueueInv, TypeOK, Running, Steps, Ended
  <2>5. ASSUME NEW c \in Callers, Probe(c) PROVE QueueInv'
    <3>1. seen' \in [Callers -> Owners \cup {Nobody}]
      BY <2>5 DEF Probe, QueueInv, TypeOK, LockFile
    <3>2. raced' \in BOOLEAN
      BY <2>5 DEF Probe, Competes
    <3> QED
      BY <2>5, <3>1, <3>2, StepKeepsQueue DEF Probe, QueueInv, TypeOK, Running, Steps, Ended
  <2>14. ASSUME NEW c \in Callers, Judge(c) PROVE QueueInv'
    BY <2>14, StepKeepsQueue DEF Judge, QueueInv, TypeOK, Running, Steps, Ended
  <2>6. ASSUME NEW c \in Callers, Stat(c) PROVE QueueInv'
    <3>1. raced' \in BOOLEAN
      BY <2>6 DEF Stat, Competes
    <3> QED
      BY <2>6, <3>1, StepKeepsQueue DEF Stat, QueueInv, TypeOK, Running, Steps, Ended
  <2>7. ASSUME NEW c \in Callers, Rename(c) PROVE QueueInv'
    BY <2>7, StepKeepsQueue DEF Rename, QueueInv, TypeOK, Running, Steps, Ended
  <2>8. ASSUME NEW c \in Callers, Contend(c) PROVE QueueInv'
    <3>1. CASE tries[c] < MaxTries /\ Goto(c, "contend", "open")
               /\ tries' = [tries EXCEPT ![c] = @ + 1] /\ UNCHANGED <<queue, lock, seen, events>>
      <4>1. tries' \in [Callers -> 0..MaxTries]
        BY <3>1 DEF QueueInv, TypeOK
      <4> QED
        BY <3>1, <4>1, StepKeepsQueue DEF QueueInv, TypeOK, Running, Steps, Ended
    <3>2. CASE Return(c, "contend", "timeout") /\ UNCHANGED <<tries, lock, seen, events>>
      BY <3>2, ReturnKeepsQueue DEF QueueInv, TypeOK, Running, Steps, Ended
    <3> QED
      BY <2>8, <3>1, <3>2 DEF Contend
  <2>9. ASSUME NEW c \in Callers, Leave(c) PROVE QueueInv'
    BY <2>9, StepKeepsQueue DEF Leave, QueueInv, TypeOK, Running, Steps, Ended
  <2>10. ASSUME NEW c \in Callers, Release(c) PROVE QueueInv'
    <3>1. CASE Goto(c, "release", "unlink") /\ UNCHANGED queue
      BY <2>10, <3>1, StepKeepsQueue DEF Release, QueueInv, TypeOK, Running, Steps, Ended
    <3>2. CASE Return(c, "release", "done") \/ Return(c, "release", "failed")
      BY <2>10, <3>2, ReturnKeepsQueue DEF Release, QueueInv, TypeOK, Running, Steps, Ended
    <3> QED
      BY <2>10, <3>1, <3>2 DEF Release
  <2>11. ASSUME NEW c \in Callers, Unlink(c) PROVE QueueInv'
    BY <2>11, ReturnKeepsQueue DEF Unlink, QueueInv, TypeOK, Running, Steps, Ended
  <2>15. ASSUME NEW c \in Callers, Throws(c) PROVE QueueInv'
    <3>1. lock' = Absent \/ lock' \in LockFile
      BY <2>15, WrittenIsFile DEF Throws, QueueInv, TypeOK
    <3>2. failed' \subseteq FileOps /\ UNCHANGED <<seen, tries, crashed, raced>>
      BY <2>15 DEF Throws, Fails, FileOps, QueueInv, TypeOK
    <3>3. PICK from \in Running : Return(c, from, "failed")
      BY <2>15 DEF Throws, Running, Steps, Ended
    <3>4. /\ pc' \in [Callers -> Steps]
          /\ queue' \in [Procs -> Seq(Callers)]
          /\ HeadRuns'
      BY <3>3, ReturnKeepsQueue
    <3> QED
      BY <3>1, <3>2, <3>4 DEF QueueInv, TypeOK
  <2>16. ASSUME NEW c \in Callers, Misjudges(c) PROVE QueueInv'
    <3>1. failed' \subseteq FileOps /\ UNCHANGED <<lock, queue, seen, tries, crashed, raced>>
      BY <2>16 DEF Misjudges, Fails, FileOps, QueueInv, TypeOK
    <3>2. PICK from \in Running, to \in Running : Goto(c, from, to) /\ from # "queued"
      BY <2>16 DEF Misjudges, Running, Steps, Ended
    <3>3. pc' \in [Callers -> Steps] /\ HeadRuns'
      BY <3>1, <3>2, StepKeepsQueue
    <3> QED
      BY <3>1, <3>3 DEF QueueInv, TypeOK
  <2>12. CASE Age
    BY <2>12 DEF Age, QueueInv, TypeOK, HeadRuns, LockFile
  <2>13. CASE UNCHANGED vars
    BY <2>13 DEF vars, QueueInv, TypeOK, HeadRuns
  <2> QED
    BY <2>1, <2>2, <2>3, <2>4, <2>5, <2>6, <2>7, <2>8, <2>9, <2>10, <2>11, <2>12, <2>13,
       <2>14, <2>15, <2>16, CallKeepsQueue, CrashKeepsQueue DEF Next, Step
<1> QED
  BY <1>1, <1>2, PTL DEF Spec

(* The state of the lock is always of its type. *)
THEOREM LockTypeCorrect == Spec => []TypeOK
BY QueueHolds, PTL DEF QueueInv

\* No two calls of one process ever run withFileLock at the same time.
OneCallPerProcess ==
  \A c, d \in Callers :
    ProcOf[c] = ProcOf[d] /\ pc[c] \in Running /\ pc[d] \in Running => c = d

(* withLocalLock serializes the calls of a process, whatever crashes. *)
THEOREM LocalExclusion == Spec => []OneCallPerProcess
<1>1. QueueInv => OneCallPerProcess
  BY DEF QueueInv, HeadRuns, OneCallPerProcess
<1> QED
  BY <1>1, QueueHolds, PTL

-----------------------------------------------------------------------------
(* The lock file *)

FileInv == DeadHaveEnded /\ (Calm => FileFollowsHolder /\ RecoversJudged)

\* The record of a live call is not stale, nor is a file whose creator writes.
LEMMA HeldIsNotStale ==
  ASSUME TypeOK, DeadHaveEnded, FileFollowsHolder, NEW c \in Callers,
         pc[c] \in {"write", "verify", "critical", "release", "unlink"}
  PROVE  ~Stale /\ ~OwnerIsDead(lock.owner)
<1>1. ProcOf[c] \notin crashed
  BY DEF DeadHaveEnded, Ended
<1>2. lock # Absent /\ lock.owner \in {Nobody, c} /\ (lock.owner = Nobody => ~lock.old)
  BY DEF FileFollowsHolder
<1>3. lock.owner = c => ~lock.old
  BY <1>2 DEF FileFollowsHolder
<1> QED
  BY <1>1, <1>2, <1>3 DEF Stale, OwnerIsDead

\* While a call recovers, nobody creates, has or removes a lock.
LEMMA RecovererIsAlone ==
  ASSUME TypeOK, DeadHaveEnded, FileFollowsHolder, RecoversJudged, NEW c \in Callers, Recovering(c)
  PROVE  lock # Absent /\
         \A d \in Callers : pc[d] \notin {"write", "verify", "critical", "release", "unlink"}
<1>1. lock # Absent /\ Stale
  BY DEF RecoversJudged, Recovering, Stale
<1> QED
  BY <1>1, HeldIsNotStale

\* A step that neither creates, writes, removes nor judges a lock ...
Harmless(c, to) ==
  /\ to \in Steps
  /\ \/ to \notin {"write", "verify", "critical", "release", "unlink", "judge"}
     \/ lock # Absent /\ lock.owner = c /\ to \in {"critical", "release", "unlink"}
  /\ to = "rename" => Recovering(c)

LEMMA EndIsHarmless ==
  ASSUME NEW c, NEW to \in {"idle", "queued", "open", "probe", "stat", "contend", "done", "timeout", "failed"}
  PROVE  Harmless(c, to)
BY DEF Harmless, Steps, Ended

\* ... and what it keeps.
LEMMA NothingNew ==
  ASSUME TypeOK, FileFollowsHolder, RecoversJudged, UNCHANGED <<lock, seen, crashed>>,
         NEW c \in Callers, NEW to, pc' = [pc EXCEPT ![c] = to], Harmless(c, to)
  PROVE  FileFollowsHolder' /\ RecoversJudged'
<1> USE DEF Harmless
<1>1. \A d \in Callers : pc'[d] = IF d = c THEN to ELSE pc[d]
  BY DEF TypeOK
<1>2. FileFollowsHolder'
  BY <1>1 DEF FileFollowsHolder
<1>3. \A d \in Callers : Recovering(d)' => Recovering(d)
  BY <1>1 DEF Recovering, OwnerIsDead
<1>4. to = "rename" => Stale
  BY DEF RecoversJudged, Recovering, Stale
<1>5. Stale' <=> Stale
  BY DEF Stale, OwnerIsDead
<1>6. RecoversJudged'
  BY <1>1, <1>3, <1>4, <1>5 DEF RecoversJudged, OwnerIsDead
<1> QED
  BY <1>2, <1>6

\* The lock is taken away: by its owner, or by the one who recovers it.
LEMMA FileGone ==
  ASSUME TypeOK, DeadHaveEnded, FileFollowsHolder, RecoversJudged, UNCHANGED <<seen, crashed>>,
         NEW c \in Callers, Recovering(c) \/ pc[c] = "unlink", NEW to \in Steps,
         pc' = [pc EXCEPT ![c] = to], lock' = Absent,
         to \notin {"write", "verify", "critical", "release", "unlink", "judge", "rename"}
  PROVE  FileFollowsHolder' /\ RecoversJudged'
<1>1. \A d \in Callers : pc'[d] = IF d = c THEN to ELSE pc[d]
  BY DEF TypeOK
<1>2. CASE Recovering(c)
  <2>1. \A d \in Callers : pc'[d] \notin {"write", "verify", "critical", "release", "unlink"}
    BY <1>1, <1>2, RecovererIsAlone
  <2>2. \A d \in Callers : ~Recovering(d)'
    BY <1>1, <1>2 DEF RecoversJudged, Recovering, OwnerIsDead
  <2> QED
    BY <1>1, <2>1, <2>2 DEF FileFollowsHolder, RecoversJudged, Recovering, OwnerIsDead
<1>3. CASE pc[c] = "unlink"
  <2>1. \A d \in Callers : ~Recovering(d)
    BY <1>3, RecovererIsAlone
  <2>2. lock # Absent /\ lock.owner = c
    BY <1>3 DEF FileFollowsHolder
  <2>3. \A d \in Callers \ {c} : pc[d] \notin {"write", "verify", "critical", "release", "unlink"}
    BY <2>2 DEF FileFollowsHolder
  <2>4. \A d \in Callers : ~Recovering(d)'
    BY <1>1, <2>1 DEF Recovering, OwnerIsDead
  <2> QED
    BY <1>1, <2>3, <2>4 DEF FileFollowsHolder, RecoversJudged, Recovering, OwnerIsDead
<1> QED
  BY <1>2, <1>3

\* The record is written: whether the call goes on or fails to close the file.
LEMMA RecordWritten ==
  ASSUME TypeOK, DeadHaveEnded, FileFollowsHolder, RecoversJudged, UNCHANGED <<seen, crashed>>,
         NEW c \in Callers, pc[c] = "write", NEW to \in {"verify", "failed"},
         pc' = [pc EXCEPT ![c] = to], lock' = Written(c)
  PROVE  FileFollowsHolder' /\ RecoversJudged'
<1>1. \A d \in Callers : pc'[d] = IF d = c THEN to ELSE pc[d]
  BY DEF TypeOK
<1>2. lock # Absent /\ lock.by = c /\ lock.owner = Nobody /\ lock \in LockFile
  BY DEF FileFollowsHolder, TypeOK
<1>3. lock' = [lock EXCEPT !.owner = c, !.old = FALSE]
  BY <1>2 DEF Written
<1>4. lock' \in LockFile /\ lock'.by = c /\ lock'.owner = c /\ lock'.old = FALSE
  BY <1>2, <1>3 DEF LockFile, Owners
<1>5. lock' # Absent
  BY <1>4
<1>6. \A d \in Callers : ~Recovering(d)'
  BY <1>1, RecovererIsAlone DEF Recovering, OwnerIsDead
<1>7. \A d \in Callers \ {c} : pc[d] \notin {"write", "verify", "critical", "release", "unlink"}
  BY <1>2 DEF FileFollowsHolder
<1>8. FileFollowsHolder'
  BY <1>1, <1>4, <1>5, <1>7 DEF FileFollowsHolder
<1>9. RecoversJudged'
  BY <1>6 DEF RecoversJudged, Recovering
<1> QED
  BY <1>8, <1>9

LEMMA DeadStayEnded ==
  ASSUME TypeOK, DeadHaveEnded, [Next]_vars
  PROVE  DeadHaveEnded'
<1> USE DEF DeadHaveEnded, TypeOK, Ended
<1>1. CASE UNCHANGED vars
  BY <1>1 DEF vars
<1>2. ASSUME NEW c \in Callers, Call(c) \/ Step(c) \/ Throws(c) \/ Misjudges(c) PROVE DeadHaveEnded'
  <2>1. crashed' = crashed
    BY <1>2 DEF Call, Step, Start, Open, Write, Verify, Probe, Judge, Stat, Rename, Contend, Leave,
                Release, Unlink, Throws, Misjudges
  <2>2. ProcOf[c] \notin crashed
    <3>1. CASE Call(c)
      BY <3>1 DEF Call
    <3>2. CASE Step(c)
      BY <3>2 DEF Step, Start, Open, Write, Verify, Probe, Judge, Stat, Rename, Contend, Leave,
                  Release, Unlink, Return, Goto
    <3>3. CASE Throws(c) \/ Misjudges(c)
      BY <3>3 DEF Throws, Misjudges, Return, Goto
    <3> QED
      BY <1>2, <3>1, <3>2, <3>3
  <2>3. \A d \in Callers \ {c} : pc'[d] = pc[d]
    <3>1. CASE Call(c)
      BY <3>1 DEF Call, Goto
    <3>2. CASE Step(c)
      BY <3>2 DEF Step, Start, Open, Write, Verify, Probe, Judge, Stat, Rename, Contend, Leave,
                  Release, Unlink, Return, Goto
    <3>3. CASE Throws(c) \/ Misjudges(c)
      BY <3>3 DEF Throws, Misjudges, Return, Goto
    <3> QED
      BY <1>2, <3>1, <3>2, <3>3
  <2> QED
    BY <2>1, <2>2, <2>3
<1>3. ASSUME NEW p \in Procs, Crash(p) PROVE DeadHaveEnded'
  BY <1>3 DEF Crash
<1>4. CASE Age
  BY <1>4 DEF Age
<1> QED
  BY <1>1, <1>2, <1>3, <1>4 DEF Next

LEMMA FileStep ==
  ASSUME TypeOK, FileInv, [Next]_vars
  PROVE  FileInv'
<1>1. DeadHaveEnded /\ DeadHaveEnded'
  BY DeadStayEnded DEF FileInv
<1> SUFFICES ASSUME Calm' PROVE FileFollowsHolder' /\ RecoversJudged'
  BY <1>1 DEF FileInv
<1>2. Calm
  BY DEF Next, vars, Step, Call, Start, Open, Write, Verify, Probe, Judge, Stat, Rename, Contend,
         Leave, Release, Unlink, Throws, Misjudges, Fails, Competes, Age, Crash, Calm, TypeOK
<1>3. FileFollowsHolder /\ RecoversJudged
  BY <1>2 DEF FileInv
<1> DEFINE Good == FileFollowsHolder' /\ RecoversJudged'
<1>4. ASSUME NEW c \in Callers,
             Call(c) \/ Start(c) \/ Contend(c) \/ Leave(c) \/ Verify(c) \/ Judge(c)
               \/ Release(c) \/ Misjudges(c)
      PROVE  Good
  <2>1. \E to : pc' = [pc EXCEPT ![c] = to] /\ Harmless(c, to)
    <3>1. CASE Call(c) \/ Start(c) \/ Contend(c)
      <4>1. \E to \in {"queued", "open", "timeout"} : pc' = [pc EXCEPT ![c] = to]
        BY <3>1 DEF Call, Start, Contend, Return, Goto
      <4> QED
        BY <4>1, EndIsHarmless
    <3>2. CASE Leave(c)
      <4>1. pc' = [pc EXCEPT ![c] = "release"] /\ lock # Absent /\ lock.owner = c
        BY <1>3, <3>2 DEF Leave, Goto, FileFollowsHolder
      <4>2. Harmless(c, "release")
        BY <4>1 DEF Harmless, Steps
      <4> QED
        BY <4>1, <4>2
    <3>5. CASE Verify(c) \/ Release(c)
      <4>1. \/ \E to \in {"critical", "unlink"} : pc' = [pc EXCEPT ![c] = to] /\ lock # Absent /\ lock.owner = c
            \/ \E to \in {"open", "failed", "done"} : pc' = [pc EXCEPT ![c] = to]
        BY <3>5 DEF Verify, Release, Return, Goto
      <4> QED
        BY <4>1, EndIsHarmless DEF Harmless, Steps
    <3>3. CASE Judge(c)
      <4>1. \/ pc[c] = "judge" /\ OwnerIsDead(seen[c]) /\ pc' = [pc EXCEPT ![c] = "rename"]
            \/ pc' = [pc EXCEPT ![c] = "contend"]
        BY <3>3 DEF Judge, Goto
      <4> QED
        BY <4>1, EndIsHarmless DEF Harmless, Steps, Recovering
    <3>4. CASE Misjudges(c)
      <4>1. \E to \in {"probe", "open"} : pc' = [pc EXCEPT ![c] = to]
        BY <3>4 DEF Misjudges, Fails, Goto, Calm
      <4> QED
        BY <4>1, EndIsHarmless
    <3> QED
      BY <1>4, <3>1, <3>2, <3>3, <3>4, <3>5
  <2>2. UNCHANGED <<lock, seen, crashed>>
    BY <1>4 DEF Call, Start, Contend, Leave, Verify, Judge, Release, Misjudges
  <2> QED
    BY <1>3, <2>1, <2>2, NothingNew
<1>5. ASSUME NEW c \in Callers, Open(c) PROVE Good
  <2>1. CASE lock = Absent
    <3>1. /\ lock' = [by |-> c, owner |-> Nobody, old |-> FALSE]
          /\ pc' = [pc EXCEPT ![c] = "write"] /\ UNCHANGED <<seen, crashed>>
      BY <1>5, <2>1 DEF Open, Goto
    <3>2. \A d \in Callers : pc'[d] = IF d = c THEN "write" ELSE pc[d]
      BY <3>1 DEF TypeOK
    <3>3. \A d \in Callers : pc[d] \notin {"write", "verify", "critical", "release", "unlink"}
      BY <1>3, <2>1 DEF FileFollowsHolder
    <3>4. \A d \in Callers : ~Recovering(d)
      BY <1>1, <1>3, <2>1, RecovererIsAlone
    <3>5. \A d \in Callers : ~Recovering(d)'
      BY <3>1, <3>2, <3>4 DEF Recovering, OwnerIsDead
    <3>6. lock' # Absent /\ lock'.by = c /\ lock'.owner = Nobody /\ lock'.old = FALSE
      BY <3>1, NewFile
    <3>7. FileFollowsHolder'
      BY <3>2, <3>3, <3>6 DEF FileFollowsHolder
    <3>8. RecoversJudged'
      BY <3>5 DEF RecoversJudged, Recovering
    <3> QED
      BY <3>7, <3>8
  <2>2. CASE lock # Absent
    <3>1. pc' = [pc EXCEPT ![c] = "probe"] /\ UNCHANGED <<lock, seen, crashed>> /\ Harmless(c, "probe")
      BY <1>5, <2>2, EndIsHarmless DEF Open, Goto
    <3> QED
      BY <1>3, <3>1, NothingNew
  <2> QED
    BY <2>1, <2>2
<1>6. ASSUME NEW c \in Callers, Write(c) PROVE Good
  BY <1>1, <1>3, <1>6, RecordWritten DEF Write, Goto
<1>7. ASSUME NEW c \in Callers, Probe(c) PROVE Good
  <2>1. CASE lock = Absent \/ lock.owner = Nobody
    <3>1. PICK to \in {"contend", "stat"} : pc' = [pc EXCEPT ![c] = to] /\ UNCHANGED <<lock, seen, crashed>>
      BY <1>7, <2>1 DEF Probe, Goto
    <3>2. Harmless(c, to)
      BY EndIsHarmless
    <3> QED
      BY <1>3, <3>1, <3>2, NothingNew
  <2>2. CASE lock # Absent /\ lock.owner # Nobody
    <3>1. /\ pc' = [pc EXCEPT ![c] = "judge"] /\ seen' = [seen EXCEPT ![c] = lock.owner]
          /\ UNCHANGED <<lock, crashed>>
      BY <1>7, <2>2 DEF Probe, Goto
    <3>7. Recovering(c)' => \A d \in Callers \ {c} : ~Recovering(d)
      BY <1>7 DEF Probe, Competes, Calm
    <3>2. \A d \in Callers : /\ pc'[d] = IF d = c THEN "judge" ELSE pc[d]
                             /\ seen'[d] = IF d = c THEN lock.owner ELSE seen[d]
      BY <3>1 DEF TypeOK
    <3>3. \A d \in Callers \ {c} : Recovering(d)' <=> Recovering(d)
      BY <3>1, <3>2 DEF Recovering, OwnerIsDead
    <3>4. FileFollowsHolder'
      BY <1>3, <3>1, <3>2 DEF FileFollowsHolder
    <3>5. Stale' <=> Stale
      BY <3>1 DEF Stale, OwnerIsDead
    <3>6. RecoversJudged'
      <4>1. ASSUME NEW d \in Callers, pc'[d] = "rename" PROVE Stale'
        <5>1. pc[d] = "rename"
          BY <3>2, <4>1
        <5> QED
          BY <1>3, <3>5, <5>1 DEF RecoversJudged
      <4>2. ASSUME NEW d \in Callers, pc'[d] = "judge", OwnerIsDead(seen[d])'
            PROVE  lock' # Absent /\ lock'.owner = seen'[d]
        <5>1. CASE d = c
          <6>1. seen'[c] = lock.owner
            BY <3>2
          <6> QED
            BY <2>2, <3>1, <5>1, <6>1
        <5>2. CASE d # c
          <6>1. pc[d] = "judge" /\ seen'[d] = seen[d]
            BY <3>2, <4>2, <5>2
          <6>2. OwnerIsDead(seen[d])
            BY <3>1, <4>2, <6>1 DEF OwnerIsDead
          <6> QED
            BY <1>3, <3>1, <6>1, <6>2 DEF RecoversJudged
        <5> QED
          BY <5>1, <5>2
      <4>3. ASSUME NEW d \in Callers, NEW e \in Callers, Recovering(d)', Recovering(e)'
            PROVE  d = e
        BY <1>3, <3>3, <3>7, <4>3 DEF RecoversJudged
      <4> QED
        BY <4>1, <4>2, <4>3 DEF RecoversJudged
    <3> QED
      BY <3>4, <3>6
  <2> QED
    BY <2>1, <2>2
<1>8. ASSUME NEW c \in Callers, Stat(c) PROVE Good
  <2>1. CASE ~(lock # Absent /\ lock.old)
    <3>1. pc' = [pc EXCEPT ![c] = "contend"] /\ UNCHANGED <<lock, seen, crashed>> /\ Harmless(c, "contend")
      BY <1>8, <2>1, EndIsHarmless DEF Stat, Goto
    <3> QED
      BY <1>3, <3>1, NothingNew
  <2>2. CASE lock # Absent /\ lock.old
    <3>1. /\ pc' = [pc EXCEPT ![c] = "rename"] /\ UNCHANGED <<lock, seen, crashed>>
          /\ ~(Recovering(c)' /\ \E d \in Callers \ {c} : Recovering(d))
      BY <1>8, <2>2 DEF Stat, Goto, Competes, Calm
    <3>2. \A d \in Callers : pc'[d] = IF d = c THEN "rename" ELSE pc[d]
      BY <3>1 DEF TypeOK
    <3>3. \A d \in Callers \ {c} : Recovering(d)' <=> Recovering(d)
      BY <3>1, <3>2 DEF Recovering, OwnerIsDead
    <3>4. FileFollowsHolder'
      BY <1>3, <3>1, <3>2 DEF FileFollowsHolder
    <3>5. Stale /\ (Stale' <=> Stale)
      BY <1>3, <2>2, <3>1 DEF Stale, OwnerIsDead, FileFollowsHolder
    <3>6. Recovering(c)'
      BY <3>2 DEF Recovering
    <3>7. RecoversJudged'
      BY <1>3, <3>1, <3>2, <3>3, <3>5, <3>6 DEF RecoversJudged, OwnerIsDead
    <3> QED
      BY <3>4, <3>7
  <2> QED
    BY <2>1, <2>2
<1>9. ASSUME NEW c \in Callers, Rename(c) \/ Unlink(c) PROVE Good
  <2>1. PICK to \in {"open", "done"} : /\ pc' = [pc EXCEPT ![c] = to] /\ lock' = Absent
                                       /\ UNCHANGED <<seen, crashed>>
                                       /\ pc[c] \in {"rename", "unlink"}
    BY <1>9 DEF Rename, Unlink, Return, Goto
  <2>2. to \in Steps
    BY DEF Steps, Ended
  <2> QED
    BY <1>1, <1>3, <2>1, <2>2, FileGone DEF Recovering
<1>10. ASSUME NEW c \in Callers, Throws(c) PROVE Good
  <2>1. /\ pc' = [pc EXCEPT ![c] = "failed"] /\ UNCHANGED <<seen, crashed>> /\ "failed" \in Steps
        /\ Harmless(c, "failed")
        /\ \/ UNCHANGED lock
           \/ pc[c] = "write" /\ lock' = Written(c)
           \/ pc[c] = "rename" /\ lock' = Absent
    BY <1>10, EndIsHarmless DEF Throws, Return, Goto, Steps, Ended
  <2>2. CASE UNCHANGED lock
    <3>1. UNCHANGED <<lock, seen, crashed>>
      BY <2>1, <2>2
    <3> QED
      BY <1>3, <2>1, <3>1, NothingNew
  <2>3. CASE pc[c] = "write" /\ lock' = Written(c)
    BY <1>1, <1>3, <2>1, <2>3, RecordWritten
  <2>4. CASE pc[c] = "rename" /\ lock' = Absent
    BY <1>1, <1>3, <2>1, <2>4, FileGone DEF Recovering
  <2> QED
    BY <2>1, <2>2, <2>3, <2>4
<1>11. ASSUME NEW p \in Procs, Crash(p) PROVE Good
  <2>1. /\ \A c \in Callers : pc'[c] = pc[c] \/ pc'[c] = "dead"
        /\ UNCHANGED <<lock, seen>> /\ crashed \subseteq crashed'
        /\ \A c \in Callers : Recovering(c)' => Recovering(c)
    BY <1>11 DEF Crash, Calm
  <2>2. FileFollowsHolder'
    BY <1>3, <2>1 DEF FileFollowsHolder
  <2>3. Stale => Stale'
    BY <2>1 DEF Stale, OwnerIsDead
  <2>4. RecoversJudged'
    BY <1>3, <2>1, <2>3 DEF RecoversJudged, Recovering
  <2> QED
    BY <2>2, <2>4
<1>12. CASE Age
  <2>1. /\ lock # Absent /\ lock.owner = Nobody /\ lock \in LockFile /\ pc[lock.by] # "write"
        /\ lock' = [lock EXCEPT !.old = TRUE] /\ UNCHANGED <<pc, seen, crashed>>
    BY <1>12 DEF Age, TypeOK
  <2>2. lock' \in LockFile /\ lock'.by = lock.by /\ lock'.owner = Nobody /\ lock'.old
    BY <2>1 DEF LockFile, Owners
  <2>3. lock' # Absent
    BY <2>2
  <2>4. FileFollowsHolder'
    BY <1>3, <2>1, <2>2, <2>3 DEF FileFollowsHolder
  <2>5. Stale'
    BY <2>2, <2>3 DEF Stale
  <2>6. \A c \in Callers : Recovering(c)' <=> Recovering(c)
    BY <2>1 DEF Recovering, OwnerIsDead
  <2>7. RecoversJudged'
    BY <1>3, <2>1, <2>2, <2>3, <2>5, <2>6 DEF RecoversJudged, OwnerIsDead
  <2> QED
    BY <2>4, <2>7
<1>13. CASE UNCHANGED vars
  BY <1>3, <1>13 DEF vars, FileFollowsHolder, RecoversJudged, Recovering, Stale, OwnerIsDead
<1> QED
  BY <1>4, <1>5, <1>6, <1>7, <1>8, <1>9, <1>10, <1>11, <1>12, <1>13 DEF Next, Step

(* Mutations of the coordination log run one at a time, and the lock of the one that *)
(* runs stays where it is (lock.ts:110-167), across any number of processes and with *)
(* any deaths, reused pids, failures and locks left behind: until two calls recover at *)
(* one time, a process ends while another looks whether it lives, or a lock that is  *)
(* there cannot be read.                                                             *)
THEOREM LockIsSafeUntilRace == Spec => []SafeUntilRace
<1>1. Init => FileInv
  BY DEF Init, FileInv, FileFollowsHolder, RecoversJudged, Recovering, DeadHaveEnded, Stale
<1>2. TypeOK /\ FileInv /\ [Next]_vars => FileInv'
  BY FileStep
<1>3. FileInv => SafeUntilRace
  <2>1. FileInv /\ Calm => MutualExclusion /\ HolderKeepsLock
    BY DEF FileInv, FileFollowsHolder, MutualExclusion, HolderKeepsLock
  <2> QED
    BY <2>1 DEF SafeUntilRace, Calm
<1> QED
  BY <1>1, <1>2, <1>3, LockTypeCorrect, PTL DEF Spec

-----------------------------------------------------------------------------
(* The locks of the state home. *)

HIDE LockConstantsOK DEF LockConstantsOK, events
USE FileLockConstantsOK DEF FileLockConstantsOK

\* The file open(path, "wx") creates is a lock file, and there.
LEMMA NewLockFile ==
  ASSUME NEW p \in Contenders
  PROVE  LET f == [by |-> p, owner |-> NoOwner, age |-> "fresh"]
         IN  f \in LockRecord /\ f # NoFile
<1> DEFINE f == [by |-> p, owner |-> NoOwner, age |-> "fresh"]
<1>1. f \in LockRecord
  BY Zenon DEF LockRecord
<1> QED
  BY <1>1

LEMMA BlankIsAView == Blank \in View
BY Zenon DEF Blank, View

(* Every operation of file-lock.ts keeps the lock file, the guard and what *)
(* contenders have read within their types.                                *)
THEOREM FileLockTypeCorrect == FileSpec => []FileTypeOK
<1>1. FileInit => FileTypeOK
  BY BlankIsAView DEF FileInit, FileTypeOK, FileSteps
<1>2. FileTypeOK /\ [FileNext]_fileVars => FileTypeOK'
  <2> SUFFICES ASSUME FileTypeOK, [FileNext]_fileVars PROVE FileTypeOK'
    OBVIOUS
  <2> USE DEF FileTypeOK
  <2>1. ASSUME NEW p \in Contenders, CreateFile(p) PROVE FileTypeOK'
    BY <2>1, NewLockFile DEF CreateFile, MoveTo, FileSteps
  <2>2. ASSUME NEW p \in Contenders, WriteRecord(p) PROVE FileTypeOK'
    <3>1. file' = NoFile \/ file' \in LockRecord
      BY <2>2 DEF WriteRecord, LockRecord
    <3> QED
      BY <2>2, <3>1 DEF WriteRecord, MoveTo, FileSteps
  <2>3. ASSUME NEW p \in Contenders, WriteFails(p) \/ RemoveLock(p) \/ RenameAway(p) PROVE FileTypeOK'
    BY <2>3 DEF WriteFails, RemoveLock, RenameAway, MoveTo, FileSteps
  <2>4. ASSUME NEW p \in Contenders, AcquireFileLock(p) \/ ReadOwnRecord(p) \/ Retry(p) \/ TimeOut(p)
        PROVE  FileTypeOK'
    BY <2>4 DEF AcquireFileLock, ReadOwnRecord, Retry, TimeOut, MoveTo, FileSteps
  <2>5. ASSUME NEW p \in Contenders, MakeGuard(p) PROVE FileTypeOK'
    BY <2>5 DEF MakeGuard, MoveTo, FileSteps
  <2>6. ASSUME NEW p \in Contenders, StatFile(p) \/ Read(p) PROVE FileTypeOK'
    <3>1. view' \in [Contenders -> View]
      BY <2>6 DEF StatFile, Read, LockRecord, View
    <3>2. at' \in [Contenders -> FileSteps]
      BY <2>6 DEF StatFile, Read, MoveTo, FileSteps
    <3> QED
      BY <2>6, <3>1, <3>2 DEF StatFile, Read
  <2>7. ASSUME NEW p \in Contenders, Decide(p) PROVE FileTypeOK'
    BY <2>7 DEF Decide, MoveTo, FileSteps
  <2>8. ASSUME NEW p \in Contenders, RemoveGuard(p) PROVE FileTypeOK'
    BY <2>8, BlankIsAView DEF RemoveGuard, MoveTo, FileSteps
  <2>9. ASSUME NEW p \in Contenders, ProcessEnds(p) PROVE FileTypeOK'
    BY <2>9, BlankIsAView DEF ProcessEnds, FileSteps
  <2>10. CASE FileAges
    BY <2>10 DEF FileAges, LockRecord
  <2>11. CASE UNCHANGED fileVars
    BY <2>11 DEF fileVars
  <2> QED
    BY <2>1, <2>2, <2>3, <2>4, <2>5, <2>6, <2>7, <2>8, <2>9, <2>10, <2>11
       DEF FileNext, Progress
<1> QED
  BY <1>1, <1>2, PTL DEF FileSpec

-----------------------------------------------------------------------------

\* While nobody has exited, the lock file belongs to the one process between
\* creating and removing it, and no contender has seen an old one.
LockFileFollowsHolder ==
  /\ file # NoFile => file.owner \in {NoOwner, file.by} /\ file.age = "fresh"
  /\ \A p \in Contenders :
       /\ at[p] # "rename"
       /\ view[p].age \in {Unread, "fresh"}
       /\ at[p] = "write" => file # NoFile /\ file.by = p /\ file.owner = NoOwner
       /\ at[p] \in {"held", "remove"} => file # NoFile /\ file.owner = p

LockFileInv == gone = {} => LockFileFollowsHolder

LEMMA LockFileStep ==
  ASSUME FileTypeOK, LockFileInv, [FileNext]_fileVars
  PROVE  LockFileInv'
<1> SUFFICES ASSUME gone' = {} PROVE LockFileFollowsHolder'
  BY DEF LockFileInv
<1>1. gone = {}
  BY DEF FileNext, fileVars, Progress, AcquireFileLock, CreateFile, WriteRecord, WriteFails, ReadOwnRecord, RemoveLock, MakeGuard,
         StatFile, Read, Decide, RenameAway, RemoveGuard, Retry, TimeOut, FileAges, ProcessEnds
<1>2. LockFileFollowsHolder
  BY <1>1 DEF LockFileInv
<1> USE DEF LockFileFollowsHolder, FileTypeOK
<1>3. ASSUME NEW p \in Contenders, AcquireFileLock(p) \/ Retry(p) \/ TimeOut(p) \/ MakeGuard(p)
      PROVE  LockFileFollowsHolder'
  BY <1>2, <1>3 DEF AcquireFileLock, Retry, TimeOut, MakeGuard, MoveTo
<1>4. ASSUME NEW p \in Contenders, CreateFile(p) PROVE LockFileFollowsHolder'
  <2>1. CASE file = NoFile
    <3>1. /\ file' = [by |-> p, owner |-> NoOwner, age |-> "fresh"]
          /\ MoveTo(p, "open", "write") /\ UNCHANGED view
      BY <1>4, <2>1 DEF CreateFile
    <3> QED
      BY <1>2, <2>1, <3>1, NewLockFile DEF MoveTo
  <2>2. CASE file # NoFile
    BY <1>2, <1>4, <2>2 DEF CreateFile, MoveTo
  <2> QED
    BY <2>1, <2>2
<1>5. ASSUME NEW p \in Contenders, WriteRecord(p) PROVE LockFileFollowsHolder'
  <2>1. file # NoFile /\ file.by = p /\ file.owner = NoOwner /\ file.age = "fresh"
    BY <1>2, <1>5 DEF WriteRecord, MoveTo
  <2>2. file' = [file EXCEPT !.owner = p] /\ file \in LockRecord
    BY <1>5, <2>1 DEF WriteRecord
  <2>3. file' \in LockRecord /\ file'.by = p /\ file'.owner = p /\ file'.age = "fresh"
    BY <2>1, <2>2 DEF LockRecord
  <2> QED
    BY <1>2, <1>5, <2>1, <2>3 DEF WriteRecord, MoveTo
<1>6. ASSUME NEW p \in Contenders, WriteFails(p) \/ RemoveLock(p) PROVE LockFileFollowsHolder'
  BY <1>2, <1>6 DEF WriteFails, RemoveLock, MoveTo
<1>7. ASSUME NEW p \in Contenders, ReadOwnRecord(p) PROVE LockFileFollowsHolder'
  BY <1>2, <1>7 DEF ReadOwnRecord, MoveTo
<1>8. ASSUME NEW p \in Contenders, StatFile(p) \/ Read(p) PROVE LockFileFollowsHolder'
  <2>1. \A q \in Contenders : view'[q].age \in {Unread, "fresh"}
    BY <1>2, <1>8 DEF StatFile, Read, View, LockRecord
  <2> QED
    BY <1>2, <1>8, <2>1 DEF StatFile, Read, MoveTo
<1>9. ASSUME NEW p \in Contenders, Decide(p) PROVE LockFileFollowsHolder'
  <2>1. InUse(p)
    BY <1>1, <1>2, <1>9 DEF Decide, InUse, LooksAlive, View
  <2> QED
    BY <1>2, <1>9, <2>1 DEF Decide, MoveTo
<1>10. ASSUME NEW p \in Contenders, RenameAway(p) PROVE FALSE
  BY <1>2, <1>10 DEF RenameAway, MoveTo
<1>11. ASSUME NEW p \in Contenders, RemoveGuard(p) PROVE LockFileFollowsHolder'
  <2>1. \A q \in Contenders : view'[q].age \in {Unread, "fresh"}
    BY <1>2, <1>11 DEF RemoveGuard, Blank
  <2> QED
    BY <1>2, <1>11, <2>1 DEF RemoveGuard, MoveTo
<1>12. ASSUME NEW p \in Contenders, ProcessEnds(p) PROVE FALSE
  BY <1>12 DEF ProcessEnds
<1>13. ASSUME FileAges PROVE FALSE
  BY <1>1, <1>13 DEF FileAges
<1>14. CASE UNCHANGED fileVars
  BY <1>2, <1>14 DEF fileVars
<1> QED
  BY <1>3, <1>4, <1>5, <1>6, <1>7, <1>8, <1>9, <1>10, <1>11, <1>12, <1>13, <1>14
     DEF FileNext, Progress

(* Mutations under the lock run one at a time, and nobody's lock is taken  *)
(* away, until a process has died or exited.                               *)
THEOREM FileLockSafeUntilExit == FileSpec => []SafeUntilExit
<1>1. FileInit => LockFileInv
  BY DEF FileInit, LockFileInv, LockFileFollowsHolder, Blank
<1>2. FileTypeOK /\ LockFileInv /\ [FileNext]_fileVars => LockFileInv'
  BY LockFileStep
<1>3. LockFileInv => SafeUntilExit
  BY DEF LockFileInv, LockFileFollowsHolder, SafeUntilExit, OneFileHolder, HolderKeepsFile, Holds
<1> QED
  BY <1>1, <1>2, <1>3, FileLockTypeCorrect, PTL DEF FileSpec

-----------------------------------------------------------------------------

\* The directory belongs to the contender that is at work in it.
GuardInv ==
  \A p \in Contenders :
    p \notin gone /\ at[p] \in {"inspect", "rename", "unguard"} => guard = p

(* Recovery of one lock file is the work of one contender at a time, even  *)
(* after crashes.                                                          *)
THEOREM RecoveryIsGuarded == FileSpec => []OneRecoverer
<1>1. FileInit => GuardInv
  BY DEF FileInit, GuardInv
<1>2. FileTypeOK /\ GuardInv /\ [FileNext]_fileVars => GuardInv'
  <2> SUFFICES ASSUME FileTypeOK, GuardInv, [FileNext]_fileVars PROVE GuardInv'
    OBVIOUS
  <2> USE DEF FileTypeOK, GuardInv, MoveTo
  <2>1. ASSUME NEW p \in Contenders, MakeGuard(p) \/ RemoveGuard(p) PROVE GuardInv'
    BY <2>1 DEF MakeGuard, RemoveGuard
  <2>2. ASSUME NEW p \in Contenders, StatFile(p) \/ Read(p) \/ Decide(p) \/ RenameAway(p) PROVE GuardInv'
    BY <2>2 DEF StatFile, Read, Decide, RenameAway
  <2>3. ASSUME NEW p \in Contenders,
               AcquireFileLock(p) \/ CreateFile(p) \/ WriteRecord(p) \/ WriteFails(p) \/ ReadOwnRecord(p) \/ RemoveLock(p)
                 \/ Retry(p) \/ TimeOut(p)
        PROVE  GuardInv'
    BY <2>3 DEF AcquireFileLock, CreateFile, WriteRecord, WriteFails, ReadOwnRecord, RemoveLock, Retry, TimeOut
  <2>4. ASSUME NEW p \in Contenders, ProcessEnds(p) PROVE GuardInv'
    BY <2>4 DEF ProcessEnds
  <2>5. CASE FileAges \/ UNCHANGED fileVars
    BY <2>5 DEF FileAges, fileVars
  <2> QED
    BY <2>1, <2>2, <2>3, <2>4, <2>5 DEF FileNext, Progress
<1>3. GuardInv => OneRecoverer
  BY DEF GuardInv, OneRecoverer
<1> QED
  BY <1>1, <1>2, <1>3, FileLockTypeCorrect, PTL DEF FileSpec

HIDE FileLockConstantsOK DEF FileLockConstantsOK

-----------------------------------------------------------------------------
(* The bridge lease. *)


NoDeath == \A b \in Bridges : ~InLease(b, "dead")
Owning == {"write", "held", "unlink"}

(* Only a lease that names somebody is judged. *)
JudgedHasOwner ==
  \A b \in Bridges : InLease(b, "judge") => bridge[b].found # {}

(* As long as nobody died nobody removes a lease, and who has one is on file. *)
OwnerOnFile == NoDeath =>
  \A b \in Bridges : ~InLease(b, "remove") /\ (bridge[b].pc \in Owning => lease.by = {b})

LeaseInv == LeaseTypeOK /\ JudgedHasOwner /\ OwnerOnFile

(* The first state. *)
LEMMA LeaseInitInv == LeaseInit => LeaseInv
  BY DEF LeaseInit, LeaseInv, LeaseTypeOK, JudgedHasOwner, OwnerOnFile, NoLease, Away,
         LeaseSteps, Attempts, Owning, InLease

(* Every step changes one process, and keeps the types. *)
LEMMA LeaseTypeStep == LeaseTypeOK /\ [LeaseNext]_leaseVars => LeaseTypeOK'
<1> SUFFICES ASSUME LeaseTypeOK, [LeaseNext]_leaseVars PROVE LeaseTypeOK'
  OBVIOUS
<1> USE DEF LeaseTypeOK, LeaseSteps, Attempts, BridgeAt, Refused, Away, NoLease, InLease
<1>1. CASE UNCHANGED leaseVars
  BY <1>1 DEF leaseVars
<1>2. ASSUME NEW b \in Bridges, AcquireBridgeLease(b) PROVE LeaseTypeOK'
  BY <1>2 DEF AcquireBridgeLease
<1>3. ASSUME NEW b \in Bridges, OpenLease(b) PROVE LeaseTypeOK'
  BY <1>3 DEF OpenLease
<1>4. ASSUME NEW b \in Bridges, WriteLease(b) PROVE LeaseTypeOK'
  BY <1>4 DEF WriteLease
<1>5. ASSUME NEW b \in Bridges, ReadLease(b) PROVE LeaseTypeOK'
  BY <1>5 DEF ReadLease
<1>6. ASSUME NEW b \in Bridges, JudgeLease(b) PROVE LeaseTypeOK'
  BY <1>6 DEF JudgeLease
<1>7. ASSUME NEW b \in Bridges, RemoveLease(b) PROVE LeaseTypeOK'
  BY <1>7 DEF RemoveLease
<1>8. ASSUME NEW b \in Bridges, ReleaseLease(b) PROVE LeaseTypeOK'
  BY <1>8 DEF ReleaseLease
<1>9. ASSUME NEW b \in Bridges, UnlinkLease(b) PROVE LeaseTypeOK'
  BY <1>9 DEF UnlinkLease
<1>10. ASSUME NEW b \in Bridges, BridgeDies(b) PROVE LeaseTypeOK'
  BY <1>10 DEF BridgeDies
<1> QED
  BY <1>1, <1>2, <1>3, <1>4, <1>5, <1>6, <1>7, <1>8, <1>9, <1>10 DEF LeaseNext, Acquires

(* Nobody comes back from the dead. *)
LEMMA DeathStays == LeaseTypeOK /\ [LeaseNext]_leaseVars /\ NoDeath' => NoDeath
<1> SUFFICES ASSUME LeaseTypeOK, [LeaseNext]_leaseVars, NEW d \in Bridges, InLease(d, "dead")
             PROVE InLease(d, "dead")'
  BY DEF NoDeath
<1> USE DEF LeaseTypeOK, InLease, BridgeAt, Refused, Away
<1>1. CASE UNCHANGED leaseVars
  BY <1>1 DEF leaseVars
<1>2. ASSUME NEW b \in Bridges, AcquireBridgeLease(b) \/ ReleaseLease(b) \/ UnlinkLease(b) \/ BridgeDies(b)
      PROVE bridge'[d] = bridge[d]
  BY <1>2 DEF AcquireBridgeLease, ReleaseLease, UnlinkLease, BridgeDies
<1>3. ASSUME NEW b \in Bridges, Acquires(b) PROVE bridge'[d] = bridge[d]
  BY <1>3 DEF Acquires, OpenLease, WriteLease, ReadLease, JudgeLease, RemoveLease
<1> QED
  BY <1>1, <1>2, <1>3 DEF LeaseNext

LEMMA JudgedStep == LeaseTypeOK /\ JudgedHasOwner /\ [LeaseNext]_leaseVars => JudgedHasOwner'
<1> SUFFICES ASSUME LeaseTypeOK, JudgedHasOwner, [LeaseNext]_leaseVars PROVE JudgedHasOwner'
  OBVIOUS
<1> USE DEF LeaseTypeOK, JudgedHasOwner, InLease, BridgeAt, Refused, Away, NoLease
<1>1. CASE UNCHANGED leaseVars
  BY <1>1 DEF leaseVars
<1>2. ASSUME NEW b \in Bridges, AcquireBridgeLease(b) \/ ReleaseLease(b) \/ UnlinkLease(b) \/ BridgeDies(b)
      PROVE JudgedHasOwner'
  BY <1>2 DEF AcquireBridgeLease, ReleaseLease, UnlinkLease, BridgeDies
<1>3. ASSUME NEW b \in Bridges, OpenLease(b) \/ WriteLease(b) PROVE JudgedHasOwner'
  BY <1>3 DEF OpenLease, WriteLease
<1>4. ASSUME NEW b \in Bridges, ReadLease(b) PROVE JudgedHasOwner'
  BY <1>4 DEF ReadLease
<1>5. ASSUME NEW b \in Bridges, JudgeLease(b) \/ RemoveLease(b) PROVE JudgedHasOwner'
  BY <1>5 DEF JudgeLease, RemoveLease
<1> QED
  BY <1>1, <1>2, <1>3, <1>4, <1>5 DEF LeaseNext, Acquires

LEMMA OwnerStep == LeaseInv /\ [LeaseNext]_leaseVars => OwnerOnFile'
<1> SUFFICES ASSUME LeaseInv, [LeaseNext]_leaseVars, NoDeath' PROVE OwnerOnFile'
  BY DEF OwnerOnFile
<1>1. NoDeath
  BY DeathStays DEF LeaseInv
<1>2. \A b \in Bridges : ~InLease(b, "remove") /\ (bridge[b].pc \in Owning => lease.by = {b})
  BY <1>1 DEF LeaseInv, OwnerOnFile
<1> USE DEF LeaseInv, LeaseTypeOK, Owning, InLease, BridgeAt, Refused, Away, NoLease
<1>3. CASE UNCHANGED leaseVars
  BY <1>2, <1>3 DEF leaseVars, OwnerOnFile
<1>4. ASSUME NEW b \in Bridges, AcquireBridgeLease(b) PROVE OwnerOnFile'
  BY <1>2, <1>4 DEF AcquireBridgeLease, OwnerOnFile
<1>5. ASSUME NEW b \in Bridges, OpenLease(b) PROVE OwnerOnFile'
  <2>1. CASE lease.by = {}
    <3>1. \A c \in Bridges : bridge[c].pc \notin Owning /\ bridge[c].pc # "remove"
      BY <1>2, <2>1
    <3>2. lease'.by = {b} /\ bridge' = [bridge EXCEPT ![b].pc = "write"]
      BY <1>5, <2>1 DEF OpenLease
    <3>3. \A c \in Bridges : c # b => bridge'[c] = bridge[c]
      BY <3>2
    <3>4. bridge'[b].pc = "write"
      BY <3>2
    <3> QED
      BY <3>1, <3>2, <3>3, <3>4 DEF OwnerOnFile
  <2>2. CASE lease.by # {}
    <3>1. UNCHANGED lease /\ bridge' = [bridge EXCEPT ![b].pc = "read"]
      BY <1>5, <2>2 DEF OpenLease
    <3>2. \A c \in Bridges : c # b => bridge'[c] = bridge[c]
      BY <3>1
    <3>3. bridge'[b].pc = "read"
      BY <3>1
    <3> QED
      BY <1>2, <3>1, <3>2, <3>3 DEF OwnerOnFile
  <2> QED
    BY <2>1, <2>2
<1>6. ASSUME NEW b \in Bridges, WriteLease(b) PROVE OwnerOnFile'
  BY <1>2, <1>6 DEF WriteLease, OwnerOnFile
<1>7. ASSUME NEW b \in Bridges, ReadLease(b) PROVE OwnerOnFile'
  BY <1>2, <1>7 DEF ReadLease, OwnerOnFile
<1>8. ASSUME NEW b \in Bridges, JudgeLease(b) PROVE OwnerOnFile'
  <2>1. bridge[b].found # {} /\ bridge[b].found \subseteq Bridges
    BY <1>8 DEF JudgeLease, JudgedHasOwner
  <2>2. Refused(b) /\ UNCHANGED lease
    BY <1>1, <1>8, <2>1 DEF JudgeLease, NoDeath
  <2> QED
    BY <1>2, <2>2 DEF OwnerOnFile
<1>9. ASSUME NEW b \in Bridges, RemoveLease(b) PROVE FALSE
  BY <1>2, <1>9 DEF RemoveLease
<1>10. ASSUME NEW b \in Bridges, ReleaseLease(b) PROVE OwnerOnFile'
  BY <1>2, <1>10 DEF ReleaseLease, OwnerOnFile
<1>11. ASSUME NEW b \in Bridges, UnlinkLease(b) PROVE OwnerOnFile'
  <2>1. lease.by = {b} /\ bridge' = [bridge EXCEPT ![b] = Away]
    BY <1>2, <1>11 DEF UnlinkLease
  <2>2. \A c \in Bridges : c # b => bridge[c].pc \notin Owning
    BY <1>2, <2>1
  <2> QED
    BY <1>2, <2>1, <2>2 DEF OwnerOnFile
<1>12. ASSUME NEW b \in Bridges, BridgeDies(b) PROVE FALSE
  BY <1>12 DEF BridgeDies, NoDeath
<1> QED
  BY <1>3, <1>4, <1>5, <1>6, <1>7, <1>8, <1>9, <1>10, <1>11, <1>12 DEF LeaseNext, Acquires

LEMMA LeaseInvariant == LeaseSpec => []LeaseInv
<1>1. LeaseInv /\ [LeaseNext]_leaseVars => LeaseInv'
  BY LeaseTypeStep, JudgedStep, OwnerStep DEF LeaseInv
<1> QED
  BY LeaseInitInv, <1>1, PTL DEF LeaseSpec

(* The lease file and every process of acquireBridgeLease stay within their types. *)
THEOREM LeaseTypeCorrect == LeaseSpec => []LeaseTypeOK
<1>1. LeaseInv => LeaseTypeOK
  BY DEF LeaseInv
<1> QED
  BY LeaseInvariant, <1>1, PTL

(* acquireBridgeLease and release give the lease to one process at a time, for *)
(* any number of processes and any interleaving, until one of them dies.       *)
THEOREM LeaseExclusive == LeaseSpec => []OneBridgeUntilDeath
<1>1. LeaseInv => OneBridgeUntilDeath
  BY DEF LeaseInv, OwnerOnFile, OneBridgeUntilDeath, OneBridge, NoDeath, Owning, InLease
<1> QED
  BY LeaseInvariant, <1>1, PTL

-----------------------------------------------------------------------------
(* The daemon. *)

Records == [pc : {"new", "dead"} \cup Starting \cup Serving, port : Ports,
            token : Daemons \cup {NoDaemon}, cursor : 0..MaxEvents,
            watching : BOOLEAN, due : BOOLEAN, reads : SUBSET (0..MaxEvents)]
Subscribers == [pc : {"out", "registered", "backlog", "open"}, at : Daemons \cup {NoDaemon},
                since : 0..MaxEvents, upTo : 0..MaxEvents, got : SUBSET Numbers]
DaemonTypes ==
  /\ log \in Seq(Audiences) /\ Len(log) <= MaxEvents
  /\ halted \in BOOLEAN /\ pidFile \in Daemons \cup {NoDaemon}
  /\ token \in {"absent", "empty"} \cup Daemons
  /\ daemon \in [Daemons -> Records] /\ client \in [Clients -> Subscribers]
  /\ caller \in [Controllers -> [pc : {"idle", "read", "signal", "remove"}, stops : BOOLEAN,
                                 found : Daemons \cup {NoDaemon}]]

(* Whoever is connected is connected to a daemon that serves. *)
Attached == \A c \in Clients :
  IF client[c].pc = "out" THEN client[c] = Out
  ELSE client[c].at \in Daemons /\ daemon[client[c].at].pc \in Serving

(* A signal goes to a daemon that the pid file named. *)
Found == \A k \in Controllers : caller[k].pc = "signal" => caller[k].found \in Daemons

(* One process creates the token file; who is past that has the token on file. *)
Holding == {"watch", "register", "bind"} \cup Serving
Accepts(p) == daemon[p].pc \in Holding => token \in Daemons /\ daemon[p].token = token
OneToken ==
  /\ \A p \in Daemons : In(p, "create") => token = "empty"
  /\ \A p, q \in Daemons : In(p, "create") /\ In(q, "create") => p = q
  /\ \A p \in Daemons : Accepts(p)

(* Nobody is ahead of the log. *)
Within ==
  /\ \A p \in Daemons : daemon[p].cursor <= Len(log) /\ daemon[p].reads \subseteq 0..Len(log)
  /\ \A c \in Clients : client[c].since <= Len(log) /\ client[c].upTo <= Len(log)

(* What a client has when it is sent the events after `from`: those that were *)
(* broadcast since.                                                           *)
Has(c, from) == For(c, (from + 1)..daemon[client[c].at].cursor) \subseteq client[c].got
Meets(c) ==
  /\ client[c].pc = "backlog" => Has(c, client[c].upTo)
  /\ client[c].pc = "open" => Has(c, client[c].since)
BacklogMeets == \A c \in Clients : Meets(c)

DaemonInv == DaemonTypes /\ Attached /\ Found /\ OneToken /\ Within /\ BacklogMeets

LEMMA OutIsSubscriber == Out \in Subscribers
  BY DaemonConstantsOK DEF Out, Subscribers, Numbers

(* The first state. *)
LEMMA DaemonInitInv == DaemonInit => DaemonInv
<1> SUFFICES ASSUME DaemonInit PROVE DaemonInv
  OBVIOUS
<1> USE DaemonConstantsOK DEF DaemonInit
<1> DEFINE News == [pc : {"new"}, port : Ports, token : {NoDaemon}, cursor : {0},
                    watching : {FALSE}, due : {FALSE}, reads : {{}}]
<1>1. \A p \in Daemons : daemon[p] \in Records /\ daemon[p].pc = "new" /\ daemon[p].cursor = 0 /\ daemon[p].reads = {}
  <2>1. \A r \in News : r \in Records /\ r.pc = "new" /\ r.cursor = 0 /\ r.reads = {}
    <3> SUFFICES ASSUME NEW r \in News PROVE r \in Records /\ r.pc = "new" /\ r.cursor = 0 /\ r.reads = {}
      OBVIOUS
    <3>1. r.pc = "new" /\ r.port \in Ports /\ r.token = NoDaemon /\ r.cursor = 0
          /\ r.watching = FALSE /\ r.due = FALSE /\ r.reads = {}
      OBVIOUS
    <3>2. r = [pc |-> r.pc, port |-> r.port, token |-> r.token, cursor |-> r.cursor,
               watching |-> r.watching, due |-> r.due, reads |-> r.reads]
      OBVIOUS
    <3>3. 0 \in 0..MaxEvents /\ {} \in SUBSET (0..MaxEvents)
      OBVIOUS
    <3>4. r \in Records
      BY <3>1, <3>2, <3>3 DEF Records
    <3> QED
      BY <3>1, <3>4
  <2>2. \A p \in Daemons : daemon[p] \in News
    OBVIOUS
  <2> HIDE DEF News
  <2> QED
    BY <2>1, <2>2
<1>2. DaemonTypes
  <2>1. daemon \in [Daemons -> Records]
    BY <1>1
  <2>2. client \in [Clients -> Subscribers]
    BY OutIsSubscriber
  <2>3. log \in Seq(Audiences) /\ Len(log) <= MaxEvents
    OBVIOUS
  <2> QED
    BY <2>1, <2>2, <2>3 DEF DaemonTypes, Resting
<1>3. OneToken
  BY <1>1 DEF OneToken, Accepts, Holding, Serving, In
<1>4. Attached /\ Found /\ Within /\ BacklogMeets
  BY <1>1 DEF Attached, Found, Within, BacklogMeets, Meets, Out, Resting
<1> QED
  BY <1>2, <1>3, <1>4 DEF DaemonInv

(* A step of one daemon that leaves the log and the callers alone, gives p the *)
(* record r and takes away its clients unless it serves before and after.      *)
LEMMA OneDaemonMoves ==
  ASSUME DaemonInv, NEW p \in Daemons, NEW r \in Records,
         daemon' = [daemon EXCEPT ![p] = r], UNCHANGED log,
         halted' \in BOOLEAN, pidFile' \in Daemons \cup {NoDaemon},
         Found', caller' \in [Controllers ->
           [pc : {"idle", "read", "signal", "remove"}, stops : BOOLEAN, found : Daemons \cup {NoDaemon}]],
         r.cursor <= Len(log), r.reads \subseteq 0..Len(log),
         \/ UNCHANGED client /\ daemon[p].pc \notin Serving
         \/ UNCHANGED client /\ r.pc \in Serving /\ r.cursor = daemon[p].cursor
         \/ client' = [c \in Clients |-> IF client[c].at = p THEN Out ELSE client[c]],
         OneToken', token' \in {"absent", "empty"} \cup Daemons
  PROVE  DaemonInv'
<1> USE DEF DaemonInv
<1> DEFINE Stays(c) ==
             /\ client'[c] = client[c]
             /\ \/ client[c].at # p \/ client[c].pc = "out"
                \/ r.pc \in Serving /\ r.cursor = daemon[p].cursor
<1>1. \A q \in Daemons : daemon'[q] = IF q = p THEN r ELSE daemon[q]
  BY DEF DaemonTypes
<1>2. \A c \in Clients : client'[c] = client[c] \/ client'[c] = Out
  OBVIOUS
<1>3. \A c \in Clients : client'[c] = Out \/ Stays(c)
  BY DEF Attached
<1>4. DaemonTypes'
  <2>1. Out \in Subscribers
    BY OutIsSubscriber
  <2>2. client' \in [Clients -> Subscribers]
    BY <2>1 DEF DaemonTypes
  <2> QED
    BY <2>2 DEF DaemonTypes
<1>5. Attached'
  <2> SUFFICES ASSUME NEW c \in Clients, client'[c].pc # "out"
               PROVE  client'[c].at \in Daemons /\ daemon'[client'[c].at].pc \in Serving
    BY <1>2 DEF Attached, Out
  <2>1. Stays(c)
    BY <1>3 DEF Out
  <2> QED
    BY <1>1, <2>1 DEF Attached
<1>6. Found'
  BY DEF Found
<1>7. Within'
  <2>1. \A c \in Clients : client'[c].since <= Len(log) /\ client'[c].upTo <= Len(log)
    BY <1>2 DEF Within, Out, DaemonTypes
  <2> QED
    BY <1>1, <2>1 DEF Within
<1>8. BacklogMeets'
  <2> SUFFICES ASSUME NEW c \in Clients PROVE Meets(c)'
    BY DEF BacklogMeets
  <2>1. CASE client'[c] = Out
    BY <2>1 DEF Meets, Out
  <2>2. CASE client'[c] = client[c] /\ client[c].pc = "out"
    BY <2>2 DEF Meets
  <2>3. CASE client'[c] = client[c] /\ client[c].pc # "out"
    <3>1. daemon'[client[c].at].cursor = daemon[client[c].at].cursor
      BY <1>1, <1>3, <2>3 DEF Attached, Out
    <3> QED
      BY <2>3, <3>1 DEF BacklogMeets, Meets, Has, For
  <2> QED
    BY <1>2, <2>1, <2>2, <2>3
<1> QED
  BY <1>4, <1>5, <1>6, <1>7, <1>8

(* Who neither creates the token nor gets past it leaves it as it was. *)
LEMMA TokenKept ==
  ASSUME DaemonInv, NEW p \in Daemons, NEW r \in Records, daemon' = [daemon EXCEPT ![p] = r],
         UNCHANGED token, r.pc # "create",
         r.pc \in Holding => daemon[p].pc \in Holding /\ r.token = daemon[p].token
  PROVE  OneToken'
<1>1. \A q \in Daemons : daemon'[q] = IF q = p THEN r ELSE daemon[q]
  BY DEF DaemonInv, DaemonTypes
<1> QED
  BY <1>1 DEF DaemonInv, OneToken, Accepts, In

(* What a daemon's record is when one or two of its fields change. *)
LEMMA NewRecord ==
  ASSUME DaemonTypes, NEW p \in Daemons
  PROVE  /\ \A step \in {"new", "dead"} \cup Starting \cup Serving :
              /\ [daemon[p] EXCEPT !.pc = step] \in Records
              /\ \A n \in 0..MaxEvents : [daemon[p] EXCEPT !.pc = step, !.cursor = n] \in Records
              /\ \A b \in BOOLEAN : [daemon[p] EXCEPT !.pc = step, !.watching = b] \in Records
              /\ \A q \in Daemons : [daemon[p] EXCEPT !.pc = step, !.token = q] \in Records
         /\ \A b \in BOOLEAN, R \in SUBSET (0..MaxEvents), n \in 0..MaxEvents :
              /\ [daemon[p] EXCEPT !.due = b, !.reads = R] \in Records
              /\ [daemon[p] EXCEPT !.reads = R, !.cursor = n] \in Records
         /\ [Dead EXCEPT !.port = daemon[p].port] \in Records
<1> DEFINE d == daemon[p]
<1>1. d \in Records
  BY DEF DaemonTypes
<1> HIDE DEF d
<1>2. ASSUME NEW step \in {"new", "dead"} \cup Starting \cup Serving
      PROVE  /\ [d EXCEPT !.pc = step] \in Records
             /\ \A n \in 0..MaxEvents : [d EXCEPT !.pc = step, !.cursor = n] \in Records
             /\ \A b \in BOOLEAN : [d EXCEPT !.pc = step, !.watching = b] \in Records
             /\ \A q \in Daemons : [d EXCEPT !.pc = step, !.token = q] \in Records
  BY <1>1 DEF Records
<1>3. ASSUME NEW b \in BOOLEAN, NEW R \in SUBSET (0..MaxEvents), NEW n \in 0..MaxEvents
      PROVE  [d EXCEPT !.due = b, !.reads = R] \in Records /\ [d EXCEPT !.reads = R, !.cursor = n] \in Records
  BY <1>1 DEF Records
<1>4. [Dead EXCEPT !.port = d.port] \in Records
  <2>2. 0 \in 0..MaxEvents /\ {} \in SUBSET (0..MaxEvents) /\ d.port \in Ports
    BY <1>1, DaemonConstantsOK DEF Records
  <2> QED
    BY <2>2 DEF Dead, Records
<1> QED
  BY <1>2, <1>3, <1>4 DEF d

LEMMA GoesKeeps ==
  ASSUME DaemonInv, NEW p \in Daemons, NEW step \in {"dead", "status", "clean", "token", "record", "serving", "terminating"},
         Goes(p, step), UNCHANGED <<log, client, caller, token>>,
         halted' \in BOOLEAN, pidFile' \in Daemons \cup {NoDaemon},
         daemon[p].pc \in Serving => step \in Serving,
         step \in Serving => daemon[p].pc \in Holding
  PROVE  DaemonInv'
<1> DEFINE r == [daemon[p] EXCEPT !.pc = step]
<1>1. r \in Records
  BY NewRecord DEF DaemonInv, Serving, Starting
<1>2. daemon' = [daemon EXCEPT ![p] = r]
  BY DEF Goes, DaemonInv, DaemonTypes
<1>3. r.pc = step /\ r.token = daemon[p].token /\ r.cursor = daemon[p].cursor /\ r.reads = daemon[p].reads
  BY DEF DaemonInv, DaemonTypes, Records
<1> HIDE DEF r
<1>4. OneToken'
  BY <1>1, <1>2, <1>3, TokenKept DEF Holding, Serving
<1>5. Found' /\ caller' \in [Controllers ->
           [pc : {"idle", "read", "signal", "remove"}, stops : BOOLEAN, found : Daemons \cup {NoDaemon}]]
  BY DEF DaemonInv, DaemonTypes, Found
<1>6. r.cursor <= Len(log) /\ r.reads \subseteq 0..Len(log)
  BY <1>3 DEF DaemonInv, Within
<1>7. token' \in {"absent", "empty"} \cup Daemons
  BY DEF DaemonInv, DaemonTypes
<1> QED
  BY <1>1, <1>2, <1>3, <1>4, <1>5, <1>6, <1>7, OneDaemonMoves

(* startDaemon *)
LEMMA StartsKeep ==
  ASSUME DaemonInv, NEW p \in Daemons, StartDaemon(p) \/ Starts(p)
  PROVE  DaemonInv'
<1> USE DEF OnlyStarts, In
<1>1. DaemonTypes /\ halted' \in BOOLEAN /\ Found' /\ UNCHANGED <<log, client>> /\ caller' \in [Controllers ->
           [pc : {"idle", "read", "signal", "remove"}, stops : BOOLEAN, found : Daemons \cup {NoDaemon}]]
  BY DEF DaemonInv, DaemonTypes, Found, StartDaemon, Starts, CheckStatus, CleanStatus, EnsureToken,
         WriteToken, WatchCoordination, RegisterWatch, Bind, WritePidFile
<1>2. daemon[p] \in Records /\ daemon[p].cursor <= Len(log) /\ daemon[p].reads \subseteq 0..Len(log)
      /\ Len(log) \in 0..MaxEvents
  BY DEF DaemonInv, DaemonTypes, Within
<1>3. pidFile \in Daemons \cup {NoDaemon} /\ token \in {"absent", "empty"} \cup Daemons
      /\ daemon \in [Daemons -> Records]
  BY <1>1 DEF DaemonTypes
<1>4. CASE StartDaemon(p) \/ CheckStatus(p) \/ CleanStatus(p)
  BY <1>3, <1>4, <1>1, GoesKeeps DEF StartDaemon, CheckStatus, CleanStatus, Serving
<1>5. CASE Bind(p) \/ WritePidFile(p)
  BY <1>3, <1>5, <1>1, GoesKeeps DEF Bind, WritePidFile, Serving, Holding
<1>6. CASE EnsureToken(p)
  <2>1. CASE token = "empty" /\ UNCHANGED token /\ Goes(p, "dead")
    BY <1>1, <1>3, <1>6, <2>1, GoesKeeps DEF EnsureToken, Serving
  <2>2. CASE token = "absent" /\ token' = "empty" /\ Goes(p, "create")
    <3> DEFINE r == [daemon[p] EXCEPT !.pc = "create"]
    <3>1. r \in Records
      BY <1>1, NewRecord DEF Starting
    <3>2. daemon' = [daemon EXCEPT ![p] = r]
      BY <2>2, <1>3 DEF Goes
    <3>3. r.pc = "create" /\ r.cursor = daemon[p].cursor /\ r.reads = daemon[p].reads
      BY <1>2 DEF Records
    <3> HIDE DEF r
    <3>4. OneToken'
      BY <1>3, <2>2, <3>2, <3>3, DaemonConstantsOK DEF DaemonInv, OneToken, Accepts, Holding, Serving
    <3> QED
      BY <1>1, <1>2, <1>3, <1>6, <2>2, <3>1, <3>2, <3>3, <3>4, OneDaemonMoves DEF EnsureToken, Serving
  <2>3. CASE /\ token \in Daemons /\ UNCHANGED token
             /\ daemon' = [daemon EXCEPT ![p].pc = "watch", ![p].token = token]
    <3> DEFINE r == [daemon[p] EXCEPT !.pc = "watch", !.token = token]
    <3>1. r \in Records
      BY <1>1, <2>3, NewRecord DEF Starting
    <3>2. daemon' = [daemon EXCEPT ![p] = r]
      BY <2>3, <1>3
    <3>3. r.pc = "watch" /\ r.token = token /\ r.cursor = daemon[p].cursor /\ r.reads = daemon[p].reads
      BY <1>2 DEF Records
    <3> HIDE DEF r
    <3>4. OneToken'
      BY <1>3, <2>3, <3>2, <3>3, DaemonConstantsOK DEF DaemonInv, OneToken, Accepts, Holding, Serving
    <3> QED
      BY ZenonT(60), <1>1, <1>2, <1>3, <1>6, <2>3, <3>1, <3>2, <3>3, <3>4, OneDaemonMoves DEF EnsureToken, Serving
  <2> QED
    BY <1>6, <2>1, <2>2, <2>3 DEF EnsureToken
<1>7. CASE WriteToken(p)
  <2> DEFINE r == [daemon[p] EXCEPT !.pc = "watch", !.token = p]
  <2>1. r \in Records
    BY <1>1, NewRecord DEF Starting
  <2>2. daemon' = [daemon EXCEPT ![p] = r]
    BY <1>7, <1>3 DEF WriteToken
  <2>3. r.pc = "watch" /\ r.token = p /\ r.cursor = daemon[p].cursor /\ r.reads = daemon[p].reads
    BY <1>2 DEF Records
  <2> HIDE DEF r
  <2>4. OneToken'
    BY <1>3, <1>7, <2>2, <2>3, DaemonConstantsOK DEF DaemonInv, OneToken, Accepts, Holding, Serving, WriteToken
  <2>5. daemon[p].pc \notin Serving /\ pidFile' \in Daemons \cup {NoDaemon} /\ token' \in {"absent", "empty"} \cup Daemons
    BY <1>3, <1>7 DEF WriteToken, Serving
  <2>6. r.cursor <= Len(log) /\ r.reads \subseteq 0..Len(log)
    BY <1>2, <2>3
  <2> QED
    BY <1>1, <2>1, <2>2, <2>4, <2>5, <2>6, OneDaemonMoves
<1>8. CASE WatchCoordination(p)
  <2> DEFINE r == [daemon[p] EXCEPT !.pc = "register", !.cursor = Len(log)]
  <2>1. r \in Records
    BY <1>1, <1>2, NewRecord DEF Starting
  <2>2. daemon' = [daemon EXCEPT ![p] = r]
    BY <1>8, <1>3 DEF WatchCoordination
  <2>3. r.pc = "register" /\ r.token = daemon[p].token /\ r.cursor = Len(log) /\ r.reads = daemon[p].reads
    BY <1>2 DEF Records
  <2> HIDE DEF r
  <2>4. OneToken'
    BY <1>8, <2>1, <2>2, <2>3, TokenKept DEF Holding, WatchCoordination
  <2>5. daemon[p].pc \notin Serving /\ pidFile' \in Daemons \cup {NoDaemon} /\ token' \in {"absent", "empty"} \cup Daemons
    BY <1>3, <1>8 DEF WatchCoordination, Serving
  <2>6. r.cursor <= Len(log) /\ r.reads \subseteq 0..Len(log)
    BY <1>2, <2>3
  <2> QED
    BY <1>1, <2>1, <2>2, <2>4, <2>5, <2>6, OneDaemonMoves
<1>9. CASE RegisterWatch(p)
  <2> DEFINE r == [daemon[p] EXCEPT !.pc = "bind", !.watching = TRUE]
  <2>1. r \in Records
    BY <1>1, <1>2, NewRecord DEF Starting
  <2>2. daemon' = [daemon EXCEPT ![p] = r]
    BY <1>9, <1>3 DEF RegisterWatch
  <2>3. r.pc = "bind" /\ r.token = daemon[p].token /\ r.cursor = daemon[p].cursor /\ r.reads = daemon[p].reads
    BY <1>2 DEF Records
  <2> HIDE DEF r
  <2>4. OneToken'
    BY <1>9, <2>1, <2>2, <2>3, TokenKept DEF Holding, RegisterWatch
  <2>5. daemon[p].pc \notin Serving /\ pidFile' \in Daemons \cup {NoDaemon} /\ token' \in {"absent", "empty"} \cup Daemons
    BY <1>3, <1>9 DEF RegisterWatch, Serving
  <2>6. r.cursor <= Len(log) /\ r.reads \subseteq 0..Len(log)
    BY <1>2, <2>3
  <2> QED
    BY <1>1, <2>1, <2>2, <2>4, <2>5, <2>6, OneDaemonMoves
<1> QED
  BY <1>4, <1>5, <1>6, <1>7, <1>8, <1>9 DEF Starts

CallersOK == caller \in [Controllers -> [pc : {"idle", "read", "signal", "remove"}, stops : BOOLEAN,
                                         found : Daemons \cup {NoDaemon}]]

(* How a daemon ends. *)
LEMMA EndsKeep ==
  ASSUME DaemonInv, NEW p \in Daemons, Ends(p), pidFile' \in Daemons \cup {NoDaemon}, CallersOK', Found'
  PROVE  DaemonInv'
<1> DEFINE r == [Dead EXCEPT !.port = daemon[p].port]
<1>1. r \in Records
  BY NewRecord DEF DaemonInv
<1>2. daemon' = [daemon EXCEPT ![p] = r] /\ UNCHANGED <<log, halted, token>>
      /\ client' = [c \in Clients |-> IF client[c].at = p THEN Out ELSE client[c]]
  BY DEF Ends
<1>3. r.pc = "dead" /\ r.cursor = 0 /\ r.reads = {}
  BY DEF Dead
<1> HIDE DEF r
<1>4. OneToken'
  BY <1>1, <1>2, <1>3, TokenKept DEF Holding, Serving
<1>5. /\ halted' \in BOOLEAN /\ token' \in {"absent", "empty"} \cup Daemons
      /\ r.cursor <= Len(log) /\ r.reads \subseteq 0..Len(log)
  BY <1>2, <1>3 DEF DaemonInv, DaemonTypes
<1> QED
  BY <1>1, <1>2, <1>4, <1>5, OneDaemonMoves DEF CallersOK

LEMMA EndingsKeep ==
  ASSUME DaemonInv, NEW p \in Daemons, DaemonCrash(p) \/ Close(p) \/ Terminate(p)
  PROVE  DaemonInv'
<1>1. Ends(p) /\ UNCHANGED caller /\ pidFile' \in {pidFile, NoDaemon}
  BY DEF DaemonCrash, Close, Terminate
<1>2. pidFile' \in Daemons \cup {NoDaemon} /\ CallersOK' /\ Found'
  BY <1>1 DEF DaemonInv, DaemonTypes, CallersOK, Found
<1> QED
  BY <1>1, <1>2, EndsKeep

(* stopDaemon, getDaemonStatus and the kill switch. *)
LEMMA NothingMoves ==
  ASSUME DaemonInv, UNCHANGED <<log, token, daemon, client>>, halted' \in BOOLEAN,
         pidFile' \in Daemons \cup {NoDaemon}, CallersOK', Found'
  PROVE  DaemonInv'
  BY DEF DaemonInv, DaemonTypes, CallersOK, Attached, OneToken, Accepts, In, Within, BacklogMeets, Meets, Has, For

LEMMA CallersKeep ==
  ASSUME DaemonInv, NEW k \in Controllers,
         CallDaemon(k) \/ ReadStatus(k) \/ SignalDaemon(k) \/ RemovePidFile(k)
  PROVE  DaemonInv'
<1> DEFINE CallerState == [pc : {"idle", "read", "signal", "remove"}, stops : BOOLEAN, found : Daemons \cup {NoDaemon}]
<1>1. /\ caller \in [Controllers -> CallerState] /\ CallersOK /\ Found /\ halted \in BOOLEAN
      /\ pidFile \in Daemons \cup {NoDaemon}
  BY DEF DaemonInv, DaemonTypes, CallersOK
<1>2. ASSUME NEW r \in CallerState, caller' = [caller EXCEPT ![k] = r], r.pc = "signal" => r.found \in Daemons
      PROVE  CallersOK' /\ Found'
  BY <1>1, <1>2 DEF CallersOK, Found
<1>3. Resting \in CallerState /\ Resting.pc = "idle"
  BY DEF Resting
<1>4. CASE CallDaemon(k)
  <2>1. PICK stops \in BOOLEAN : caller' = [caller EXCEPT ![k] = [Resting EXCEPT !.pc = "read", !.stops = stops]]
    BY <1>4 DEF CallDaemon
  <2>2. [Resting EXCEPT !.pc = "read", !.stops = stops] \in CallerState
        /\ [Resting EXCEPT !.pc = "read", !.stops = stops].pc = "read"
    BY DEF Resting
  <2>3. CallersOK' /\ Found'
    BY <1>2, <2>1, <2>2
  <2> QED
    BY <1>1, <1>4, <2>3, NothingMoves DEF CallDaemon, Calls
<1>5. CASE ReadStatus(k)
  <2>1. CallersOK' /\ Found'
    <3>1. CASE pidFile = NoDaemon /\ caller' = [caller EXCEPT ![k] = Resting]
      BY <1>2, <1>3, <3>1
    <3>2. CASE pidFile # NoDaemon
      <4> DEFINE step == IF ~Alive(pidFile) THEN "remove" ELSE IF caller[k].stops THEN "signal" ELSE "idle"
                 r == [caller[k] EXCEPT !.found = pidFile, !.pc = step]
      <4>1. caller' = [caller EXCEPT ![k] = r]
        BY <1>1, <1>5, <3>2 DEF ReadStatus
      <4>2. step \in {"idle", "signal", "remove"}
        OBVIOUS
      <4>3. pidFile \in Daemons /\ caller[k] \in CallerState
        BY <1>1, <3>2
      <4> HIDE DEF step
      <4>4. r \in CallerState /\ r.found = pidFile
        BY <4>2, <4>3
      <4> HIDE DEF r
      <4> QED
        BY <1>2, <4>1, <4>3, <4>4
    <3> QED
      BY <1>5, <3>1, <3>2 DEF ReadStatus
  <2> QED
    BY <1>1, <1>5, <2>1, NothingMoves DEF ReadStatus, Calls
<1>6. CASE SignalDaemon(k)
  <2> DEFINE p == caller[k].found
  <2>1. p \in Daemons /\ UNCHANGED <<log, token, pidFile>>
    BY <1>1, <1>6 DEF SignalDaemon, Calls, Found
  <2>2. CASE caller' = [caller EXCEPT ![k] = Resting] /\ UNCHANGED <<halted, daemon, client>>
    <3>1. CallersOK' /\ Found'
      BY <1>2, <1>3, <2>2
    <3> QED
      BY <1>1, <2>1, <2>2, <3>1, NothingMoves
  <2>3. CASE /\ caller' = [caller EXCEPT ![k].pc = "remove"]
             /\ Ends(p) \/ (In(p, "serving") /\ Goes(p, "terminating") /\ UNCHANGED <<halted, client>>)
    <3>1. [caller[k] EXCEPT !.pc = "remove"] \in CallerState /\ [caller[k] EXCEPT !.pc = "remove"].pc = "remove"
          /\ caller' = [caller EXCEPT ![k] = [caller[k] EXCEPT !.pc = "remove"]]
      BY <1>1, <2>3
    <3>2. CallersOK' /\ Found'
      BY <1>2, <3>1
    <3>3. CASE Ends(p)
      BY <1>1, <2>1, <3>2, <3>3, EndsKeep
    <3>4. CASE In(p, "serving") /\ Goes(p, "terminating") /\ UNCHANGED <<halted, client>>
      <4> DEFINE r == [daemon[p] EXCEPT !.pc = "terminating"]
      <4>1. DaemonTypes /\ daemon[p] \in Records /\ daemon[p].cursor <= Len(log) /\ daemon[p].reads \subseteq 0..Len(log)
        BY <2>1 DEF DaemonInv, DaemonTypes, Within
      <4>2. r \in Records
        BY <2>1, <4>1, NewRecord DEF Serving
      <4>3. r.pc = "terminating" /\ r.token = daemon[p].token /\ r.cursor = daemon[p].cursor
            /\ r.reads = daemon[p].reads
        BY <4>1 DEF Records
      <4>4. daemon' = [daemon EXCEPT ![p] = r]
        BY <2>1, <3>4, <4>1 DEF Goes, DaemonTypes
      <4> HIDE DEF r, p
      <4>5. OneToken'
        BY <2>1, <3>4, <4>2, <4>3, <4>4, TokenKept DEF Holding, Serving, In
      <4>6. token' \in {"absent", "empty"} \cup Daemons /\ halted' \in BOOLEAN /\ pidFile' \in Daemons \cup {NoDaemon}
        BY <1>1, <2>1, <3>4, <4>1 DEF DaemonTypes
      <4>7. r.pc \in Serving /\ r.cursor <= Len(log) /\ r.reads \subseteq 0..Len(log)
        BY <4>1, <4>3 DEF Serving
      <4> QED
        BY <2>1, <3>2, <3>4, <4>2, <4>3, <4>4, <4>5, <4>6, <4>7, OneDaemonMoves DEF CallersOK
    <3> QED
      BY <2>3, <3>3, <3>4
  <2> QED
    BY <1>6, <2>2, <2>3 DEF SignalDaemon
<1>7. CASE RemovePidFile(k)
  <2>1. CallersOK' /\ Found'
    BY <1>2, <1>3, <1>7 DEF RemovePidFile
  <2> QED
    BY <1>1, <1>7, <2>1, NothingMoves DEF RemovePidFile, Calls
<1> QED
  BY <1>4, <1>5, <1>6, <1>7

LEMMA ResumeKeeps == ASSUME DaemonInv, ResumeCoordination PROVE DaemonInv'
<1>1. CallersOK' /\ Found' /\ halted' \in BOOLEAN /\ pidFile' \in Daemons \cup {NoDaemon}
  BY DEF ResumeCoordination, DaemonInv, DaemonTypes, CallersOK, Found
<1> QED
  BY <1>1, NothingMoves DEF ResumeCoordination

(* Events that are appended, and the watcher. *)
LEMMA EmitKeeps == ASSUME DaemonInv, EmitEvent PROVE DaemonInv'
<1> USE DEF DaemonInv
<1>1. PICK a \in Audiences : log' = Append(log, a)
  BY DEF EmitEvent
<1>2. /\ Len(log) < MaxEvents /\ UNCHANGED <<halted, pidFile, token, caller, client>>
      /\ daemon' = [p \in Daemons |-> [daemon[p] EXCEPT !.due = daemon[p].watching]]
  BY DEF EmitEvent, OnlyWatches
<1>3. /\ log' \in Seq(Audiences) /\ Len(log') = Len(log) + 1 /\ Len(log) \in Nat
      /\ \A n \in 1..Len(log) : log'[n] = log[n]
  BY <1>1 DEF DaemonTypes
<1>4. \A p \in Daemons : /\ daemon'[p] \in Records /\ daemon'[p].pc = daemon[p].pc
                         /\ daemon'[p].token = daemon[p].token
                         /\ daemon'[p].cursor = daemon[p].cursor /\ daemon'[p].reads = daemon[p].reads
  BY SMTT(60), <1>2 DEF DaemonTypes, Records
<1>5. DaemonTypes'
  <2>1. daemon' \in [Daemons -> Records]
    BY <1>2, <1>4
  <2>2. Len(log') <= MaxEvents
    BY <1>2, <1>3, DaemonConstantsOK
  <2> QED
    BY <1>2, <1>3, <2>1, <2>2 DEF DaemonTypes
<1>6. Attached' /\ Found' /\ OneToken'
  <2> HIDE DEF DaemonInv
  <2>1. Attached /\ Found /\ OneToken
    BY DEF DaemonInv
  <2>2. Attached'
    BY <1>2, <1>4, <2>1 DEF Attached
  <2>3. Found'
    BY <1>2, <2>1 DEF Found
  <2>4. OneToken'
    <3>1. token' = token /\ \A p \in Daemons : daemon'[p].pc = daemon[p].pc /\ daemon'[p].token = daemon[p].token
      BY <1>2, <1>4
    <3> QED
      BY <2>1, <3>1 DEF OneToken, Accepts, In
  <2> QED
    BY <2>2, <2>3, <2>4
<1>7. Within'
  <2> SUFFICES /\ \A p \in Daemons : daemon[p].cursor <= Len(log) + 1 /\ daemon[p].reads \subseteq 0..(Len(log) + 1)
               /\ \A c \in Clients : client[c].since <= Len(log) + 1 /\ client[c].upTo <= Len(log) + 1
    BY <1>2, <1>3, <1>4 DEF Within
  <2>1. \A p \in Daemons : daemon[p].cursor \in Int
    BY DEF DaemonTypes, Records
  <2>2. \A c \in Clients : client[c].since \in Int /\ client[c].upTo \in Int
    BY DEF DaemonTypes, Subscribers
  <2> QED
    BY <1>3, <2>1, <2>2 DEF Within
<1>8. BacklogMeets'
  <2> SUFFICES ASSUME NEW c \in Clients, client[c].pc # "out" PROVE Meets(c)'
    BY <1>2 DEF BacklogMeets, Meets
  <2>1. client[c].at \in Daemons /\ client'[c] = client[c]
    BY <1>2 DEF Attached
  <2> DEFINE top == daemon[client[c].at].cursor
  <2>2. top <= Len(log) /\ top \in Int /\ daemon'[client[c].at].cursor = top
    BY <1>4, <2>1 DEF Within, DaemonTypes, Records
  <2>3. client[c].since \in Nat /\ client[c].upTo \in Nat
    BY DEF DaemonTypes, Subscribers
  <2>4. ASSUME NEW from \in Nat, Has(c, from) PROVE Has(c, from)'
    BY <1>3, <2>1, <2>2, <2>4 DEF Has, For
  <2> QED
    BY <2>1, <2>3, <2>4 DEF BacklogMeets, Meets
<1> QED
  BY <1>5, <1>6, <1>7, <1>8

LEMMA CheckKeeps == ASSUME DaemonInv, NEW p \in Daemons, CheckForUpdates(p) PROVE DaemonInv'
<1> USE DEF DaemonInv
<1> DEFINE r == [daemon[p] EXCEPT !.due = FALSE, !.reads = daemon[p].reads \cup {Len(log)}]
<1>1. /\ DaemonTypes /\ daemon[p] \in Records /\ daemon[p].cursor <= Len(log) /\ daemon[p].reads \subseteq 0..Len(log)
      /\ Len(log) \in 0..MaxEvents
  BY DEF DaemonTypes, Within
<1>2. r \in Records
  BY <1>1 DEF Records
<1>3. r.pc = daemon[p].pc /\ r.token = daemon[p].token /\ r.cursor = daemon[p].cursor
      /\ r.reads = daemon[p].reads \cup {Len(log)}
  BY <1>1 DEF Records
<1>4. daemon' = [daemon EXCEPT ![p] = r] /\ UNCHANGED <<log, client, halted, pidFile, token, caller>>
  BY <1>1 DEF CheckForUpdates, OnlyWatches, DaemonTypes
<1> HIDE DEF r
<1>5. \A q \in Daemons : daemon'[q].pc = daemon[q].pc /\ daemon'[q].token = daemon[q].token
                         /\ daemon'[q].cursor = daemon[q].cursor
  BY <1>1, <1>3, <1>4 DEF DaemonTypes
<1>6. DaemonTypes' /\ Found'
  BY <1>2, <1>4 DEF DaemonTypes, Found
<1>7. OneToken' /\ Attached'
  BY <1>4, <1>5 DEF OneToken, Accepts, In, Attached
<1>8. Within'
  <2>1. r.reads \subseteq 0..Len(log)
    BY <1>1, <1>3
  <2> QED
    BY <1>1, <1>4, <1>5, <2>1 DEF Within, DaemonTypes
<1>9. BacklogMeets'
  <2> SUFFICES ASSUME NEW c \in Clients, client[c].pc # "out" PROVE Meets(c)'
    BY <1>4 DEF BacklogMeets, Meets
  <2>1. client[c].at \in Daemons
    BY DEF Attached
  <2> QED
    BY <1>4, <1>5, <2>1 DEF BacklogMeets, Meets, Has, For
<1> QED
  BY <1>6, <1>7, <1>8, <1>9

LEMMA BroadcastKeeps == ASSUME DaemonInv, NEW p \in Daemons, BroadcastToClients(p) PROVE DaemonInv'
<1> USE DEF DaemonInv
<1>1. PICK top \in daemon[p].reads :
        /\ daemon' = [daemon EXCEPT ![p].reads = @ \ {top}, ![p].cursor = IF top > @ THEN top ELSE @]
        /\ client' = [c \in Clients |->
             IF client[c].at # p THEN client[c]
             ELSE [client[c] EXCEPT !.got = @ \cup For(c, (daemon[p].cursor + 1)..top)]]
  BY DEF BroadcastToClients
<1>2. UNCHANGED <<log, halted, pidFile, token, caller>>
  BY DEF BroadcastToClients, OnlyWatches
<1> DEFINE old == daemon[p].cursor
           new == IF top > old THEN top ELSE old
           r == [daemon[p] EXCEPT !.reads = daemon[p].reads \ {top}, !.cursor = new]
<1>3. /\ DaemonTypes /\ daemon[p] \in Records /\ daemon[p].reads \subseteq 0..Len(log)
      /\ Len(log) \in 0..MaxEvents /\ old \in Nat /\ top \in Nat /\ old <= Len(log) /\ top <= Len(log)
  <2>1. DaemonTypes /\ daemon[p] \in Records /\ daemon[p].reads \subseteq 0..Len(log) /\ old <= Len(log)
        /\ Len(log) \in 0..MaxEvents
    BY DEF DaemonTypes, Within
  <2> QED
    BY <2>1 DEF Records
<1>4. new \in 0..MaxEvents /\ new <= Len(log)
  BY <1>3, DaemonConstantsOK
<1>5. r \in Records /\ r.pc = daemon[p].pc /\ r.token = daemon[p].token /\ r.cursor = new
      /\ r.reads \subseteq daemon[p].reads
  BY <1>3, <1>4 DEF Records
<1>6. daemon' = [daemon EXCEPT ![p] = r]
  BY <1>1, <1>3 DEF DaemonTypes
<1> HIDE DEF r
<1>7. \A q \in Daemons : daemon'[q] = IF q = p THEN r ELSE daemon[q]
  BY <1>3, <1>6 DEF DaemonTypes
<1>8. \A c \in Clients :
        /\ client'[c] \in Subscribers /\ client'[c].pc = client[c].pc /\ client'[c].at = client[c].at
        /\ client'[c].since = client[c].since /\ client'[c].upTo = client[c].upTo
        /\ client[c].got \subseteq client'[c].got
        /\ client[c].at # p => client'[c] = client[c]
        /\ client[c].at = p => For(c, (old + 1)..top) \subseteq client'[c].got
  <2> SUFFICES ASSUME NEW c \in Clients, client[c].at = p
               PROVE  /\ client'[c] \in Subscribers /\ client'[c].pc = client[c].pc /\ client'[c].at = client[c].at
                      /\ client'[c].since = client[c].since /\ client'[c].upTo = client[c].upTo
                      /\ client'[c].got = client[c].got \cup For(c, (old + 1)..top)
    BY <1>1 DEF DaemonTypes
  <2>1. For(c, (old + 1)..top) \subseteq Numbers
    BY <1>3, DaemonConstantsOK DEF For, Numbers
  <2>2. client'[c] = [client[c] EXCEPT !.got = client[c].got \cup For(c, (old + 1)..top)]
    BY <1>1
  <2>3. client[c] \in Subscribers
    BY DEF DaemonTypes
  <2> QED
    BY <2>1, <2>2, <2>3 DEF Subscribers
<1>9. DaemonTypes'
  <2>1. client' \in [Clients -> Subscribers]
    BY <1>1, <1>8
  <2> QED
    BY <1>2, <1>5, <1>6, <2>1 DEF DaemonTypes
<1>10. Found' /\ OneToken'
  BY <1>2, <1>5, <1>7 DEF Found, OneToken, Accepts, In
<1>11. Attached'
  <2> SUFFICES ASSUME NEW c \in Clients
               PROVE  IF client'[c].pc = "out" THEN client'[c] = Out
                      ELSE client'[c].at \in Daemons /\ daemon'[client'[c].at].pc \in Serving
    BY DEF Attached
  <2>1. CASE client[c].pc = "out"
    <3>1. client[c].at = NoDaemon /\ NoDaemon # p
      BY <2>1, DaemonConstantsOK DEF Attached, Out
    <3> QED
      BY <1>8, <2>1, <3>1 DEF Attached
  <2>2. CASE client[c].pc # "out"
    BY <1>5, <1>7, <1>8, <2>2 DEF Attached
  <2> QED
    BY <2>1, <2>2
<1>12. Within'
  BY <1>2, <1>3, <1>4, <1>5, <1>7, <1>8 DEF Within
<1>13. BacklogMeets'
  <2> SUFFICES ASSUME NEW c \in Clients, client[c].pc # "out" PROVE Meets(c)'
    BY <1>8 DEF BacklogMeets, Meets
  <2>1. client[c].at \in Daemons /\ client[c].since \in Nat /\ client[c].upTo \in Nat
    BY DEF Attached, DaemonTypes, Subscribers
  <2>2. ASSUME NEW from \in Nat, Has(c, from) PROVE Has(c, from)'
    <3>1. CASE client[c].at # p
      BY <1>2, <1>7, <1>8, <2>1, <2>2, <3>1 DEF Has, For
    <3>2. CASE client[c].at = p
      <4> SUFFICES ASSUME NEW n \in (from + 1)..new, log[n] \in Follows[c] PROVE n \in client'[c].got
        BY <1>2, <1>5, <1>7, <1>8, <3>2 DEF Has, For
      <4>1. CASE n <= old
        BY <1>3, <1>8, <2>2, <3>2, <4>1 DEF Has, For
      <4>2. CASE n > old
        BY <1>3, <1>8, <3>2, <4>2 DEF For
      <4> QED
        BY <1>3, <1>4, <4>1, <4>2
    <3> QED
      BY <3>1, <3>2
  <2> QED
    BY <1>8, <2>1, <2>2 DEF BacklogMeets, Meets
<1> QED
  BY <1>9, <1>10, <1>11, <1>12, <1>13

(* GET /api/subscribe *)
LEMMA OneClientMoves ==
  ASSUME DaemonInv, NEW c \in Clients, NEW r \in Subscribers, Changes(c, r), OnlyServes,
         r = Out \/ (r.pc # "out" /\ r.at \in Daemons /\ Listens(r.at)),
         r.since <= Len(log), r.upTo <= Len(log),
         r.pc = "backlog" => For(c, (r.upTo + 1)..daemon[r.at].cursor) \subseteq r.got,
         r.pc = "open" => For(c, (r.since + 1)..daemon[r.at].cursor) \subseteq r.got
  PROVE  DaemonInv'
<1> USE DEF DaemonInv, OnlyServes
<1>1. client' = [client EXCEPT ![c] = r] /\ client \in [Clients -> Subscribers]
  BY DEF Changes, DaemonTypes
<1>2. \A d \in Clients : client'[d] = IF d = c THEN r ELSE client[d]
  BY <1>1
<1>3. DaemonTypes' /\ Found' /\ OneToken'
  <2>1. DaemonTypes /\ client' \in [Clients -> Subscribers]
    BY <1>1
  <2>2. DaemonTypes'
    BY <2>1 DEF DaemonTypes
  <2>3. Found /\ UNCHANGED caller
    OBVIOUS
  <2>4. OneToken /\ UNCHANGED <<token, daemon>>
    OBVIOUS
  <2>5. Found'
    BY <2>3 DEF Found
  <2>6. OneToken'
    BY <2>4 DEF OneToken, Accepts, In
  <2> QED
    BY <2>2, <2>5, <2>6
<1>4. Attached'
  <2> SUFFICES ASSUME NEW d \in Clients
               PROVE  IF client'[d].pc = "out" THEN client'[d] = Out
                      ELSE client'[d].at \in Daemons /\ daemon[client'[d].at].pc \in Serving
    BY DEF Attached
  <2>1. CASE d # c
    BY <1>2, <2>1 DEF Attached
  <2>2. CASE d = c /\ r = Out
    <3>1. Out.pc = "out"
      BY DEF Out
    <3> QED
      BY <1>2, <2>2, <3>1
  <2>3. CASE d = c /\ r # Out
    BY <1>2, <2>3 DEF Listens
  <2> QED
    BY <2>1, <2>2, <2>3
<1>5. Within'
  BY <1>2 DEF Within
<1>6. BacklogMeets'
  BY <1>2 DEF BacklogMeets, Meets, Has, For
<1> QED
  BY <1>3, <1>4, <1>5, <1>6

LEMMA ClientsKeep ==
  ASSUME DaemonInv, NEW c \in Clients, Subscribe(c) \/ Serves(c) \/ Disconnect(c)
  PROVE  DaemonInv'
<1>1. /\ client[c] \in Subscribers /\ Len(log) \in 0..MaxEvents
      /\ client[c].since <= Len(log) /\ client[c].upTo <= Len(log) /\ Meets(c)
  BY DEF DaemonInv, DaemonTypes, Within, BacklogMeets
<1>2. client[c].pc # "out" => client[c].at \in Daemons /\ Listens(client[c].at)
  BY DEF DaemonInv, Attached, Listens
<1>3. \A p \in Daemons : daemon[p].cursor \in 0..MaxEvents /\ daemon[p].cursor <= Len(log)
  BY DEF DaemonInv, DaemonTypes, Within, Records
<1>4. CASE Disconnect(c)
  BY <1>1, <1>4, OutIsSubscriber, OneClientMoves DEF Disconnect, Out
<1>5. CASE Subscribe(c)
  <2>1. PICK p \in Daemons :
          /\ Listens(p)
          /\ \/ Changes(c, [Out EXCEPT !.pc = "open", !.at = p, !.since = daemon[p].cursor])
             \/ \E cursor \in 0..Len(log) :
                  Changes(c, [Out EXCEPT !.pc = "registered", !.at = p, !.since = cursor])
    BY <1>5 DEF Subscribe
  <2>2. OnlyServes
    BY <1>5 DEF Subscribe
  <2>3. CASE Changes(c, [Out EXCEPT !.pc = "open", !.at = p, !.since = daemon[p].cursor])
    <3> DEFINE e == Out  n == daemon[p].cursor
               r == [e EXCEPT !.pc = "open", !.at = p, !.since = n]
    <3>1. /\ r \in Subscribers /\ r.pc = "open" /\ r.at = p /\ r.since = daemon[p].cursor
          /\ r.upTo <= Len(log)
      <4>1. e \in Subscribers /\ e.upTo = 0 /\ n \in 0..MaxEvents /\ n = daemon[p].cursor
        BY <1>3, OutIsSubscriber DEF Out
      <4> HIDE DEF e, n
      <4>2. LET t == [e EXCEPT !.pc = "open", !.at = p, !.since = n] IN
            t \in Subscribers /\ t.pc = "open" /\ t.at = p /\ t.since = n /\ t.upTo = e.upTo
        BY <4>1 DEF Subscribers
      <4>3. 0 <= Len(log)
        BY <1>1
      <4> QED
        BY <4>1, <4>2, <4>3
    <3> HIDE DEF r
    <3>2. For(c, (r.since + 1)..daemon[r.at].cursor) \subseteq r.got
      BY <1>3, <3>1 DEF For
    <3> QED
      BY <1>3, <2>1, <2>2, <2>3, <3>1, <3>2, OneClientMoves DEF r
  <2>4. ASSUME NEW cursor \in 0..Len(log),
               Changes(c, [Out EXCEPT !.pc = "registered", !.at = p, !.since = cursor])
        PROVE  DaemonInv'
    <3> DEFINE e == Out  n == cursor
               r == [e EXCEPT !.pc = "registered", !.at = p, !.since = n]
    <3>1. /\ r \in Subscribers /\ r.pc = "registered" /\ r.at = p /\ r.since <= Len(log)
          /\ r.upTo <= Len(log)
      <4>1. e \in Subscribers /\ e.upTo = 0 /\ n \in 0..MaxEvents /\ n <= Len(log)
        BY <1>1, OutIsSubscriber, DaemonConstantsOK DEF Out
      <4> HIDE DEF e, n
      <4>2. LET t == [e EXCEPT !.pc = "registered", !.at = p, !.since = n] IN
            t \in Subscribers /\ t.pc = "registered" /\ t.at = p /\ t.since = n /\ t.upTo = e.upTo
        BY <4>1 DEF Subscribers
      <4>3. 0 <= Len(log)
        BY <1>1
      <4> QED
        BY <4>1, <4>2, <4>3
    <3> HIDE DEF r
    <3> QED
      BY <2>1, <2>2, <2>4, <3>1, OneClientMoves DEF r
  <2> QED
    BY <2>1, <2>3, <2>4
<1>6. CASE ReadBacklog(c)
  <2> DEFINE r == [client[c] EXCEPT !.pc = "backlog", !.upTo = Len(log)]
  <2>1. /\ r \in Subscribers /\ r.pc = "backlog" /\ r.at = client[c].at /\ r.since = client[c].since
        /\ r.upTo = Len(log) /\ r.upTo <= Len(log)
    <3> DEFINE e == client[c]  n == Len(log)
    <3>1. e \in Subscribers /\ n \in 0..MaxEvents /\ n <= Len(log)
      BY <1>1
    <3> HIDE DEF e, n
    <3>2. LET s == [e EXCEPT !.pc = "backlog", !.upTo = n] IN
          s \in Subscribers /\ s.pc = "backlog" /\ s.at = e.at /\ s.since = e.since /\ s.upTo = n
      BY <3>1 DEF Subscribers
    <3> QED
      BY <3>1, <3>2 DEF e, n
  <2>2. Changes(c, r) /\ OnlyServes /\ client[c].pc # "out"
    BY <1>6 DEF ReadBacklog
  <2> HIDE DEF r
  <2>3. For(c, (r.upTo + 1)..daemon[r.at].cursor) \subseteq r.got
    BY <1>1, <1>2, <1>3, <2>1, <2>2 DEF For
  <2> QED
    BY <1>1, <1>2, <2>1, <2>2, <2>3, OneClientMoves
<1>7. CASE SendBacklog(c)
  <2> DEFINE sent == For(c, (client[c].since + 1)..client[c].upTo)
             r == [client[c] EXCEPT !.pc = "open", !.upTo = 0, !.got = client[c].got \cup sent]
  <2>1. client[c].since \in Nat /\ client[c].upTo \in 0..MaxEvents /\ 0 \in 0..MaxEvents
    BY <1>1, DaemonConstantsOK DEF Subscribers
  <2>2. sent \subseteq Numbers
    BY <2>1, DaemonConstantsOK DEF For, Numbers
  <2>3. Changes(c, r) /\ OnlyServes /\ client[c].pc = "backlog"
    BY <1>7 DEF SendBacklog, Changes
  <2>4. Has(c, client[c].upTo)
    BY <1>1, <2>3 DEF Meets
  <2> HIDE DEF sent
  <2>5. /\ r \in Subscribers /\ r.pc = "open" /\ r.at = client[c].at /\ r.since = client[c].since
        /\ r.upTo = 0 /\ r.got = client[c].got \cup sent
    BY <1>1, <2>1, <2>2 DEF Subscribers
  <2> HIDE DEF r
  <2>6. For(c, (r.since + 1)..daemon[r.at].cursor) \subseteq r.got
    <3> SUFFICES ASSUME NEW n \in (client[c].since + 1)..daemon[client[c].at].cursor, log[n] \in Follows[c]
                 PROVE  n \in client[c].got \cup sent
      BY <2>5 DEF For
    <3>1. CASE n <= client[c].upTo
      BY <2>1, <1>2, <1>3, <2>3, <3>1 DEF sent, For
    <3>2. CASE n > client[c].upTo
      BY <2>1, <1>2, <1>3, <2>3, <2>4, <3>2 DEF Has, For
    <3> QED
      BY <3>1, <3>2, <2>1, <1>2, <1>3, <2>3
  <2> QED
    BY <1>1, <1>2, <2>3, <2>5, <2>6, OneClientMoves
<1> QED
  BY <1>4, <1>5, <1>6, <1>7 DEF Serves

LEMMA DaemonInvariant == DaemonSpec => []DaemonInv
<1>1. DaemonInv /\ [DaemonNext]_daemonVars => DaemonInv'
  <2> SUFFICES ASSUME DaemonInv, [DaemonNext]_daemonVars PROVE DaemonInv'
    OBVIOUS
  <2>1. CASE UNCHANGED daemonVars
    <3>1. halted' \in BOOLEAN /\ pidFile' \in Daemons \cup {NoDaemon} /\ CallersOK' /\ Found'
      BY <2>1 DEF daemonVars, DaemonInv, DaemonTypes, CallersOK, Found
    <3> QED
      BY <2>1, <3>1, NothingMoves DEF daemonVars
  <2>2. ASSUME NEW p \in Daemons,
               StartDaemon(p) \/ Starts(p) \/ DaemonCrash(p) \/ Close(p) \/ Terminate(p) \/ Watches(p)
        PROVE  DaemonInv'
    BY <2>2, StartsKeep, EndingsKeep, CheckKeeps, BroadcastKeeps DEF Watches
  <2> QED
    BY <2>1, <2>2, CallersKeep, ResumeKeeps, EmitKeeps, ClientsKeep DEF DaemonNext
<1> QED
  BY DaemonInitInv, <1>1, PTL DEF DaemonSpec

(* Every daemon that serves accepts the token on file (ensureDaemonToken), and a   *)
(* client that has its backlog has every event for it up to the broadcasts         *)
(* (handleRequest, broadcastToClients), for any daemons, clients, stops and deaths. *)
THEOREM DaemonsAreSound == DaemonSpec => []DaemonSound
<1>1. DaemonInv => DaemonTypeOK
  BY DEF DaemonInv, DaemonTypes, DaemonTypeOK, Records, Subscribers, Attached
<1>2. DaemonInv => TokenAgrees
  BY DEF DaemonInv, OneToken, Accepts, Holding, TokenAgrees, Listens
<1>3. DaemonInv => NoGap
  BY DEF DaemonInv, BacklogMeets, Meets, Has, NoGap
<1>4. DaemonInv => DaemonSound
  BY <1>1, <1>2, <1>3 DEF DaemonSound
<1> QED
  BY DaemonInvariant, <1>4, PTL
=============================================================================
