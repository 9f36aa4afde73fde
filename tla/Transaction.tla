---------------------------- MODULE Transaction -----------------------------
(***************************************************************************)
(* The durable journal around file-system mutations                        *)
(* (src/core/install/transaction.ts and snapshot.ts).  Every managed       *)
(* change runs in runMutationTransaction: under the mutation lock it       *)
(* snapshots the files it will touch, publishes a journal, mutates the     *)
(* files one by one, records what they have become and removes the         *)
(* journal.  Whoever takes the lock next restores the snapshot of every    *)
(* journal a dead process has left.  `loadout rollback` restores a         *)
(* recorded snapshot under the same lock, without a journal.               *)
(*                                                                         *)
(* Snapshots are numbered in the order they are taken, as their time-based *)
(* names are sorted.  Transaction n writes the content n or removes a      *)
(* file.  The mutation lock is that of FileLock, as it is while recovery   *)
(* takes it from nobody who lives: a dead process holds it no longer.      *)
(***************************************************************************)
EXTENDS Naturals, Sequences, FiniteSetsExt, Functions

CONSTANTS
  Procs,          \* the processes
  Paths,          \* the managed files, state.json among them
  TargetSets,     \* the sets of files a mutation may name as its targets
  Nothing,        \* the content of a file that is not there
  NoEvidence,     \* a snapshot without post-mutation state
  NoProc,         \* nobody holds the mutation lock
  CompletionMayFail, \* whether removing the journal of a mutation may fail
  RollbackDies,   \* whether `loadout rollback` may stop halfway
  StopAtStray,    \* bound: whether no command starts once one has strayed
  MaxTx,          \* bound: snapshots taken
  MaxCrashes,     \* bound: processes that die
  MaxFailures     \* bound: operations that throw

Contents == 0..MaxTx \cup {Nothing}

ASSUME TransactionConstantsOK ==
  /\ NoProc \notin Procs
  /\ TargetSets \subseteq (SUBSET Paths) \ {{}}
  /\ Nothing \notin Nat
  /\ NoEvidence \notin UNION {[T -> Contents] : T \in TargetSets}
  /\ CompletionMayFail \in BOOLEAN /\ RollbackDies \in BOOLEAN /\ StopAtStray \in BOOLEAN
  /\ MaxTx \in Nat /\ MaxCrashes \in Nat /\ MaxFailures \in Nat

VARIABLES
  disk,      \* the content of every managed file
  snaps,     \* the persisted snapshots: targets, content before, evidence after
  staging,   \* the state of the journal directory of every snapshot
  holder,    \* who holds the mutation lock
  pc,        \* what every process does next
  task,      \* what it does that for
  tx,        \* the snapshot every process works with
  todo,      \* the files a restore has still to remove or to write
  committed, \* history: the files as the last completed operation left them
  strayed,   \* history: a process went on without the lock, or a rollback stopped halfway
  crashes,   \* how many processes have died
  failures   \* how many operations have thrown

vars == <<disk, snaps, staging, holder, pc, task, tx, todo, committed, strayed, crashes, failures>>

Ids == 1..MaxTx

Snapshot == UNION {[before : [T -> Contents], after : [T -> Contents] \cup {NoEvidence}]
                     : T \in TargetSets}

\* The journal: unpublished or gone, published, being committed; or removed
\* from a directory that is still there.
JournalStates == {"none", "prepared", "committing", "torn"}

\* What a process is in the middle of: a mutation, or restoring a snapshot for
\* recovery, because its own mutation failed, or as asked by the user.
Tasks == {"none", "mutation", "recovery", "abort", "rollback"}

Steps == {"idle", "recover", "ready", "publish", "mark", "mutate", "record",
          "remove", "write", "unlink", "rmdir", "release"}

TypeOK ==
  /\ disk \in [Paths -> Contents] /\ committed \in [Paths -> Contents]
  /\ snaps \in Seq(Snapshot) /\ Len(snaps) <= MaxTx
  /\ staging \in [Ids -> JournalStates]
  /\ holder \in Procs \cup {NoProc}
  /\ pc \in [Procs -> Steps]
  /\ task \in [Procs -> Tasks]
  /\ tx \in [Procs -> 0..MaxTx]
  /\ todo \in [Procs -> SUBSET Paths]
  /\ strayed \in BOOLEAN
  /\ crashes \in 0..MaxCrashes /\ failures \in 0..MaxFailures

Init ==
  /\ disk \in [Paths -> {0, Nothing}] /\ committed = disk
  /\ snaps = <<>>
  /\ staging = [i \in Ids |-> "none"]
  /\ holder = NoProc
  /\ pc = [p \in Procs |-> "idle"]
  /\ task = [p \in Procs |-> "none"]
  /\ tx = [p \in Procs |-> 0]
  /\ todo = [p \in Procs |-> {}]
  /\ strayed = FALSE
  /\ crashes = 0 /\ failures = 0

-----------------------------------------------------------------------------

Goto(p, from, to) == pc[p] = from /\ pc' = [pc EXCEPT ![p] = to]

Targets(i) == DOMAIN snaps[i].before

Pending == {i \in Ids : staging[i] # "none"}

\* Fault: the lock is taken whoever has it.
AcquireAnyway(p) ==
  /\ holder' = p
  /\ Goto(p, "idle", "recover")
  /\ UNCHANGED <<disk, snaps, staging, task, tx, todo, committed, strayed, crashes, failures>>

\* acquireMutationLock: the lock, then recovery.
Acquire(p) ==
  /\ ~(strayed /\ StopAtStray)
  /\ holder = NoProc /\ holder' = p
  /\ Goto(p, "idle", "recover")
  /\ UNCHANGED <<disk, snaps, staging, task, tx, todo, committed, strayed, crashes, failures>>

\* The lock is released and the command ends, well or with an error.
Release(p) ==
  /\ Goto(p, "release", "idle")
  /\ holder' = IF holder = p THEN NoProc ELSE holder
  /\ task' = [task EXCEPT ![p] = "none"]
  /\ tx' = [tx EXCEPT ![p] = 0]
  /\ UNCHANGED <<disk, snaps, staging, todo, committed, strayed, crashes, failures>>

\* restoreSnapshot starts by removing every target.
StartRestore(p, i, why) ==
  /\ pc' = [pc EXCEPT ![p] = "remove"]
  /\ task' = [task EXCEPT ![p] = why]
  /\ tx' = [tx EXCEPT ![p] = i]
  /\ todo' = [todo EXCEPT ![p] = Targets(i)]

\* Fault: what is pending is left for later.
RecoverNothing(p) ==
  /\ Goto(p, "recover", "ready")
  /\ UNCHANGED <<disk, snaps, staging, holder, task, tx, todo, committed, strayed, crashes, failures>>

\* recoverPendingTransactionsUnlocked: the entries of the staging directory in
\* order.  A journal that cannot be read stops the command.
Recover(p) ==
  /\ pc[p] = "recover"
  /\ IF Pending = {} THEN Goto(p, "recover", "ready") /\ UNCHANGED <<task, tx, todo>>
     ELSE IF staging[Min(Pending)] = "torn"
       THEN Goto(p, "recover", "release") /\ UNCHANGED <<task, tx, todo>>
       ELSE StartRestore(p, Min(Pending), "recovery")
  /\ UNCHANGED <<disk, snaps, staging, holder, committed, strayed, crashes, failures>>

RemoveTarget(p, x) ==
  /\ pc[p] = "remove" /\ x \in todo[p]
  /\ disk' = [disk EXCEPT ![x] = Nothing]
  /\ IF todo[p] = {x}
       THEN /\ pc' = [pc EXCEPT ![p] = "write"]
            /\ todo' = [todo EXCEPT ![p] = Targets(tx[p])]
       ELSE todo' = [todo EXCEPT ![p] = @ \ {x}] /\ UNCHANGED pc
  /\ UNCHANGED <<snaps, staging, holder, task, tx, committed, strayed, crashes, failures>>

\* The recorded files are written back.  After the last one a rollback is
\* complete; recovery and abort go on to remove the journal.
WriteTarget(p, x) ==
  /\ pc[p] = "write" /\ x \in todo[p]
  /\ disk' = [disk EXCEPT ![x] = snaps[tx[p]].before[x]]
  /\ todo' = [todo EXCEPT ![p] = @ \ {x}]
  /\ IF todo[p] # {x} THEN UNCHANGED <<pc, committed>>
     ELSE IF task[p] = "rollback"
       THEN pc' = [pc EXCEPT ![p] = "release"] /\ committed' = disk'
       ELSE pc' = [pc EXCEPT ![p] = "unlink"] /\ UNCHANGED committed
  /\ UNCHANGED <<snaps, staging, holder, task, tx, strayed, crashes, failures>>

\* completeTransaction removes the journal directory, its only file first.  A
\* mutation is done when that file is gone.
Unlink(p) ==
  /\ Goto(p, "unlink", "rmdir")
  /\ staging' = [staging EXCEPT ![tx[p]] = IF @ = "none" THEN "none" ELSE "torn"]
  /\ committed' = IF task[p] = "mutation" THEN disk ELSE committed
  /\ UNCHANGED <<disk, snaps, holder, task, tx, todo, strayed, crashes, failures>>

\* Fault: the lock is left to the caller, who does not know.
RmdirKeepsLock(p) ==
  /\ Goto(p, "rmdir", IF task[p] = "recovery" THEN "recover" ELSE "idle")
  /\ staging' = [staging EXCEPT ![tx[p]] = "none"]
  /\ UNCHANGED <<disk, snaps, holder, task, tx, todo, committed, strayed, crashes, failures>>

Rmdir(p) ==
  /\ Goto(p, "rmdir", IF task[p] = "recovery" THEN "recover" ELSE "release")
  /\ staging' = [staging EXCEPT ![tx[p]] = "none"]
  /\ UNCHANGED <<disk, snaps, holder, task, tx, todo, committed, strayed, crashes, failures>>

-----------------------------------------------------------------------------
(* runMutationTransaction *)

\* prepare() throws, or there is nothing to do (recoverPendingTransactions).
Decline(p) ==
  /\ Goto(p, "ready", "release")
  /\ UNCHANGED <<disk, snaps, staging, holder, task, tx, todo, committed, strayed, crashes, failures>>

\* beginTransaction: a fresh snapshot of the targets, under the lock ...
Begin(p, T) ==
  /\ Len(snaps) < MaxTx
  /\ Goto(p, "ready", "publish")
  /\ snaps' = Append(snaps, [before |-> Restrict(disk, T), after |-> NoEvidence])
  /\ task' = [task EXCEPT ![p] = "mutation"]
  /\ tx' = [tx EXCEPT ![p] = Len(snaps) + 1]
  /\ UNCHANGED <<disk, staging, holder, todo, committed, strayed, crashes, failures>>

\* ... whose journal appears in the staging directory by a rename.
Publish(p) ==
  /\ Goto(p, "publish", "mark")
  /\ staging' = [staging EXCEPT ![tx[p]] = "prepared"]
  /\ UNCHANGED <<disk, snaps, holder, task, tx, todo, committed, strayed, crashes, failures>>

MarkCommitting(p) ==
  /\ Goto(p, "mark", "mutate")
  /\ staging' = [staging EXCEPT ![tx[p]] = "committing"]
  /\ UNCHANGED <<disk, snaps, holder, task, tx, todo, committed, strayed, crashes, failures>>

\* mutate() writes or removes one of the targets ...
Mutate(p, x) ==
  /\ pc[p] = "mutate" /\ x \in Targets(tx[p])
  /\ \E v \in {tx[p], Nothing} : disk' = [disk EXCEPT ![x] = v]
  /\ UNCHANGED <<snaps, staging, holder, pc, task, tx, todo, committed, strayed, crashes, failures>>

\* ... until it returns.
EndMutate(p) ==
  /\ Goto(p, "mutate", "record")
  /\ UNCHANGED <<disk, snaps, staging, holder, task, tx, todo, committed, strayed, crashes, failures>>

\* recordSnapshotPostMutationState
Record(p) ==
  /\ Goto(p, "record", "unlink")
  /\ snaps' = [snaps EXCEPT ![tx[p]].after = Restrict(disk, Targets(tx[p]))]
  /\ UNCHANGED <<disk, staging, holder, task, tx, todo, committed, strayed, crashes, failures>>

Fails == failures < MaxFailures /\ failures' = failures + 1

\* Anything between publishing and removing the journal throws: the snapshot
\* is restored under the lock.
Abort(p) ==
  /\ Fails
  /\ pc[p] \in {"mark", "mutate", "record"}
  /\ StartRestore(p, tx[p], "abort")
  /\ UNCHANGED <<disk, snaps, staging, holder, committed, strayed, crashes>>

\* beginTransaction throws before the journal is published.
BeginFails(p) ==
  /\ Fails
  /\ Goto(p, "publish", "release")
  /\ UNCHANGED <<disk, snaps, staging, holder, task, tx, todo, committed, strayed, crashes>>

\* Restoring throws: the lock is released, and the journal stays if there is one.
RestoreFails(p) ==
  /\ Fails
  /\ pc[p] \in {"remove", "write"} /\ pc' = [pc EXCEPT ![p] = "release"]
  /\ task[p] = "rollback" => RollbackDies
  /\ strayed' = (strayed \/ task[p] = "rollback")
  /\ todo' = [todo EXCEPT ![p] = {}]
  /\ UNCHANGED <<disk, snaps, staging, holder, task, tx, committed, crashes>>

\* A restored journal cannot be removed: the command ends with the error.
RemovalFails(p) ==
  /\ Fails
  /\ pc[p] \in {"unlink", "rmdir"} /\ task[p] # "mutation"
  /\ pc' = [pc EXCEPT ![p] = "release"]
  /\ UNCHANGED <<disk, snaps, staging, holder, task, tx, todo, committed, strayed, crashes>>

\* completeTransaction cannot remove the journal: it releases the lock on its
\* way out, and the error sends the caller into rollbackTransaction.  (Of the
\* removal the first step is taken to fail, which leaves the journal readable.)
CompletionFails(p) ==
  /\ CompletionMayFail /\ Fails
  /\ pc[p] = "unlink" /\ task[p] = "mutation"
  /\ StartRestore(p, tx[p], "abort")
  /\ holder' = NoProc
  /\ strayed' = TRUE
  /\ UNCHANGED <<disk, snaps, staging, committed, crashes>>

-----------------------------------------------------------------------------
(* loadout rollback *)

\* Fault: only some of the files are compared.
UnchangedSome(i) ==
  snaps[i].after # NoEvidence /\ \E x \in Targets(i) : disk[x] = snaps[i].after[x]

\* assertUnchangedPostMutationState: the files are as the mutation left them.
Unchanged(i) == snaps[i].after # NoEvidence /\ Restrict(disk, Targets(i)) = snaps[i].after

Rollback(p, i) ==
  /\ pc[p] = "ready" /\ i \in DOMAIN snaps
  /\ Unchanged(i)
  /\ StartRestore(p, i, "rollback")
  /\ UNCHANGED <<disk, snaps, staging, holder, committed, strayed, crashes, failures>>

RollingBack(p) == pc[p] \in {"remove", "write"} /\ task[p] = "rollback"

\* A process dies; its lock file no longer counts.
Crash(p) ==
  /\ crashes < MaxCrashes /\ crashes' = crashes + 1
  /\ pc[p] # "idle" /\ pc' = [pc EXCEPT ![p] = "idle"]
  /\ RollingBack(p) => RollbackDies
  /\ strayed' = (strayed \/ RollingBack(p))
  /\ task' = [task EXCEPT ![p] = "none"]
  /\ tx' = [tx EXCEPT ![p] = 0] /\ todo' = [todo EXCEPT ![p] = {}]
  /\ holder' = IF holder = p THEN NoProc ELSE holder
  /\ UNCHANGED <<disk, snaps, staging, committed, failures>>

\* What a command does once it has the lock.
Work(p) ==
  \/ Recover(p) \/ Publish(p) \/ MarkCommitting(p) \/ EndMutate(p) \/ Record(p)
  \/ Unlink(p) \/ Rmdir(p) \/ Release(p)
  \/ \E x \in Paths : RemoveTarget(p, x) \/ WriteTarget(p, x)
  \/ Decline(p)
  \/ \E T \in TargetSets : Begin(p, T)
  \/ \E i \in Ids : Rollback(p, i)

Step(p) ==
  \/ Acquire(p) \/ Work(p)
  \/ \E x \in Paths : Mutate(p, x)
  \/ BeginFails(p) \/ Abort(p) \/ RestoreFails(p) \/ RemovalFails(p) \/ CompletionFails(p)
  \/ Crash(p)

Next == \E p \in Procs : Step(p)

Spec == Init /\ [][Next]_vars

\* A command that has the lock goes on to its end.
FairSpec == Spec /\ \A p \in Procs : WF_vars(Work(p))

-----------------------------------------------------------------------------
(* Properties *)

\* The files with every published journal's snapshot put back.
Recovered ==
  [x \in Paths |->
     LET js == {i \in Pending : staging[i] # "torn" /\ x \in Targets(i)}
     IN  IF js = {} THEN disk[x] ELSE snaps[Min(js)].before[x]]

\* Whatever has happened, death in the middle of a mutation, of its undoing or
\* of an earlier recovery included, restoring what is pending gives the files
\* as the last completed operation left them: every mutation is all or nothing.
AllOrNothing ==
  ~strayed /\ (\A p \in Procs : ~RollingBack(p)) => Recovered = committed

\* A command that finds a journal it cannot read and refuses to go on finds
\* the files complete: nothing half done hides behind the refusal.
RefusalHidesNothing ==
  ~strayed => \A i \in Ids : staging[i] = "torn" => disk = committed

\* Whatever dies or fails, what the next command restores from the journals it
\* finds is what was committed, and a journal it refuses to read hides no change
\* (recoverPendingTransactionsUnlocked, rollbackTransaction).
TransactionSound == TypeOK /\ AllOrNothing /\ RefusalHidesNothing

\* The files are changed by the holder of the mutation lock and nobody else.
OnlyHolderWrites ==
  [][ disk' # disk /\ ~strayed =>
        \E p \in Procs : holder = p /\ pc[p] \in {"mutate", "remove", "write"} ]_vars

\* A change that was completed is only ever undone by a rollback that found
\* every file as that change had left it.
RollbackUndoesOnlyItsOwn ==
  [][ \A p \in Procs :
        ~strayed /\ pc[p] = "ready" /\ RollingBack(p)' =>
          \A x \in Targets(tx'[p]) : committed[x] = snaps[tx'[p]].after[x] ]_vars

\* Whoever gets the lock gives it back, however the operation ends.
LockIsReleased == \A p \in Procs : holder = p ~> holder # p

\* What an abort or a recovery puts back is what the last completed operation
\* had left: "a concurrent completed mutation can never be rolled back by stale
\* pre-lock bytes".
NoStaleBytes ==
  \A p \in Procs :
    pc[p] \in {"remove", "write"} /\ task[p] \in {"abort", "recovery"} =>
      \A x \in Targets(tx[p]) : snaps[tx[p]].before[x] = committed[x]

=============================================================================
