------------------------- MODULE TransactionProofs --------------------------
(***************************************************************************)
(* What the journal of transaction.ts guarantees for any number of         *)
(* processes, files, transactions, crashes and failures.                   *)
(***************************************************************************)
EXTENDS Transaction, WellFoundedInduction, TLAPS

\* What the proofs need of the constants.
LEMMA Bounds ==
  /\ NoProc \notin Procs
  /\ \A T \in TargetSets : T \subseteq Paths
  /\ MaxTx \in Nat /\ MaxCrashes \in Nat /\ MaxFailures \in Nat
BY TransactionConstantsOK DEF TransactionConstantsOK

USE Bounds

\* recoverPendingTransactionsUnlocked starts with a journal that is there: a
\* non-empty set of numbers has a least one.
LEMMA LeastOfSome ==
  ASSUME NEW S \in SUBSET Nat, S # {}
  PROVE  Min(S) \in S
<1> DEFINE R == {ss \in Nat \X Nat : ss[1] < ss[2]}
<1>1. OpToRel(<, Nat) = R
  BY DEF OpToRel
<1>2. ASSUME NEW k \in Nat, NEW m \in Nat, <<k, m>> \notin R PROVE m =< k
  BY <1>2
<1> HIDE DEF R
<1>3. PICK m \in S : \A k \in S : ~(<<k, m>> \in R)
  BY <1>1, NatLessThanWellFounded, WFMin
<1>4. ASSUME NEW k \in S PROVE m =< k
  <2>1. k \in Nat /\ m \in Nat
    OBVIOUS
  <2>2. <<k, m>> \notin R
    BY <1>3
  <2> QED
    BY <1>2, <2>1, <2>2
<1> QED
  BY <1>4, Zenon DEF Min

\* ... and of a single journal it is that one.
LEMMA LeastOfOne ==
  ASSUME NEW i \in Nat
  PROVE  Min({i}) = i
BY LeastOfSome

-----------------------------------------------------------------------------
(* Types *)

\* What a process works with is a snapshot that was taken; a restore writes
\* only its targets.
Working == {"publish", "mark", "mutate", "record", "remove", "write", "unlink", "rmdir"}

NamedBy(p) ==
  /\ pc[p] \in Working => tx[p] \in DOMAIN snaps
  /\ pc[p] \in {"remove", "write"} => todo[p] \subseteq Targets(tx[p])

\* So is every journal that is pending.
Named == (\A p \in Procs : NamedBy(p)) /\ Pending \subseteq DOMAIN snaps

\* The snapshots of a type-correct state: what they hold for which targets.
LEMMA SnapshotShape ==
  ASSUME NEW s
  PROVE  s \in Snapshot <=>
           \E T \in TargetSets : s \in [before : [T -> Contents], after : [T -> Contents] \cup {NoEvidence}]
BY SMT DEF Snapshot

LEMMA TargetsAreFiles ==
  ASSUME TypeOK, NEW i \in DOMAIN snaps
  PROVE  /\ i \in Ids
         /\ Targets(i) \in TargetSets /\ Targets(i) \subseteq Paths
         /\ snaps[i].before \in [Targets(i) -> Contents]
<1>1. snaps[i] \in Snapshot /\ i \in Ids
  BY DEF TypeOK, Ids
<1>2. PICK T \in TargetSets : snaps[i] \in [before : [T -> Contents], after : [T -> Contents] \cup {NoEvidence}]
  BY <1>1, SnapshotShape
<1> QED
  BY <1>1, <1>2 DEF Targets

\* No step removes a snapshot or changes the content it was taken of:
\* recordSnapshotPostMutationState adds the evidence and leaves the rest.
LEMMA SnapshotsStay ==
  ASSUME TypeOK, NEW p \in Procs, Step(p)
  PROVE  \A i \in DOMAIN snaps : i \in DOMAIN snaps' /\ snaps'[i].before = snaps[i].before
<1>1. ASSUME NEW T \in TargetSets, Begin(p, T)
      PROVE  \A i \in DOMAIN snaps : i \in DOMAIN snaps' /\ snaps'[i] = snaps[i]
  BY <1>1 DEF Begin, TypeOK
<1>2. ASSUME Record(p), NEW i \in DOMAIN snaps
      PROVE  i \in DOMAIN snaps' /\ snaps'[i].before = snaps[i].before
  <2>1. snaps[i] \in Snapshot
    BY DEF TypeOK
  <2>2. PICK T \in TargetSets : snaps[i] \in [before : [T -> Contents], after : [T -> Contents] \cup {NoEvidence}]
    BY <2>1, SnapshotShape
  <2> QED
    BY <1>2, <2>2 DEF Record, TypeOK
<1>3. CASE snaps' = snaps
  BY <1>3
<1> QED
  BY <1>1, <1>2, <1>3 DEF Step, Work, Acquire, Recover, Publish, MarkCommitting, EndMutate, Unlink, Rmdir, Release,
     RemoveTarget, WriteTarget, Decline, Rollback, Mutate, BeginFails, Abort, RestoreFails, RemovalFails,
     CompletionFails, Crash

\* A step of one process leaves what the others do alone.
LEMMA OthersStay ==
  ASSUME TypeOK, NEW p \in Procs, Step(p), NEW q \in Procs \ {p}
  PROVE  pc'[q] = pc[q] /\ task'[q] = task[q] /\ tx'[q] = tx[q] /\ todo'[q] = todo[q]
<1> USE DEF TypeOK, Goto, StartRestore
<1>1. ASSUME NEW T \in TargetSets, Begin(p, T)
      PROVE  pc'[q] = pc[q] /\ task'[q] = task[q] /\ tx'[q] = tx[q] /\ todo'[q] = todo[q]
  BY <1>1 DEF Begin
<1>2. ASSUME NEW x \in Paths, RemoveTarget(p, x) \/ WriteTarget(p, x) \/ Mutate(p, x)
      PROVE  pc'[q] = pc[q] /\ task'[q] = task[q] /\ tx'[q] = tx[q] /\ todo'[q] = todo[q]
  BY <1>2 DEF RemoveTarget, WriteTarget, Mutate
<1>3. ASSUME NEW i \in Ids, Rollback(p, i)
      PROVE  pc'[q] = pc[q] /\ task'[q] = task[q] /\ tx'[q] = tx[q] /\ todo'[q] = todo[q]
  BY <1>3 DEF Rollback
<1>4. CASE Acquire(p) \/ Recover(p) \/ Publish(p) \/ MarkCommitting(p) \/ EndMutate(p) \/ Record(p) \/ Decline(p)
  BY <1>4 DEF Acquire, Recover, Publish, MarkCommitting, EndMutate, Record, Decline
<1>5. CASE Unlink(p) \/ Rmdir(p) \/ Release(p) \/ Crash(p)
  BY <1>5 DEF Unlink, Rmdir, Release, Crash
<1>6. CASE BeginFails(p) \/ Abort(p) \/ RestoreFails(p) \/ RemovalFails(p) \/ CompletionFails(p)
  BY <1>6 DEF BeginFails, Abort, RestoreFails, RemovalFails, CompletionFails
<1> QED
  BY <1>1, <1>2, <1>3, <1>4, <1>5, <1>6 DEF Step, Work

LEMMA NamesStay ==
  ASSUME TypeOK, Named, NEW p \in Procs, Step(p), NamedBy(p)', Pending' \subseteq DOMAIN snaps'
  PROVE  Named'
<1>1. ASSUME NEW q \in Procs \ {p} PROVE NamedBy(q)'
  <2>1. /\ pc'[q] = pc[q] /\ tx'[q] = tx[q] /\ todo'[q] = todo[q]
        /\ \A i \in DOMAIN snaps : i \in DOMAIN snaps' /\ Targets(i)' = Targets(i)
    BY OthersStay, SnapshotsStay DEF Targets
  <2>2. NamedBy(q) /\ (pc[q] \in {"remove", "write"} => pc[q] \in Working)
    BY DEF Named, Working
  <2> QED
    BY <2>1, <2>2 DEF NamedBy, Targets
<1> QED
  BY <1>1 DEF Named

\* A journal that recovery starts with is one that is pending.
LEMMA FirstPending == Pending # {} => Min(Pending) \in Pending
BY LeastOfSome DEF Pending, Ids

\* beginTransaction appends a snapshot of its targets that has no evidence yet.
LEMMA BeginAppends ==
  ASSUME TypeOK, Named, NEW p \in Procs, NEW T \in TargetSets, Begin(p, T)
  PROVE  /\ snaps' \in Seq(Snapshot) /\ Len(snaps') = Len(snaps) + 1 /\ Len(snaps') <= MaxTx
         /\ tx'[p] = Len(snaps') /\ snaps'[tx'[p]].before = Restrict(disk, T)
         /\ T \subseteq Paths
<1> DEFINE s == [before |-> Restrict(disk, T), after |-> NoEvidence]
<1>1. T \subseteq Paths
  OBVIOUS
<1>2. Restrict(disk, T) \in [T -> Contents]
  BY <1>1 DEF Restrict, TypeOK
<1>3. s \in [before : [T -> Contents], after : [T -> Contents] \cup {NoEvidence}]
  BY <1>2
<1>4. s \in Snapshot
  BY <1>3, SnapshotShape
<1> QED
  BY <1>1, <1>4 DEF Begin, TypeOK

\* recordSnapshotPostMutationState keeps the snapshots of their type.
LEMMA RecordKeepsType ==
  ASSUME TypeOK, Named, NEW p \in Procs, Record(p)
  PROVE  snaps' \in Seq(Snapshot) /\ Len(snaps') = Len(snaps)
<1> DEFINE i == tx[p]
           s == [snaps[i] EXCEPT !.after = Restrict(disk, Targets(i))]
<1>1. i \in DOMAIN snaps /\ snaps[i] \in Snapshot
  BY DEF Named, NamedBy, Working, Record, Goto, TypeOK
<1>2. PICK T \in TargetSets : snaps[i] \in [before : [T -> Contents], after : [T -> Contents] \cup {NoEvidence}]
  BY <1>1, SnapshotShape
<1>3. Targets(i) = T /\ T \subseteq Paths
  BY <1>2 DEF Targets
<1>4. Restrict(disk, T) \in [T -> Contents]
  BY <1>3 DEF Restrict, TypeOK
<1>5. s \in [before : [T -> Contents], after : [T -> Contents] \cup {NoEvidence}]
  BY <1>2, <1>3, <1>4
<1>6. s \in Snapshot
  BY <1>5, SnapshotShape
<1>7. snaps' = [snaps EXCEPT ![i] = s]
  BY DEF Record
<1> QED
  BY <1>1, <1>6, <1>7 DEF TypeOK

\* The types, apart for the files, the processes and the counters.
FilesTyped ==
  /\ disk \in [Paths -> Contents] /\ committed \in [Paths -> Contents]
  /\ snaps \in Seq(Snapshot) /\ Len(snaps) <= MaxTx
  /\ staging \in [Ids -> JournalStates]

ProcsTyped ==
  /\ pc \in [Procs -> Steps] /\ task \in [Procs -> Tasks]
  /\ tx \in [Procs -> 0..MaxTx] /\ todo \in [Procs -> SUBSET Paths]

CountsTyped ==
  /\ holder \in Procs \cup {NoProc} /\ strayed \in BOOLEAN
  /\ crashes \in 0..MaxCrashes /\ failures \in 0..MaxFailures

LEMMA TypeParts == TypeOK <=> FilesTyped /\ ProcsTyped /\ CountsTyped
BY Zenon DEF TypeOK, FilesTyped, ProcsTyped, CountsTyped

\* Operations count what dies and throws up to its bound.
LEMMA CountsStay ==
  ASSUME TypeOK, NEW p \in Procs, Step(p)
  PROVE  CountsTyped'
<1> USE DEF TypeOK, CountsTyped, Goto
<1>1. CASE Acquire(p) \/ Release(p)
  BY <1>1 DEF Acquire, Release
<1>2. CASE Crash(p)
  <2>1. crashes' \in 0..MaxCrashes /\ holder' \in Procs \cup {NoProc} /\ UNCHANGED failures
    BY <1>2 DEF Crash
  <2>2. strayed' \in BOOLEAN
    BY <1>2, Zenon DEF Crash
  <2> QED
    BY <2>1, <2>2
<1>3. ASSUME Fails, strayed' \in BOOLEAN, holder' \in {holder, NoProc}, UNCHANGED crashes PROVE CountsTyped'
  <2>1. failures' \in 0..MaxFailures
    BY <1>3 DEF Fails
  <2> QED
    BY <1>3, <2>1
<1>4. CASE RestoreFails(p)
  <2>1. strayed' \in BOOLEAN
    BY <1>4, Zenon DEF RestoreFails
  <2> QED
    BY <1>3, <1>4, <2>1 DEF RestoreFails
<1>5. CASE BeginFails(p) \/ Abort(p) \/ RemovalFails(p) \/ CompletionFails(p)
  <2>1. strayed' \in BOOLEAN
    BY <1>5, Zenon DEF BeginFails, Abort, RemovalFails, CompletionFails
  <2> QED
    BY <1>3, <1>5, <2>1 DEF BeginFails, Abort, RemovalFails, CompletionFails
<1>6. CASE UNCHANGED <<holder, strayed, crashes, failures>>
  BY <1>6
<1> QED
  BY <1>1, <1>2, <1>4, <1>5, <1>6 DEF Step, Work, Recover, Publish, MarkCommitting, EndMutate, Record, Unlink, Rmdir,
     RemoveTarget, WriteTarget, Decline, Begin, Rollback, Mutate

\* What an action writes into the process that takes it is of its type.
LEMMA ProcsStay ==
  ASSUME TypeOK, FilesTyped, ProcsTyped, Named, NEW p \in Procs, Step(p)
  PROVE  ProcsTyped'
<1>0. /\ "idle" \in Steps /\ "recover" \in Steps /\ "ready" \in Steps /\ "publish" \in Steps
      /\ "mark" \in Steps /\ "mutate" \in Steps /\ "record" \in Steps /\ "remove" \in Steps
      /\ "write" \in Steps /\ "unlink" \in Steps /\ "rmdir" \in Steps /\ "release" \in Steps
      /\ "none" \in Tasks /\ "mutation" \in Tasks /\ "recovery" \in Tasks /\ "abort" \in Tasks /\ "rollback" \in Tasks
  BY DEF Steps, Tasks
<1>1. \A i \in DOMAIN snaps : i \in 0..MaxTx /\ Targets(i) \subseteq Paths
  BY TargetsAreFiles DEF Ids, Named
<1>2. NamedBy(p)
  BY DEF Named
<1> USE DEF ProcsTyped, Goto
<1>3. CASE Acquire(p) \/ Decline(p) \/ EndMutate(p) \/ BeginFails(p) \/ RemovalFails(p)
  BY <1>0, <1>3 DEF Acquire, Decline, EndMutate, BeginFails, RemovalFails
<1>4. CASE Release(p) \/ Crash(p)
  BY <1>0, <1>4 DEF Release, Crash
<1>5. ASSUME NEW i \in DOMAIN snaps, NEW why \in Tasks, StartRestore(p, i, why) PROVE ProcsTyped'
  BY <1>0, <1>1, <1>5 DEF StartRestore
<1>6. CASE Recover(p)
  <2>1. CASE Pending = {} \/ staging[Min(Pending)] = "torn"
    BY <1>0, <1>6, <2>1 DEF Recover
  <2>2. CASE Pending # {} /\ staging[Min(Pending)] # "torn"
    <3>1. Min(Pending) \in DOMAIN snaps
      BY <2>2, FirstPending DEF Named
    <3>2. StartRestore(p, Min(Pending), "recovery")
      BY <1>6, <2>2 DEF Recover
    <3> QED
      BY <1>0, <1>5, <3>1, <3>2
  <2> QED
    BY <2>1, <2>2
<1>7. ASSUME NEW x \in Paths, RemoveTarget(p, x) PROVE ProcsTyped'
  <2>1. Targets(tx[p]) \subseteq Paths
    BY <1>1, <1>2, <1>7 DEF RemoveTarget, NamedBy, Working
  <2> QED
    BY <1>0, <1>7, <2>1 DEF RemoveTarget
<1>8. ASSUME NEW x \in Paths, WriteTarget(p, x) PROVE ProcsTyped'
  BY <1>0, <1>8 DEF WriteTarget
<1>9. CASE Unlink(p) \/ Rmdir(p) \/ Publish(p) \/ MarkCommitting(p) \/ Record(p)
  BY <1>0, <1>9 DEF Unlink, Rmdir, Publish, MarkCommitting, Record
<1>10. ASSUME NEW T \in TargetSets, Begin(p, T) PROVE ProcsTyped'
  <2>1. Len(snaps) + 1 \in 0..MaxTx
    BY <1>10 DEF Begin, FilesTyped
  <2> QED
    BY <1>0, <1>10, <2>1 DEF Begin
<1>11. ASSUME NEW x \in Paths, Mutate(p, x) PROVE ProcsTyped'
  BY <1>11 DEF Mutate
<1>12. CASE Abort(p) \/ CompletionFails(p)
  <2>1. tx[p] \in DOMAIN snaps
    BY <1>2, <1>12 DEF Abort, CompletionFails, NamedBy, Working
  <2> QED
    BY <1>0, <1>5, <1>12, <2>1 DEF Abort, CompletionFails
<1>13. CASE RestoreFails(p)
  BY <1>0, <1>13 DEF RestoreFails
<1>14. ASSUME NEW i \in Ids, Rollback(p, i) PROVE ProcsTyped'
  BY <1>0, <1>5, <1>14 DEF Rollback
<1> QED
  BY <1>3, <1>4, <1>6, <1>7, <1>8, <1>9, <1>10, <1>11, <1>12, <1>13, <1>14 DEF Step, Work

\* So is what it writes to the disk, the snapshots and the journals.
LEMMA FilesStay ==
  ASSUME TypeOK, Named, NEW p \in Procs, Step(p)
  PROVE  FilesTyped'
<1>1. NamedBy(p) /\ FilesTyped
  BY TypeParts DEF Named
<1>2. ASSUME disk' \in [Paths -> Contents], committed' \in {committed, disk'}, UNCHANGED <<snaps, staging>>
      PROVE  FilesTyped'
  BY <1>1, <1>2 DEF FilesTyped
<1>3. CASE UNCHANGED <<disk, snaps, staging, committed>>
  BY <1>1, <1>3 DEF FilesTyped
<1>4. ASSUME NEW x \in Paths, RemoveTarget(p, x) PROVE FilesTyped'
  <2>1. disk' \in [Paths -> Contents]
    BY <1>1, <1>4 DEF RemoveTarget, FilesTyped, Contents
  <2> QED
    BY <1>2, <1>4, <2>1 DEF RemoveTarget
<1>5. ASSUME NEW x \in Paths, WriteTarget(p, x) PROVE FilesTyped'
  <2>1. tx[p] \in DOMAIN snaps /\ x \in Targets(tx[p])
    BY <1>1, <1>5 DEF WriteTarget, NamedBy, Working
  <2>2. snaps[tx[p]].before[x] \in Contents
    BY <2>1, TargetsAreFiles
  <2>3. disk' \in [Paths -> Contents]
    BY <1>1, <1>5, <2>2 DEF WriteTarget, FilesTyped
  <2> QED
    BY <1>2, <1>5, <2>3 DEF WriteTarget
<1>6. ASSUME NEW x \in Paths, Mutate(p, x) PROVE FilesTyped'
  <2>1. tx[p] \in Contents /\ Nothing \in Contents
    BY DEF TypeOK, Contents
  <2>2. disk' \in [Paths -> Contents]
    BY <1>1, <1>6, <2>1 DEF Mutate, FilesTyped
  <2> QED
    BY <1>2, <1>6, <2>2 DEF Mutate
<1>7. CASE Unlink(p) \/ Rmdir(p) \/ Publish(p) \/ MarkCommitting(p)
  <2>1. staging' \in [Ids -> JournalStates]
    BY <1>1, <1>7 DEF Unlink, Rmdir, Publish, MarkCommitting, JournalStates, FilesTyped
  <2>2. committed' \in {committed, disk} /\ UNCHANGED <<disk, snaps>>
    BY <1>7 DEF Unlink, Rmdir, Publish, MarkCommitting
  <2> QED
    BY <1>1, <2>1, <2>2 DEF FilesTyped
<1>8. ASSUME NEW T \in TargetSets, Begin(p, T) PROVE FilesTyped'
  <2>1. UNCHANGED <<disk, staging, committed>>
    BY <1>8 DEF Begin
  <2> QED
    BY <1>1, <1>8, <2>1, BeginAppends DEF FilesTyped
<1>9. CASE Record(p)
  <2>1. UNCHANGED <<disk, staging, committed>>
    BY <1>9 DEF Record
  <2> QED
    BY <1>1, <1>9, <2>1, RecordKeepsType DEF FilesTyped
<1> QED
  BY <1>3, <1>4, <1>5, <1>6, <1>7, <1>8, <1>9
     DEF Step, Work, Acquire, Release, Recover, EndMutate, Decline, Rollback, BeginFails, Abort, RestoreFails,
         RemovalFails, CompletionFails, Crash

\* Whatever a process names afterwards was taken.
LEMMA NamesKept ==
  ASSUME TypeOK, Named, NEW p \in Procs, Step(p)
  PROVE  Named'
<1>1. /\ \A i \in DOMAIN snaps : i \in DOMAIN snaps' /\ Targets(i)' = Targets(i)
      /\ NamedBy(p) /\ Pending \subseteq DOMAIN snaps
  BY SnapshotsStay DEF Named, Targets
<1>2. p \in DOMAIN pc /\ p \in DOMAIN tx /\ p \in DOMAIN todo
  BY DEF TypeOK
<1>3. ASSUME NamedBy(p)', Pending' \subseteq Pending \cup {tx[p]}, tx[p] \in DOMAIN snaps \/ Pending' \subseteq Pending
      PROVE  Named'
  <2>1. Pending' \subseteq DOMAIN snaps'
    BY <1>1, <1>3
  <2> QED
    BY <1>3, <2>1, NamesStay
<1>4. ASSUME pc'[p] \notin Working, Pending' \subseteq Pending PROVE Named'
  BY <1>3, <1>4 DEF NamedBy, Working
<1>5. ASSUME NEW i \in DOMAIN snaps, NEW why, StartRestore(p, i, why), UNCHANGED <<snaps, staging>> PROVE Named'
  <2>1. NamedBy(p)' /\ Pending' = Pending
    BY <1>2, <1>5 DEF StartRestore, NamedBy, Pending, Targets
  <2> QED
    BY <1>3, <2>1
<1> USE DEF Goto
<1>6. CASE Acquire(p) \/ Decline(p) \/ BeginFails(p) \/ RemovalFails(p) \/ RestoreFails(p) \/ Release(p) \/ Crash(p)
  <2>1. pc'[p] \in {"recover", "release", "idle"} /\ staging' = staging
    BY <1>2, <1>6 DEF Acquire, Decline, BeginFails, RemovalFails, RestoreFails, Release, Crash
  <2> QED
    BY <1>4, <2>1 DEF Pending, Working
<1>7. CASE EndMutate(p)
  <2>1. NamedBy(p)' /\ Pending' = Pending
    BY <1>1, <1>2, <1>7 DEF EndMutate, NamedBy, Working, Pending, Targets
  <2> QED
    BY <1>3, <2>1
<1>8. CASE Recover(p)
  <2>1. CASE Pending = {} \/ staging[Min(Pending)] = "torn"
    <3>1. pc'[p] \in {"ready", "release"} /\ staging' = staging
      BY <1>2, <1>8, <2>1 DEF Recover
    <3> QED
      BY <1>4, <3>1 DEF Working, Pending
  <2>2. CASE Pending # {} /\ staging[Min(Pending)] # "torn"
    <3>1. Min(Pending) \in DOMAIN snaps
      BY <1>1, <2>2, FirstPending
    <3>2. StartRestore(p, Min(Pending), "recovery") /\ UNCHANGED <<snaps, staging>>
      BY <1>8, <2>2 DEF Recover
    <3> QED
      BY <1>5, <3>1, <3>2
  <2> QED
    BY <2>1, <2>2
<1>9. ASSUME NEW x \in Paths, RemoveTarget(p, x) PROVE Named'
  <2>1. tx[p] \in DOMAIN snaps /\ todo[p] \subseteq Targets(tx[p])
    BY <1>1, <1>9 DEF RemoveTarget, NamedBy, Working
  <2>2. UNCHANGED <<tx, snaps, staging>> /\ todo'[p] \subseteq Targets(tx[p])
    BY <1>2, <1>9, <2>1 DEF RemoveTarget
  <2>3. NamedBy(p)' /\ Pending' = Pending
    BY <2>1, <2>2 DEF NamedBy, Targets, Pending
  <2> QED
    BY <1>3, <2>3
<1>10. ASSUME NEW x \in Paths, WriteTarget(p, x) PROVE Named'
  <2>1. tx[p] \in DOMAIN snaps /\ todo[p] \subseteq Targets(tx[p])
    BY <1>1, <1>10 DEF WriteTarget, NamedBy, Working
  <2>2. UNCHANGED <<tx, snaps, staging>> /\ todo'[p] \subseteq Targets(tx[p])
    BY <1>2, <1>10, <2>1 DEF WriteTarget
  <2>3. NamedBy(p)' /\ Pending' = Pending
    BY <2>1, <2>2 DEF NamedBy, Targets, Pending
  <2> QED
    BY <1>3, <2>3
<1>11. CASE Unlink(p) \/ Rmdir(p)
  <2>1. Pending' \subseteq Pending
    BY <1>11 DEF Unlink, Rmdir, Pending, TypeOK
  <2>2. tx[p] \in DOMAIN snaps
    BY <1>1, <1>11 DEF Unlink, Rmdir, NamedBy, Working
  <2>3. pc'[p] \in {"rmdir", "recover", "release"} /\ UNCHANGED <<tx, snaps>>
    BY <1>2, <1>11 DEF Unlink, Rmdir
  <2>4. NamedBy(p)'
    BY <2>2, <2>3 DEF NamedBy
  <2> QED
    BY <1>3, <2>1, <2>4
<1>12. ASSUME NEW T \in TargetSets, Begin(p, T) PROVE Named'
  <2>1. tx'[p] \in DOMAIN snaps'
    BY <1>12, BeginAppends
  <2>2. pc'[p] = "publish" /\ staging' = staging
    BY <1>2, <1>12 DEF Begin
  <2>3. NamedBy(p)' /\ Pending' = Pending
    BY <2>1, <2>2 DEF NamedBy, Pending
  <2> QED
    BY <1>3, <2>3
<1>13. CASE Publish(p) \/ MarkCommitting(p)
  <2>1. tx[p] \in DOMAIN snaps
    BY <1>1, <1>13 DEF Publish, MarkCommitting, NamedBy, Working
  <2>2. Pending' \subseteq Pending \cup {tx[p]}
    BY <1>13 DEF Publish, MarkCommitting, Pending, TypeOK
  <2>3. pc'[p] \in {"mark", "mutate"} /\ UNCHANGED <<tx, snaps>>
    BY <1>2, <1>13 DEF Publish, MarkCommitting
  <2>4. NamedBy(p)'
    BY <2>1, <2>3 DEF NamedBy
  <2> QED
    BY <1>3, <2>1, <2>2, <2>4
<1>14. ASSUME NEW x \in Paths, Mutate(p, x) PROVE Named'
  <2>1. UNCHANGED <<pc, tx, todo, snaps, staging>>
    BY <1>14 DEF Mutate
  <2>2. NamedBy(p)' /\ Pending' = Pending
    BY <1>1, <2>1 DEF NamedBy, Pending, Targets
  <2> QED
    BY <1>3, <2>2
<1>15. CASE Record(p)
  <2>1. pc[p] = "record" /\ pc'[p] = "unlink" /\ UNCHANGED <<tx, staging>>
    BY <1>2, <1>15 DEF Record
  <2>2. NamedBy(p)' /\ Pending' = Pending
    BY <1>1, <2>1 DEF NamedBy, Working, Pending
  <2> QED
    BY <1>3, <2>2
<1>16. CASE Abort(p) \/ CompletionFails(p)
  <2>1. tx[p] \in DOMAIN snaps
    BY <1>1, <1>16 DEF Abort, CompletionFails, NamedBy, Working
  <2> QED
    BY <1>5, <1>16, <2>1 DEF Abort, CompletionFails
<1>17. ASSUME NEW i \in Ids, Rollback(p, i) PROVE Named'
  BY <1>5, <1>17 DEF Rollback
<1> QED
  BY <1>6, <1>7, <1>8, <1>9, <1>10, <1>11, <1>12, <1>13, <1>14, <1>15, <1>16, <1>17 DEF Step, Work

\* Every step of a process keeps the types and the names.
LEMMA TypeStep ==
  ASSUME TypeOK, Named, NEW p \in Procs, Step(p)
  PROVE  TypeOK' /\ Named'
<1>1. FilesTyped' /\ ProcsTyped' /\ CountsTyped'
  BY TypeParts, FilesStay, ProcsStay, CountsStay
<1>2. TypeOK'
  BY <1>1, Zenon DEF TypeOK, FilesTyped, ProcsTyped, CountsTyped
<1> QED
  BY <1>2, NamesKept

LEMMA TypeInit == Init => TypeOK /\ Named
<1> SUFFICES ASSUME Init PROVE TypeOK /\ Named
  OBVIOUS
<1>1. disk \in [Paths -> Contents] /\ committed \in [Paths -> Contents]
  BY DEF Init, Contents
<1>2. snaps \in Seq(Snapshot) /\ Len(snaps) <= MaxTx
  BY DEF Init
<1>3. staging \in [Ids -> JournalStates]
  BY DEF Init, JournalStates
<1>4. pc \in [Procs -> Steps] /\ task \in [Procs -> Tasks]
  BY DEF Init, Steps, Tasks
<1>5. tx \in [Procs -> 0..MaxTx] /\ todo \in [Procs -> SUBSET Paths]
  BY DEF Init
<1>6. Named
  BY DEF Init, Named, NamedBy, Working, Pending
<1>7. holder \in Procs \cup {NoProc}
  BY DEF Init
<1>8. strayed \in BOOLEAN
  BY DEF Init
<1>9. crashes \in 0..MaxCrashes /\ failures \in 0..MaxFailures
  BY DEF Init
<1> QED
  BY <1>1, <1>2, <1>3, <1>4, <1>5, <1>6, <1>7, <1>8, <1>9, Zenon DEF TypeOK

(* Files, snapshots, journals and processes stay within their types, and   *)
(* whatever a restore or a journal names is a snapshot that was taken.     *)
THEOREM TransactionTypeCorrect == Spec => [](TypeOK /\ Named)
<1>1. TypeOK /\ Named /\ [Next]_vars => TypeOK' /\ Named'
  <2>1. CASE UNCHANGED vars
    BY <2>1 DEF vars, TypeOK, Named, NamedBy, Pending, Targets
  <2> QED
    BY <2>1, TypeStep DEF Next
<1> QED
  BY <1>1, TypeInit, PTL DEF Spec

-----------------------------------------------------------------------------
(* The files and their journals *)

\* The files of snapshot i were as the last completed operation left them, and
\* the other files are so still: putting the snapshot back completes the undoing.
Saved(i) ==
  /\ \A x \in Targets(i) : snaps[i].before[x] = committed[x]
  /\ \A x \in Paths \ Targets(i) : disk[x] = committed[x]

\* Where a process is, what is pending is what it has published.
Phase(p) ==
  /\ pc[p] # "idle" => holder = p
  /\ pc[p] \in {"ready", "publish"} => Pending = {}
  /\ pc[p] = "publish" => Saved(tx[p])
  /\ pc[p] \in {"publish", "mark", "mutate", "record"} => task[p] = "mutation"
  /\ pc[p] \in {"mark", "mutate", "record", "unlink"} => staging[tx[p]] \in {"prepared", "committing"}
  /\ pc[p] = "unlink" => task[p] = "mutation" \/ disk = committed
  /\ pc[p] = "rmdir" => staging[tx[p]] = "torn"
  /\ pc[p] \in {"remove", "write"} =>
       IF task[p] = "rollback"
         THEN Pending = {} /\ \A x \in Paths \ Targets(tx[p]) : disk[x] = committed[x]
         ELSE task[p] # "mutation" /\ staging[tx[p]] \in {"prepared", "committing"}
  /\ pc[p] = "write" => \A x \in Targets(tx[p]) \ todo[p] : disk[x] = snaps[tx[p]].before[x]

\* At most one journal is pending.  It can be put back, or the files are whole
\* without it; with none, they are whole unless a rollback is under way.
Journals ==
  /\ \A i, j \in Pending : i = j
  /\ \A i \in Pending : IF staging[i] = "torn" THEN disk = committed ELSE Saved(i)
  /\ Pending = {} => disk = committed \/ \E p \in Procs : RollingBack(p)

TransactionInv == ~strayed => Journals /\ \A p \in Procs : Phase(p)

\* Whoever is in the middle of something is alone: it holds the lock.
LEMMA Alone ==
  ASSUME TypeOK, \A q \in Procs : Phase(q), NEW p \in Procs, Step(p)
  PROVE  \A q \in Procs \ {p} : pc[q] = "idle" /\ pc'[q] = "idle"
<1>1. pc[p] # "idle" \/ holder = NoProc
  BY DEF Step, Work, Goto, Acquire, Recover, Publish, MarkCommitting, EndMutate, Record, Unlink, Rmdir, Release,
         RemoveTarget, WriteTarget, Decline, Begin, Rollback, Mutate, BeginFails, Abort, RestoreFails, RemovalFails,
         CompletionFails, Crash
<1>2. \A q \in Procs \ {p} : pc[q] = "idle"
  BY <1>1 DEF Phase
<1> QED
  BY <1>2, OthersStay

\* Putting a snapshot back completes the undoing also after a step that writes
\* its targets only.
LEMMA SavedStays ==
  ASSUME TypeOK, NEW p \in Procs, Step(p), NEW i \in DOMAIN snaps, Saved(i), committed' = committed,
         \A x \in Paths \ Targets(i) : disk'[x] = disk[x]
  PROVE  Saved(i)'
BY SnapshotsStay DEF Saved, Targets

\* Journals and files stay as they are in all the steps that write neither.
LEMMA JournalsUntouched ==
  ASSUME TypeOK, Named, Journals, NEW p \in Procs, Step(p), UNCHANGED <<disk, staging, committed>>,
         \A q \in Procs : ~RollingBack(q)
  PROVE  Journals'
<1>1. Pending' = Pending /\ Pending \subseteq DOMAIN snaps
  BY DEF Pending, Named
<1>2. ASSUME NEW i \in Pending, staging[i] # "torn" PROVE Saved(i)'
  BY <1>1, <1>2, SavedStays DEF Journals
<1> QED
  BY <1>1, <1>2 DEF Journals

\* Only one journal is pending while its owner works with it.
LEMMA OnlyPending ==
  ASSUME TypeOK, Named, Journals, NEW p \in Procs, pc[p] \in Working, staging[tx[p]] # "none"
  PROVE  Pending = {tx[p]} /\ tx[p] \in DOMAIN snaps /\ tx[p] \in Ids
<1>1. tx[p] \in DOMAIN snaps
  BY DEF Named, NamedBy
<1>2. tx[p] \in Pending
  BY <1>1, TargetsAreFiles DEF Pending
<1> QED
  BY <1>1, <1>2, TargetsAreFiles DEF Journals

LEMMA StrayedStays ==
  ASSUME NEW p \in Procs, Step(p), ~strayed'
  PROVE  ~strayed
BY DEF Step, Work, Acquire, Recover, Publish, MarkCommitting, EndMutate, Record, Unlink, Rmdir, Release, RemoveTarget,
       WriteTarget, Decline, Begin, Rollback, Mutate, BeginFails, Abort, RestoreFails, RemovalFails, CompletionFails, Crash

\* Every step of a process leaves the journals in order, and the process where
\* they let it be.
LEMMA JournalStep ==
  ASSUME TypeOK, Named, TransactionInv, NEW p \in Procs, Step(p), ~strayed'
  PROVE  Journals' /\ Phase(p)'
<1>1. ~strayed
  BY StrayedStays
<1>2. Journals /\ Phase(p) /\ \A q \in Procs \ {p} : pc[q] = "idle" /\ pc'[q] = "idle"
  BY <1>1, Alone DEF TransactionInv
<1>3. /\ p \in DOMAIN pc /\ p \in DOMAIN task /\ p \in DOMAIN tx /\ p \in DOMAIN todo
      /\ \A i \in DOMAIN snaps : i \in DOMAIN snaps' /\ Targets(i)' = Targets(i)
  BY SnapshotsStay DEF TypeOK, Targets
<1>4. ASSUME ~RollingBack(p) PROVE \A q \in Procs : ~RollingBack(q)
  BY <1>2, <1>4 DEF RollingBack
<1>5. ASSUME ~RollingBack(p), UNCHANGED <<disk, staging, committed>> PROVE Journals'
  BY <1>2, <1>4, <1>5, JournalsUntouched
<1>6. ASSUME ~RollingBack(p), Pending = {} PROVE disk = committed
  BY <1>2, <1>4, <1>6 DEF Journals
<1> USE DEF Goto
<1>7. CASE Acquire(p)
  <2>1. pc[p] = "idle" /\ pc'[p] = "recover" /\ holder' = p /\ UNCHANGED <<disk, staging, committed>>
    BY <1>3, <1>7 DEF Acquire
  <2> QED
    BY <1>5, <2>1 DEF Phase, RollingBack
<1>8. CASE Release(p) \/ Crash(p)
  <2>1. pc'[p] = "idle" /\ ~RollingBack(p) /\ UNCHANGED <<disk, staging, committed>>
    BY <1>3, <1>8 DEF Release, Crash, RollingBack
  <2> QED
    BY <1>5, <2>1 DEF Phase
<1>9. CASE Decline(p) \/ BeginFails(p) \/ RemovalFails(p) \/ RestoreFails(p)
  <2>1. /\ pc[p] # "idle" /\ pc'[p] = "release" /\ ~RollingBack(p)
        /\ UNCHANGED <<disk, staging, committed, holder>>
    BY <1>3, <1>9 DEF Decline, BeginFails, RemovalFails, RestoreFails, RollingBack
  <2> QED
    BY <1>2, <1>5, <2>1 DEF Phase
<1>10. CASE Recover(p)
  <2>1. pc[p] = "recover" /\ ~RollingBack(p) /\ holder = p /\ UNCHANGED <<disk, staging, committed, holder>>
    BY <1>2, <1>10 DEF Recover, RollingBack, Phase
  <2>2. CASE Pending = {}
    <3>1. pc'[p] = "ready"
      BY <1>3, <1>10, <2>2 DEF Recover
    <3> QED
      BY <1>5, <2>1, <2>2, <3>1 DEF Phase, Pending
  <2>3. CASE Pending # {} /\ staging[Min(Pending)] = "torn"
    <3>1. pc'[p] = "release"
      BY <1>3, <1>10, <2>3 DEF Recover
    <3> QED
      BY <1>5, <2>1, <3>1 DEF Phase
  <2>4. CASE Pending # {} /\ staging[Min(Pending)] # "torn"
    <3>1. pc'[p] = "remove" /\ task'[p] = "recovery" /\ tx'[p] = Min(Pending)
      BY <1>3, <1>10, <2>4 DEF Recover, StartRestore
    <3>2. staging[Min(Pending)] \in {"prepared", "committing"}
      BY <2>4, FirstPending DEF Pending, TypeOK, JournalStates
    <3> QED
      BY <1>5, <2>1, <3>1, <3>2 DEF Phase
  <2> QED
    BY <2>2, <2>3, <2>4
<1>11. ASSUME NEW T \in TargetSets, Begin(p, T) PROVE Journals' /\ Phase(p)'
  <2>1. /\ pc[p] = "ready" /\ pc'[p] = "publish" /\ ~RollingBack(p) /\ holder = p /\ Pending = {}
        /\ UNCHANGED <<disk, staging, committed, holder>>
    BY <1>2, <1>3, <1>11 DEF Begin, RollingBack, Phase
  <2>2. disk = committed
    BY <1>6, <2>1
  <2>3. snaps'[tx'[p]].before = Restrict(disk, T) /\ T \subseteq Paths
    BY <1>11, BeginAppends
  <2>4. Saved(tx[p])' /\ task'[p] = "mutation"
    BY <1>3, <1>11, <2>1, <2>2, <2>3 DEF Begin, Saved, Targets, Restrict
  <2> QED
    BY <1>5, <2>1, <2>4 DEF Phase, Pending
<1>12. CASE EndMutate(p) \/ Record(p)
  <2>1. /\ pc[p] \in {"mutate", "record"} /\ pc'[p] \in {"record", "unlink"} /\ ~RollingBack(p)
        /\ UNCHANGED <<disk, staging, committed, holder, task, tx>>
    BY <1>3, <1>12 DEF EndMutate, Record, RollingBack
  <2> QED
    BY <1>2, <1>5, <2>1 DEF Phase
<1>13. CASE Abort(p)
  <2>1. /\ pc[p] \in {"mark", "mutate", "record"} /\ pc'[p] = "remove" /\ ~RollingBack(p)
        /\ task'[p] = "abort" /\ tx'[p] = tx[p] /\ UNCHANGED <<disk, staging, committed, holder>>
    BY <1>3, <1>13 DEF Abort, StartRestore, RollingBack
  <2> QED
    BY <1>2, <1>5, <2>1 DEF Phase
<1>14. ASSUME NEW i \in Ids, Rollback(p, i) PROVE Journals' /\ Phase(p)'
  <2>1. /\ pc[p] = "ready" /\ pc'[p] = "remove" /\ ~RollingBack(p) /\ holder = p /\ Pending = {}
        /\ task'[p] = "rollback" /\ UNCHANGED <<disk, staging, committed, holder>>
    BY <1>2, <1>3, <1>14 DEF Rollback, StartRestore, RollingBack, Phase
  <2>2. disk = committed
    BY <1>6, <2>1
  <2> QED
    BY <1>5, <2>1, <2>2 DEF Phase, Pending
<1>15. CASE Publish(p)
  <2>1. /\ pc[p] = "publish" /\ pc'[p] = "mark" /\ holder = p /\ Pending = {} /\ Saved(tx[p])
        /\ task[p] = "mutation" /\ tx[p] \in DOMAIN snaps /\ UNCHANGED <<disk, committed, holder, task, tx, snaps>>
    BY <1>2, <1>3, <1>15 DEF Publish, Phase, Named, NamedBy, Working
  <2>2. staging' = [staging EXCEPT ![tx[p]] = "prepared"]
    BY <1>15 DEF Publish
  <2>3. Pending' = {tx[p]} /\ staging'[tx[p]] = "prepared"
    BY <2>1, <2>2, TargetsAreFiles DEF Pending, TypeOK
  <2>4. Saved(tx[p])'
    BY <2>1 DEF Saved, Targets
  <2> QED
    BY <2>1, <2>3, <2>4 DEF Journals, Phase
<1>16. CASE MarkCommitting(p)
  <2>1. /\ pc[p] = "mark" /\ pc'[p] = "mutate" /\ holder = p /\ task[p] = "mutation"
        /\ staging[tx[p]] \in {"prepared", "committing"}
        /\ UNCHANGED <<disk, committed, holder, task, tx, snaps>>
    BY <1>2, <1>3, <1>16 DEF MarkCommitting, Phase
  <2>2. staging' = [staging EXCEPT ![tx[p]] = "committing"] /\ Pending = {tx[p]} /\ tx[p] \in Ids
    BY <1>2, <1>16, <2>1, OnlyPending DEF MarkCommitting, Working
  <2>3. Pending' = {tx[p]} /\ staging'[tx[p]] = "committing"
    BY <2>1, <2>2 DEF Pending, TypeOK
  <2>4. Saved(tx[p])'
    BY <1>2, <2>1, <2>2 DEF Journals, Saved, Targets
  <2> QED
    BY <2>1, <2>3, <2>4 DEF Journals, Phase
<1>17. ASSUME NEW x \in Targets(tx[p]), disk'[x] \in Contents, \A y \in Paths \ {x} : disk'[y] = disk[y],
              staging[tx[p]] \in {"prepared", "committing"}, pc[p] \in Working,
              UNCHANGED <<snaps, staging, committed, tx>>
       PROVE  Journals'
  <2>1. Pending = {tx[p]} /\ tx[p] \in DOMAIN snaps /\ Pending' = {tx[p]}
    BY <1>2, <1>17, OnlyPending DEF Pending
  <2>2. Saved(tx[p])
    BY <1>2, <1>17, <2>1 DEF Journals
  <2>3. Saved(tx[p])'
    BY <1>17, <2>1, <2>2, SavedStays
  <2> QED
    BY <1>17, <2>1, <2>3 DEF Journals
<1>18. ASSUME NEW x \in Paths, Mutate(p, x) PROVE Journals' /\ Phase(p)'
  <2>1. /\ pc[p] = "mutate" /\ x \in Targets(tx[p]) /\ staging[tx[p]] \in {"prepared", "committing"}
        /\ holder = p /\ task[p] = "mutation"
        /\ UNCHANGED <<pc, task, tx, todo, snaps, staging, committed, holder>>
    BY <1>2, <1>18 DEF Mutate, Phase
  <2>2. disk'[x] \in Contents /\ \A y \in Paths \ {x} : disk'[y] = disk[y]
    BY <1>18 DEF Mutate, TypeOK, Contents
  <2>3. Journals'
    BY <1>17, <2>1, <2>2 DEF Working
  <2> QED
    BY <2>1, <2>3 DEF Phase
<1>19. ASSUME NEW x \in Paths, RemoveTarget(p, x) PROVE Journals' /\ Phase(p)'
  <2> DEFINE i == tx[p]
  <2>1. /\ pc[p] = "remove" /\ holder = p /\ i \in DOMAIN snaps /\ x \in todo[p] /\ x \in Targets(i)
        /\ UNCHANGED <<task, tx, snaps, staging, committed, holder>>
    BY <1>2, <1>19 DEF RemoveTarget, Phase, Named, NamedBy, Working
  <2>2. disk'[x] = Nothing /\ \A y \in Paths \ {x} : disk'[y] = disk[y]
    BY <1>19 DEF RemoveTarget, TypeOK
  <2>3. pc'[p] = "remove" \/ (pc'[p] = "write" /\ todo'[p] = Targets(i))
    BY <1>3, <1>19, <2>1 DEF RemoveTarget
  <2>4. CASE task[p] = "rollback"
    <3>1. Pending' = {} /\ RollingBack(p)' /\ \A y \in Paths \ Targets(i) : disk'[y] = committed[y]
      BY <1>2, <2>1, <2>2, <2>3, <2>4 DEF Phase, RollingBack, Pending
    <3>2. Journals'
      BY <3>1 DEF Journals
    <3> QED
      BY <2>1, <2>3, <2>4, <3>1, <3>2 DEF Phase, Targets
  <2>5. CASE task[p] # "rollback"
    <3>1. staging[i] \in {"prepared", "committing"} /\ task[p] # "mutation"
      BY <1>2, <2>1, <2>5 DEF Phase
    <3>2. Journals'
      BY <1>17, <2>1, <2>2, <3>1 DEF Working, Contents
    <3> QED
      BY <2>1, <2>3, <2>5, <3>1, <3>2 DEF Phase, Targets
  <2> QED
    BY <2>4, <2>5
<1>20. ASSUME NEW x \in Paths, WriteTarget(p, x) PROVE Journals' /\ Phase(p)'
  <2> DEFINE i == tx[p]
  <2>1. /\ pc[p] = "write" /\ holder = p /\ i \in DOMAIN snaps /\ x \in todo[p] /\ x \in Targets(i)
        /\ UNCHANGED <<task, tx, snaps, staging, holder>>
    BY <1>2, <1>20 DEF WriteTarget, Phase, Named, NamedBy, Working
  <2>2. disk'[x] = snaps[i].before[x] /\ \A y \in Paths \ {x} : disk'[y] = disk[y]
    BY <1>20 DEF WriteTarget, TypeOK
  <2>3. todo'[p] = todo[p] \ {x}
    BY <1>3, <1>20 DEF WriteTarget
  <2>4. \A y \in Targets(i) \ todo'[p] : disk'[y] = snaps[i].before[y]
    BY <1>2, <2>1, <2>2, <2>3, TargetsAreFiles DEF Phase
  <2>5. CASE task[p] = "rollback"
    <3>1. Pending' = {} /\ \A y \in Paths \ Targets(i) : disk'[y] = disk[y] /\ disk[y] = committed[y]
      BY <1>2, <2>1, <2>2, <2>5 DEF Phase, Pending
    <3>2. CASE todo[p] # {x}
      <4>1. pc' = pc /\ committed' = committed
        BY <1>20, <3>2 DEF WriteTarget
      <4>2. Journals'
        BY <2>1, <2>5, <3>1, <4>1 DEF Journals, RollingBack
      <4> QED
        BY <2>1, <2>4, <2>5, <3>1, <4>1, <4>2 DEF Phase, Targets
    <3>3. CASE todo[p] = {x}
      <4>1. pc'[p] = "release" /\ committed' = disk'
        BY <1>3, <1>20, <2>5, <3>3 DEF WriteTarget
      <4> QED
        BY <2>1, <3>1, <4>1 DEF Journals, Phase
    <3> QED
      BY <3>2, <3>3
  <2>6. CASE task[p] # "rollback"
    <3>1. staging[i] \in {"prepared", "committing"} /\ task[p] # "mutation" /\ committed' = committed
      BY <1>2, <1>20, <2>1, <2>6 DEF Phase, WriteTarget
    <3>2. disk'[x] \in Contents
      BY <2>1, <2>2, TargetsAreFiles
    <3>3. Journals'
      BY <1>17, <2>1, <2>2, <3>1, <3>2 DEF Working
    <3>4. CASE todo[p] # {x}
      <4>1. pc' = pc
        BY <1>20, <3>4 DEF WriteTarget
      <4> QED
        BY <2>1, <2>4, <2>6, <3>1, <3>3, <4>1 DEF Phase, Targets
    <3>5. CASE todo[p] = {x}
      <4>1. pc'[p] = "unlink"
        BY <1>3, <1>20, <2>6, <3>5 DEF WriteTarget
      <4>2. Saved(i)
        BY <1>2, <2>1, <3>1, OnlyPending DEF Journals, Working
      <4>3. \A y \in Paths : disk'[y] = committed[y]
        BY <2>1, <2>2, <2>3, <2>4, <3>5, <4>2 DEF Saved
      <4>4. disk' = committed
        BY <4>3, FilesStay DEF FilesTyped, TypeOK
      <4> QED
        BY <2>1, <2>6, <3>1, <3>3, <4>1, <4>4 DEF Phase
    <3> QED
      BY <3>4, <3>5
  <2> QED
    BY <2>5, <2>6
<1>21. CASE Unlink(p)
  <2>1. /\ pc[p] = "unlink" /\ pc'[p] = "rmdir" /\ holder = p /\ staging[tx[p]] \in {"prepared", "committing"}
        /\ task[p] = "mutation" \/ disk = committed
        /\ UNCHANGED <<disk, holder, tx>>
    BY <1>2, <1>3, <1>21 DEF Unlink, Phase
  <2>2. Pending = {tx[p]} /\ tx[p] \in Ids
    BY <1>2, <2>1, OnlyPending DEF Working
  <2>3. staging' = [staging EXCEPT ![tx[p]] = "torn"] /\ disk = committed'
    BY <1>21, <2>1 DEF Unlink
  <2>4. Pending' = {tx[p]} /\ staging'[tx[p]] = "torn"
    BY <2>2, <2>3 DEF Pending, TypeOK
  <2> QED
    BY <2>1, <2>3, <2>4 DEF Journals, Phase
<1>22. CASE Rmdir(p)
  <2>1. /\ pc[p] = "rmdir" /\ pc'[p] \in {"recover", "release"} /\ holder = p /\ staging[tx[p]] = "torn"
        /\ UNCHANGED <<disk, holder, committed>>
    BY <1>2, <1>3, <1>22 DEF Rmdir, Phase
  <2>2. Pending = {tx[p]} /\ tx[p] \in Ids /\ staging' = [staging EXCEPT ![tx[p]] = "none"]
    BY <1>2, <1>22, <2>1, OnlyPending DEF Working, Rmdir
  <2>3. disk = committed /\ Pending' = {}
    BY <1>2, <2>1, <2>2 DEF Journals, Pending, TypeOK
  <2> QED
    BY <2>1, <2>3 DEF Journals, Phase
<1>23. CASE CompletionFails(p)
  BY <1>23 DEF CompletionFails
<1> QED
  BY <1>7, <1>8, <1>9, <1>10, <1>11, <1>12, <1>13, <1>14, <1>15, <1>16, <1>18, <1>19, <1>20, <1>21, <1>22, <1>23
     DEF Step, Work

(* While nobody has gone on without the lock and no rollback has stopped   *)
(* halfway, one process works at a time, and the one journal it may have   *)
(* left can be put back.                                                   *)
THEOREM TransactionInvariant == Spec => [](TypeOK /\ Named /\ TransactionInv)
<1>1. Init => TypeOK /\ Named /\ TransactionInv
  <2>1. Init => TransactionInv
    BY DEF Init, TransactionInv, Journals, Phase, Pending
  <2> QED
    BY <2>1, TypeInit
<1>2. TypeOK /\ Named /\ TransactionInv /\ [Next]_vars => TypeOK' /\ Named' /\ TransactionInv'
  <2> SUFFICES ASSUME TypeOK, Named, TransactionInv, [Next]_vars PROVE TypeOK' /\ Named' /\ TransactionInv'
    OBVIOUS
  <2>1. ASSUME NEW p \in Procs, Step(p) PROVE TypeOK' /\ Named' /\ TransactionInv'
    <3>1. ASSUME ~strayed' PROVE Journals' /\ \A q \in Procs : Phase(q)'
      <4>1. Journals' /\ Phase(p)'
        BY <2>1, <3>1, JournalStep
      <4>2. ~strayed
        BY <2>1, <3>1, StrayedStays
      <4>3. \A q \in Procs \ {p} : pc'[q] = "idle"
        BY <2>1, <4>2, Alone DEF TransactionInv
      <4>4. \A q \in Procs \ {p} : Phase(q)'
        BY <4>3 DEF Phase
      <4> QED
        BY <4>1, <4>4
    <3> QED
      BY <2>1, <3>1, TypeStep DEF TransactionInv
  <2>2. CASE UNCHANGED vars
    BY <2>2 DEF vars, TypeOK, Named, NamedBy, TransactionInv, Journals, Phase, Saved, RollingBack, Pending, Targets
  <2> QED
    BY <2>1, <2>2 DEF Next
<1> QED
  BY <1>1, <1>2, PTL DEF Spec

\* With at most one journal that can be put back, putting it back gives what
\* the last completed operation left.
LEMMA JournalsRecover ==
  ASSUME TypeOK, Named, Journals, \A p \in Procs : ~RollingBack(p)
  PROVE  Recovered = committed
<1> DEFINE js(x) == {i \in Pending : staging[i] # "torn" /\ x \in Targets(i)}
<1>1. ASSUME NEW x \in Paths PROVE (IF js(x) = {} THEN disk[x] ELSE snaps[Min(js(x))].before[x]) = committed[x]
  <2>1. CASE js(x) = {}
    BY <2>1 DEF Journals, Saved
  <2>2. CASE js(x) # {}
    <3>1. PICK i \in Pending : staging[i] # "torn" /\ x \in Targets(i)
      BY <2>2
    <3>2. js(x) = {i} /\ i \in Nat
      BY <3>1 DEF Journals, Pending, Ids
    <3>3. Saved(i) /\ Min(js(x)) = i
      BY <3>1, <3>2, LeastOfOne DEF Journals
    <3> QED
      BY <2>2, <3>1, <3>3 DEF Saved
  <2> QED
    BY <2>1, <2>2
<1>2. Recovered = [x \in Paths |-> committed[x]]
  BY <1>1 DEF Recovered
<1> QED
  BY <1>2 DEF TypeOK

(* Whatever has died or failed, in the middle of a mutation, of its        *)
(* undoing or of an earlier recovery: restoring what is pending gives the  *)
(* files as the last completed operation left them, and a command that     *)
(* refuses a journal it cannot read refuses in front of whole files        *)
(* (recoverPendingTransactionsUnlocked, rollbackTransaction,               *)
(* completeTransaction).                                                   *)
THEOREM EveryMutationIsAllOrNothing == Spec => []TransactionSound
<1>1. TypeOK /\ Named /\ TransactionInv => TransactionSound
  <2> SUFFICES ASSUME TypeOK, Named, TransactionInv PROVE AllOrNothing /\ RefusalHidesNothing
    BY DEF TransactionSound
  <2>1. AllOrNothing
    BY JournalsRecover DEF AllOrNothing, TransactionInv
  <2>2. RefusalHidesNothing
    BY DEF RefusalHidesNothing, TransactionInv, Journals, Pending
  <2> QED
    BY <2>1, <2>2
<1> QED
  BY <1>1, TransactionInvariant, PTL

(* An abort or a recovery puts back the bytes the last completed operation *)
(* left, until a process has gone on without the lock or a rollback has    *)
(* stopped halfway; the run transaction_stale shows what follows then.     *)
THEOREM NoStaleBytesWhileLocked == Spec => [](~strayed => NoStaleBytes)
<1>1. TypeOK /\ Named /\ TransactionInv => (~strayed => NoStaleBytes)
  <2> SUFFICES ASSUME TypeOK, Named, TransactionInv, ~strayed,
                      NEW p \in Procs, pc[p] \in {"remove", "write"}, task[p] \in {"abort", "recovery"}
               PROVE  \A x \in Targets(tx[p]) : snaps[tx[p]].before[x] = committed[x]
    BY DEF NoStaleBytes
  <2>1. Journals /\ staging[tx[p]] \in {"prepared", "committing"}
    BY DEF TransactionInv, Phase
  <2>2. Saved(tx[p])
    BY <2>1, OnlyPending DEF Journals, Working
  <2> QED
    BY <2>2 DEF Saved
<1> QED
  BY <1>1, TransactionInvariant, PTL

(* Nobody but the holder of the mutation lock changes a file, and only     *)
(* while it mutates or restores.                                           *)
THEOREM HolderWrites == Spec => OnlyHolderWrites
<1> DEFINE A == disk' # disk /\ ~strayed => \E p \in Procs : holder = p /\ pc[p] \in {"mutate", "remove", "write"}
<1>1. TransactionInv /\ [Next]_vars => [A]_vars
  <2> SUFFICES ASSUME TransactionInv, NEW p \in Procs, Step(p), disk' # disk, ~strayed
               PROVE  holder = p /\ pc[p] \in {"mutate", "remove", "write"}
    BY DEF Next, vars
  <2>1. pc[p] \in {"mutate", "remove", "write"}
    BY DEF Step, Work, Goto, Acquire, Recover, Publish, MarkCommitting, EndMutate, Record, Unlink, Rmdir, Release,
           RemoveTarget, WriteTarget, Decline, Begin, Rollback, Mutate, BeginFails, Abort, RestoreFails, RemovalFails,
           CompletionFails, Crash
  <2> QED
    BY <2>1 DEF TransactionInv, Phase
<1> QED
  BY <1>1, TransactionInvariant, PTL DEF Spec, OnlyHolderWrites

(* `loadout rollback` undoes a completed change only when every file it    *)
(* would touch is as that change left it                                   *)
(* (assertUnchangedPostMutationState).                                     *)
THEOREM RollbackIsExact == Spec => RollbackUndoesOnlyItsOwn
<1> DEFINE A == \A p \in Procs :
                  ~strayed /\ pc[p] = "ready" /\ RollingBack(p)' =>
                    \A x \in Targets(tx'[p]) : committed[x] = snaps[tx'[p]].after[x]
<1>1. TypeOK /\ Named /\ TransactionInv /\ [Next]_vars => [A]_vars
  <2> SUFFICES ASSUME TypeOK, Named, TransactionInv, NEW q \in Procs, Step(q), ~strayed,
                      NEW p \in Procs, pc[p] = "ready", RollingBack(p)'
               PROVE  \A x \in Targets(tx'[p]) : committed[x] = snaps[tx'[p]].after[x]
    BY DEF Next, vars
  <2>1. p = q
    BY OthersStay DEF RollingBack
  <2>2. PICK i \in Ids : Rollback(p, i)
    BY <2>1 DEF RollingBack, Step, Work, Goto, Acquire, Recover, Publish, MarkCommitting, EndMutate, Record, Unlink, Rmdir,
            Release, RemoveTarget, WriteTarget, Decline, Begin, Mutate, BeginFails, Abort, RestoreFails, RemovalFails,
            CompletionFails, Crash, TypeOK
  <2>3. tx'[p] = i /\ Restrict(disk, Targets(i)) = snaps[i].after
    BY <2>2 DEF Rollback, StartRestore, Unchanged, TypeOK
  <2>4. Pending = {} /\ \A r \in Procs : ~RollingBack(r)
    <3>1. Phase(p) /\ \A r \in Procs \ {p} : pc[r] = "idle"
      BY <2>1, Alone DEF TransactionInv
    <3> QED
      BY <3>1 DEF Phase, RollingBack
  <2>5. disk = committed
    BY <2>4 DEF TransactionInv, Journals
  <2> QED
    BY <2>3, <2>5 DEF Restrict
<1> QED
  BY <1>1, TransactionInvariant, PTL DEF Spec, RollbackUndoesOnlyItsOwn

=============================================================================
