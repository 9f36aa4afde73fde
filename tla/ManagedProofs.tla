--------------------------- MODULE ManagedProofs ---------------------------
(***************************************************************************)
(* Proofs about Managed, for any packages, agents, units, commands and     *)
(* revisions.  What the operators of InstallState make of a state is       *)
(* stated first, for any state; the steps of the commands follow from it.  *)
(***************************************************************************)
EXTENDS Managed, FiniteSetTheorems, TLAPS

\* A batch that may be applied: no tree of it is Nothing.
BatchOK(batch) ==
  /\ DOMAIN batch \subseteq Ids
  /\ \A id \in DOMAIN batch :
       /\ batch[id].targets \subseteq Targets
       /\ batch[id].tree \in Trees \ {Nothing}
       /\ batch[id].commit \in Revisions

\* The states that state.json may hold.  What is recorded is there.
StateOK(s) ==
  /\ s = [installs |-> s.installs, activations |-> s.activations]
  /\ IsPartial(s.activations, Keys, Activations)
  /\ IsPartial(s.installs, Ids, InstallRecords)
  /\ \A id \in DOMAIN s.installs : \A t \in DOMAIN s.installs[id].files :
       s.installs[id].files[t] # Nothing

\* The invariant DisabledHashesAgree, of any state.
HashesAgree(s) ==
  \A k \in DisabledKeys(s) :
    TargetOf(k) \in TrackedTargets(s, IdOf(k)) =>
      s.activations[k].lib = s.installs[IdOf(k)].files[TargetOf(k)]

-----------------------------------------------------------------------------
(* Keys, batches and what is laid over a function *)

LEMMA KeyParts ==
  /\ \A id : \A t \in Targets : IdOf(Key(id, t)) = id /\ TargetOf(Key(id, t)) = t
  /\ \A id \in Ids : \A t \in Targets : Key(id, t) \in Keys
  /\ \A k \in Keys : /\ IdOf(k) \in Ids /\ TargetOf(k) \in Targets
                     /\ Key(IdOf(k), TargetOf(k)) = k
BY DEF Keys, Key, IdOf, TargetOf, Targets, Agent, Unit

LEMMA OverIs ==
  ASSUME NEW new, NEW old
  PROVE  /\ DOMAIN Over(new, old) = DOMAIN new \cup DOMAIN old
         /\ \A x \in DOMAIN new : Over(new, old)[x] = new[x]
         /\ \A x \in DOMAIN old : x \notin DOMAIN new => Over(new, old)[x] = old[x]
BY DEF Over

LEMMA OverIsPartial ==
  ASSUME NEW new, NEW old, NEW D, NEW R, IsPartial(new, D, R), IsPartial(old, D, R)
  PROVE  IsPartial(Over(new, old), D, R)
<1>1. /\ DOMAIN new \subseteq D /\ DOMAIN old \subseteq D
      /\ \A x \in DOMAIN new : new[x] \in R
      /\ \A x \in DOMAIN old : old[x] \in R
  BY DEF IsPartial
<1>2. \A x \in DOMAIN Over(new, old) : Over(new, old)[x] \in R
  BY <1>1 DEF Over
<1> QED
  BY <1>1, <1>2, OverIs DEF IsPartial

LEMMA BatchKeysAre ==
  ASSUME NEW batch, BatchOK(batch)
  PROVE  /\ BatchKeys(batch) \subseteq Keys
         /\ \A k \in Keys : k \in BatchKeys(batch) <=>
              IdOf(k) \in DOMAIN batch /\ TargetOf(k) \in batch[IdOf(k)].targets
         /\ \A k \in BatchKeys(batch) : IdOf(k) \in DOMAIN batch /\ TargetOf(k) \in BatchTargets(batch)
<1>1. \A id \in DOMAIN batch : id \in Ids /\ \A t \in batch[id].targets : t \in Targets
  BY DEF BatchOK
<1>2. \A k \in BatchKeys(batch) : \E id \in DOMAIN batch : \E t \in batch[id].targets : k = Key(id, t)
  BY DEF BatchKeys
<1>3. \A id \in DOMAIN batch : \A t \in batch[id].targets : Key(id, t) \in BatchKeys(batch)
  BY DEF BatchKeys
<1>4. BatchKeys(batch) \subseteq Keys
  BY <1>1, <1>2, KeyParts
<1>5. \A k \in BatchKeys(batch) : IdOf(k) \in DOMAIN batch /\ TargetOf(k) \in batch[IdOf(k)].targets
  BY <1>1, <1>2, KeyParts
<1>6. \A id \in DOMAIN batch : batch[id].targets \subseteq BatchTargets(batch)
  BY DEF BatchTargets
<1> QED
  BY <1>3, <1>4, <1>5, <1>6, KeyParts

\* What is copied over the trees of a disk.
LEMMA CopiedIs ==
  ASSUME NEW batch, BatchOK(batch), NEW trees \in [Targets -> Trees]
  PROVE  /\ Copied(trees, batch) \in [Targets -> Trees]
         /\ \A t \in BatchTargets(batch) : t \in Targets /\ Copied(trees, batch)[t] # Nothing
         /\ \A t \in Targets \ BatchTargets(batch) : Copied(trees, batch)[t] = trees[t]
<1>1. BatchTargets(batch) \subseteq Targets
  BY DEF BatchOK, BatchTargets
<1>2. ASSUME NEW t \in BatchTargets(batch)
      PROVE  Copied(trees, batch)[t] \in Trees \ {Nothing}
  <2> DEFINE E == {batch[id] : id \in DOMAIN batch}
             e == CHOOSE entry \in E : t \in entry.targets
  <2>1. \E entry \in E : t \in entry.targets
    BY DEF BatchTargets
  <2>2. e \in E
    BY <2>1
  <2>3. e.tree \in Trees \ {Nothing}
    BY <2>2 DEF BatchOK
  <2> QED
    BY <1>1, <2>3 DEF Copied
<1>3. \A t \in Targets \ BatchTargets(batch) : Copied(trees, batch)[t] = trees[t]
  BY DEF Copied
<1>4. Copied(trees, batch) = [t \in Targets |-> Copied(trees, batch)[t]]
  BY DEF Copied
<1>5. \A t \in Targets : Copied(trees, batch)[t] \in Trees
  BY <1>2, <1>3
<1> QED
  BY <1>1, <1>2, <1>3, <1>4, <1>5

LEMMA RecordFields ==
  ASSUME NEW r \in InstallRecords
  PROVE  /\ r = [commit |-> r.commit, files |-> r.files]
         /\ r.commit \in Revisions
         /\ DOMAIN r.files \subseteq Targets /\ r.files = [t \in DOMAIN r.files |-> r.files[t]]
         /\ \A t \in DOMAIN r.files : r.files[t] \in Trees
<1>1. PICK S \in SUBSET Targets : r.files \in [S -> Trees]
  BY DEF InstallRecords
<1> QED
  BY <1>1 DEF InstallRecords

LEMMA RecordOf ==
  ASSUME NEW c \in Revisions, NEW S \in SUBSET Targets, NEW f, f \in [S -> Trees]
  PROVE  [commit |-> c, files |-> f] \in InstallRecords
<1>1. f \in UNION {[T -> Trees] : T \in SUBSET Targets}
  OBVIOUS
<1> QED
  BY <1>1 DEF InstallRecords

-----------------------------------------------------------------------------
(* What the commands write to the state *)

\* RecordInstall, with nothing missing on the disk where the batch lies.
Installs(s, batch, d) ==
  /\ StateOK(s) /\ BatchOK(batch)
  /\ d \in [Targets -> Trees] /\ \A t \in BatchTargets(batch) : d[t] # Nothing

LEMMA RecordInstallIs ==
  ASSUME NEW s, NEW batch, NEW d, Installs(s, batch, d)
  PROVE  LET new == RecordInstall(s, batch, d) IN
         /\ DOMAIN new.installs = DOMAIN batch \cup DOMAIN s.installs
         /\ \A id \in DOMAIN batch :
              new.installs[id] = [commit |-> batch[id].commit, files |-> [t \in batch[id].targets |-> d[t]]]
         /\ \A id \in DOMAIN s.installs \ DOMAIN batch : new.installs[id] = s.installs[id]
         /\ DOMAIN new.activations = BatchKeys(batch) \cup DOMAIN s.activations
         /\ \A k \in BatchKeys(batch) : new.activations[k] = ActiveRecord
         /\ \A k \in DOMAIN s.activations \ BatchKeys(batch) : new.activations[k] = s.activations[k]
<1> DEFINE I == [id \in DOMAIN batch |-> CreateInstallRecord(batch[id], d)]
           A == [k \in BatchKeys(batch) |-> ActiveRecord]
<1>1. /\ DOMAIN Over(I, s.installs) = DOMAIN batch \cup DOMAIN s.installs
      /\ \A id \in DOMAIN batch : Over(I, s.installs)[id] = CreateInstallRecord(batch[id], d)
      /\ \A id \in DOMAIN s.installs \ DOMAIN batch : Over(I, s.installs)[id] = s.installs[id]
  BY DEF Over
<1>2. /\ DOMAIN Over(A, s.activations) = BatchKeys(batch) \cup DOMAIN s.activations
      /\ \A k \in BatchKeys(batch) : Over(A, s.activations)[k] = ActiveRecord
      /\ \A k \in DOMAIN s.activations \ BatchKeys(batch) : Over(A, s.activations)[k] = s.activations[k]
  BY DEF Over
<1>3. /\ RecordInstall(s, batch, d).installs = Over(I, s.installs)
      /\ RecordInstall(s, batch, d).activations = Over(A, s.activations)
  BY DEF RecordInstall
<1> QED
  BY <1>1, <1>2, <1>3 DEF CreateInstallRecord

LEMMA ActiveRecordIs ==
  ActiveRecord \in Activations /\ ActiveRecord.installed = TRUE /\ ActiveRecord.active = TRUE
BY DEF ActiveRecord, Activations, Trees

LEMMA RecordInstallKeeps ==
  ASSUME NEW s, NEW batch, NEW d, Installs(s, batch, d)
  PROVE  /\ StateOK(RecordInstall(s, batch, d))
         /\ HashesAgree(s) => HashesAgree(RecordInstall(s, batch, d))
<1> DEFINE new == RecordInstall(s, batch, d)
<1>1. new = [installs |-> new.installs, activations |-> new.activations]
  BY DEF RecordInstall
<1>2. IsPartial(new.activations, Keys, Activations)
  <2>1. IsPartial(s.activations, Keys, Activations)
    BY DEF Installs, StateOK
  <2>2. BatchKeys(batch) \subseteq Keys
    BY BatchKeysAre DEF Installs
  <2>3. DOMAIN new.activations \subseteq Keys
    BY <2>1, <2>2, RecordInstallIs DEF IsPartial
  <2>4. \A k \in DOMAIN new.activations : new.activations[k] \in Activations
    BY <2>1, RecordInstallIs, ActiveRecordIs DEF IsPartial
  <2> QED
    BY <2>3, <2>4 DEF IsPartial
<1>3. \A id \in DOMAIN batch :
        /\ new.installs[id] \in InstallRecords
        /\ \A t \in DOMAIN new.installs[id].files : new.installs[id].files[t] # Nothing
  <2> SUFFICES ASSUME NEW id \in DOMAIN batch
               PROVE  /\ new.installs[id] \in InstallRecords
                      /\ \A t \in DOMAIN new.installs[id].files : new.installs[id].files[t] # Nothing
    OBVIOUS
  <2> DEFINE f == [t \in batch[id].targets |-> d[t]]
  <2>1. new.installs[id] = [commit |-> batch[id].commit, files |-> f]
    BY RecordInstallIs
  <2>2. batch[id].targets \in SUBSET Targets /\ batch[id].commit \in Revisions
    BY DEF Installs, BatchOK
  <2>3. f \in [batch[id].targets -> Trees]
    BY <2>2 DEF Installs
  <2>4. \A t \in batch[id].targets : f[t] # Nothing
    BY DEF Installs, BatchTargets
  <2>5. [commit |-> batch[id].commit, files |-> f] \in InstallRecords
    BY <2>2, <2>3, RecordOf
  <2>6. new.installs[id].files = f
    BY <2>1
  <2> QED
    BY <2>1, <2>4, <2>5, <2>6
<1>4. /\ IsPartial(new.installs, Ids, InstallRecords)
      /\ \A id \in DOMAIN new.installs : \A t \in DOMAIN new.installs[id].files :
           new.installs[id].files[t] # Nothing
  <2>1. /\ DOMAIN s.installs \subseteq Ids
        /\ \A id \in DOMAIN s.installs :
             /\ s.installs[id] \in InstallRecords
             /\ \A t \in DOMAIN s.installs[id].files : s.installs[id].files[t] # Nothing
    BY DEF Installs, StateOK, IsPartial
  <2>2. DOMAIN batch \subseteq Ids
    BY DEF Installs, BatchOK
  <2>3. DOMAIN new.installs = DOMAIN batch \cup DOMAIN s.installs
    BY RecordInstallIs
  <2>4. \A id \in DOMAIN s.installs \ DOMAIN batch : new.installs[id] = s.installs[id]
    BY RecordInstallIs
  <2> HIDE DEF new
  <2> QED
    BY <1>3, <2>1, <2>2, <2>3, <2>4 DEF IsPartial
<1>5. ASSUME HashesAgree(s), NEW k \in DisabledKeys(new), TargetOf(k) \in TrackedTargets(new, IdOf(k))
      PROVE  new.activations[k].lib = new.installs[IdOf(k)].files[TargetOf(k)]
  <2>1. k \in DOMAIN new.activations /\ new.activations[k].installed /\ ~new.activations[k].active
    BY <1>5 DEF DisabledKeys
  <2>2. k \notin BatchKeys(batch)
    BY <2>1, RecordInstallIs, ActiveRecordIs
  <2>3. k \in DOMAIN s.activations /\ new.activations[k] = s.activations[k] /\ k \in DisabledKeys(s)
    BY <2>1, <2>2, RecordInstallIs DEF DisabledKeys
  <2>4. k \in Keys
    BY <2>3 DEF Installs, StateOK, IsPartial
  <2>5. IdOf(k) \in DOMAIN new.installs /\ TargetOf(k) \in DOMAIN new.installs[IdOf(k)].files
    BY <1>5 DEF TrackedTargets
  <2>6. IdOf(k) \notin DOMAIN batch
    <3> SUFFICES ASSUME IdOf(k) \in DOMAIN batch PROVE FALSE
      OBVIOUS
    <3> DEFINE f == [t \in batch[IdOf(k)].targets |-> d[t]]
    <3>1. new.installs[IdOf(k)] = [commit |-> batch[IdOf(k)].commit, files |-> f]
      BY RecordInstallIs
    <3>2. DOMAIN new.installs[IdOf(k)].files = batch[IdOf(k)].targets
      BY <3>1
    <3> QED
      BY <2>2, <2>4, <2>5, <3>2, BatchKeysAre DEF Installs
  <2>7. IdOf(k) \in DOMAIN s.installs /\ new.installs[IdOf(k)] = s.installs[IdOf(k)]
    BY <2>5, <2>6, RecordInstallIs
  <2> QED
    BY <1>5, <2>3, <2>5, <2>7 DEF HashesAgree, TrackedTargets
<1>6. HashesAgree(s) => HashesAgree(new)
  BY <1>5 DEF HashesAgree
<1> QED
  BY <1>1, <1>2, <1>4, <1>6 DEF StateOK

\* Of a state to which nothing is added: every record that is left is one of s.
LEMMA PartsAreOK ==
  ASSUME NEW s, NEW I, NEW A, StateOK(s),
         DOMAIN A \subseteq DOMAIN s.activations,
         \A k \in DOMAIN A : A[k] \in Activations,
         DOMAIN I \subseteq DOMAIN s.installs,
         \A id \in DOMAIN I :
           /\ I[id] \in InstallRecords
           /\ \A t \in DOMAIN I[id].files : I[id].files[t] # Nothing
  PROVE  StateOK([installs |-> I, activations |-> A])
<1>1. IsPartial(A, Keys, Activations) /\ IsPartial(I, Ids, InstallRecords)
  BY DEF StateOK, IsPartial
<1> QED
  BY <1>1 DEF StateOK

LEMMA ReconciliationIs ==
  ASSUME NEW s, StateOK(s), NEW obsolete
  PROVE  LET new == RecordReconciliation(s, obsolete) IN
         /\ new = [installs |-> new.installs, activations |-> new.activations]
         /\ DOMAIN new.activations = DOMAIN s.activations \ obsolete
         /\ \A k \in DOMAIN new.activations : new.activations[k] = s.activations[k]
         /\ DOMAIN new.installs \subseteq DOMAIN s.installs
         /\ \A id \in DOMAIN new.installs :
              /\ new.installs[id] \in InstallRecords
              /\ DOMAIN new.installs[id].files \subseteq DOMAIN s.installs[id].files
              /\ \A t \in DOMAIN new.installs[id].files :
                   new.installs[id].files[t] = s.installs[id].files[t]
              /\ \A k \in obsolete : IdOf(k) = id =>
                   (k \in Keys => TargetOf(k) \notin DOMAIN new.installs[id].files)
<1> DEFINE new == RecordReconciliation(s, obsolete)
           kept == Without(s.activations, obsolete)
           affected == {IdOf(k) : k \in obsolete}
           Left(id) == {j \in DOMAIN kept : IdOf(j) = id /\ kept[j].installed}
           Remaining(id) == {TargetOf(k) : k \in Left(id)}
           staying == {id \in DOMAIN s.installs : id \notin affected \/ Remaining(id) # {}}
           Cut(id) == IF id \in affected
                      THEN [s.installs[id] EXCEPT !.files = Restrict(@, DOMAIN @ \cap Remaining(id))]
                      ELSE s.installs[id]
<1>1. new = [installs |-> [id \in staying |-> Cut(id)], activations |-> kept]
  BY DEF RecordReconciliation
<1>2. DOMAIN kept = DOMAIN s.activations \ obsolete /\ \A k \in DOMAIN kept : kept[k] = s.activations[k]
  BY DEF Without, Restrict
<1>3. ASSUME NEW id \in staying
      PROVE  /\ Cut(id) \in InstallRecords
             /\ DOMAIN Cut(id).files \subseteq DOMAIN s.installs[id].files
             /\ \A t \in DOMAIN Cut(id).files : Cut(id).files[t] = s.installs[id].files[t]
             /\ \A k \in obsolete : IdOf(k) = id =>
                  (k \in Keys => TargetOf(k) \notin DOMAIN Cut(id).files)
  <2> DEFINE r == s.installs[id]
             S == DOMAIN r.files \cap Remaining(id)
  <2>1. r \in InstallRecords
    BY DEF StateOK, IsPartial
  <2>2. CASE id \notin affected
    BY <2>1, <2>2
  <2>3. CASE id \in affected
    <3> HIDE DEF r, S, Remaining, affected
    <3>1. r = [commit |-> r.commit, files |-> r.files] /\ r.commit \in Revisions
          /\ DOMAIN r.files \subseteq Targets /\ \A t \in DOMAIN r.files : r.files[t] \in Trees
      BY <2>1, RecordFields
    <3>2. Cut(id) = [commit |-> r.commit, files |-> Restrict(r.files, S)]
      BY <2>3, <3>1 DEF r, S
    <3>3. Restrict(r.files, S) \in [S -> Trees] /\ S \in SUBSET Targets
      BY <3>1 DEF Restrict, S
    <3>4. Cut(id) \in InstallRecords
      BY <3>1, <3>2, <3>3, RecordOf
    <3>5. Cut(id).files = Restrict(r.files, S)
      BY <3>2
    <3>6. \A k \in obsolete : IdOf(k) = id => (k \in Keys => TargetOf(k) \notin S)
      <4> SUFFICES ASSUME NEW k \in obsolete, IdOf(k) = id, k \in Keys, TargetOf(k) \in S PROVE FALSE
        OBVIOUS
      <4>1. PICK j \in Left(id) : TargetOf(j) = TargetOf(k)
        BY DEF S, Remaining
      <4>2. j \in DOMAIN s.activations /\ j \notin obsolete /\ IdOf(j) = id
        BY <1>2
      <4>3. j \in Keys
        BY <4>2 DEF StateOK, IsPartial
      <4>4. j = k
        BY <4>1, <4>2, <4>3, KeyParts
      <4> QED
        BY <4>2, <4>4
    <3> QED
      BY <3>4, <3>5, <3>6 DEF Restrict, r, S
  <2> QED
    BY <2>2, <2>3
<1> HIDE DEF kept, staying, Cut
<1>4. new.activations = kept /\ DOMAIN new.installs = staying
      /\ \A id \in staying : new.installs[id] = Cut(id)
  BY <1>1
<1>5. staying \subseteq DOMAIN s.installs
  BY DEF staying
<1> HIDE DEF new
<1>6. new = [installs |-> new.installs, activations |-> new.activations]
  BY <1>1
<1> QED
  BY <1>2, <1>3, <1>4, <1>5, <1>6 DEF new

LEMMA ReconciliationKeeps ==
  ASSUME NEW s, StateOK(s), NEW obsolete
  PROVE  /\ StateOK(RecordReconciliation(s, obsolete))
         /\ HashesAgree(s) => HashesAgree(RecordReconciliation(s, obsolete))
<1> DEFINE new == RecordReconciliation(s, obsolete)
<1>1. \A k \in DOMAIN s.activations : s.activations[k] \in Activations
  BY DEF StateOK, IsPartial
<1>2. \A id \in DOMAIN new.installs : \A t \in DOMAIN new.installs[id].files :
        new.installs[id].files[t] # Nothing
  BY ReconciliationIs DEF StateOK
<1>3. StateOK(new)
  <2> DEFINE I == new.installs
             A == new.activations
  <2>1. /\ new = [installs |-> I, activations |-> A]
        /\ DOMAIN A \subseteq DOMAIN s.activations /\ \A k \in DOMAIN A : A[k] \in Activations
        /\ DOMAIN I \subseteq DOMAIN s.installs /\ \A id \in DOMAIN I : I[id] \in InstallRecords
    BY <1>1, ReconciliationIs
  <2> HIDE DEF new
  <2>2. \A id \in DOMAIN I : \A t \in DOMAIN I[id].files : I[id].files[t] # Nothing
    BY <1>2
  <2> HIDE DEF I, A
  <2> QED
    BY <2>1, <2>2, PartsAreOK
<1>4. HashesAgree(s) => HashesAgree(new)
  BY ReconciliationIs DEF HashesAgree, DisabledKeys, TrackedTargets
<1> QED
  BY <1>3, <1>4

\* RecordLibraryInstall, with the batch in the library.
Downloads(s, batch, l) ==
  StateOK(s) /\ BatchOK(batch) /\ \A k \in BatchKeys(batch) : l[k] \in Trees \ {Nothing}

LEMMA RecordLibraryInstallIs ==
  ASSUME NEW s, NEW batch, NEW l, Downloads(s, batch, l)
  PROVE  LET new == RecordLibraryInstall(s, batch, l) IN
         /\ new = [installs |-> new.installs, activations |-> new.activations]
         /\ DOMAIN new.installs = DOMAIN batch \cup DOMAIN s.installs
         /\ \A id \in DOMAIN batch :
              new.installs[id] = [commit |-> batch[id].commit,
                                  files |-> [t \in batch[id].targets |-> l[Key(id, t)]]]
         /\ \A id \in DOMAIN s.installs \ DOMAIN batch : new.installs[id] = s.installs[id]
         /\ DOMAIN new.activations = BatchKeys(batch) \cup DOMAIN s.activations
         /\ \A k \in BatchKeys(batch) :
              new.activations[k] = [cached |-> TRUE, installed |-> TRUE, active |-> k \in ActiveKeys(s), lib |-> l[k]]
         /\ \A k \in DOMAIN s.activations \ BatchKeys(batch) : new.activations[k] = s.activations[k]
<1> DEFINE I == [id \in DOMAIN batch |->
                   [commit |-> batch[id].commit, files |-> [t \in batch[id].targets |-> l[Key(id, t)]]]]
           A == [k \in BatchKeys(batch) |->
                   [cached |-> TRUE, installed |-> TRUE, active |-> k \in ActiveKeys(s), lib |-> l[k]]]
<1>1. /\ DOMAIN Over(I, s.installs) = DOMAIN batch \cup DOMAIN s.installs
      /\ \A id \in DOMAIN batch : Over(I, s.installs)[id] = I[id]
      /\ \A id \in DOMAIN s.installs \ DOMAIN batch : Over(I, s.installs)[id] = s.installs[id]
  BY DEF Over
<1>2. /\ DOMAIN Over(A, s.activations) = BatchKeys(batch) \cup DOMAIN s.activations
      /\ \A k \in BatchKeys(batch) : Over(A, s.activations)[k] = A[k]
      /\ \A k \in DOMAIN s.activations \ BatchKeys(batch) : Over(A, s.activations)[k] = s.activations[k]
  BY DEF Over
<1>3. RecordLibraryInstall(s, batch, l) = [installs |-> Over(I, s.installs), activations |-> Over(A, s.activations)]
  BY DEF RecordLibraryInstall
<1>4. /\ \A id \in DOMAIN batch : I[id] = [commit |-> batch[id].commit,
                                         files |-> [t \in batch[id].targets |-> l[Key(id, t)]]]
      /\ \A k \in BatchKeys(batch) :
           A[k] = [cached |-> TRUE, installed |-> TRUE, active |-> k \in ActiveKeys(s), lib |-> l[k]]
  OBVIOUS
<1> HIDE DEF I, A
<1>5. /\ RecordLibraryInstall(s, batch, l).installs = Over(I, s.installs)
      /\ RecordLibraryInstall(s, batch, l).activations = Over(A, s.activations)
  BY <1>3
<1> QED
  BY <1>1, <1>2, <1>3, <1>4, <1>5

LEMMA RecordLibraryInstallKeeps ==
  ASSUME NEW s, NEW batch, NEW l, Downloads(s, batch, l)
  PROVE  /\ StateOK(RecordLibraryInstall(s, batch, l))
         /\ HashesAgree(s) => HashesAgree(RecordLibraryInstall(s, batch, l))
<1> DEFINE new == RecordLibraryInstall(s, batch, l)
<1>1. BatchKeys(batch) \subseteq Keys
  BY BatchKeysAre DEF Downloads
<1>2. IsPartial(new.activations, Keys, Activations)
  <2>1. IsPartial(s.activations, Keys, Activations)
    BY DEF Downloads, StateOK
  <2>2. DOMAIN new.activations \subseteq Keys
    BY <1>1, <2>1, RecordLibraryInstallIs DEF IsPartial
  <2>3. \A k \in BatchKeys(batch) : new.activations[k] \in Activations
    <3> SUFFICES ASSUME NEW k \in BatchKeys(batch) PROVE new.activations[k] \in Activations
      OBVIOUS
    <3>1. new.activations[k] = [cached |-> TRUE, installed |-> TRUE, active |-> k \in ActiveKeys(s), lib |-> l[k]]
      BY RecordLibraryInstallIs
    <3>2. (k \in ActiveKeys(s)) \in BOOLEAN /\ l[k] \in Trees
      BY DEF Downloads
    <3> QED
      BY <3>1, <3>2 DEF Activations
  <2>4. \A k \in DOMAIN s.activations \ BatchKeys(batch) : new.activations[k] \in Activations
    BY <2>1, RecordLibraryInstallIs DEF IsPartial
  <2>5. DOMAIN new.activations = BatchKeys(batch) \cup DOMAIN s.activations
    BY RecordLibraryInstallIs
  <2> HIDE DEF new
  <2> QED
    BY <2>2, <2>3, <2>4, <2>5 DEF IsPartial
<1>3. \A id \in DOMAIN batch :
        /\ new.installs[id] \in InstallRecords
        /\ \A t \in DOMAIN new.installs[id].files : new.installs[id].files[t] # Nothing
  <2> SUFFICES ASSUME NEW id \in DOMAIN batch
               PROVE  /\ new.installs[id] \in InstallRecords
                      /\ \A t \in DOMAIN new.installs[id].files : new.installs[id].files[t] # Nothing
    OBVIOUS
  <2> DEFINE f == [t \in batch[id].targets |-> l[Key(id, t)]]
  <2>1. new.installs[id] = [commit |-> batch[id].commit, files |-> f]
    BY RecordLibraryInstallIs
  <2>2. batch[id].targets \in SUBSET Targets /\ batch[id].commit \in Revisions
    BY DEF Downloads, BatchOK
  <2>3. \A t \in batch[id].targets : l[Key(id, t)] \in Trees \ {Nothing}
    BY DEF Downloads, BatchKeys
  <2>4. f \in [batch[id].targets -> Trees]
    BY <2>3
  <2>5. [commit |-> batch[id].commit, files |-> f] \in InstallRecords
    BY <2>2, <2>4, RecordOf
  <2>6. new.installs[id].files = f
    BY <2>1
  <2> QED
    BY <2>1, <2>3, <2>5, <2>6
<1>4. /\ IsPartial(new.installs, Ids, InstallRecords)
      /\ \A id \in DOMAIN new.installs : \A t \in DOMAIN new.installs[id].files :
           new.installs[id].files[t] # Nothing
  <2>1. /\ DOMAIN s.installs \subseteq Ids
        /\ \A id \in DOMAIN s.installs :
             /\ s.installs[id] \in InstallRecords
             /\ \A t \in DOMAIN s.installs[id].files : s.installs[id].files[t] # Nothing
    BY DEF Downloads, StateOK, IsPartial
  <2>2. DOMAIN batch \subseteq Ids
    BY DEF Downloads, BatchOK
  <2>3. DOMAIN new.installs = DOMAIN batch \cup DOMAIN s.installs
    BY RecordLibraryInstallIs
  <2>4. \A id \in DOMAIN s.installs \ DOMAIN batch : new.installs[id] = s.installs[id]
    BY RecordLibraryInstallIs
  <2> HIDE DEF new
  <2> QED
    BY <1>3, <2>1, <2>2, <2>3, <2>4 DEF IsPartial
<1>5. ASSUME HashesAgree(s), NEW k \in DisabledKeys(new), TargetOf(k) \in TrackedTargets(new, IdOf(k))
      PROVE  new.activations[k].lib = new.installs[IdOf(k)].files[TargetOf(k)]
  <2> DEFINE id == IdOf(k)
             t == TargetOf(k)
  <2>1. k \in DOMAIN new.activations
    BY DEF DisabledKeys
  <2>2. k \in Keys
    BY <1>2, <2>1 DEF IsPartial
  <2>3. id \in DOMAIN new.installs /\ t \in DOMAIN new.installs[id].files
    BY <1>5 DEF TrackedTargets
  <2>4. CASE id \in DOMAIN batch
    <3> DEFINE f == [tt \in batch[id].targets |-> l[Key(id, tt)]]
    <3>1. new.installs[id] = [commit |-> batch[id].commit, files |-> f]
      BY <2>4, RecordLibraryInstallIs
    <3>2. new.installs[id].files = f
      BY <3>1
    <3>3. t \in batch[id].targets /\ f[t] = l[Key(id, t)] /\ Key(id, t) = k
      BY <2>2, <2>3, <3>2, KeyParts
    <3>4. k \in BatchKeys(batch)
      BY <2>2, <2>4, <3>3, BatchKeysAre DEF Downloads
    <3>5. new.activations[k] = [cached |-> TRUE, installed |-> TRUE, active |-> k \in ActiveKeys(s), lib |-> l[k]]
      BY <3>4, RecordLibraryInstallIs
    <3>6. new.activations[k].lib = l[k]
      BY <3>5
    <3> QED
      BY <3>2, <3>3, <3>6
  <2>5. CASE id \notin DOMAIN batch
    <3>1. k \notin BatchKeys(batch)
      BY <2>2, <2>5, BatchKeysAre DEF Downloads
    <3>2. k \in DOMAIN s.activations /\ new.activations[k] = s.activations[k]
      BY <2>1, <3>1, RecordLibraryInstallIs
    <3>3. id \in DOMAIN s.installs /\ new.installs[id] = s.installs[id]
      BY <2>3, <2>5, RecordLibraryInstallIs
    <3>4. k \in DisabledKeys(s)
      BY <3>2 DEF DisabledKeys
    <3> QED
      BY <1>5, <2>3, <3>2, <3>3, <3>4 DEF HashesAgree, TrackedTargets
  <2> QED
    BY <2>4, <2>5
<1>6. HashesAgree(s) => HashesAgree(new)
  BY <1>5 DEF HashesAgree
<1>7. new = [installs |-> new.installs, activations |-> new.activations]
  BY RecordLibraryInstallIs
<1> QED
  BY <1>2, <1>4, <1>6, <1>7 DEF StateOK

\* A package is forgotten, and what is recorded of the others stays.
LEMMA ForgetInstallIs ==
  ASSUME NEW s, StateOK(s), NEW id, NEW drop \in BOOLEAN
  PROVE  LET new == ForgetInstall(s, id, drop) IN
         /\ new = [installs |-> new.installs, activations |-> new.activations]
         /\ DOMAIN new.installs = DOMAIN s.installs \ {id}
         /\ \A other \in DOMAIN new.installs : new.installs[other] = s.installs[other]
         /\ DOMAIN new.activations \subseteq DOMAIN s.activations
         /\ \A k \in DOMAIN s.activations : IdOf(k) # id =>
              k \in DOMAIN new.activations /\ new.activations[k] = s.activations[k]
         /\ \A k \in DOMAIN new.activations : new.activations[k] \in Activations
<1> DEFINE new == ForgetInstall(s, id, drop)
<1>1. \A k \in DOMAIN s.activations : s.activations[k] \in Activations
  BY DEF StateOK, IsPartial
<1>2. /\ new.installs = Without(s.installs, {id})
      /\ new = [installs |-> new.installs, activations |-> new.activations]
  BY DEF ForgetInstall
<1>3. DOMAIN new.installs = DOMAIN s.installs \ {id}
      /\ \A other \in DOMAIN new.installs : new.installs[other] = s.installs[other]
  BY <1>2 DEF Without, Restrict
<1>4. CASE drop
  <2>1. new.activations = Without(s.activations, KeysOf(s, id))
    BY <1>4 DEF ForgetInstall
  <2>2. DOMAIN new.activations = DOMAIN s.activations \ KeysOf(s, id)
        /\ \A k \in DOMAIN new.activations : new.activations[k] = s.activations[k]
    BY <2>1 DEF Without, Restrict
  <2> HIDE DEF new
  <2> QED
    BY <1>1, <1>2, <1>3, <2>2 DEF KeysOf, new
<1>5. CASE ~drop
  <2> DEFINE Gone(k) == [s.activations[k] EXCEPT !.installed = FALSE, !.active = FALSE]
  <2>1. new.activations = [k \in DOMAIN s.activations |-> IF IdOf(k) = id THEN Gone(k) ELSE s.activations[k]]
    BY <1>5 DEF ForgetInstall
  <2>2. \A k \in DOMAIN s.activations : Gone(k) \in Activations
    BY <1>1 DEF Activations
  <2> HIDE DEF new, Gone
  <2>3. /\ DOMAIN new.activations = DOMAIN s.activations
        /\ \A k \in DOMAIN s.activations : IdOf(k) # id => new.activations[k] = s.activations[k]
        /\ \A k \in DOMAIN s.activations : new.activations[k] \in Activations
    BY <1>1, <2>1, <2>2
  <2> QED
    BY <1>2, <1>3, <2>3 DEF new
<1> QED
  BY <1>4, <1>5

LEMMA ForgetInstallKeeps ==
  ASSUME NEW s, StateOK(s), NEW id, NEW drop \in BOOLEAN
  PROVE  /\ StateOK(ForgetInstall(s, id, drop))
         /\ HashesAgree(s) => HashesAgree(ForgetInstall(s, id, drop))
<1> DEFINE new == ForgetInstall(s, id, drop)
           I == new.installs
           A == new.activations
<1>1. /\ new = [installs |-> I, activations |-> A]
      /\ DOMAIN A \subseteq DOMAIN s.activations /\ \A k \in DOMAIN A : A[k] \in Activations
      /\ DOMAIN I = DOMAIN s.installs \ {id} /\ \A other \in DOMAIN I : I[other] = s.installs[other]
      /\ \A k \in DOMAIN s.activations : IdOf(k) # id => A[k] = s.activations[k]
  BY ForgetInstallIs
<1> HIDE DEF I, A, new
<1>2. \A other \in DOMAIN s.installs :
        /\ s.installs[other] \in InstallRecords
        /\ \A t \in DOMAIN s.installs[other].files : s.installs[other].files[t] # Nothing
  BY DEF StateOK, IsPartial
<1>3. StateOK(new)
  BY <1>1, <1>2, PartsAreOK
<1>4. HashesAgree(s) => HashesAgree(new)
  BY <1>1 DEF HashesAgree, DisabledKeys, TrackedTargets, I, A
<1> QED
  BY <1>3, <1>4 DEF new

\* Other activations of the same records.
LEMMA SameInstalls ==
  ASSUME NEW s, StateOK(s), NEW new, new.installs = s.installs,
         new = [installs |-> new.installs, activations |-> new.activations],
         IsPartial(new.activations, Keys, Activations)
  PROVE  StateOK(new)
BY DEF StateOK

-----------------------------------------------------------------------------
(* The invariant *)

WithBatch == {"install", "profile", "additive", "maximum", "update", "adopt", "reconcile", "sync"}

\* What a command holds: a batch that may be applied, and what the plan of its
\* operation promises of it.
NoneDisabled(activations) == \A k \in DOMAIN activations : activations[k].installed => activations[k].active
PlanOK(plan) ==
  /\ plan.op \in Ops
  /\ plan.op \in WithBatch => BatchOK(plan.batch)
  /\ plan.op = "additive" => plan.obsolete = {}
  /\ plan.op = "maximum" => \A id \in DOMAIN plan.batch : plan.batch[id].commit = plan.batch[id].tree
  /\ plan.op = "update" => DOMAIN plan.batch = {plan.id} /\ NoneDisabled(plan.activations)
  /\ plan.op = "uninstall" => plan = [op |-> "uninstall", ids |-> plan.ids, force |-> plan.force]

\* What lies on the disk and in the library, and what is recorded of it.
WorldOK ==
  /\ disk \in [Targets -> Trees] /\ IsPartial(library, Keys, Trees)
  /\ StateOK(st) /\ HashesAgree(st)

CommandsOK ==
  /\ head \in [Packages -> 1..MaxRev]
  /\ plans = [x \in Processes |-> plans[x]] /\ \A x \in Processes : PlanOK(plans[x])
  /\ applied \in 0..MaxApplied /\ edits \in 0..MaxEdits

MInv == WorldOK /\ CommandsOK

LEMMA Constants ==
  /\ Provides \in [Packages -> SUBSET Units] /\ "none" \notin Packages
  /\ MaxRev \in Nat \ {0} /\ MaxBytes \in Nat /\ MaxApplied \in Nat /\ MaxEdits \in Nat
  /\ Pinned \in [Packages -> 1..MaxRev] /\ AtFirst \subseteq Packages
BY InstallStateConstantsOK, ManagedConstantsOK DEF InstallStateConstantsOK, ManagedConstantsOK

LEMMA UpstreamIs ==
  ASSUME NEW p \in Packages, NEW r \in 1..MaxRev
  PROVE  Upstream(p, r) \in Trees \ {Nothing} /\ Upstream(p, r) \in Revisions
<1>1. Upstream(p, r) # Nothing
  BY Constants DEF Upstream, Nothing
<1> QED
  BY <1>1 DEF Trees, Revisions

LEMMA NothingIsTree == Nothing \in Trees
BY DEF Trees

LEMMA SkillPlanIs ==
  ASSUME NEW p \in Packages, NEW r \in 1..MaxRev, NEW agents \in SUBSET Agents
  PROVE  LET entry == SkillPlan(p, agents, r) IN
         /\ entry.targets \subseteq Targets /\ entry.tree \in Trees \ {Nothing}
         /\ entry.commit \in Revisions /\ entry.commit = entry.tree
<1>1. agents \X Provides[p] \subseteq Targets
  BY Constants DEF Targets
<1> QED
  BY <1>1, UpstreamIs DEF SkillPlan, Entry

-----------------------------------------------------------------------------
(* Plans: what a command holds may be applied *)

LEMMA MakesKeeps ==
  ASSUME MInv, NEW x \in Processes, NEW plan, Makes(x, plan), PlanOK(plan)
  PROVE  MInv'
<1>1. /\ plans' = [plans EXCEPT ![x] = plan]
      /\ UNCHANGED <<disk, library, st, head, applied, edits>>
  BY DEF Makes
<1>2. WorldOK'
  BY <1>1 DEF MInv, WorldOK
<1>3. plans' = [y \in Processes |-> plans'[y]] /\ \A y \in Processes : plans'[y] = IF y = x THEN plan ELSE plans[y]
  BY <1>1 DEF MInv, CommandsOK
<1>4. \A y \in Processes : PlanOK(plans'[y])
  BY <1>3 DEF MInv, CommandsOK
<1> QED
  BY <1>1, <1>2, <1>3, <1>4 DEF MInv, CommandsOK

LEMMA PlanInstallKeeps ==
  ASSUME MInv, NEW x \in Processes, PlanInstall(x)
  PROVE  MInv'
<1>1. PICK p \in Packages, agents \in (SUBSET Agents) \ {{}} :
        Makes(x, [op |-> "install", batch |-> [id \in {CatalogId(p)} |-> SkillPlan(p, agents, head[p])]])
  BY DEF PlanInstall
<1> DEFINE batch == [id \in {CatalogId(p)} |-> SkillPlan(p, agents, head[p])]
           plan == [op |-> "install", batch |-> batch]
<1>2. head[p] \in 1..MaxRev /\ CatalogId(p) \in Ids
  BY DEF MInv, CommandsOK, Ids
<1>3. DOMAIN batch = {CatalogId(p)} /\ \A id \in DOMAIN batch : batch[id] = SkillPlan(p, agents, head[p])
  OBVIOUS
<1>4. plan.op = "install" /\ plan.batch = batch
  OBVIOUS
<1> HIDE DEF batch
<1>5. BatchOK(batch)
  BY <1>2, <1>3, SkillPlanIs DEF BatchOK
<1>6. PlanOK(plan)
  BY <1>5 DEF PlanOK, Ops
<1> QED
  BY <1>1, <1>6, MakesKeeps DEF batch

LEMMA PrepareCatalogInstallKeeps ==
  ASSUME MInv, NEW x \in Processes, PrepareCatalogInstall(x)
  PROVE  MInv'
<1>1. PICK mode \in {"profile", "additive", "maximum"}, selected \in SUBSET Packages, agents \in (SUBSET Agents) \ {{}} :
        LET batch == PreparedBatch(mode, selected, agents)
            obsolete == IF mode = "profile" THEN ObsoleteKeys(st, batch, agents) ELSE {}
        IN Makes(x, [op |-> mode, batch |-> batch, agents |-> agents, obsolete |-> obsolete])
  BY DEF PrepareCatalogInstall
<1> DEFINE batch == PreparedBatch(mode, selected, agents)
           obsolete == IF mode = "profile" THEN ObsoleteKeys(st, batch, agents) ELSE {}
           plan == [op |-> mode, batch |-> batch, agents |-> agents, obsolete |-> obsolete]
           usable == {p \in selected : Claims(mode, selected, agents, p) # {}}
           Reviewed(p) == Entry(Claims(mode, selected, agents, p), Upstream(p, Pinned[p]), Upstream(p, Pinned[p]))
<1>2. batch = [id \in {CatalogId(p) : p \in usable} |-> Reviewed(id[2])]
  BY DEF PreparedBatch
<1>3. \A p \in usable : CatalogId(p) \in Ids /\ CatalogId(p)[2] = p
  BY DEF CatalogId, Ids
<1>4. \A id \in DOMAIN batch : id \in Ids /\ \E p \in selected : batch[id] = Reviewed(p)
  BY <1>2, <1>3
<1>5. \A p \in selected : /\ Reviewed(p).targets \subseteq Targets
                          /\ Reviewed(p).tree \in Trees \ {Nothing}
                          /\ Reviewed(p).commit \in Revisions /\ Reviewed(p).commit = Reviewed(p).tree
  <2> SUFFICES ASSUME NEW p \in selected
               PROVE  /\ Reviewed(p).targets \subseteq Targets
                      /\ Reviewed(p).tree \in Trees \ {Nothing}
                      /\ Reviewed(p).commit \in Revisions /\ Reviewed(p).commit = Reviewed(p).tree
    OBVIOUS
  <2>1. agents \X Provides[p] \subseteq Targets
    BY Constants DEF Targets
  <2>2. Claims(mode, selected, agents, p) \subseteq Targets
    BY <2>1 DEF Claims
  <2>3. Upstream(p, Pinned[p]) \in Trees \ {Nothing} /\ Upstream(p, Pinned[p]) \in Revisions
    BY Constants, UpstreamIs
  <2> QED
    BY <2>2, <2>3 DEF Entry
<1> HIDE DEF Reviewed, batch, obsolete
<1>6. BatchOK(batch) /\ \A id \in DOMAIN batch : batch[id].commit = batch[id].tree
  BY <1>4, <1>5 DEF BatchOK
<1>7. mode = "additive" => obsolete = {}
  BY DEF obsolete
<1>8. plan.op = mode /\ plan.batch = batch /\ plan.obsolete = obsolete
  OBVIOUS
<1>9. PlanOK(plan)
  BY <1>6, <1>7, <1>8 DEF PlanOK, Ops
<1> QED
  BY <1>1, <1>9, MakesKeeps DEF batch, obsolete

LEMMA SimplePlansKeep ==
  ASSUME MInv, NEW x \in Processes, PlanActivationChange(x) \/ PlanAccept(x) \/ StartUninstall(x)
  PROVE  MInv'
<1>1. CASE PlanActivationChange(x)
  <2>0. PICK op \in {"enable", "disable"} : \E keys : Makes(x, [op |-> op, keys |-> keys])
    BY <1>1 DEF PlanActivationChange
  <2>1. PICK keys : Makes(x, [op |-> op, keys |-> keys])
    BY <2>0
  <2>2. PlanOK([op |-> op, keys |-> keys])
    BY DEF PlanOK, Ops, WithBatch
  <2> QED
    BY <2>1, <2>2, MakesKeeps
<1>2. CASE PlanAccept(x)
  <2>1. PICK scope : Makes(x, [op |-> "accept", scope |-> scope, edited |-> Edited(scope)])
    BY <1>2 DEF PlanAccept
  <2>2. PlanOK([op |-> "accept", scope |-> scope, edited |-> Edited(scope)])
    BY DEF PlanOK, Ops, WithBatch
  <2> QED
    BY <2>1, <2>2, MakesKeeps
<1>3. CASE StartUninstall(x)
  <2>1. PICK force \in BOOLEAN : Makes(x, [op |-> "uninstall", ids |-> DOMAIN st.installs, force |-> force])
    BY <1>3 DEF StartUninstall
  <2>2. PlanOK([op |-> "uninstall", ids |-> DOMAIN st.installs, force |-> force])
    BY DEF PlanOK, Ops, WithBatch
  <2> QED
    BY <2>1, <2>2, MakesKeeps
<1> QED
  BY <1>1, <1>2, <1>3

LEMMA PlanPackageUpdateKeeps ==
  ASSUME MInv, NEW x \in Processes, PlanPackageUpdate(x)
  PROVE  MInv'
<1> DEFINE Package(id) == Commit(id).src
           At(id) == RecordedAgents(id) \X ManagedUnitIds(id)
           Newest(id) == Upstream(Package(id), head[Package(id)])
           Batch(id) == [i \in {id} |-> Entry(At(id), Newest(id), Newest(id))]
<1>1. PICK id \in DOMAIN st.installs :
        /\ UpdateAvailable(id) /\ ~DisabledSomewhere(id)
        /\ Makes(x, [op |-> "update", id |-> id, batch |-> Batch(id), record |-> Record(id),
                     activations |-> Restrict(st.activations, KeysOf(st, id))])
  BY DEF PlanPackageUpdate
<1>2. id \in Ids /\ Record(id) \in InstallRecords
  BY DEF MInv, WorldOK, StateOK, IsPartial, Record
<1>3. Package(id) \in Packages
  <2>1. Commit(id) \in Revisions /\ Commit(id) # Untracked
    BY <1>1, <1>2, RecordFields DEF Commit, UpdateAvailable
  <2> QED
    BY <2>1 DEF Revisions, Upstream
<1>4. Newest(id) \in Trees \ {Nothing} /\ Newest(id) \in Revisions
  <2>1. head[Package(id)] \in 1..MaxRev
    BY <1>3 DEF MInv, CommandsOK
  <2> QED
    BY <1>3, <2>1, UpstreamIs
<1>5. At(id) \subseteq Targets
  <2>1. RecordedAgents(id) \subseteq Agents
    BY <1>2, RecordFields DEF RecordedAgents, Targets, Agent
  <2>2. ManagedUnitIds(id) \subseteq Units
    <3>1. Installed(st, id) \subseteq Keys
      BY DEF MInv, WorldOK, StateOK, IsPartial, Installed, KeysOf
    <3> QED
      BY <3>1 DEF ManagedUnitIds, Keys
  <2> QED
    BY <2>1, <2>2 DEF Targets
<1> DEFINE batch == Batch(id)
           plan == [op |-> "update", id |-> id, batch |-> batch, record |-> Record(id),
                    activations |-> Restrict(st.activations, KeysOf(st, id))]
<1>6. DOMAIN batch = {id} /\ batch[id] = [targets |-> At(id), tree |-> Newest(id), commit |-> Newest(id)]
  BY DEF Entry
<1>7. Makes(x, plan)
  BY <1>1
<1> HIDE DEF At, Newest, batch
<1>8. BatchOK(batch)
  BY <1>2, <1>4, <1>5, <1>6 DEF BatchOK
<1>9. /\ plan.op = "update" /\ plan.batch = batch /\ plan.id = id
      /\ plan.activations = Restrict(st.activations, KeysOf(st, id))
  OBVIOUS
<1>10. NoneDisabled(plan.activations)
  <2>1. \A k \in KeysOf(st, id) : st.activations[k].installed => st.activations[k].active
    BY <1>1 DEF DisabledSomewhere, Installed
  <2> QED
    BY <1>9, <2>1 DEF NoneDisabled, Restrict
<1>11. PlanOK(plan)
  BY <1>6, <1>8, <1>9, <1>10 DEF PlanOK, Ops
<1> QED
  BY <1>7, <1>11, MakesKeeps

LEMMA PlanSkillAdoptionKeeps ==
  ASSUME MInv, NEW x \in Processes, PlanSkillAdoption(x)
  PROVE  MInv'
<1> DEFINE From(t) == IF ExactSources(Unit(t), disk[t]) = {} THEN Untracked ELSE disk[t]
           Batch(t) == [id \in {AdoptedId(t)} |-> Entry({t}, disk[t], From(t))]
<1>1. PICK t \in Targets : disk[t] # Nothing /\ Makes(x, [op |-> "adopt", batch |-> Batch(t)])
  BY DEF PlanSkillAdoption
<1>2. disk[t] \in Trees \ {Nothing}
  BY <1>1 DEF MInv, WorldOK
<1>3. From(t) \in Revisions
  <2>1. CASE ExactSources(Unit(t), disk[t]) = {}
    BY <2>1 DEF Revisions
  <2>2. CASE ExactSources(Unit(t), disk[t]) # {}
    <3>1. PICK p \in Packages : Upstream(p, Pinned[p]) = disk[t]
      BY <2>2 DEF ExactSources
    <3>2. disk[t] \in Revisions
      BY <3>1, UpstreamIs, Constants
    <3> QED
      BY <2>2, <3>2
  <2> QED
    BY <2>1, <2>2
<1> DEFINE batch == Batch(t)
           plan == [op |-> "adopt", batch |-> batch]
<1>4. DOMAIN batch = {AdoptedId(t)}
      /\ batch[AdoptedId(t)] = [targets |-> {t}, tree |-> disk[t], commit |-> From(t)]
  BY DEF Entry
<1>5. Makes(x, plan)
  BY <1>1
<1>6. AdoptedId(t) \in Ids
  BY DEF Ids
<1> HIDE DEF From, batch
<1>7. BatchOK(batch)
  BY <1>2, <1>3, <1>4, <1>6 DEF BatchOK
<1>8. PlanOK(plan)
  BY <1>7 DEF PlanOK, Ops
<1> QED
  BY <1>5, <1>8, MakesKeeps

LEMMA BuildReconcilePlanKeeps ==
  ASSUME MInv, NEW x \in Processes, BuildReconcilePlan(x)
  PROVE  MInv'
<1> DEFINE Reviewed(p) == Upstream(p, Pinned[p])
           Selected(all) == {g \in Groups : Exact(g) \/ (all /\ Outdated(g))}
           Batch(all) == [id \in {ReconciledId(Source(g), g[1], g[2]) : g \in Selected(all)} |->
                            Entry(GroupTargets(<<id[3], id[4]>>), Reviewed(id[2]), Reviewed(id[2]))]
           Seen == [t \in {t \in Targets : disk[t] # Nothing /\ ~Owned(st, t)} |-> disk[t]]
<1>1. PICK all \in BOOLEAN : Makes(x, [op |-> "reconcile", seen |-> Seen, batch |-> Batch(all)])
  BY DEF BuildReconcilePlan
<1>2. ASSUME NEW g \in Selected(all)
      PROVE  Source(g) \in Packages /\ g[1] \in Units /\ g[2] \in Trees
  <2>1. g[1] \in Units /\ g[2] \in Trees
    BY DEF Groups, Targets, Unit, MInv, WorldOK
  <2>2. \E p \in Packages : p \in IF Exact(g) THEN ExactSources(g[1], g[2]) ELSE Candidates(g[1])
    <3>1. \A S : Cardinality(S) = 1 => S # {}
      BY FS_EmptySet
    <3>2. CASE Exact(g)
      BY <3>1, <3>2 DEF Exact, ExactSources
    <3>3. CASE ~Exact(g)
      <4>1. Cardinality(Candidates(g[1])) = 1
        BY <3>3 DEF Outdated
      <4>2. Candidates(g[1]) # {} /\ Candidates(g[1]) \subseteq Packages
        BY <3>1, <4>1 DEF Candidates
      <4> QED
        BY <3>3, <4>2
    <3> QED
      BY <3>2, <3>3
  <2>3. (IF Exact(g) THEN ExactSources(g[1], g[2]) ELSE Candidates(g[1])) \subseteq Packages
    BY DEF ExactSources, Candidates
  <2>4. Source(g) \in Packages
    BY <2>2, <2>3 DEF Source
  <2> QED
    BY <2>1, <2>4
<1>3. ASSUME NEW id \in DOMAIN Batch(all)
      PROVE  /\ id \in Ids
             /\ Batch(all)[id].targets \subseteq Targets
             /\ Batch(all)[id].tree \in Trees \ {Nothing}
             /\ Batch(all)[id].commit \in Revisions
  <2>1. PICK g \in Selected(all) : id = ReconciledId(Source(g), g[1], g[2])
    OBVIOUS
  <2>2. id \in Ids /\ id[2] = Source(g)
    BY <1>2, <2>1 DEF Ids, ReconciledId
  <2>3. Reviewed(id[2]) \in Trees \ {Nothing} /\ Reviewed(id[2]) \in Revisions
    BY <1>2, <2>2, UpstreamIs, Constants
  <2>4. GroupTargets(<<id[3], id[4]>>) \subseteq Targets
    BY DEF GroupTargets
  <2>5. Batch(all)[id] = [targets |-> GroupTargets(<<id[3], id[4]>>), tree |-> Reviewed(id[2]), commit |-> Reviewed(id[2])]
    BY DEF Entry
  <2> HIDE DEF Batch, Reviewed
  <2> QED
    BY <2>2, <2>3, <2>4, <2>5
<1> DEFINE plan == [op |-> "reconcile", seen |-> Seen, batch |-> Batch(all)]
<1> HIDE DEF Batch, Seen
<1>4. BatchOK(Batch(all))
  BY <1>3 DEF BatchOK
<1>5. PlanOK(plan)
  BY <1>4 DEF PlanOK, Ops
<1> QED
  BY <1>1, <1>5, MakesKeeps

LEMMA BuildSyncPlanKeeps ==
  ASSUME MInv, NEW x \in Processes, BuildSyncPlan(x)
  PROVE  MInv'
<1> DEFINE Batch(selected, agents) ==
             [id \in {CatalogId(p) : p \in selected} |-> SkillPlan(id[2], agents, head[id[2]])]
<1>1. PICK selected \in (SUBSET Packages) \ {{}}, agents \in (SUBSET Agents) \ {{}} :
        Makes(x, [op |-> "sync", batch |-> Batch(selected, agents), st |-> st])
  BY DEF BuildSyncPlan
<1> DEFINE batch == Batch(selected, agents)
           plan == [op |-> "sync", batch |-> batch, st |-> st]
<1>2. \A p \in selected : CatalogId(p) \in Ids /\ CatalogId(p)[2] = p
  BY DEF CatalogId, Ids
<1>3. \A id \in DOMAIN batch : id \in Ids /\ \E p \in selected : batch[id] = SkillPlan(p, agents, head[p])
  BY <1>2
<1>4. Makes(x, plan)
  BY <1>1
<1> HIDE DEF batch
<1>5. BatchOK(batch)
  <2> SUFFICES ASSUME NEW id \in DOMAIN batch
               PROVE  /\ id \in Ids /\ batch[id].targets \subseteq Targets
                      /\ batch[id].tree \in Trees \ {Nothing} /\ batch[id].commit \in Revisions
    BY DEF BatchOK
  <2>1. PICK p \in Packages : id \in Ids /\ batch[id] = SkillPlan(p, agents, head[p])
    BY <1>3
  <2>2. head[p] \in 1..MaxRev
    BY DEF MInv, CommandsOK
  <2> QED
    BY <2>1, <2>2, SkillPlanIs
<1>6. PlanOK(plan)
  BY <1>5 DEF PlanOK, Ops
<1> QED
  BY <1>4, <1>6, MakesKeeps

LEMMA NoPlanIsOK == PlanOK(NoPlan)
BY DEF PlanOK, NoPlan, Ops, WithBatch

LEMMA DropKeeps ==
  ASSUME MInv, NEW x \in Processes, Drop(x)
  PROVE  MInv'
<1>1. plans' = [y \in Processes |-> plans'[y]] /\ \A y \in Processes : plans'[y] = IF y = x THEN NoPlan ELSE plans[y]
  BY DEF Drop, MInv, CommandsOK
<1>2. \A y \in Processes : PlanOK(plans'[y])
  BY <1>1, NoPlanIsOK DEF MInv, CommandsOK
<1> QED
  BY <1>1, <1>2 DEF Drop, MInv, CommandsOK, WorldOK

-----------------------------------------------------------------------------
(* The first state, and the steps that commit *)

LEMMA EmptyIs ==
  /\ IsPartial(<<>>, Keys, Trees)
  /\ StateOK(EmptyState) /\ HashesAgree(EmptyState)
<1>1. DOMAIN <<>> = {}
  OBVIOUS
<1>2. EmptyState.installs = <<>> /\ EmptyState.activations = <<>>
  BY DEF EmptyState
<1>3. \A D, R : IsPartial(<<>>, D, R)
  BY <1>1 DEF IsPartial
<1>4. EmptyState = [installs |-> EmptyState.installs, activations |-> EmptyState.activations]
  BY DEF EmptyState
<1>5. DisabledKeys(EmptyState) = {}
  BY <1>1, <1>2 DEF DisabledKeys
<1>6. \A id \in DOMAIN EmptyState.installs : FALSE
  BY <1>1, <1>2
<1> QED
  BY <1>2, <1>3, <1>4, <1>5, <1>6 DEF StateOK, HashesAgree

LEMMA InitMInv == Init => MInv
<1> DEFINE batch == [id \in {CatalogId(p) : p \in AtFirst} |-> SkillPlan(id[2], Agents, Pinned[id[2]])]
           before == [t \in Targets |-> Nothing]
<1> SUFFICES ASSUME Init PROVE MInv
  OBVIOUS
<1>1. disk = Copied(before, batch) /\ st = RecordInstall(EmptyState, batch, disk)
  BY DEF Init
<1>2. \A p \in AtFirst : CatalogId(p) \in Ids /\ CatalogId(p)[2] = p
  BY Constants DEF CatalogId, Ids
<1>3. \A id \in DOMAIN batch : id \in Ids /\ \E p \in AtFirst : batch[id] = SkillPlan(p, Agents, Pinned[p])
  BY <1>2
<1>4. before \in [Targets -> Trees]
  BY NothingIsTree
<1> HIDE DEF batch, before
<1>5. BatchOK(batch)
  <2> SUFFICES ASSUME NEW id \in DOMAIN batch
               PROVE  /\ id \in Ids /\ batch[id].targets \subseteq Targets
                      /\ batch[id].tree \in Trees \ {Nothing} /\ batch[id].commit \in Revisions
    BY DEF BatchOK
  <2>1. PICK p \in AtFirst : id \in Ids /\ batch[id] = SkillPlan(p, Agents, Pinned[p])
    BY <1>3
  <2>2. p \in Packages /\ Pinned[p] \in 1..MaxRev
    BY Constants
  <2> QED
    BY <2>1, <2>2, SkillPlanIs
<1>6. Installs(EmptyState, batch, disk)
  BY <1>1, <1>4, <1>5, CopiedIs, EmptyIs DEF Installs
<1>7. WorldOK
  <2>1. disk \in [Targets -> Trees]
    BY <1>6 DEF Installs
  <2>2. StateOK(st) /\ HashesAgree(st)
    BY <1>1, <1>6, EmptyIs, RecordInstallKeeps
  <2>3. IsPartial(library, Keys, Trees)
    BY EmptyIs DEF Init
  <2> QED
    BY <2>1, <2>2, <2>3 DEF WorldOK
<1>8. head \in [Packages -> 1..MaxRev] /\ applied \in 0..MaxApplied /\ edits \in 0..MaxEdits
  BY Constants DEF Init
<1>9. plans = [x \in Processes |-> plans[x]] /\ \A x \in Processes : PlanOK(plans[x])
  BY NoPlanIsOK DEF Init
<1> QED
  BY <1>7, <1>8, <1>9 DEF MInv, CommandsOK

LEMMA CommitsKeeps ==
  ASSUME MInv, NEW x \in Processes, Commits(x)
  PROVE  CommandsOK'
<1>1. applied' \in 0..MaxApplied
  BY Constants DEF Commits, MInv, CommandsOK
<1>2. plans' = [y \in Processes |-> plans'[y]] /\ \A y \in Processes : plans'[y] = IF y = x THEN NoPlan ELSE plans[y]
  BY DEF Commits, MInv, CommandsOK
<1>3. \A y \in Processes : PlanOK(plans'[y])
  BY <1>2, NoPlanIsOK DEF MInv, CommandsOK
<1> QED
  BY <1>1, <1>2, <1>3 DEF Commits, MInv, CommandsOK

\* What a command is about to apply may be applied.
LEMMA BatchIsOK ==
  ASSUME MInv, NEW x \in Processes, plans[x].op \in WithBatch
  PROVE  BatchOK(plans[x].batch)
BY DEF MInv, CommandsOK, PlanOK

\* A batch is copied over trees, and recorded.
LEMMA CopyingKeeps ==
  ASSUME WorldOK, NEW batch, BatchOK(batch), NEW trees \in [Targets -> Trees],
         disk' = Copied(trees, batch), UNCHANGED library
  PROVE  /\ disk' \in [Targets -> Trees] /\ IsPartial(library', Keys, Trees)
         /\ Installs(st, batch, disk')
         /\ StateOK(RecordInstall(st, batch, disk')) /\ HashesAgree(RecordInstall(st, batch, disk'))
<1>1. disk' \in [Targets -> Trees] /\ \A t \in BatchTargets(batch) : disk'[t] # Nothing
  BY CopiedIs
<1>2. Installs(st, batch, disk')
  BY <1>1 DEF Installs, WorldOK
<1> QED
  BY <1>1, <1>2, RecordInstallKeeps DEF WorldOK

LEMMA EmptiedIs ==
  ASSUME NEW trees \in [Targets -> Trees], NEW S
  PROVE  /\ Emptied(trees, S) \in [Targets -> Trees]
         /\ \A t \in Targets : Emptied(trees, S)[t] = IF t \in S THEN Nothing ELSE trees[t]
BY NothingIsTree DEF Emptied

\* The commands that copy a batch and record it.
CopyingOps == {"install", "profile", "additive", "update", "reconcile", "sync"}
Copies(x) ==
  \/ ApplySkillInstall(x) \/ ApplySkillInstallBatch(x) \/ ApplyPackageUpdate(x)
  \/ ApplyReconcilePlan(x) \/ ApplySyncPlan(x)

\* What a profile retires first; every other command retires nothing.
Retired(plan) == IF plan.op \in {"profile", "additive"} THEN plan.obsolete ELSE {}
Cleared(plan) == Emptied(disk, {TargetOf(k) : k \in Retired(plan)})

LEMMA CopiesAre ==
  ASSUME MInv, NEW x \in Processes, Copies(x)
  PROVE  /\ plans[x].op \in CopyingOps /\ Commits(x) /\ UNCHANGED library
         /\ disk' = Copied(Cleared(plans[x]), plans[x].batch)
         /\ st' = IF plans[x].op \in {"profile", "additive"}
                  THEN RecordReconciliation(RecordInstall(st, plans[x].batch, disk'), plans[x].obsolete)
                  ELSE RecordInstall(st, plans[x].batch, disk')
<1>1. \A trees \in [Targets -> Trees] : Emptied(trees, {}) = trees
  BY DEF Emptied
<1>2. disk \in [Targets -> Trees]
  BY DEF MInv, WorldOK
<1>3. CASE ApplySkillInstallBatch(x)
  BY <1>3 DEF ApplySkillInstallBatch, CopyingOps, Cleared, Retired
<1>4. CASE plans[x].op \in {"install", "update", "reconcile", "sync"} /\ Commits(x) /\ UNCHANGED library
           /\ disk' = Copied(disk, plans[x].batch) /\ st' = RecordInstall(st, plans[x].batch, disk')
  <2>1. Retired(plans[x]) = {}
    BY <1>4 DEF Retired
  <2>2. Cleared(plans[x]) = disk
    BY <1>1, <1>2, <2>1 DEF Cleared
  <2> QED
    BY <1>4, <2>2 DEF CopyingOps
<1>5. ApplySkillInstall(x) \/ ApplyPackageUpdate(x) \/ ApplyReconcilePlan(x) \/ ApplySyncPlan(x) =>
        /\ plans[x].op \in {"install", "update", "reconcile", "sync"} /\ Commits(x) /\ UNCHANGED library
        /\ disk' = Copied(disk, plans[x].batch) /\ st' = RecordInstall(st, plans[x].batch, disk')
  BY DEF ApplySkillInstall, ApplyPackageUpdate, ApplyReconcilePlan, ApplySyncPlan
<1> QED
  BY <1>3, <1>4, <1>5 DEF Copies

LEMMA CopiesKeep ==
  ASSUME MInv, NEW x \in Processes, Copies(x)
  PROVE  MInv'
<1> DEFINE plan == plans[x]
<1>1. plan.op \in CopyingOps /\ Commits(x) /\ UNCHANGED library /\ disk' = Copied(Cleared(plan), plan.batch)
      /\ st' = IF plan.op \in {"profile", "additive"}
               THEN RecordReconciliation(RecordInstall(st, plan.batch, disk'), plan.obsolete)
               ELSE RecordInstall(st, plan.batch, disk')
  BY CopiesAre
<1>2. BatchOK(plan.batch)
  BY <1>1, BatchIsOK DEF CopyingOps, WithBatch
<1>3. Cleared(plan) \in [Targets -> Trees]
  BY EmptiedIs DEF Cleared, MInv, WorldOK
<1> DEFINE new == RecordInstall(st, plan.batch, disk')
<1>4. disk' \in [Targets -> Trees] /\ IsPartial(library', Keys, Trees) /\ StateOK(new) /\ HashesAgree(new)
  BY <1>1, <1>2, <1>3, CopyingKeeps DEF MInv
<1>5. StateOK(st') /\ HashesAgree(st')
  <2>1. CASE plan.op \in {"profile", "additive"}
    <3> HIDE DEF new, plan
    <3> QED
      BY <1>1, <1>4, <2>1, ReconciliationKeeps DEF new
  <2>2. CASE plan.op \notin {"profile", "additive"}
    BY <1>1, <1>4, <2>2
  <2> QED
    BY <2>1, <2>2
<1>6. WorldOK'
  BY <1>4, <1>5 DEF WorldOK
<1> QED
  BY <1>1, <1>6, CommitsKeeps DEF MInv

LEMMA AdoptionKeeps ==
  ASSUME MInv, NEW x \in Processes, ApplySkillAdoption(x)
  PROVE  MInv' /\ Installs(st, plans[x].batch, disk)
<1> DEFINE batch == plans[x].batch
<1>1. BatchOK(batch)
  BY BatchIsOK DEF ApplySkillAdoption, WithBatch
<1>2. \A t \in BatchTargets(batch) : disk[t] # Nothing
  <2>1. \A t \in BatchTargets(batch) : \E id \in DOMAIN batch : disk[t] = batch[id].tree
    BY DEF ApplySkillAdoption, BatchTargets
  <2>2. \A id \in DOMAIN batch : batch[id].tree # Nothing
    BY <1>1 DEF BatchOK
  <2> QED
    BY <2>1, <2>2
<1>3. Installs(st, batch, disk)
  BY <1>1, <1>2 DEF Installs, MInv, WorldOK
<1>4. StateOK(st') /\ HashesAgree(st')
  <2>1. st' = RecordInstall(st, batch, disk)
    BY DEF ApplySkillAdoption
  <2> QED
    BY <1>3, <2>1, RecordInstallKeeps DEF MInv, WorldOK
<1>5. WorldOK'
  BY <1>4 DEF ApplySkillAdoption, MInv, WorldOK
<1> QED
  BY <1>3, <1>5, CommitsKeeps DEF ApplySkillAdoption, MInv

\* The library that a download leaves.
LEMMA DownloadedIs ==
  ASSUME MInv, NEW batch, BatchOK(batch), NEW agents
  PROVE  LET l == Downloaded(batch, agents) IN
         /\ IsPartial(l, Keys, Trees)
         /\ \A k \in BatchKeys(batch) : k \in DOMAIN l /\ l[k] = batch[IdOf(k)].tree
         /\ \A k \in DOMAIN library : IdOf(k) \notin DOMAIN batch => k \in DOMAIN l /\ l[k] = library[k]
         /\ \A k \in DOMAIN l : IdOf(k) \notin DOMAIN batch => k \in DOMAIN library
<1> DEFINE l == Downloaded(batch, agents)
           gone == {k \in DOMAIN library : IdOf(k) \in DOMAIN batch /\ TargetOf(k)[1] \in agents}
           old == Without(library, gone)
           new == [k \in BatchKeys(batch) |-> batch[IdOf(k)].tree]
<1>1. DOMAIN old = DOMAIN library \ gone /\ \A k \in DOMAIN old : old[k] = library[k]
  BY DEF Without, Restrict
<1>2. IsPartial(library, Keys, Trees)
  BY DEF MInv, WorldOK
<1>3. IsPartial(old, Keys, Trees)
  BY <1>1, <1>2 DEF IsPartial
<1>4. \A k \in BatchKeys(batch) : k \in Keys /\ IdOf(k) \in DOMAIN batch /\ batch[IdOf(k)].tree \in Trees
  BY BatchKeysAre DEF BatchOK
<1>5. IsPartial(new, Keys, Trees)
  BY <1>4 DEF IsPartial
<1>6. l = Over(new, old)
  BY DEF Downloaded
<1>7. \A k \in BatchKeys(batch) : new[k] = batch[IdOf(k)].tree
  OBVIOUS
<1>8. DOMAIN new = BatchKeys(batch)
  OBVIOUS
<1>9. \A k \in DOMAIN library : IdOf(k) \notin DOMAIN batch => k \in DOMAIN old
  BY <1>1
<1> HIDE DEF l, old, new, gone
<1>10. IsPartial(l, Keys, Trees)
  BY <1>3, <1>5, <1>6, OverIsPartial
<1>11. /\ DOMAIN l = DOMAIN new \cup DOMAIN old
       /\ \A k \in DOMAIN new : l[k] = new[k]
       /\ \A k \in DOMAIN old : k \notin DOMAIN new => l[k] = old[k]
  BY <1>6 DEF Over
<1>12. \A k \in DOMAIN l : IdOf(k) \notin DOMAIN batch => k \in DOMAIN library
  BY <1>1, <1>4, <1>8, <1>11
<1> QED
  BY <1>1, <1>4, <1>7, <1>8, <1>9, <1>10, <1>11, <1>12 DEF l

LEMMA LibraryBatchIs ==
  ASSUME MInv, NEW x \in Processes, ApplySkillLibraryBatch(x)
  PROVE  BatchOK(plans[x].batch) /\ Downloads(st, plans[x].batch, library')
<1>1. BatchOK(plans[x].batch)
  BY BatchIsOK DEF ApplySkillLibraryBatch, WithBatch
<1>2. \A k \in BatchKeys(plans[x].batch) : library'[k] = plans[x].batch[IdOf(k)].tree
  BY <1>1, DownloadedIs DEF ApplySkillLibraryBatch
<1>3. \A k \in BatchKeys(plans[x].batch) : plans[x].batch[IdOf(k)].tree \in Trees \ {Nothing}
  BY <1>1, BatchKeysAre DEF BatchOK
<1> QED
  BY <1>1, <1>2, <1>3 DEF Downloads, MInv, WorldOK

LEMMA LibraryBatchKeeps ==
  ASSUME MInv, NEW x \in Processes, ApplySkillLibraryBatch(x)
  PROVE  MInv'
<1> DEFINE batch == plans[x].batch
<1>1. BatchOK(batch) /\ Downloads(st, batch, library')
  BY LibraryBatchIs
<1>2. st' = RecordLibraryInstall(st, batch, library') /\ UNCHANGED disk /\ Commits(x)
      /\ library' = Downloaded(batch, plans[x].agents)
  BY DEF ApplySkillLibraryBatch
<1>3. StateOK(st') /\ HashesAgree(st')
  BY <1>1, <1>2, RecordLibraryInstallKeeps DEF MInv, WorldOK
<1>4. IsPartial(library', Keys, Trees)
  BY <1>1, <1>2, DownloadedIs
<1>5. WorldOK'
  BY <1>2, <1>3, <1>4 DEF MInv, WorldOK
<1> QED
  BY <1>2, <1>5, CommitsKeeps DEF MInv

\* The keys of a change of activations that is still valid.
LEMMA RevalidatedIs ==
  ASSUME MInv, NEW x \in Processes, Revalidated(plans[x]), plans[x].op \in {"enable", "disable"},
         NEW k \in plans[x].keys
  PROVE  /\ k \in Keys /\ k \in DOMAIN st.activations /\ st.activations[k] \in Activations
         /\ TargetOf(k) \in Targets
         /\ IdOf(k) \in DOMAIN st.installs /\ TargetOf(k) \in DOMAIN st.installs[IdOf(k)].files
         /\ st.activations[k].installed
         /\ st.activations[k].active = (plans[x].op = "disable")
         /\ plans[x].op = "disable" => disk[TargetOf(k)] = st.installs[IdOf(k)].files[TargetOf(k)]
         /\ plans[x].op = "enable" => disk[TargetOf(k)] = Nothing
<1>1. k \in DOMAIN st.activations /\ IdOf(k) \in DOMAIN st.installs
      /\ st.activations[k].active # Desired(plans[x].op) /\ Allowed(plans[x].op, k)
  BY DEF Revalidated
<1>2. k \in Keys /\ st.activations[k] \in Activations
  BY <1>1 DEF MInv, WorldOK, StateOK, IsPartial
<1>3. st.activations[k].active \in BOOLEAN
  BY <1>2 DEF Activations
<1>4. st.activations[k].active = (plans[x].op = "disable")
  BY <1>1, <1>3 DEF Desired
<1>5. TargetOf(k) \in Targets
  BY <1>2, KeyParts
<1> QED
  BY <1>1, <1>2, <1>4, <1>5 DEF Allowed, Backed, TrackedTargets

LEMMA DisableIs ==
  ASSUME MInv, NEW x \in Processes, ApplyDisable(x)
  PROVE  /\ Commits(x)
         /\ DOMAIN library' = plans[x].keys \cup DOMAIN library
         /\ \A k \in plans[x].keys : library'[k] = disk[TargetOf(k)]
         /\ \A k \in DOMAIN library : k \notin plans[x].keys => library'[k] = library[k]
         /\ disk' = Emptied(disk, {TargetOf(k) : k \in plans[x].keys})
         /\ st' = [installs |-> st'.installs, activations |-> st'.activations] /\ st'.installs = st.installs
         /\ DOMAIN st'.activations = DOMAIN st.activations
         /\ \A k \in plans[x].keys : st'.activations[k] = Disabled(st.activations[k], disk[TargetOf(k)])
         /\ \A k \in DOMAIN st.activations : k \notin plans[x].keys => st'.activations[k] = st.activations[k]
<1> DEFINE keys == plans[x].keys
           L == [k \in keys |-> disk[TargetOf(k)]]
           A == [k \in keys |-> Disabled(st.activations[k], disk[TargetOf(k)])]
<1>1. /\ Commits(x) /\ library' = Over(L, library) /\ disk' = Emptied(disk, {TargetOf(k) : k \in keys})
      /\ st' = [st EXCEPT !.activations = Over(A, st.activations)]
  BY DEF ApplyDisable
<1>2. st' = [installs |-> st.installs, activations |-> Over(A, st.activations)]
  BY <1>1 DEF MInv, WorldOK, StateOK
<1>3. keys \subseteq DOMAIN st.activations
  BY DEF ApplyDisable, Revalidated
<1>4. /\ DOMAIN Over(A, st.activations) = DOMAIN st.activations
      /\ \A k \in keys : Over(A, st.activations)[k] = Disabled(st.activations[k], disk[TargetOf(k)])
      /\ \A k \in DOMAIN st.activations : k \notin keys => Over(A, st.activations)[k] = st.activations[k]
  BY <1>3 DEF Over
<1>5. /\ DOMAIN Over(L, library) = keys \cup DOMAIN library
      /\ \A k \in keys : Over(L, library)[k] = disk[TargetOf(k)]
      /\ \A k \in DOMAIN library : k \notin keys => Over(L, library)[k] = library[k]
  BY DEF Over
<1> HIDE DEF A, L
<1>6. st'.activations = Over(A, st.activations) /\ st'.installs = st.installs
      /\ st' = [installs |-> st'.installs, activations |-> st'.activations]
  BY <1>2
<1> QED
  BY <1>1, <1>4, <1>5, <1>6

LEMMA DisableKeeps ==
  ASSUME MInv, NEW x \in Processes, ApplyDisable(x)
  PROVE  MInv'
<1> DEFINE keys == plans[x].keys
<1>1. \A k \in keys :
        /\ k \in Keys /\ st.activations[k] \in Activations /\ TargetOf(k) \in Targets
        /\ disk[TargetOf(k)] = st.installs[IdOf(k)].files[TargetOf(k)]
  BY RevalidatedIs DEF ApplyDisable
<1>2. disk \in [Targets -> Trees] /\ IsPartial(library, Keys, Trees)
  BY DEF MInv, WorldOK
<1>3. disk' \in [Targets -> Trees]
  <2>1. disk' = Emptied(disk, {TargetOf(k) : k \in keys})
    BY DisableIs
  <2> QED
    BY <1>2, <2>1, EmptiedIs
<1>4. IsPartial(library', Keys, Trees)
  <2>1. DOMAIN library' \subseteq Keys
    BY <1>1, <1>2, DisableIs DEF IsPartial
  <2>2. \A k \in DOMAIN library' : library'[k] \in Trees
    BY <1>1, <1>2, DisableIs DEF IsPartial
  <2> QED
    BY <2>1, <2>2 DEF IsPartial
<1>5. \A k \in keys : /\ Disabled(st.activations[k], disk[TargetOf(k)]) \in Activations
                      /\ Disabled(st.activations[k], disk[TargetOf(k)]).lib = disk[TargetOf(k)]
  <2> SUFFICES ASSUME NEW k \in keys
               PROVE  /\ Disabled(st.activations[k], disk[TargetOf(k)]) \in Activations
                      /\ Disabled(st.activations[k], disk[TargetOf(k)]).lib = disk[TargetOf(k)]
    OBVIOUS
  <2>1. st.activations[k] \in Activations /\ disk[TargetOf(k)] \in Trees
    BY <1>1, <1>2
  <2> QED
    BY <2>1 DEF Disabled, Activations
<1>6. StateOK(st')
  <2>1. IsPartial(st.activations, Keys, Activations)
    BY DEF MInv, WorldOK, StateOK
  <2>2. IsPartial(st'.activations, Keys, Activations)
    BY <1>5, <2>1, DisableIs DEF IsPartial
  <2> QED
    BY <2>2, DisableIs, SameInstalls DEF MInv, WorldOK
<1>7. HashesAgree(st')
  <2> SUFFICES ASSUME NEW k \in DisabledKeys(st'), TargetOf(k) \in TrackedTargets(st', IdOf(k))
               PROVE  st'.activations[k].lib = st'.installs[IdOf(k)].files[TargetOf(k)]
    BY DEF HashesAgree
  <2>1. st'.installs = st.installs
    BY DisableIs
  <2>2. k \in DOMAIN st.activations
    BY DisableIs DEF DisabledKeys
  <2>3. CASE k \in keys
    BY <1>1, <1>5, <2>1, <2>3, DisableIs, ZenonT(60)
  <2>4. CASE k \notin keys
    <3>1. st'.activations[k] = st.activations[k] /\ k \in DisabledKeys(st)
      BY <2>2, <2>4, DisableIs DEF DisabledKeys
    <3> QED
      BY <2>1, <3>1 DEF MInv, WorldOK, HashesAgree, TrackedTargets
  <2> QED
    BY <2>3, <2>4
<1>8. WorldOK'
  BY <1>3, <1>4, <1>6, <1>7 DEF WorldOK
<1> QED
  BY <1>8, DisableIs, CommitsKeeps DEF MInv

LEMMA EnableIs ==
  ASSUME MInv, NEW x \in Processes, ApplyEnable(x)
  PROVE  /\ Commits(x) /\ UNCHANGED library
         /\ disk' = [t \in Targets |-> disk'[t]]
         /\ \A t \in Targets :
              \/ disk'[t] = disk[t] /\ \A k \in plans[x].keys : TargetOf(k) # t
              \/ /\ disk[t] = Nothing
                 /\ \E k \in plans[x].keys : /\ TargetOf(k) = t
                                            /\ disk'[t] = st.installs[IdOf(k)].files[t]
         /\ st' = [installs |-> st'.installs, activations |-> st'.activations] /\ st'.installs = st.installs
         /\ DOMAIN st'.activations = DOMAIN st.activations
         /\ \A k \in plans[x].keys : st'.activations[k] = [st.activations[k] EXCEPT !.active = TRUE]
         /\ \A k \in DOMAIN st.activations : k \notin plans[x].keys => st'.activations[k] = st.activations[k]
<1> DEFINE keys == plans[x].keys
           A == [k \in keys |-> [st.activations[k] EXCEPT !.active = TRUE]]
           Chosen(t) == CHOOSE k \in keys : TargetOf(k) = t
<1>1. /\ Commits(x) /\ UNCHANGED library
      /\ \A k \in keys : library[k] = st.installs[IdOf(k)].files[TargetOf(k)]
      /\ disk' = [t \in Targets |-> IF \E k \in keys : TargetOf(k) = t THEN library[Chosen(t)] ELSE disk[t]]
      /\ st' = [st EXCEPT !.activations = Over(A, st.activations)]
  BY DEF ApplyEnable
<1>2. st' = [installs |-> st.installs, activations |-> Over(A, st.activations)]
  BY <1>1 DEF MInv, WorldOK, StateOK
<1>3. keys \subseteq DOMAIN st.activations
  BY DEF ApplyEnable, Revalidated
<1>4. /\ DOMAIN Over(A, st.activations) = DOMAIN st.activations
      /\ \A k \in keys : Over(A, st.activations)[k] = [st.activations[k] EXCEPT !.active = TRUE]
      /\ \A k \in DOMAIN st.activations : k \notin keys => Over(A, st.activations)[k] = st.activations[k]
  BY <1>3 DEF Over
<1> HIDE DEF A
<1>5. st'.activations = Over(A, st.activations) /\ st'.installs = st.installs
      /\ st' = [installs |-> st'.installs, activations |-> st'.activations]
  BY <1>2
<1>6. \A t \in Targets :
        \/ disk'[t] = disk[t] /\ \A k \in keys : TargetOf(k) # t
        \/ /\ disk[t] = Nothing
           /\ \E k \in keys : TargetOf(k) = t /\ disk'[t] = st.installs[IdOf(k)].files[t]
  <2> SUFFICES ASSUME NEW t \in Targets, \E k \in keys : TargetOf(k) = t
               PROVE  /\ disk[t] = Nothing
                      /\ \E k \in keys : TargetOf(k) = t /\ disk'[t] = st.installs[IdOf(k)].files[t]
    BY <1>1
  <2>1. Chosen(t) \in keys /\ TargetOf(Chosen(t)) = t
    OBVIOUS
  <2>2. disk'[t] = library[Chosen(t)]
    BY <1>1
  <2>3. disk[t] = Nothing
    BY <2>1, RevalidatedIs DEF ApplyEnable
  <2> HIDE DEF Chosen
  <2> QED
    BY <1>1, <2>1, <2>2, <2>3
<1>7. disk' = [t \in Targets |-> disk'[t]]
  BY <1>1
<1> QED
  BY <1>1, <1>4, <1>5, <1>6, <1>7, SMTT(60)

LEMMA EnableKeeps ==
  ASSUME MInv, NEW x \in Processes, ApplyEnable(x)
  PROVE  MInv'
<1> DEFINE keys == plans[x].keys
<1>1. \A k \in keys :
        /\ k \in Keys /\ st.activations[k] \in Activations
        /\ IdOf(k) \in DOMAIN st.installs /\ TargetOf(k) \in DOMAIN st.installs[IdOf(k)].files
  BY RevalidatedIs DEF ApplyEnable
<1>2. \A k \in keys : st.installs[IdOf(k)].files[TargetOf(k)] \in Trees
  <2>1. \A k \in keys : st.installs[IdOf(k)] \in InstallRecords
    BY <1>1 DEF MInv, WorldOK, StateOK, IsPartial
  <2> QED
    BY <1>1, <2>1, RecordFields
<1>3. disk' \in [Targets -> Trees]
  <2>1. \A t \in Targets : disk[t] \in Trees
    BY DEF MInv, WorldOK
  <2>2. \A t \in Targets : disk'[t] \in Trees
    BY <1>2, <2>1, EnableIs
  <2> QED
    BY <2>2, EnableIs
<1>4. \A k \in keys : /\ [st.activations[k] EXCEPT !.active = TRUE] \in Activations
                      /\ [st.activations[k] EXCEPT !.active = TRUE].active
  BY <1>1 DEF Activations
<1>5. StateOK(st')
  <2>1. IsPartial(st.activations, Keys, Activations)
    BY DEF MInv, WorldOK, StateOK
  <2>2. /\ DOMAIN st'.activations = DOMAIN st.activations
        /\ \A k \in keys : st'.activations[k] = [st.activations[k] EXCEPT !.active = TRUE]
        /\ \A k \in DOMAIN st.activations : k \notin keys => st'.activations[k] = st.activations[k]
    BY EnableIs
  <2>3. \A k \in DOMAIN st'.activations : st'.activations[k] \in Activations
    BY <1>4, <2>1, <2>2 DEF IsPartial
  <2>4. IsPartial(st'.activations, Keys, Activations)
    BY <2>1, <2>2, <2>3 DEF IsPartial
  <2> QED
    BY <2>4, EnableIs, SameInstalls DEF MInv, WorldOK
<1>6. HashesAgree(st')
  <2> SUFFICES ASSUME NEW k \in DisabledKeys(st'), TargetOf(k) \in TrackedTargets(st', IdOf(k))
               PROVE  st'.activations[k].lib = st'.installs[IdOf(k)].files[TargetOf(k)]
    BY DEF HashesAgree
  <2>1. k \in DOMAIN st.activations /\ ~st'.activations[k].active
    BY EnableIs DEF DisabledKeys
  <2>2. k \notin keys
    BY <1>4, <2>1, EnableIs
  <2>3. st'.activations[k] = st.activations[k] /\ k \in DisabledKeys(st)
    BY <2>1, <2>2, EnableIs DEF DisabledKeys
  <2>4. st'.installs = st.installs
    BY EnableIs
  <2> QED
    BY <2>3, <2>4 DEF MInv, WorldOK, HashesAgree, TrackedTargets
<1>7. WorldOK'
  BY <1>3, <1>5, <1>6, EnableIs DEF MInv, WorldOK
<1> QED
  BY <1>7, EnableIs, CommitsKeeps DEF MInv

\* What ApplyAccept accepts for a target of a package.
Accepting(edited, id, t, old) ==
  LET Now == {e[3] : e \in {e \in edited : e[1] = id /\ e[2] = t}}
  IN IF Now = {} THEN old ELSE CHOOSE tree \in Now : TRUE

LEMMA AcceptingIs ==
  ASSUME MInv, NEW scope, NEW id \in DOMAIN st.installs, NEW t \in DOMAIN st.installs[id].files,
         NEW old
  PROVE  LET new == Accepting(Edited(scope), id, t, old)
             there == ReadTree(st, disk, library, id, t) IN
         /\ new = old \/ (new = there /\ there \in Trees \ {Nothing})
         /\ id \in scope /\ there \notin {Nothing, st.installs[id].files[t]} => new = there
         /\ there \in {Nothing, st.installs[id].files[t]} => new = old
<1> DEFINE there == ReadTree(st, disk, library, id, t)
           Now == {e[3] : e \in {e \in Edited(scope) : e[1] = id /\ e[2] = t}}
           new == Accepting(Edited(scope), id, t, old)
<1>1. \A e : e \in Edited(scope) <=>
        \E i \in scope \cap DOMAIN st.installs : \E u \in Drifted(st, disk, library, i) :
          e = <<i, u, ReadTree(st, disk, library, i, u)>>
  BY DEF Edited
<1>2. Now \subseteq {there}
  BY <1>1
<1>3. Now # {} => t \in Drifted(st, disk, library, id)
  BY <1>1
<1>4. id \in scope /\ t \in Drifted(st, disk, library, id) => there \in Now
  <2> SUFFICES ASSUME id \in scope, t \in Drifted(st, disk, library, id) PROVE there \in Now
    OBVIOUS
  <2>1. <<id, t, there>> \in Edited(scope)
    BY <1>1
  <2> QED
    BY <2>1
<1>5. t \in Drifted(st, disk, library, id) <=> there \notin {Nothing, st.installs[id].files[t]}
  BY DEF Drifted, TrackedTargets
<1>6. there \in Trees
  <2>1. id \in Ids /\ st.installs[id] \in InstallRecords
    BY DEF MInv, WorldOK, StateOK, IsPartial
  <2>2. t \in Targets
    BY <2>1, RecordFields
  <2> QED
    BY <2>2, NothingIsTree DEF ReadTree, LibraryTree, MInv, WorldOK, IsPartial
<1>7. new = IF Now = {} THEN old ELSE CHOOSE tree \in Now : TRUE
  BY DEF Accepting
<1> HIDE DEF Now, there, new
<1>8. Now = {} => new = old
  BY <1>7
<1>9. Now # {} => Now = {there} /\ new = there
  <2> SUFFICES ASSUME Now # {} PROVE Now = {there} /\ new = there
    OBVIOUS
  <2>1. Now = {there}
    BY <1>2
  <2> QED
    BY <1>7, <2>1
<1> QED
  BY <1>3, <1>4, <1>5, <1>6, <1>8, <1>9 DEF there, new
LEMMA AcceptIs ==
  ASSUME MInv, NEW x \in Processes, ApplyAccept(x)
  PROVE  LET edited == Edited(plans[x].scope) IN
         /\ Commits(x) /\ UNCHANGED <<disk, library>>
         /\ st' = [installs |-> st'.installs, activations |-> st'.activations]
         /\ DOMAIN st'.installs = DOMAIN st.installs
         /\ \A id \in DOMAIN st.installs :
              st'.installs[id] = [commit |-> st.installs[id].commit,
                                  files |-> [t \in DOMAIN st.installs[id].files |->
                                               Accepting(edited, id, t, st.installs[id].files[t])]]
         /\ DOMAIN st'.activations = DOMAIN st.activations
         /\ \A k \in DOMAIN st.activations :
              st'.activations[k] =
                IF ReadsLibrary(st, IdOf(k), TargetOf(k))
                THEN [st.activations[k] EXCEPT
                        !.lib = Accepting(edited, IdOf(k), TargetOf(k), st.activations[k].lib)]
                ELSE st.activations[k]
<1> DEFINE edited == Edited(plans[x].scope)
           Files(id) == [t \in DOMAIN st.installs[id].files |->
                           Accepting(edited, id, t, st.installs[id].files[t])]
           I == [id \in DOMAIN st.installs |-> [st.installs[id] EXCEPT !.files = Files(id)]]
           A == [k \in DOMAIN st.activations |->
                   IF ReadsLibrary(st, IdOf(k), TargetOf(k))
                   THEN [st.activations[k] EXCEPT
                           !.lib = Accepting(edited, IdOf(k), TargetOf(k), st.activations[k].lib)]
                   ELSE st.activations[k]]
<1>1. /\ Commits(x) /\ UNCHANGED <<disk, library>> /\ plans[x].edited = edited
      /\ st' = [installs |-> I, activations |-> A]
  BY DEF ApplyAccept, Accepting
<1>2. \A id \in DOMAIN st.installs :
        st.installs[id] = [commit |-> st.installs[id].commit, files |-> st.installs[id].files]
  BY RecordFields DEF MInv, WorldOK, StateOK, IsPartial
<1> HIDE DEF Files, edited
<1>3. \A id \in DOMAIN st.installs : I[id] = [commit |-> st.installs[id].commit, files |-> Files(id)]
  <2> SUFFICES ASSUME NEW id \in DOMAIN st.installs
               PROVE  I[id] = [commit |-> st.installs[id].commit, files |-> Files(id)]
    OBVIOUS
  <2>1. I[id] = [st.installs[id] EXCEPT !.files = Files(id)]
    OBVIOUS
  <2>2. st.installs[id] = [commit |-> st.installs[id].commit, files |-> st.installs[id].files]
    BY <1>2
  <2> HIDE DEF I
  <2> QED
    BY <2>1, <2>2
<1>4. /\ DOMAIN I = DOMAIN st.installs /\ DOMAIN A = DOMAIN st.activations
      /\ \A k \in DOMAIN st.activations :
           A[k] = IF ReadsLibrary(st, IdOf(k), TargetOf(k))
                  THEN [st.activations[k] EXCEPT
                          !.lib = Accepting(edited, IdOf(k), TargetOf(k), st.activations[k].lib)]
                  ELSE st.activations[k]
  OBVIOUS
<1> HIDE DEF I, A
<1>5. /\ st'.installs = I /\ st'.activations = A
      /\ st' = [installs |-> st'.installs, activations |-> st'.activations]
  BY <1>1
<1> QED
  BY <1>1, <1>3, <1>4, <1>5 DEF Files, edited

LEMMA AcceptKeeps ==
  ASSUME MInv, NEW x \in Processes, ApplyAccept(x)
  PROVE  MInv'
<1> DEFINE scope == plans[x].scope
           edited == Edited(scope)
           Files(id) == [t \in DOMAIN st.installs[id].files |->
                           Accepting(edited, id, t, st.installs[id].files[t])]
<1>1. ASSUME NEW id \in DOMAIN st.installs
      PROVE  /\ st'.installs[id].files = Files(id)
             /\ st'.installs[id] \in InstallRecords
             /\ \A t \in DOMAIN Files(id) : Files(id)[t] # Nothing
  <2>1. /\ st.installs[id].commit \in Revisions /\ DOMAIN st.installs[id].files \in SUBSET Targets
        /\ \A t \in DOMAIN st.installs[id].files : st.installs[id].files[t] \in Trees \ {Nothing}
    BY RecordFields DEF MInv, WorldOK, StateOK, IsPartial
  <2>2. \A t \in DOMAIN st.installs[id].files :
          Accepting(edited, id, t, st.installs[id].files[t]) \in Trees \ {Nothing}
    <3> SUFFICES ASSUME NEW t \in DOMAIN st.installs[id].files
                 PROVE  Accepting(edited, id, t, st.installs[id].files[t]) \in Trees \ {Nothing}
      OBVIOUS
    <3> DEFINE old == st.installs[id].files[t]
               new == Accepting(edited, id, t, old)
               there == ReadTree(st, disk, library, id, t)
    <3>1. new = old \/ (new = there /\ there \in Trees \ {Nothing})
      BY AcceptingIs, ZenonT(60)
    <3>2. old \in Trees \ {Nothing}
      BY <2>1
    <3> HIDE DEF new, old, there
    <3>3. new \in Trees \ {Nothing}
      BY <3>1, <3>2
    <3> QED
      BY <3>3 DEF new, old
  <2>3. st'.installs[id] = [commit |-> st.installs[id].commit, files |-> Files(id)]
    BY AcceptIs
  <2>4. Files(id) \in [DOMAIN st.installs[id].files -> Trees]
        /\ \A t \in DOMAIN Files(id) : Files(id)[t] # Nothing
    BY <2>2
  <2> HIDE DEF Files
  <2>5. [commit |-> st.installs[id].commit, files |-> Files(id)] \in InstallRecords
    BY <2>1, <2>4, RecordOf
  <2>6. st'.installs[id].files = Files(id)
    BY <2>3
  <2> QED
    BY <2>3, <2>4, <2>5, <2>6
<1>2. ASSUME NEW k \in DOMAIN st.activations, ReadsLibrary(st, IdOf(k), TargetOf(k)),
             TargetOf(k) \in TrackedTargets(st, IdOf(k))
      PROVE  /\ st'.activations[k] \in Activations
             /\ st'.activations[k].lib = st'.installs[IdOf(k)].files[TargetOf(k)]
  <2> DEFINE id == IdOf(k)
             t == TargetOf(k)
             new == Accepting(edited, id, t, st.activations[k].lib)
  <2>1. k \in Keys /\ st.activations[k] \in Activations
    BY DEF MInv, WorldOK, StateOK, IsPartial
  <2>2. id \in DOMAIN st.installs /\ t \in DOMAIN st.installs[id].files
    BY <1>2 DEF TrackedTargets
  <2>3. k \in DisabledKeys(st)
    BY <1>2, <2>1, KeyParts DEF ReadsLibrary
  <2>4. st.activations[k].lib = st.installs[id].files[t]
    BY <1>2, <2>3 DEF MInv, WorldOK, HashesAgree
  <2>5. new \in Trees
    <3> DEFINE old == st.activations[k].lib
               there == ReadTree(st, disk, library, id, t)
    <3>1. old \in Trees
      BY <2>1 DEF Activations
    <3>2. new = old \/ (new = there /\ there \in Trees \ {Nothing})
      <4> HIDE DEF id, t
      <4>1. id \in DOMAIN st.installs /\ t \in DOMAIN st.installs[id].files
        BY <2>2
      <4> QED
        BY <4>1, AcceptingIs, ZenonT(60)
    <3> HIDE DEF new, old, there
    <3> QED
      BY <3>1, <3>2
  <2>6. st'.activations[k] = [st.activations[k] EXCEPT !.lib = new]
    BY <1>2, AcceptIs
  <2>7. st'.installs[id].files[t] = new
    <3>1. st'.installs[id].files = Files(id)
      BY <1>1, <2>2
    <3>2. Files(id)[t] = Accepting(edited, id, t, st.installs[id].files[t])
      BY <2>2
    <3> QED
      BY <2>4, <3>1, <3>2
  <2> HIDE DEF new
  <2>8. st'.activations[k] \in Activations /\ st'.activations[k].lib = new
    BY <2>1, <2>5, <2>6 DEF Activations
  <2> QED
    BY <2>7, <2>8
<1>3. ASSUME NEW k \in DOMAIN st.activations, ReadsLibrary(st, IdOf(k), TargetOf(k)),
             TargetOf(k) \notin TrackedTargets(st, IdOf(k))
      PROVE  st'.activations[k] \in Activations
  <2>1. st.activations[k] \in Activations
    BY DEF MInv, WorldOK, StateOK, IsPartial
  <2>2. \A old : Accepting(edited, IdOf(k), TargetOf(k), old) = old
    <3>1. ~ \E e \in edited : e[1] = IdOf(k) /\ e[2] = TargetOf(k)
      BY <1>3 DEF Edited, Drifted
    <3> HIDE DEF edited
    <3> QED
      BY <3>1 DEF Accepting
  <2>3. st'.activations[k] =
          [st.activations[k] EXCEPT !.lib = Accepting(edited, IdOf(k), TargetOf(k), st.activations[k].lib)]
    BY <1>3, AcceptIs
  <2> QED
    BY <2>1, <2>2, <2>3 DEF Activations
<1>4. \A k \in DOMAIN st.activations : ~ReadsLibrary(st, IdOf(k), TargetOf(k)) =>
        st'.activations[k] \in Activations /\ st'.activations[k] = st.activations[k]
  BY AcceptIs DEF MInv, WorldOK, StateOK, IsPartial
<1>5. StateOK(st')
  <2>1. DOMAIN st'.activations = DOMAIN st.activations /\ DOMAIN st'.installs = DOMAIN st.installs
        /\ st' = [installs |-> st'.installs, activations |-> st'.activations]
    BY AcceptIs
  <2>2. \A k \in DOMAIN st'.activations : st'.activations[k] \in Activations
    BY <1>2, <1>3, <1>4, <2>1
  <2>3. \A id \in DOMAIN st'.installs :
          /\ st'.installs[id] \in InstallRecords
          /\ \A t \in DOMAIN st'.installs[id].files : st'.installs[id].files[t] # Nothing
    BY <1>1, <2>1
  <2>4. DOMAIN st.activations \subseteq Keys /\ DOMAIN st.installs \subseteq Ids
    BY DEF MInv, WorldOK, StateOK, IsPartial
  <2> QED
    BY <2>1, <2>2, <2>3, <2>4 DEF StateOK, IsPartial
<1>6. HashesAgree(st')
  <2> SUFFICES ASSUME NEW k \in DisabledKeys(st'), TargetOf(k) \in TrackedTargets(st', IdOf(k))
               PROVE  st'.activations[k].lib = st'.installs[IdOf(k)].files[TargetOf(k)]
    BY DEF HashesAgree
  <2>1. k \in DOMAIN st.activations /\ st'.activations[k].installed /\ ~st'.activations[k].active
    BY AcceptIs DEF DisabledKeys
  <2>2. k \in Keys
    BY <2>1 DEF MInv, WorldOK, StateOK, IsPartial
  <2>3. TargetOf(k) \in TrackedTargets(st, IdOf(k))
    <3>1. IdOf(k) \in DOMAIN st.installs /\ TargetOf(k) \in DOMAIN st'.installs[IdOf(k)].files
      BY AcceptIs DEF TrackedTargets
    <3> QED
      BY <1>1, <3>1 DEF TrackedTargets
  <2>4. ReadsLibrary(st, IdOf(k), TargetOf(k))
    <3> SUFFICES ASSUME ~ReadsLibrary(st, IdOf(k), TargetOf(k)) PROVE FALSE
      OBVIOUS
    <3>1. st'.activations[k] = st.activations[k]
      BY <1>4, <2>1
    <3>2. k \in DisabledKeys(st)
      BY <2>1, <3>1 DEF DisabledKeys
    <3> QED
      BY <2>2, <3>2, KeyParts DEF ReadsLibrary
  <2> QED
    BY <1>2, <2>1, <2>3, <2>4
<1>7. WorldOK'
  BY <1>5, <1>6, AcceptIs DEF MInv, WorldOK
<1> QED
  BY <1>7, AcceptIs, CommitsKeeps DEF MInv
-----------------------------------------------------------------------------
(* Removal, and what moves outside *)

LEMMA RemovalKeeps ==
  ASSUME MInv, NEW id \in DOMAIN st.installs, NEW force, RemovePackage(id, force)
  PROVE  WorldOK'
<1>1. disk' \in [Targets -> Trees]
  BY EmptiedIs DEF RemovePackage, MInv, WorldOK
<1>2. IsPartial(library', Keys, Trees)
  <2> DEFINE S == {Key(id, t) : t \in {t \in RemovedFiles(id) : ReadsLibrary(st, id, t)}}
  <2>1. library' = Without(library, S)
    BY DEF RemovePackage
  <2> HIDE DEF S
  <2> QED
    BY <2>1 DEF Without, Restrict, IsPartial, MInv, WorldOK
<1>3. PreserveFiles(id) \in BOOLEAN
  BY DEF PreserveFiles
<1>4. StateOK(st') /\ HashesAgree(st')
  <2> DEFINE drop == PreserveFiles(id)
  <2>1. st' = ForgetInstall(st, id, drop) /\ drop \in BOOLEAN
    BY <1>3 DEF RemovePackage
  <2> HIDE DEF drop
  <2> QED
    BY <2>1, ForgetInstallKeeps DEF MInv, WorldOK
<1> QED
  BY <1>1, <1>2, <1>4 DEF WorldOK

LEMMA ApplyRemoveKeeps ==
  ASSUME MInv, NEW force \in BOOLEAN, ApplyRemove(force)
  PROVE  MInv'
<1>1. PICK id \in DOMAIN st.installs : RemovePackage(id, force)
  BY DEF ApplyRemove
<1>2. applied < MaxApplied /\ applied' = applied + 1 /\ UNCHANGED <<head, plans, edits>>
  BY DEF ApplyRemove
<1>3. applied' \in 0..MaxApplied
  BY <1>2, Constants DEF MInv, CommandsOK
<1>4. WorldOK'
  BY <1>1, RemovalKeeps
<1> QED
  BY <1>2, <1>3, <1>4 DEF MInv, CommandsOK

LEMMA UninstallPackageIs ==
  ASSUME MInv, NEW x \in Processes, UninstallPackage(x)
  PROVE  /\ plans[x].op = "uninstall" /\ applied' = applied + 1 /\ UNCHANGED <<head, edits>>
         /\ \E id \in DOMAIN st.installs :
              /\ RemovePackage(id, plans[x].force)
              /\ plans' = [plans EXCEPT ![x].ids = @ \ {id}]
BY DEF UninstallPackage

LEMMA UninstallPackageKeeps ==
  ASSUME MInv, NEW x \in Processes, UninstallPackage(x)
  PROVE  MInv'
<1>1. PICK id \in DOMAIN st.installs : /\ RemovePackage(id, plans[x].force)
                                       /\ plans' = [plans EXCEPT ![x].ids = @ \ {id}]
  BY UninstallPackageIs
<1>2. WorldOK'
  BY <1>1, RemovalKeeps
<1>3. applied' \in 0..MaxApplied /\ UNCHANGED <<head, edits>>
  BY Constants DEF UninstallPackage, MInv, CommandsOK
<1>4. plans[x] = [op |-> "uninstall", ids |-> plans[x].ids, force |-> plans[x].force]
  BY DEF UninstallPackage, MInv, CommandsOK, PlanOK
<1>5. plans' = [y \in Processes |-> plans'[y]]
      /\ plans'[x] = [plans[x] EXCEPT !.ids = @ \ {id}]
      /\ \A y \in Processes \ {x} : plans'[y] = plans[y]
  BY <1>1 DEF MInv, CommandsOK
<1>6. PlanOK(plans'[x])
  <2> DEFINE ids == plans[x].ids
             force == plans[x].force
             plan == plans[x]
  <2>1. plan = [op |-> "uninstall", ids |-> ids, force |-> force] /\ plans'[x] = [plan EXCEPT !.ids = @ \ {id}]
    BY <1>4, <1>5
  <2> HIDE DEF ids, force, plan
  <2>2. plans'[x] = [op |-> "uninstall", ids |-> ids \ {id}, force |-> force]
    BY <2>1
  <2> QED
    BY <2>2 DEF PlanOK, Ops, WithBatch
<1>7. \A y \in Processes : PlanOK(plans'[y])
  BY <1>5, <1>6 DEF MInv, CommandsOK
<1> QED
  BY <1>2, <1>3, <1>5, <1>7 DEF MInv, CommandsOK

LEMMA DeleteStateHomeKeeps ==
  ASSUME MInv, NEW x \in Processes, DeleteStateHome(x)
  PROVE  MInv'
<1>1. WorldOK'
  BY EmptyIs DEF DeleteStateHome, MInv, WorldOK
<1> QED
  BY <1>1, CommitsKeeps DEF DeleteStateHome, MInv

LEMMA OutsideKeeps ==
  ASSUME MInv, Outside
  PROVE  MInv'
<1>1. \A n \in 1..MaxBytes : UserBytes(n) \in Trees
  BY DEF Trees
<1>2. CASE UserEdits
  <2>1. PICK t \in Targets, tree \in UserTrees : disk' = [disk EXCEPT ![t] = tree]
    BY <1>2 DEF UserEdits
  <2>2. tree \in Trees
    BY <1>1, <2>1, NothingIsTree, UpstreamIs, Constants DEF UserTrees
  <2>3. disk' \in [Targets -> Trees]
    BY <2>1, <2>2 DEF MInv, WorldOK
  <2>4. edits' \in 0..MaxEdits
    BY <1>2, Constants DEF UserEdits, MInv, CommandsOK
  <2> QED
    BY <1>2, <2>3, <2>4 DEF UserEdits, MInv, WorldOK, CommandsOK
<1>3. CASE UserEditsLibrary
  <2>1. PICK k \in DOMAIN library, n \in 1..MaxBytes : library' = [library EXCEPT ![k] = UserBytes(n)]
    BY <1>3 DEF UserEditsLibrary
  <2>2. IsPartial(library', Keys, Trees)
    BY <1>1, <2>1 DEF IsPartial, MInv, WorldOK
  <2>3. edits' \in 0..MaxEdits
    BY <1>3, Constants DEF UserEditsLibrary, MInv, CommandsOK
  <2> QED
    BY <1>3, <2>2, <2>3 DEF UserEditsLibrary, MInv, WorldOK, CommandsOK
<1>4. CASE UpstreamMoves
  <2>1. PICK p \in Packages : head[p] < MaxRev /\ head' = [head EXCEPT ![p] = @ + 1]
    BY <1>4 DEF UpstreamMoves
  <2>2. head' \in [Packages -> 1..MaxRev]
    BY <2>1, Constants DEF MInv, CommandsOK
  <2> QED
    BY <1>4, <2>2 DEF UpstreamMoves, MInv, WorldOK, CommandsOK
<1> QED
  BY <1>2, <1>3, <1>4 DEF Outside

LEMMA StepMInv == MInv /\ [Next]_vars => MInv'
<1> SUFFICES ASSUME MInv, [Next]_vars PROVE MInv'
  OBVIOUS
<1>1. ASSUME NEW x \in Processes, Plans(x) PROVE MInv'
  BY <1>1, PlanInstallKeeps, PrepareCatalogInstallKeeps, SimplePlansKeep, PlanPackageUpdateKeeps,
     PlanSkillAdoptionKeeps, BuildReconcilePlanKeeps, BuildSyncPlanKeeps, DropKeeps DEF Plans
<1>2. ASSUME NEW x \in Processes, Applies(x) PROVE MInv'
  BY <1>2, CopiesKeep, LibraryBatchKeeps, DisableKeeps, EnableKeeps, AcceptKeeps, AdoptionKeeps,
     UninstallPackageKeeps, DeleteStateHomeKeeps DEF Applies, Copies
<1>3. ASSUME NEW force \in BOOLEAN, ApplyRemove(force) PROVE MInv'
  BY <1>3, ApplyRemoveKeeps
<1>4. CASE UNCHANGED vars
  BY <1>4 DEF vars, MInv, WorldOK, CommandsOK
<1> QED
  BY <1>1, <1>2, <1>3, <1>4, OutsideKeeps DEF Next

\* Whatever the commands, the user and the repositories do, what a command has
\* planned may be applied, what is recorded is a tree, and MInv holds.
LEMMA ManagedInvariant == Spec => []MInv
BY InitMInv, StepMInv, PTL DEF Spec

-----------------------------------------------------------------------------
(* Theorems *)

\* state.json is always well formed, and the two hashes it keeps of a disabled
\* unit agree, so that enabling it is not refused halfway (applyActivationChange).
THEOREM ManagedIsSound == Spec => []ManagedSound
<1>1. MInv => ManagedSound
  <2> SUFFICES ASSUME MInv PROVE ManagedSound
    OBVIOUS
  <2>1. TypeOK
    BY DEF TypeOK, MInv, WorldOK, CommandsOK, StateOK, PlanOK
  <2>2. DisabledHashesAgree
    BY DEF DisabledHashesAgree, HashesAgree, Backed, Record, MInv, WorldOK
  <2> QED
    BY <2>1, <2>2 DEF ManagedSound
<1> QED
  BY <1>1, ManagedInvariant, PTL
\* What a step that commits may take away.
Survives == \A t \in Targets : disk'[t] # disk[t] => disk[t] = Nothing \/ Accounted(t) \/ Overwrites

\* A batch is copied only where there is nothing, or the package's own unedited tree.
LEMMA FreeTargetsAre ==
  ASSUME NEW batch, NEW replacing \in BOOLEAN, TargetsFree(st, disk, batch, replacing), NEW t \in BatchTargets(batch)
  PROVE  \/ disk[t] = Nothing
         \/ /\ replacing
            /\ \E id \in DOMAIN batch : t \in batch[id].targets /\ MayReplace(st, disk, id, t)
            /\ Accounted(t)
<1>1. PICK id \in DOMAIN batch : t \in batch[id].targets
  BY DEF BatchTargets
<1>2. disk[t] = Nothing \/ (replacing /\ MayReplace(st, disk, id, t))
  BY <1>1 DEF TargetsFree
<1> QED
  BY <1>1, <1>2 DEF MayReplace, Accounted

LEMMA CopyingSurvives ==
  ASSUME MInv, NEW x \in Processes,
         ApplySkillInstall(x) \/ ApplyPackageUpdate(x) \/ ApplySkillInstallBatch(x)
  PROVE  Survives
<1> DEFINE plan == plans[x]
<1>1. Copies(x) /\ disk' = Copied(Cleared(plan), plan.batch) /\ plan.op \in CopyingOps
  BY CopiesAre DEF Copies
<1>2. BatchOK(plan.batch)
  BY <1>1, BatchIsOK DEF CopyingOps, WithBatch
<1>3. \E replacing \in BOOLEAN : TargetsFree(st, disk, plan.batch, replacing)
  BY DEF ApplySkillInstall, ApplyPackageUpdate, ApplySkillInstallBatch
<1>4. disk \in [Targets -> Trees]
  BY DEF MInv, WorldOK
<1>5. ASSUME NEW t \in Targets \ BatchTargets(plan.batch), disk'[t] # disk[t]
      PROVE  \E k \in Retired(plan) : TargetOf(k) = t
  <2>1. Cleared(plan) \in [Targets -> Trees]
    BY <1>4, EmptiedIs DEF Cleared
  <2>2. disk'[t] = Cleared(plan)[t]
    BY <1>1, <1>2, <2>1, CopiedIs
  <2> QED
    BY <1>4, <1>5, <2>2, EmptiedIs DEF Cleared
<1>6. ASSUME NEW k \in Retired(plan) PROVE Accounted(TargetOf(k))
  <2>1. plan.op \in {"profile", "additive"} /\ k \in plan.obsolete
    BY DEF Retired
  <2>2. plan.op = "profile"
    BY <2>1 DEF MInv, CommandsOK, PlanOK
  <2>3. ReconciliationPossible(st, disk, plan.batch, plan.agents)
        /\ k \in ObsoleteKeys(st, plan.batch, plan.agents)
    BY <2>1, <2>2 DEF ApplySkillInstall, ApplyPackageUpdate, ApplySkillInstallBatch
  <2>4. /\ TargetOf(k) \in TrackedTargets(st, IdOf(k))
        /\ st.installs[IdOf(k)].files[TargetOf(k)] = disk[TargetOf(k)]
    BY <2>3 DEF ReconciliationPossible
  <2> QED
    BY <2>4 DEF TrackedTargets, Accounted
<1>7. \A t \in BatchTargets(plan.batch) : disk[t] = Nothing \/ Accounted(t)
  BY <1>3, FreeTargetsAre
<1> QED
  BY <1>5, <1>6, <1>7 DEF Survives

LEMMA ActivationSurvives ==
  ASSUME MInv, NEW x \in Processes, ApplyDisable(x) \/ ApplyEnable(x)
  PROVE  Survives
<1>1. CASE ApplyDisable(x)
  <2> SUFFICES ASSUME NEW t \in Targets, disk'[t] # disk[t] PROVE Accounted(t)
    BY DEF Survives
  <2> DEFINE S == {TargetOf(k) : k \in plans[x].keys}
  <2>1. disk' = Emptied(disk, S) /\ disk \in [Targets -> Trees]
    BY <1>1, DisableIs DEF MInv, WorldOK
  <2>2. t \in S
    <3> HIDE DEF S
    <3> QED
      BY <2>1, EmptiedIs
  <2>3. PICK k \in plans[x].keys : TargetOf(k) = t
    BY <2>2
  <2> QED
    BY <1>1, <2>3, RevalidatedIs DEF ApplyDisable, Accounted
<1>2. CASE ApplyEnable(x)
  BY <1>2, EnableIs DEF Survives
<1> QED
  BY <1>1, <1>2

LEMMA RemovalSurvives ==
  ASSUME MInv, NEW id \in DOMAIN st.installs, NEW force, RemovePackage(id, force), force => Overwrites
  PROVE  Survives
<1> SUFFICES ASSUME NEW t \in Targets, disk'[t] # disk[t], ~Overwrites
             PROVE  disk[t] = Nothing \/ Accounted(t)
  BY DEF Survives
<1>1. t \in RemovedFiles(id) /\ ~ReadsLibrary(st, id, t)
  BY EmptiedIs DEF RemovePackage, MInv, WorldOK
<1>2. t \in DOMAIN st.installs[id].files /\ ~PreserveFiles(id)
  BY <1>1 DEF RemovedFiles, Record
<1>3. Drifted(st, disk, library, id) = {}
  BY <1>2 DEF RemovePackage, Removable
<1>4. ReadTree(st, disk, library, id, t) = disk[t]
  BY <1>1 DEF ReadTree
<1>5. disk[t] \in {Nothing, st.installs[id].files[t]}
  BY <1>2, <1>3, <1>4 DEF Drifted, TrackedTargets
<1> QED
  BY <1>2, <1>5 DEF Accounted

\* Skills the user put there, or edited since, survive every stale plan: a command
\* takes away only what an install record accounts for, unless its user agreed to
\* lose what lies there (assertActiveTargetsUnoccupied, planRemove).
THEOREM UnrecordedBytesAreKept == Spec => UnrecordedBytesSurvive
<1>1. MInv /\ [Next]_vars => [Committed => Survives]_vars
  <2> SUFFICES ASSUME MInv, Next, Committed PROVE Survives
    BY DEF vars, Committed
  <2>1. ASSUME NEW x \in Processes, Plans(x) PROVE FALSE
    <3>1. applied' = applied
      BY <2>1 DEF Plans, Makes, Drop, PlanInstall, PrepareCatalogInstall, PlanActivationChange, PlanAccept,
                  PlanPackageUpdate, PlanSkillAdoption, BuildReconcilePlan, BuildSyncPlan, StartUninstall
    <3> QED
      BY <3>1 DEF Committed
  <2>2. ASSUME NEW x \in Processes, Applies(x) PROVE Survives
    <3>1. CASE ApplySkillInstall(x) \/ ApplyPackageUpdate(x) \/ ApplySkillInstallBatch(x)
      BY <3>1, CopyingSurvives
    <3>2. CASE ApplyReconcilePlan(x) \/ ApplySyncPlan(x)
      BY <3>2 DEF Survives, Overwrites
    <3>3. CASE ApplyDisable(x) \/ ApplyEnable(x)
      BY <3>3, ActivationSurvives
    <3>4. CASE ApplySkillLibraryBatch(x) \/ ApplyAccept(x) \/ ApplySkillAdoption(x) \/ DeleteStateHome(x)
      BY <3>4 DEF ApplySkillLibraryBatch, ApplyAccept, ApplySkillAdoption, DeleteStateHome, Survives
    <3>5. CASE UninstallPackage(x)
      <4>1. PICK id \in DOMAIN st.installs : RemovePackage(id, plans[x].force)
        BY <3>5, UninstallPackageIs
      <4>2. plans[x].force => Overwrites
        BY <3>5 DEF Overwrites, UninstallPackage
      <4> QED
        BY <4>1, <4>2, RemovalSurvives
    <3> QED
      BY <2>2, <3>1, <3>2, <3>3, <3>4, <3>5 DEF Applies
  <2>3. ASSUME NEW force \in BOOLEAN, ApplyRemove(force) PROVE Survives
    <3>1. PICK id \in DOMAIN st.installs : RemovePackage(id, force)
      BY <2>3 DEF ApplyRemove
    <3>2. force => Overwrites
      BY <2>3 DEF Overwrites
    <3> QED
      BY <3>1, <3>2, RemovalSurvives
  <2>4. ASSUME Outside PROVE FALSE
    BY <2>4 DEF Outside, UserEdits, UserEditsLibrary, UpstreamMoves, Committed
  <2> QED
    BY <2>1, <2>2, <2>3, <2>4 DEF Next
<1>2. [Committed => Survives]_vars => [Committed => \A t \in Targets : disk'[t] # disk[t] =>
         disk[t] = Nothing \/ Accounted(t) \/ Overwrites]_vars
  BY DEF Survives
<1> QED
  BY <1>1, <1>2, ManagedInvariant, PTL DEF Spec, UnrecordedBytesSurvive
\* An update that is applied replaces active, unedited trees, or fills empty targets
\* that the package's record does not name, whatever happened since it was prepared,
\* and disables or enables no skill.
LEMMA UpdateIs ==
  ASSUME MInv, NEW x \in Processes, ApplyPackageUpdate(x)
  PROVE  /\ DisabledKeys(st') = DisabledKeys(st)
         /\ \A t \in Targets : disk'[t] # disk[t] => Unedited(plans[x].id, t) \/ Vacant(plans[x].id, t)
<1> DEFINE plan == plans[x]
           batch == plan.batch
           id == plan.id
<1>1. /\ plan.op = "update" /\ CurrentStateValid(plan) /\ TargetsFree(st, disk, batch, TRUE)
      /\ disk' = Copied(disk, batch) /\ st' = RecordInstall(st, batch, disk')
  BY DEF ApplyPackageUpdate
<1>2. BatchOK(batch) /\ DOMAIN batch = {id} /\ NoneDisabled(plan.activations)
  BY <1>1 DEF MInv, CommandsOK, PlanOK, WithBatch
<1>3. BatchTargets(batch) = batch[id].targets /\ id \in Ids /\ batch[id].targets \subseteq Targets
  BY <1>2 DEF BatchTargets, BatchOK
<1>4. disk \in [Targets -> Trees] /\ StateOK(st)
  BY DEF MInv, WorldOK
<1>5. ASSUME NEW t \in batch[id].targets PROVE Unedited(id, t) \/ Vacant(id, t)
  <2>1. /\ id \in DOMAIN st.installs /\ Record(id) = plan.record
        /\ disk[t] = IF t \in DOMAIN plan.record.files THEN plan.record.files[t] ELSE Nothing
    BY <1>1 DEF CurrentStateValid
  <2>2. CASE t \in DOMAIN plan.record.files
    <3>1. disk[t] # Nothing
      BY <1>4, <2>1, <2>2 DEF StateOK, Record
    <3>2. MayReplace(st, disk, id, t)
      BY <1>1, <1>2, <3>1 DEF TargetsFree
    <3> QED
      BY <3>2 DEF MayReplace, Unedited, Record
  <2>3. CASE t \notin DOMAIN plan.record.files
    BY <2>1, <2>3 DEF Vacant
  <2> QED
    BY <2>2, <2>3
<1>6. Installs(st, batch, disk')
  BY <1>1, <1>2, <1>4, CopiedIs DEF Installs
<1>7. ASSUME NEW k \in BatchKeys(batch), k \in DisabledKeys(st) PROVE FALSE
  <2>1. IdOf(k) = id
    BY <1>2, <1>7, BatchKeysAre
  <2>2. k \in KeysOf(st, id) /\ st.activations[k].installed /\ ~st.activations[k].active
    BY <1>7, <2>1 DEF DisabledKeys, KeysOf
  <2>3. Restrict(st.activations, KeysOf(st, id)) = plan.activations
    BY <1>1 DEF CurrentStateValid
  <2>4. k \in DOMAIN plan.activations /\ plan.activations[k] = st.activations[k]
    BY <2>2, <2>3 DEF Restrict
  <2> HIDE DEF plan
  <2> QED
    BY <1>2, <2>2, <2>4 DEF NoneDisabled
<1>8. DisabledKeys(st') = DisabledKeys(st)
  <2>1. /\ DOMAIN st'.activations = BatchKeys(batch) \cup DOMAIN st.activations
        /\ \A k \in BatchKeys(batch) : st'.activations[k] = ActiveRecord
        /\ \A k \in DOMAIN st.activations \ BatchKeys(batch) : st'.activations[k] = st.activations[k]
    BY <1>1, <1>6, RecordInstallIs
  <2>2. \A k \in BatchKeys(batch) : k \notin DisabledKeys(st) /\ k \notin DisabledKeys(st')
    BY <1>7, <2>1, ActiveRecordIs DEF DisabledKeys
  <2> HIDE DEF batch
  <2>3. \A k : k \in DisabledKeys(st') <=> k \in DisabledKeys(st)
    BY <2>1, <2>2 DEF DisabledKeys
  <2> QED
    BY <2>3
<1>9. ASSUME NEW t \in Targets, disk'[t] # disk[t] PROVE Unedited(id, t) \/ Vacant(id, t)
  <2>1. t \in batch[id].targets
    BY <1>1, <1>2, <1>3, <1>4, <1>9, CopiedIs
  <2> HIDE DEF batch, id
  <2> QED
    BY <1>5, <2>1
<1> QED
  BY <1>8, <1>9
-----------------------------------------------------------------------------
(* No command makes a package drift *)

\* Intact and SoleOwner, of any state.
IntactIn(s, d, l, id) == \A t \in TrackedTargets(s, id) : ReadTree(s, d, l, id, t) = s.installs[id].files[t]
SoleIn(s, id) ==
  \A t \in TrackedTargets(s, id), other \in DOMAIN s.installs \ {id} :
    ReadsLibrary(s, id, t) \/ ReadsLibrary(s, other, t) \/ t \notin TrackedTargets(s, other)

LEMMA SoleIs ==
  ASSUME NEW s, NEW id, SoleIn(s, id), NEW t \in TrackedTargets(s, id), ~ReadsLibrary(s, id, t),
         NEW other, other # id, ~ReadsLibrary(s, other, t), t \in TrackedTargets(s, other)
  PROVE  FALSE
BY DEF SoleIn, TrackedTargets

\* A package reads what it read before: its unit is as it was, and so is its tree.
LEMMA SameReading ==
  ASSUME NEW s, NEW d, NEW l, NEW new, NEW dd, NEW ll, NEW id, NEW t,
         ReadsLibrary(new, id, t) = ReadsLibrary(s, id, t),
         ReadsLibrary(s, id, t) => LibraryTree(ll, Key(id, t)) = LibraryTree(l, Key(id, t)),
         ~ReadsLibrary(s, id, t) => dd[t] = d[t]
  PROVE  ReadTree(new, dd, ll, id, t) = ReadTree(s, d, l, id, t)
BY DEF ReadTree

LEMMA SameActivation ==
  ASSUME NEW s, NEW new, NEW k,
         k \in DOMAIN new.activations <=> k \in DOMAIN s.activations,
         k \in DOMAIN s.activations => new.activations[k] = s.activations[k]
  PROVE  (k \in DisabledKeys(new)) = (k \in DisabledKeys(s))
BY DEF DisabledKeys

\* A package of the batch that was just recorded is exactly what lies there.
LEMMA RecordedIsExact ==
  ASSUME NEW s, NEW batch, NEW d, Installs(s, batch, d), NEW id \in DOMAIN batch, NEW t
  PROVE  LET new == RecordInstall(s, batch, d) IN
         /\ t \in DOMAIN new.installs[id].files <=> t \in batch[id].targets
         /\ t \in batch[id].targets =>
              /\ Key(id, t) \in DOMAIN new.activations /\ new.activations[Key(id, t)] = ActiveRecord
              /\ new.installs[id].files[t] = d[t] /\ ~ReadsLibrary(new, id, t)
<1> DEFINE new == RecordInstall(s, batch, d)
           f == [u \in batch[id].targets |-> d[u]]
<1>1. new.installs[id] = [commit |-> batch[id].commit, files |-> f]
  BY RecordInstallIs
<1>2. new.installs[id].files = f
  BY <1>1
<1>3. t \in batch[id].targets => Key(id, t) \in BatchKeys(batch)
  BY DEF BatchKeys
<1>4. t \in batch[id].targets => /\ Key(id, t) \in DOMAIN new.activations
                                 /\ new.activations[Key(id, t)] = ActiveRecord
  BY <1>3, RecordInstallIs
<1> HIDE DEF new
<1>5. t \in batch[id].targets => ~ReadsLibrary(new, id, t)
  BY <1>4, ActiveRecordIs DEF ReadsLibrary, DisabledKeys
<1> QED
  BY <1>2, <1>4, <1>5 DEF new

\* A package outside of the batch is recorded as it was.
LEMMA OthersAreAsRecorded ==
  ASSUME NEW s, NEW batch, NEW d, Installs(s, batch, d), NEW id \in DOMAIN s.installs \ DOMAIN batch,
         NEW t \in Targets
  PROVE  LET new == RecordInstall(s, batch, d) IN
         /\ new.installs[id] = s.installs[id]
         /\ Key(id, t) \in DOMAIN new.activations <=> Key(id, t) \in DOMAIN s.activations
         /\ Key(id, t) \in DOMAIN s.activations => new.activations[Key(id, t)] = s.activations[Key(id, t)]
         /\ ReadsLibrary(new, id, t) = ReadsLibrary(s, id, t)
<1> DEFINE new == RecordInstall(s, batch, d)
           k == Key(id, t)
<1>1. k \notin BatchKeys(batch)
  <2>1. IdOf(k) = id
    BY KeyParts
  <2> QED
    BY <2>1, BatchKeysAre DEF Installs
<1>2. /\ new.installs[id] = s.installs[id]
      /\ k \in DOMAIN new.activations <=> k \in DOMAIN s.activations
      /\ k \in DOMAIN s.activations => new.activations[k] = s.activations[k]
  BY <1>1, RecordInstallIs
<1> HIDE DEF new
<1>3. ReadsLibrary(new, id, t) = ReadsLibrary(s, id, t)
  BY <1>2, SameActivation DEF ReadsLibrary
<1> QED
  BY <1>2, <1>3 DEF new

\* What a reconciliation leaves of a package that keeps a unit.
LEMMA ReconciliationLeaves ==
  ASSUME NEW s, StateOK(s), NEW obsolete, NEW id \in DOMAIN s.installs, NEW t \in DOMAIN s.installs[id].files,
         Key(id, t) \in DOMAIN s.activations, Key(id, t) \notin obsolete, s.activations[Key(id, t)].installed
  PROVE  LET new == RecordReconciliation(s, obsolete) IN t \in TrackedTargets(new, id)
<1> DEFINE new == RecordReconciliation(s, obsolete)
           k == Key(id, t)
           kept == Without(s.activations, obsolete)
           affected == {IdOf(j) : j \in obsolete}
           Left(i) == {j \in DOMAIN kept : IdOf(j) = i /\ kept[j].installed}
           Remaining(i) == {TargetOf(j) : j \in Left(i)}
           staying == {i \in DOMAIN s.installs : i \notin affected \/ Remaining(i) # {}}
           Cut(i) == IF i \in affected
                     THEN [s.installs[i] EXCEPT !.files = Restrict(@, DOMAIN @ \cap Remaining(i))]
                     ELSE s.installs[i]
<1>1. new = [installs |-> [i \in staying |-> Cut(i)], activations |-> kept]
  BY DEF RecordReconciliation
<1>2. DOMAIN kept = DOMAIN s.activations \ obsolete /\ \A j \in DOMAIN kept : kept[j] = s.activations[j]
  BY DEF Without, Restrict
<1>3. IdOf(k) = id /\ TargetOf(k) = t
  <2>1. s.installs[id] \in InstallRecords
    BY DEF StateOK, IsPartial
  <2>2. t \in Targets
    BY <2>1, RecordFields
  <2> QED
    BY <2>2, KeyParts
<1>4. k \in Left(id)
  BY <1>2, <1>3
<1>5. t \in Remaining(id)
  BY <1>3, <1>4
<1>6. id \in staying
  BY <1>5
<1>7. t \in DOMAIN Cut(id).files
  <2> DEFINE r == s.installs[id]
             S == DOMAIN r.files \cap Remaining(id)
  <2>1. r = [commit |-> r.commit, files |-> r.files]
    BY RecordFields DEF StateOK, IsPartial
  <2>2. t \in S
    BY <1>5
  <2>3. t \in DOMAIN Restrict(r.files, S)
    BY <2>2 DEF Restrict
  <2>4. Cut(id) = IF id \in affected THEN [r EXCEPT !.files = Restrict(r.files, S)] ELSE r
    OBVIOUS
  <2>5. t \in DOMAIN r.files
    OBVIOUS
  <2> HIDE DEF Cut, r, S, affected
  <2>6. CASE id \in affected
    <3>1. Cut(id).files = Restrict(r.files, S)
      BY <2>1, <2>4, <2>6
    <3> QED
      BY <2>3, <3>1
  <2>7. CASE id \notin affected
    BY <2>4, <2>5, <2>7
  <2> QED
    BY <2>6, <2>7
<1> HIDE DEF Cut, staying, kept
<1>8. DOMAIN new.installs = staying /\ new.installs[id] = Cut(id)
  BY <1>1, <1>6
<1> HIDE DEF new
<1> QED
  BY <1>6, <1>7, <1>8 DEF TrackedTargets, new
\* A package that was intact, and owns its targets alone before and after.
Untouched(id) ==
  /\ id \in DOMAIN st.installs /\ id \in DOMAIN st'.installs
  /\ IntactIn(st, disk, library, id) /\ SoleIn(st, id) /\ SoleIn(st', id)

LEMMA TrackedAre ==
  ASSUME MInv, NEW id, NEW t \in TrackedTargets(st, id)
  PROVE  id \in DOMAIN st.installs /\ id \in Ids /\ t \in DOMAIN st.installs[id].files /\ t \in Targets
<1>1. id \in DOMAIN st.installs /\ t \in DOMAIN st.installs[id].files
  BY DEF TrackedTargets
<1>2. id \in Ids /\ st.installs[id] \in InstallRecords
  BY <1>1 DEF MInv, WorldOK, StateOK, IsPartial
<1> QED
  BY <1>1, <1>2, RecordFields

\* The trees a profile retires are those of the packages that own them.
LEMMA RetiredAre ==
  ASSUME MInv, NEW x \in Processes, Copies(x), NEW k \in Retired(plans[x])
  PROVE  /\ plans[x].op = "profile" /\ k \in ActiveKeys(st) /\ k \in Keys
         /\ TargetOf(k) \notin BatchTargets(plans[x].batch)
         /\ TargetOf(k) \in TrackedTargets(st, IdOf(k))
<1> DEFINE plan == plans[x]
<1>1. plan.op \in {"profile", "additive"} /\ k \in plan.obsolete
  BY DEF Retired
<1>2. plan.op = "profile"
  BY <1>1 DEF MInv, CommandsOK, PlanOK
<1>3. ApplySkillInstallBatch(x)
  BY <1>2 DEF Copies, ApplySkillInstall, ApplyPackageUpdate, ApplyReconcilePlan, ApplySyncPlan
<1>4. ReconciliationPossible(st, disk, plan.batch, plan.agents) /\ k \in ObsoleteKeys(st, plan.batch, plan.agents)
  BY <1>1, <1>2, <1>3 DEF ApplySkillInstallBatch
<1>5. k \in ActiveKeys(st) /\ TargetOf(k) \notin BatchTargets(plan.batch)
  BY <1>4 DEF ObsoleteKeys
<1>6. k \in Keys
  BY <1>5 DEF ActiveKeys, MInv, WorldOK, StateOK, IsPartial
<1> QED
  BY <1>2, <1>4, <1>5, <1>6 DEF ReconciliationPossible

LEMMA CopiesExact ==
  ASSUME MInv, NEW x \in Processes, Copies(x), NEW id, Untouched(id)
  PROVE  IntactIn(st', disk', library', id)
<1> DEFINE plan == plans[x]
           batch == plan.batch
           new == RecordInstall(st, batch, disk')
           gone == Retired(plan)
<1>1. /\ plan.op \in CopyingOps /\ UNCHANGED library /\ disk' = Copied(Cleared(plan), batch)
      /\ st' = IF plan.op \in {"profile", "additive"}
               THEN RecordReconciliation(new, plan.obsolete) ELSE new
  BY CopiesAre
<1>2. BatchOK(batch)
  BY <1>1, BatchIsOK DEF CopyingOps, WithBatch
<1>3. Cleared(plan) \in [Targets -> Trees]
  BY EmptiedIs DEF Cleared, MInv, WorldOK
<1>4. Installs(st, batch, disk') /\ StateOK(new)
  BY <1>1, <1>2, <1>3, CopyingKeeps DEF MInv
\* What st' holds is what new holds, less what is retired.
<1>5. /\ \A i \in DOMAIN st'.installs :
           /\ i \in DOMAIN new.installs
           /\ DOMAIN st'.installs[i].files \subseteq DOMAIN new.installs[i].files
           /\ \A t \in DOMAIN st'.installs[i].files : st'.installs[i].files[t] = new.installs[i].files[t]
           /\ \A k \in gone : IdOf(k) = i => TargetOf(k) \notin DOMAIN st'.installs[i].files
      /\ DOMAIN st'.activations = DOMAIN new.activations \ gone
      /\ \A k \in DOMAIN st'.activations : st'.activations[k] = new.activations[k]
  <2>1. CASE plan.op \in {"profile", "additive"}
    <3>1. gone = plan.obsolete /\ st' = RecordReconciliation(new, plan.obsolete)
      BY <1>1, <2>1 DEF Retired
    <3>2. \A k \in gone : k \in Keys
      BY RetiredAre
    <3> HIDE DEF new, plan, gone
    <3> QED
      BY <1>4, <3>1, <3>2, ReconciliationIs
  <2>2. CASE plan.op \notin {"profile", "additive"}
    BY <1>1, <2>2 DEF Retired
  <2> QED
    BY <2>1, <2>2
<1>6. ASSUME NEW i \in DOMAIN new.installs, NEW t \in DOMAIN new.installs[i].files,
             Key(i, t) \in DOMAIN new.activations, Key(i, t) \notin gone, new.activations[Key(i, t)].installed
      PROVE  t \in TrackedTargets(st', i)
  <2>1. CASE plan.op \in {"profile", "additive"}
    <3>1. gone = plan.obsolete /\ st' = RecordReconciliation(new, plan.obsolete)
      BY <1>1, <2>1 DEF Retired
    <3> HIDE DEF new, plan, gone
    <3> QED
      BY <1>4, <1>6, <3>1, ReconciliationLeaves
  <2>2. CASE plan.op \notin {"profile", "additive"}
    BY <1>1, <2>2 DEF TrackedTargets
  <2> QED
    BY <2>1, <2>2
<1>7. \A i, t : ReadsLibrary(st', i, t) =>
        ReadsLibrary(new, i, t)
  BY <1>5 DEF ReadsLibrary, DisabledKeys
<1> SUFFICES ASSUME NEW t \in TrackedTargets(st', id)
             PROVE  ReadTree(st', disk', library', id, t) = st'.installs[id].files[t]
  BY DEF IntactIn
<1>8. /\ t \in DOMAIN st'.installs[id].files /\ id \in DOMAIN new.installs /\ t \in DOMAIN new.installs[id].files
      /\ st'.installs[id].files[t] = new.installs[id].files[t]
      /\ \A k \in gone : IdOf(k) = id => TargetOf(k) # t
  <2>1. id \in DOMAIN st'.installs /\ t \in DOMAIN st'.installs[id].files
    BY DEF TrackedTargets
  <2> HIDE DEF new, gone
  <2> QED
    BY <1>5, <2>1
<1>9. CASE id \in DOMAIN batch
  <2>1. new.installs[id].files[t] = disk'[t] /\ ~ReadsLibrary(new, id, t)
    BY <1>4, <1>8, <1>9, RecordedIsExact
  <2> QED
    BY <1>7, <1>8, <2>1 DEF ReadTree
<1>10. CASE id \notin DOMAIN batch
  <2>1. id \in DOMAIN st.installs \ DOMAIN batch
    BY <1>10 DEF Untouched
  <2>2. t \in Targets
    <3>1. StateOK(new) /\ id \in DOMAIN new.installs /\ t \in DOMAIN new.installs[id].files
      BY <1>4, <1>8
    <3>2. new.installs[id] \in InstallRecords
      BY <3>1 DEF StateOK, IsPartial
    <3> HIDE DEF new
    <3> QED
      BY <3>1, <3>2, RecordFields
  <2>3. /\ new.installs[id] = st.installs[id] /\ ReadsLibrary(new, id, t) = ReadsLibrary(st, id, t)
        /\ Key(id, t) \in DOMAIN new.activations <=> Key(id, t) \in DOMAIN st.activations
        /\ Key(id, t) \in DOMAIN st.activations => new.activations[Key(id, t)] = st.activations[Key(id, t)]
    BY <1>4, <2>1, <2>2, OthersAreAsRecorded
  <2>4. t \in TrackedTargets(st, id) /\ st'.installs[id].files[t] = st.installs[id].files[t]
    BY <1>8, <2>1, <2>3 DEF TrackedTargets
  <2>5. Key(id, t) \notin gone
    BY <1>8, <2>2, KeyParts
  <2>6. ReadsLibrary(st', id, t) = ReadsLibrary(st, id, t)
    <3> HIDE DEF new, gone
    <3>1. Key(id, t) \in DOMAIN st'.activations <=> Key(id, t) \in DOMAIN st.activations
      BY <1>5, <2>3, <2>5
    <3>2. Key(id, t) \in DOMAIN st.activations => st'.activations[Key(id, t)] = st.activations[Key(id, t)]
      BY <1>5, <2>3, <3>1
    <3> QED
      BY <3>1, <3>2, SameActivation DEF ReadsLibrary
  <2>7. ASSUME ~ReadsLibrary(st, id, t) PROVE disk'[t] = disk[t]
    <3>1. t \notin BatchTargets(batch)
      <4> SUFFICES ASSUME t \in BatchTargets(batch) PROVE FALSE
        OBVIOUS
      <4>1. PICK other \in DOMAIN batch : t \in batch[other].targets
        BY DEF BatchTargets
      <4>2. /\ t \in DOMAIN new.installs[other].files
            /\ Key(other, t) \in DOMAIN new.activations /\ new.activations[Key(other, t)] = ActiveRecord
            /\ ~ReadsLibrary(new, other, t)
        BY <1>4, <4>1, RecordedIsExact
      <4>3. Key(other, t) \notin gone
        <5>1. TargetOf(Key(other, t)) = t
          BY <2>2, KeyParts
        <5> QED
          BY <5>1, RetiredAre
      <4>4. other \in DOMAIN new.installs
        BY <1>4, <4>1, RecordInstallIs
      <4>5. t \in TrackedTargets(st', other)
        BY <1>6, <4>2, <4>3, <4>4, ActiveRecordIs
      <4> HIDE DEF new
      <4> QED
        BY <1>7, <1>10, <2>6, <2>7, <4>1, <4>2, <4>5, SoleIs DEF Untouched
    <3>2. disk'[t] = Cleared(plan)[t]
      BY <1>1, <1>2, <1>3, <2>2, <3>1, CopiedIs
    <3>3. ASSUME NEW k \in gone, TargetOf(k) = t PROVE FALSE
      <4>1. k \in ActiveKeys(st) /\ t \in TrackedTargets(st, IdOf(k)) /\ k \in Keys
        BY <3>3, RetiredAre
      <4>2. IdOf(k) # id
        BY <1>8, <3>3
      <4>3. ~ReadsLibrary(st, IdOf(k), t)
        BY <3>3, <4>1, KeyParts DEF ReadsLibrary, ActiveKeys, DisabledKeys
      <4> QED
        BY <2>4, <2>7, <4>1, <4>2, <4>3, SoleIs DEF Untouched
    <3>4. t \notin {TargetOf(k) : k \in gone}
      BY <3>3
    <3> QED
      BY <2>2, <3>2, <3>4, EmptiedIs DEF Cleared, MInv, WorldOK
  <2>8. ReadTree(st', disk', library', id, t) = ReadTree(st, disk, library, id, t)
    BY <1>1, <2>6, <2>7, SameReading
  <2> QED
    BY <2>4, <2>8 DEF Untouched, IntactIn
<1> QED
  BY <1>9, <1>10
LEMMA AdoptionExact ==
  ASSUME MInv, NEW x \in Processes, ApplySkillAdoption(x), NEW id, Untouched(id)
  PROVE  IntactIn(st', disk', library', id)
<1> DEFINE batch == plans[x].batch
<1>1. Installs(st, batch, disk) /\ st' = RecordInstall(st, batch, disk) /\ UNCHANGED <<disk, library>>
  BY AdoptionKeeps DEF ApplySkillAdoption
<1> SUFFICES ASSUME NEW t \in TrackedTargets(st', id)
             PROVE  ReadTree(st', disk', library', id, t) = st'.installs[id].files[t]
  BY DEF IntactIn
<1>2. t \in DOMAIN st'.installs[id].files
  BY DEF TrackedTargets
<1>3. CASE id \in DOMAIN batch
  <2>1. st'.installs[id].files[t] = disk[t] /\ ~ReadsLibrary(st', id, t)
    BY <1>1, <1>2, <1>3, RecordedIsExact
  <2> QED
    BY <1>1, <2>1 DEF ReadTree
<1>4. CASE id \notin DOMAIN batch
  <2>1. id \in DOMAIN st.installs \ DOMAIN batch
    BY <1>4 DEF Untouched
  <2>2. st'.installs[id] = st.installs[id]
    BY <1>1, <2>1, RecordInstallIs
  <2>3. t \in TrackedTargets(st, id)
    BY <1>2, <2>1, <2>2 DEF TrackedTargets
  <2>4. ReadsLibrary(st', id, t) = ReadsLibrary(st, id, t)
    BY <1>1, <2>1, <2>3, TrackedAre, OthersAreAsRecorded
  <2>5. ReadTree(st', disk', library', id, t) = ReadTree(st, disk, library, id, t)
    BY <1>1, <2>4, SameReading
  <2> QED
    BY <2>2, <2>3, <2>5 DEF Untouched, IntactIn
<1> QED
  BY <1>3, <1>4

LEMMA LibraryBatchExact ==
  ASSUME MInv, NEW x \in Processes, ApplySkillLibraryBatch(x), NEW id, Untouched(id), ~ForgetsAccepted(id)
  PROVE  IntactIn(st', disk', library', id)
<1> DEFINE batch == plans[x].batch
<1>1. /\ BatchOK(batch) /\ Downloads(st, batch, library') /\ KeepsActive(batch)
      /\ st' = RecordLibraryInstall(st, batch, library') /\ UNCHANGED disk
      /\ library' = Downloaded(batch, plans[x].agents)
  BY LibraryBatchIs DEF ApplySkillLibraryBatch
<1>2. \A i \in DOMAIN batch : batch[i].commit = batch[i].tree
  BY DEF ApplySkillLibraryBatch, MInv, CommandsOK, PlanOK
<1>3. /\ DOMAIN st'.activations = BatchKeys(batch) \cup DOMAIN st.activations
      /\ \A k \in DOMAIN st.activations \ BatchKeys(batch) : st'.activations[k] = st.activations[k]
      /\ \A k \in BatchKeys(batch) :
           st'.activations[k] = [cached |-> TRUE, installed |-> TRUE, active |-> k \in ActiveKeys(st), lib |-> library'[k]]
      /\ \A i \in DOMAIN st.installs \ DOMAIN batch : st'.installs[i] = st.installs[i]
  BY <1>1, RecordLibraryInstallIs
<1>4. /\ \A k \in BatchKeys(batch) : k \in DOMAIN library' /\ library'[k] = batch[IdOf(k)].tree
      /\ \A k \in DOMAIN library : IdOf(k) \notin DOMAIN batch => k \in DOMAIN library' /\ library'[k] = library[k]
      /\ \A k \in DOMAIN library' : IdOf(k) \notin DOMAIN batch => k \in DOMAIN library
  BY <1>1, DownloadedIs
<1> SUFFICES ASSUME NEW t \in TrackedTargets(st', id)
             PROVE  ReadTree(st', disk', library', id, t) = st'.installs[id].files[t]
  BY DEF IntactIn
<1>5. t \in DOMAIN st'.installs[id].files
  BY DEF TrackedTargets
<1> DEFINE k == Key(id, t)
<1>6. CASE id \in DOMAIN batch
  <2> DEFINE f == [u \in batch[id].targets |-> library'[Key(id, u)]]
  <2>1. st'.installs[id] = [commit |-> batch[id].commit, files |-> f]
    BY <1>1, <1>6, RecordLibraryInstallIs
  <2>2. st'.installs[id].files = f
    BY <2>1
  <2>3. t \in batch[id].targets /\ st'.installs[id].files[t] = library'[k]
    BY <1>5, <2>2
  <2>4. t \in Targets /\ id \in Ids
    BY <1>1, <1>6, <2>3 DEF BatchOK
  <2>5. k \in BatchKeys(batch) /\ IdOf(k) = id /\ TargetOf(k) = t
    BY <1>6, <2>3, <2>4, KeyParts DEF BatchKeys
  <2> HIDE DEF f, k
  <2>6. /\ k \in DOMAIN st'.activations
        /\ st'.activations[k].installed = TRUE /\ st'.activations[k].active = (k \in ActiveKeys(st))
    <3>1. st'.activations[k] = [cached |-> TRUE, installed |-> TRUE, active |-> k \in ActiveKeys(st), lib |-> library'[k]]
      BY <1>3, <2>5
    <3> QED
      BY <1>3, <2>5, <3>1
  <2>7. CASE k \in ActiveKeys(st)
    <3>1. ~ReadsLibrary(st', id, t)
      BY <2>6, <2>7 DEF ReadsLibrary, DisabledKeys, k
    <3>2. ~ReadsLibrary(st, id, t)
      BY <2>7 DEF ReadsLibrary, DisabledKeys, ActiveKeys, k
    <3>3. Backed(k) /\ Record(id).files[t] = Commit(id)
      BY <1>6, <2>5, <2>7 DEF ForgetsAccepted
    <3>4. disk[t] = Commit(id)
      <4>1. t \in TrackedTargets(st, id)
        BY <2>5, <3>3 DEF Backed
      <4> QED
        BY <3>2, <3>3, <4>1 DEF Untouched, IntactIn, ReadTree, Record
    <3>5. Commit(id) = batch[id].commit
      BY <1>1, <1>6, <2>5, <2>7 DEF KeepsActive, Commit, Record
    <3>6. library'[k] = batch[id].tree
      BY <1>4, <2>5
    <3>7. disk'[t] = library'[k]
      BY <1>1, <1>2, <1>6, <3>4, <3>5, <3>6
    <3> QED
      BY <2>3, <3>1, <3>7 DEF ReadTree
  <2>8. CASE k \notin ActiveKeys(st)
    <3>1. ReadsLibrary(st', id, t)
      BY <2>6, <2>8 DEF ReadsLibrary, DisabledKeys, k
    <3>2. k \in DOMAIN library'
      BY <1>4, <2>5
    <3> QED
      BY <2>3, <3>1, <3>2 DEF ReadTree, LibraryTree, k
  <2> QED
    BY <2>7, <2>8
<1>7. CASE id \notin DOMAIN batch
  <2>1. id \in DOMAIN st.installs /\ st'.installs[id] = st.installs[id]
    BY <1>3, <1>7 DEF Untouched
  <2>2. t \in TrackedTargets(st, id)
    BY <1>5, <2>1 DEF TrackedTargets
  <2>3. IdOf(k) = id /\ k \notin BatchKeys(batch)
    BY <1>1, <1>7, <2>2, TrackedAre, KeyParts, BatchKeysAre
  <2>4. ReadsLibrary(st', id, t) = ReadsLibrary(st, id, t)
    BY <1>3, <2>3, SameActivation DEF ReadsLibrary
  <2>5. LibraryTree(library', k) = LibraryTree(library, k)
    BY <1>4, <1>7, <2>3 DEF LibraryTree
  <2>6. ReadTree(st', disk', library', id, t) = ReadTree(st, disk, library, id, t)
    BY <1>1, <2>4, <2>5, SameReading
  <2> QED
    BY <2>1, <2>2, <2>6 DEF Untouched, IntactIn
<1> QED
  BY <1>6, <1>7

LEMMA DisableExact ==
  ASSUME MInv, NEW x \in Processes, ApplyDisable(x), NEW id, Untouched(id)
  PROVE  IntactIn(st', disk', library', id)
<1> DEFINE keys == plans[x].keys
<1> SUFFICES ASSUME NEW t \in TrackedTargets(st', id)
             PROVE  ReadTree(st', disk', library', id, t) = st'.installs[id].files[t]
  BY DEF IntactIn
<1> DEFINE k == Key(id, t)
<1>1. st'.installs = st.installs
  BY DisableIs
<1>2. t \in TrackedTargets(st, id) /\ t \in Targets /\ IdOf(k) = id /\ TargetOf(k) = t /\ k \in Keys
  BY <1>1, TrackedAre, KeyParts DEF TrackedTargets
<1>3. ASSUME NEW j \in keys
      PROVE  /\ j \in Keys /\ j \in DOMAIN st.activations /\ st.activations[j] \in Activations
             /\ st.activations[j].installed /\ st.activations[j].active
             /\ TargetOf(j) \in TrackedTargets(st, IdOf(j))
             /\ disk[TargetOf(j)] = st.installs[IdOf(j)].files[TargetOf(j)]
  BY RevalidatedIs DEF ApplyDisable, TrackedTargets
<1> HIDE DEF k
<1>4. CASE k \in keys
  <2>1. st'.activations[k] = Disabled(st.activations[k], disk[t]) /\ k \in DOMAIN st'.activations
    BY <1>2, <1>3, <1>4, DisableIs
  <2>2. st'.activations[k].installed /\ ~st'.activations[k].active
    <3>1. st.activations[k] \in Activations /\ st.activations[k].installed
      BY <1>3, <1>4
    <3> QED
      BY <2>1, <3>1 DEF Disabled, Activations
  <2>3. ReadsLibrary(st', id, t)
    BY <2>1, <2>2 DEF ReadsLibrary, DisabledKeys, k
  <2>4. k \in DOMAIN library' /\ library'[k] = disk[t]
    BY <1>2, <1>4, DisableIs
  <2>5. ReadTree(st', disk', library', id, t) = disk[t]
    BY <2>3, <2>4 DEF ReadTree, LibraryTree, k
  <2> QED
    BY <1>1, <1>2, <1>3, <1>4, <2>5
<1>5. CASE k \notin keys
  <2>1. ReadsLibrary(st', id, t) = ReadsLibrary(st, id, t)
    <3>1. DOMAIN st'.activations = DOMAIN st.activations
          /\ (k \in DOMAIN st.activations => st'.activations[k] = st.activations[k])
      BY <1>5, DisableIs
    <3>2. (k \in DisabledKeys(st')) = (k \in DisabledKeys(st))
      BY <3>1, SameActivation
    <3> QED
      BY <3>2 DEF ReadsLibrary, k
  <2>2. LibraryTree(library', k) = LibraryTree(library, k)
    BY <1>5, DisableIs DEF LibraryTree
  <2>3. ASSUME ~ReadsLibrary(st, id, t) PROVE disk'[t] = disk[t]
    <3>1. ASSUME NEW j \in keys, TargetOf(j) = t PROVE FALSE
      <4>1. IdOf(j) # id
        BY <1>3, <1>5, <3>1, KeyParts DEF k
      <4>2. j = Key(IdOf(j), t)
        BY <1>3, <3>1, KeyParts
      <4>3. j \notin DisabledKeys(st)
        BY <1>3 DEF DisabledKeys
      <4>4. ~ReadsLibrary(st, IdOf(j), t)
        BY <4>2, <4>3 DEF ReadsLibrary
      <4>5. t \in TrackedTargets(st, IdOf(j))
        BY <1>3, <3>1
      <4> QED
        BY <1>2, <2>3, <4>1, <4>4, <4>5, SoleIs DEF Untouched
    <3> DEFINE S == {TargetOf(j) : j \in keys}
    <3>2. t \notin S
      BY <3>1
    <3>3. disk' = Emptied(disk, S) /\ disk \in [Targets -> Trees]
      BY DisableIs DEF MInv, WorldOK
    <3> HIDE DEF S
    <3> QED
      BY <1>2, <3>2, <3>3, EmptiedIs
  <2>4. ReadTree(st', disk', library', id, t) = ReadTree(st, disk, library, id, t)
    BY <2>1, <2>2, <2>3, SameReading DEF k
  <2> QED
    BY <1>1, <1>2, <2>4 DEF Untouched, IntactIn
<1> QED
  BY <1>4, <1>5
LEMMA EnableExact ==
  ASSUME MInv, NEW x \in Processes, ApplyEnable(x), NEW id, Untouched(id)
  PROVE  IntactIn(st', disk', library', id)
<1> DEFINE keys == plans[x].keys
<1> SUFFICES ASSUME NEW t \in TrackedTargets(st', id)
             PROVE  ReadTree(st', disk', library', id, t) = st'.installs[id].files[t]
  BY DEF IntactIn
<1> DEFINE k == Key(id, t)
<1>1. st'.installs = st.installs /\ UNCHANGED library
  BY EnableIs
<1>2. t \in TrackedTargets(st, id) /\ t \in Targets /\ IdOf(k) = id /\ TargetOf(k) = t /\ k \in Keys
  BY <1>1, TrackedAre, KeyParts DEF TrackedTargets
<1>3. ASSUME NEW j \in keys
      PROVE  /\ j \in Keys /\ TargetOf(j) \in TrackedTargets(st', IdOf(j))
             /\ ~ReadsLibrary(st', IdOf(j), TargetOf(j))
  <2>1. /\ j \in Keys /\ st.activations[j] \in Activations /\ TargetOf(j) \in TrackedTargets(st, IdOf(j))
    BY RevalidatedIs DEF ApplyEnable, TrackedTargets
  <2>2. st'.activations[j] = [st.activations[j] EXCEPT !.active = TRUE]
    BY EnableIs
  <2>3. st'.activations[j].active
    BY <2>1, <2>2 DEF Activations
  <2>4. ~ReadsLibrary(st', IdOf(j), TargetOf(j))
    BY <2>1, <2>3, KeyParts DEF ReadsLibrary, DisabledKeys
  <2> QED
    BY <1>1, <2>1, <2>4 DEF TrackedTargets
\* No other package is enabled where this one is active.
<1>4. ASSUME NEW j \in keys, TargetOf(j) = t, ~ReadsLibrary(st', id, t) PROVE IdOf(j) = id /\ j = k
  <2>1. IdOf(j) = id
    BY <1>3, <1>4, SoleIs DEF Untouched
  <2> QED
    BY <1>3, <1>4, <2>1, KeyParts DEF k
<1> HIDE DEF k
<1>5. CASE ~ReadsLibrary(st', id, t) /\ \E j \in keys : TargetOf(j) = t
  <2>1. \E j \in keys : TargetOf(j) = t /\ disk'[t] = st.installs[IdOf(j)].files[t]
    BY <1>2, <1>5, EnableIs
  <2>2. disk'[t] = st.installs[id].files[t]
    BY <1>4, <1>5, <2>1
  <2> QED
    BY <1>1, <1>5, <2>2 DEF ReadTree
<1>6. CASE k \notin keys /\ (ReadsLibrary(st', id, t) \/ \A j \in keys : TargetOf(j) # t)
  <2>1. ReadsLibrary(st', id, t) = ReadsLibrary(st, id, t)
    <3>1. DOMAIN st'.activations = DOMAIN st.activations
          /\ (k \in DOMAIN st.activations => st'.activations[k] = st.activations[k])
      BY <1>6, EnableIs
    <3>2. (k \in DisabledKeys(st')) = (k \in DisabledKeys(st))
      BY <3>1, SameActivation
    <3> QED
      BY <3>2 DEF ReadsLibrary, k
  <2>2. ~ReadsLibrary(st, id, t) => disk'[t] = disk[t]
    BY <1>2, <1>6, <2>1, EnableIs
  <2>3. ReadTree(st', disk', library', id, t) = ReadTree(st, disk, library, id, t)
    BY <1>1, <2>1, <2>2, SameReading DEF k
  <2> QED
    BY <1>1, <1>2, <2>3 DEF Untouched, IntactIn
<1>7. k \in keys => ~ReadsLibrary(st', id, t) /\ \E j \in keys : TargetOf(j) = t
  BY <1>2, <1>3
<1> QED
  BY <1>5, <1>6, <1>7

LEMMA AcceptExact ==
  ASSUME MInv, NEW x \in Processes, ApplyAccept(x), NEW id, Untouched(id)
  PROVE  IntactIn(st', disk', library', id)
<1> DEFINE edited == Edited(plans[x].scope)
<1> SUFFICES ASSUME NEW t \in TrackedTargets(st', id)
             PROVE  ReadTree(st', disk', library', id, t) = st'.installs[id].files[t]
  BY DEF IntactIn
<1> DEFINE files == st.installs[id].files
           Files == [u \in DOMAIN files |-> Accepting(edited, id, u, files[u])]
           k == Key(id, t)
<1>1. id \in DOMAIN st.installs /\ UNCHANGED <<disk, library>>
  BY AcceptIs DEF Untouched
<1>2. st'.installs[id].files = Files
  <2>1. st'.installs[id] = [commit |-> st.installs[id].commit, files |-> Files]
    BY <1>1, AcceptIs
  <2> QED
    BY <2>1
<1>3. t \in DOMAIN files /\ t \in TrackedTargets(st, id)
  BY <1>1, <1>2 DEF TrackedTargets
<1>4. ReadTree(st, disk, library, id, t) = files[t]
  BY <1>3 DEF Untouched, IntactIn
<1>5. Accepting(edited, id, t, files[t]) = files[t]
  <2>1. id \in DOMAIN st.installs /\ t \in DOMAIN st.installs[id].files
    BY <1>1, <1>3
  <2>2. \A scope, old : LET there == ReadTree(st, disk, library, id, t) IN
          there \in {Nothing, st.installs[id].files[t]} => Accepting(Edited(scope), id, t, old) = old
    <3> HIDE DEF k, Files, files, edited
    <3> QED
      BY <2>1, AcceptingIs
  <2> QED
    BY <1>4, <2>2
<1>6. st'.installs[id].files[t] = files[t]
  BY <1>2, <1>3, <1>5
<1>7. (k \in DisabledKeys(st')) = (k \in DisabledKeys(st))
  <2>1. \A j \in DOMAIN st.activations : st.activations[j] \in Activations
    BY DEF MInv, WorldOK, StateOK, IsPartial
  <2>2. DOMAIN st'.activations = DOMAIN st.activations
    BY AcceptIs
  <2>3. ASSUME NEW j \in DOMAIN st.activations
        PROVE  /\ st'.activations[j].installed = st.activations[j].installed
               /\ st'.activations[j].active = st.activations[j].active
    <3> DEFINE lib == Accepting(edited, IdOf(j), TargetOf(j), st.activations[j].lib)
    <3>1. st'.activations[j] = IF ReadsLibrary(st, IdOf(j), TargetOf(j))
                               THEN [st.activations[j] EXCEPT !.lib = lib] ELSE st.activations[j]
      BY AcceptIs
    <3> HIDE DEF lib
    <3> QED
      BY <2>1, <3>1 DEF Activations
  <2>4. k \in DisabledKeys(st') <=> k \in DisabledKeys(st)
    <3> HIDE DEF k
    <3> QED
      BY <2>2, <2>3 DEF DisabledKeys
  <2>5. (k \in DisabledKeys(st')) \in BOOLEAN /\ (k \in DisabledKeys(st)) \in BOOLEAN
    OBVIOUS
  <2> QED
    BY <2>4, <2>5
<1>8. ReadTree(st', disk', library', id, t) = ReadTree(st, disk, library, id, t)
  BY <1>1, <1>7, SameReading DEF ReadsLibrary
<1> QED
  BY <1>4, <1>6, <1>8

LEMMA RemovalExact ==
  ASSUME MInv, NEW gone \in DOMAIN st.installs, NEW force, RemovePackage(gone, force), NEW id, Untouched(id)
  PROVE  IntactIn(st', disk', library', id)
<1> DEFINE drop == PreserveFiles(gone)
           S == {Key(gone, u) : u \in {u \in RemovedFiles(gone) : ReadsLibrary(st, gone, u)}}
           D == {u \in RemovedFiles(gone) : ~ReadsLibrary(st, gone, u)}
<1> SUFFICES ASSUME NEW t \in TrackedTargets(st', id)
             PROVE  ReadTree(st', disk', library', id, t) = st'.installs[id].files[t]
  BY DEF IntactIn
<1> DEFINE k == Key(id, t)
<1>1. /\ st' = ForgetInstall(st, gone, drop) /\ drop \in BOOLEAN
      /\ disk' = Emptied(disk, D) /\ library' = Without(library, S)
  BY DEF RemovePackage, PreserveFiles
<1>2. StateOK(st) /\ disk \in [Targets -> Trees]
  BY DEF MInv, WorldOK
<1>3. RemovedFiles(gone) \subseteq TrackedTargets(st, gone)
  BY DEF RemovedFiles, TrackedTargets, Record
<1> HIDE DEF drop
<1>4. /\ DOMAIN st'.installs = DOMAIN st.installs \ {gone}
      /\ \A i \in DOMAIN st'.installs : st'.installs[i] = st.installs[i]
      /\ DOMAIN st'.activations \subseteq DOMAIN st.activations
      /\ \A j \in DOMAIN st.activations : IdOf(j) # gone =>
           j \in DOMAIN st'.activations /\ st'.activations[j] = st.activations[j]
  BY <1>1, <1>2, ForgetInstallIs
<1>5. id # gone /\ t \in TrackedTargets(st, id) /\ st'.installs[id] = st.installs[id]
  BY <1>4 DEF Untouched, TrackedTargets
<1>6. IdOf(k) = id /\ t \in Targets
  BY <1>5, TrackedAre, KeyParts
<1> HIDE DEF k
<1>7. (k \in DisabledKeys(st')) = (k \in DisabledKeys(st))
  <2>1. /\ k \in DOMAIN st'.activations <=> k \in DOMAIN st.activations
        /\ k \in DOMAIN st.activations => st'.activations[k] = st.activations[k]
    BY <1>4, <1>5, <1>6
  <2> QED
    BY <2>1, SameActivation
<1>8. LibraryTree(library', k) = LibraryTree(library, k)
  <2>1. k \notin S
    <3> SUFFICES ASSUME NEW u \in RemovedFiles(gone), k = Key(gone, u) PROVE FALSE
      OBVIOUS
    <3>1. IdOf(k) = gone
      BY <1>3, TrackedAre, KeyParts
    <3> QED
      BY <1>5, <1>6, <3>1
  <2> HIDE DEF S
  <2> QED
    BY <1>1, <2>1 DEF LibraryTree, Without, Restrict
<1>9. ASSUME ~ReadsLibrary(st, id, t) PROVE disk'[t] = disk[t]
  <2>1. t \notin D
    BY <1>3, <1>5, <1>9, SoleIs DEF Untouched
  <2> HIDE DEF D
  <2> QED
    BY <1>1, <1>2, <1>6, <2>1, EmptiedIs
<1>10. ReadTree(st', disk', library', id, t) = ReadTree(st, disk, library, id, t)
  BY <1>7, <1>8, <1>9, SameReading DEF ReadsLibrary, k
<1> QED
  BY <1>5, <1>10 DEF Untouched, IntactIn
LEMMA StepsAreExact ==
  ASSUME MInv, Next, Committed, NEW id, Untouched(id), ~ForgetsAccepted(id)
  PROVE  IntactIn(st', disk', library', id)
<1>1. ASSUME NEW x \in Processes, Plans(x) PROVE FALSE
  <2>1. applied' = applied
    BY <1>1 DEF Plans, Makes, Drop, PlanInstall, PrepareCatalogInstall, PlanActivationChange, PlanAccept,
                PlanPackageUpdate, PlanSkillAdoption, BuildReconcilePlan, BuildSyncPlan, StartUninstall
  <2> QED
    BY <2>1 DEF Committed
<1>2. ASSUME NEW x \in Processes, Applies(x) PROVE IntactIn(st', disk', library', id)
  <2>1. CASE Copies(x)
    BY <2>1, CopiesExact
  <2>2. CASE ApplySkillLibraryBatch(x)
    BY <2>2, LibraryBatchExact
  <2>3. CASE ApplyDisable(x)
    BY <2>3, DisableExact
  <2>4. CASE ApplyEnable(x)
    BY <2>4, EnableExact
  <2>5. CASE ApplyAccept(x)
    BY <2>5, AcceptExact
  <2>6. CASE ApplySkillAdoption(x)
    BY <2>6, AdoptionExact
  <2>7. CASE UninstallPackage(x)
    BY <2>7, UninstallPackageIs, RemovalExact
  <2>8. CASE DeleteStateHome(x)
    <3>1. DOMAIN st'.installs = {}
      BY <2>8 DEF DeleteStateHome, EmptyState
    <3> QED
      BY <3>1 DEF Untouched
  <2> QED
    BY <1>2, <2>1, <2>2, <2>3, <2>4, <2>5, <2>6, <2>7, <2>8 DEF Applies, Copies
<1>3. ASSUME NEW force \in BOOLEAN, ApplyRemove(force) PROVE IntactIn(st', disk', library', id)
  BY <1>3, RemovalExact DEF ApplyRemove
<1>4. ASSUME Outside PROVE FALSE
  BY <1>4 DEF Outside, UserEdits, UserEditsLibrary, UpstreamMoves, Committed
<1> QED
  BY <1>1, <1>2, <1>3, <1>4 DEF Next

\* What is applied late does what was planned: an update replaces active, unedited
\* trees, fills only empty targets and disables or enables nothing, and no command makes a package drift that
\* was intact (update.ts, validateCurrentState; managed-profile-reconciliation.ts).
THEOREM LateStepsDoAsPlanned == Spec => LateStepsAreExact
<1> DEFINE Updates(x) == ApplyPackageUpdate(x) =>
             /\ DisabledKeys(st') = DisabledKeys(st)
             /\ \A t \in Targets : disk'[t] # disk[t] => Unedited(plans[x].id, t) \/ Vacant(plans[x].id, t)
           Stays(id) == Intact(id) /\ SoleOwner(id) /\ SoleOwner(id)' /\ ~ForgetsAccepted(id) => Intact(id)'
           Steady == Committed => \A id \in DOMAIN st.installs \cap DOMAIN st'.installs : Stays(id)
<1>1. MInv => [\A x \in Processes : Updates(x)]_vars
  BY UpdateIs
<1>2. MInv /\ [Next]_vars => [Steady]_vars
  <2> SUFFICES ASSUME MInv, Next, Committed, NEW id \in DOMAIN st.installs \cap DOMAIN st'.installs,
                      Intact(id), SoleOwner(id), SoleOwner(id)', ~ForgetsAccepted(id)
               PROVE  Intact(id)'
    BY DEF vars, Committed
  <2>1. Intact(id) = IntactIn(st, disk, library, id) /\ Intact(id)' = IntactIn(st', disk', library', id)
    BY DEF Intact, IntactIn, Record
  <2>2. SoleIn(st, id)
    BY DEF SoleOwner, SoleIn
  <2>3. SoleIn(st', id)
    BY DEF SoleOwner, SoleIn
  <2>4. Untouched(id)
    BY <2>1, <2>2, <2>3 DEF Untouched
  <2> QED
    BY <2>1, <2>4, StepsAreExact
<1>3. Spec => UpdateNeverReactivates
  BY <1>1, ManagedInvariant, PTL DEF Spec, UpdateNeverReactivates
<1>4. Spec => OwnStepsNeverDrift
  BY <1>2, ManagedInvariant, PTL DEF Spec, OwnStepsNeverDrift
<1> QED
  BY <1>3, <1>4 DEF LateStepsAreExact
=============================================================================
