---------------------------- MODULE InstallState ----------------------------
(***************************************************************************)
(* The install state of Loadout: state.json (src/core/workspace/state.ts)  *)
(* and the operators install, activation, acceptance, removal and adoption *)
(* use to read it and to compute the state they write.                     *)
(*                                                                         *)
(* A skill unit is active for an agent when its tree lies at the target    *)
(* <<agent, unit>>, in the agent's skills directory.  A tree is abstracted *)
(* to one value: Nothing, the tree a package has at a revision, or bytes   *)
(* of the user's own.  Hashes are faithful, so a recorded hash is the tree *)
(* it was computed from.                                                   *)
(*                                                                         *)
(* A package id is a tuple: the catalog's <<"catalog", p>>, or one that    *)
(* adoption or reconciliation generates.  An install record keeps, for     *)
(* every target, the tree that was installed there.  An activation record  *)
(* is kept per package, agent and unit.                                    *)
(***************************************************************************)
EXTENDS Naturals, FiniteSets, Functions

CONSTANTS
  Packages,  \* the packages of the catalog
  Agents,    \* the agents on the machine
  Units,     \* the names of skill units
  Provides,  \* the units of every package
  MaxRev,    \* bound: the revisions a repository goes through
  MaxBytes   \* bound: the different trees a user makes

Targets == Agents \X Units
Agent(t) == t[1]
Unit(t) == t[2]

Nothing == [src |-> "none", rev |-> 0]
Upstream(p, r) == [src |-> p, rev |-> r]
UserBytes(n) == [src |-> "user", rev |-> n]
Trees == {Nothing} \cup {Upstream(p, r) : p \in Packages, r \in 1..MaxRev}
                   \cup {UserBytes(n) : n \in 1..MaxBytes}

Untracked == [src |-> "none", rev |-> 0]   \* no repository and no resolvedCommit
Revisions == {Untracked} \cup {Upstream(p, r) : p \in Packages, r \in 1..MaxRev}

CatalogId(p) == <<"catalog", p>>
AdoptedId(t) == <<"adopted", Agent(t), Unit(t)>>
ReconciledId(p, u, tree) == <<"reconciled", p, u, tree>>
Ids == {CatalogId(p) : p \in Packages} \cup {AdoptedId(t) : t \in Targets}
       \cup {ReconciledId(p, u, tree) : p \in Packages, u \in Units, tree \in Trees}

Key(id, t) == <<id, Agent(t), Unit(t)>>
Keys == Ids \X Agents \X Units
IdOf(k) == k[1]
TargetOf(k) == <<k[2], k[3]>>

ASSUME InstallStateConstantsOK ==
  /\ Provides \in [Packages -> SUBSET Units]
  /\ "user" \notin Packages /\ "none" \notin Packages
  /\ MaxRev \in Nat \ {0} /\ MaxBytes \in Nat

(* installs and activations of state.json. *)
InstallRecords == [commit: Revisions, files: UNION {[S -> Trees] : S \in SUBSET Targets}]
Activations == [cached: BOOLEAN, installed: BOOLEAN, active: BOOLEAN, lib: Trees]
EmptyState == [installs |-> <<>>, activations |-> <<>>]

IsPartial(f, D, R) == DOMAIN f \subseteq D /\ \A x \in DOMAIN f : f[x] \in R
Without(f, S) == Restrict(f, DOMAIN f \ S)

KeysOf(st, id) == {k \in DOMAIN st.activations : IdOf(k) = id}
Installed(st, id) == {k \in KeysOf(st, id) : st.activations[k].installed}
ActiveKeys(st) == {k \in DOMAIN st.activations : st.activations[k].installed /\ st.activations[k].active}
DisabledKeys(st) == {k \in DOMAIN st.activations : st.activations[k].installed /\ ~st.activations[k].active}
TrackedTargets(st, id) == IF id \in DOMAIN st.installs THEN DOMAIN st.installs[id].files ELSE {}

-----------------------------------------------------------------------------
(* Reading the state. *)

(* managedFileReadPath: a file of a disabled unit is read from the library. *)
ReadsLibrary(st, id, t) == Key(id, t) \in DisabledKeys(st)
LibraryTree(library, k) == IF k \in DOMAIN library THEN library[k] ELSE Nothing
ReadTree(st, disk, library, id, t) ==
  IF ReadsLibrary(st, id, t) THEN LibraryTree(library, Key(id, t)) ELSE disk[t]

(* planRemove, buildPlan of accept: what differs from the record, what is gone. *)
Drifted(st, disk, library, id) ==
  {t \in TrackedTargets(st, id) :
     ReadTree(st, disk, library, id, t) \notin {Nothing, st.installs[id].files[t]}}
Missing(st, disk, library, id) ==
  {t \in TrackedTargets(st, id) : ReadTree(st, disk, library, id, t) = Nothing}

(* owningPackage: the active activation of the agent, or a record without activations. *)
Owned(st, t) ==
  \/ \E k \in ActiveKeys(st) : TargetOf(k) = t
  \/ \E id \in DOMAIN st.installs :
       /\ t \in DOMAIN st.installs[id].files
       /\ \A k \in KeysOf(st, id) : TargetOf(k)[1] # Agent(t)

(* Mutant: the bytes at the target are not compared with the record. *)
MayReplaceActive(st, disk, id, t) == id \in DOMAIN st.installs /\ Key(id, t) \in ActiveKeys(st)

(* assertActiveTargetsUnoccupied: every occupied target must be the package's *)
(* own active one, and must hold what the package's record says.              *)
MayReplace(st, disk, id, t) ==
  /\ id \in DOMAIN st.installs /\ Key(id, t) \in ActiveKeys(st)
  /\ t \in DOMAIN st.installs[id].files /\ st.installs[id].files[t] = disk[t]
TargetsFree(st, disk, plan, replacing) ==
  \A id \in DOMAIN plan : \A t \in plan[id].targets :
    disk[t] = Nothing \/ (replacing /\ MayReplace(st, disk, id, t))

-----------------------------------------------------------------------------
(* Writing the state.  A batch is a function from package ids to entries    *)
(* [targets, tree, commit]; the trees recorded are read from the disk.      *)

CreateInstallRecord(entry, disk) ==
  [commit |-> entry.commit, files |-> [t \in entry.targets |-> disk[t]]]

(* activationRecordsForPlan *)
ActiveRecord == [cached |-> FALSE, installed |-> TRUE, active |-> TRUE, lib |-> Nothing]
BatchKeys(batch) == UNION {{Key(id, t) : t \in batch[id].targets} : id \in DOMAIN batch}

(* mergeActivationRecords: a new record replaces the one with its key. *)
Over(new, old) ==
  [x \in DOMAIN new \cup DOMAIN old |-> IF x \in DOMAIN new THEN new[x] ELSE old[x]]

(* recordInstall, recordInstallBatch and recordInstallTransaction *)
RecordInstall(st, batch, disk) ==
  [installs |-> Over([id \in DOMAIN batch |-> CreateInstallRecord(batch[id], disk)], st.installs),
   activations |-> Over([k \in BatchKeys(batch) |-> ActiveRecord], st.activations)]

(* recordLibraryInstallBatch: an active unit stays active, any other is disabled. *)
RecordLibraryInstall(st, batch, library) ==
  [installs |-> Over([id \in DOMAIN batch |->
                        [commit |-> batch[id].commit,
                         files |-> [t \in batch[id].targets |-> library[Key(id, t)]]]], st.installs),
   activations |-> Over(
     [k \in BatchKeys(batch) |->
        [cached |-> TRUE, installed |-> TRUE, active |-> k \in ActiveKeys(st), lib |-> library[k]]],
     st.activations)]

(* forgetInstall: activations are dropped, or kept as removed. *)
ForgetInstall(st, id, drop) ==
  [installs |-> Without(st.installs, {id}),
   activations |->
     IF drop THEN Without(st.activations, KeysOf(st, id))
     ELSE [k \in DOMAIN st.activations |->
             IF IdOf(k) = id THEN [st.activations[k] EXCEPT !.installed = FALSE, !.active = FALSE]
             ELSE st.activations[k]]]

-----------------------------------------------------------------------------
(* Profile reconciliation: the active units of the batch's agents that the  *)
(* batch does not want any more.                                            *)

BatchTargets(batch) == UNION {batch[id].targets : id \in DOMAIN batch}
ObsoleteKeys(st, batch, agents) ==
  {k \in ActiveKeys(st) : TargetOf(k)[1] \in agents /\ TargetOf(k) \notin BatchTargets(batch)}

(* planManagedProfileReconciliation refuses when a unit to retire has drifted. *)
ReconciliationPossible(st, disk, batch, agents) ==
  \A k \in ObsoleteKeys(st, batch, agents) :
    /\ TargetOf(k) \in TrackedTargets(st, IdOf(k))
    /\ st.installs[IdOf(k)].files[TargetOf(k)] = disk[TargetOf(k)]

(* recordManagedProfileReconciliation: a package keeps what its remaining *)
(* installed units cover, and is forgotten when none remains.             *)
RecordReconciliation(st, obsolete) ==
  LET kept == Without(st.activations, obsolete)
      affected == {IdOf(k) : k \in obsolete}
      Remaining(id) == {TargetOf(k) : k \in {j \in DOMAIN kept : IdOf(j) = id /\ kept[j].installed}}
      staying == {id \in DOMAIN st.installs : id \notin affected \/ Remaining(id) # {}}
  IN [installs |-> [id \in staying |->
                      IF id \in affected
                      THEN [st.installs[id] EXCEPT !.files = Restrict(@, DOMAIN @ \cap Remaining(id))]
                      ELSE st.installs[id]],
      activations |-> kept]
=============================================================================
