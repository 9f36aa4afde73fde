------------------------------- MODULE Managed -------------------------------
(***************************************************************************)
(* The life of managed skills: what `loadout install`, `setup`, `enable`,  *)
(* `disable`, `accept`, `update`, `remove`, `adopt`, `reconcile`, `sync`   *)
(* and `uninstall` do to the skill directories of the agents, to the       *)
(* library of disabled skills and to the install state.                    *)
(*                                                                         *)
(* A command reads the state and the disk without a lock and makes a plan; *)
(* it applies the plan in one mutation transaction, which re-checks what   *)
(* it can under the mutation lock.  Transaction.tla models the transaction *)
(* itself: here it is one step, and a plan that is refused, that fails or  *)
(* that the user only wanted to see ends in Drop, which changes nothing.   *)
(* Between a plan and its application other commands, the user's editor    *)
(* and the upstream repositories move.                                     *)
(***************************************************************************)
EXTENDS InstallState

CONSTANTS
  Processes,   \* the commands that run at a time
  Before,      \* the ranking of the catalog: a set of pairs of packages
  Pinned,      \* the revision of every package the catalog has reviewed
  AtFirst,     \* the packages installed before the behaviour starts
  MaxApplied,  \* bound: the transactions that are committed
  MaxEdits     \* bound: the user's edits

ASSUME ManagedConstantsOK ==
  /\ Pinned \in [Packages -> 1..MaxRev] /\ AtFirst \subseteq Packages /\ Before \subseteq Packages \X Packages
  /\ MaxApplied \in Nat /\ MaxEdits \in Nat

VARIABLES
  disk,      \* the tree at every target
  library,   \* the trees of Loadout's library
  st,        \* the install state
  head,      \* the newest revision of every repository
  plans,     \* the plan every command holds
  applied,   \* how many transactions were committed
  edits      \* how many edits the user made

vars == <<disk, library, st, head, plans, applied, edits>>

NoPlan == [op |-> "none"]
Ops == {"none", "install", "additive", "profile", "maximum", "enable", "disable", "accept",
        "update", "adopt", "reconcile", "sync", "uninstall"}

TypeOK ==
  /\ disk \in [Targets -> Trees] /\ IsPartial(library, Keys, Trees)
  /\ IsPartial(st.activations, Keys, Activations) /\ IsPartial(st.installs, Ids, InstallRecords)
  /\ head \in [Packages -> 1..MaxRev]
  /\ \A x \in Processes : plans[x].op \in Ops
  /\ applied \in 0..MaxApplied /\ edits \in 0..MaxEdits

-----------------------------------------------------------------------------
Entry(targets, tree, commit) == [targets |-> targets, tree |-> tree, commit |-> commit]

(* buildSkillPlan: the units of a package at a revision, for some agents. *)
SkillPlan(p, agents, r) == Entry(agents \X Provides[p], Upstream(p, r), Upstream(p, r))

(* applySkillPlan: the planned trees are copied, whatever is there. *)
Copied(trees, batch) ==
  [t \in Targets |->
     IF t \in BatchTargets(batch)
     THEN (CHOOSE entry \in {batch[id] : id \in DOMAIN batch} : t \in entry.targets).tree
     ELSE trees[t]]
Emptied(trees, S) == [t \in Targets |-> IF t \in S THEN Nothing ELSE trees[t]]

(* `loadout install` of AtFirst, for every agent, has already been run. *)
Init ==
  LET batch == [id \in {CatalogId(p) : p \in AtFirst} |-> SkillPlan(id[2], Agents, Pinned[id[2]])]
      before == [t \in Targets |-> Nothing]
  IN /\ disk = Copied(before, batch) /\ st = RecordInstall(EmptyState, batch, disk)
     /\ library = <<>> /\ head = Pinned /\ plans = [x \in Processes |-> NoPlan]
     /\ applied = 0 /\ edits = 0

Makes(x, plan) ==
  /\ plans[x] = NoPlan /\ applied < MaxApplied
  /\ plans' = [plans EXCEPT ![x] = plan]
  /\ UNCHANGED <<disk, library, st, head, applied, edits>>

(* The transaction of a plan commits. *)
Commits(x) ==
  /\ applied < MaxApplied /\ applied' = applied + 1
  /\ plans' = [plans EXCEPT ![x] = NoPlan]
  /\ UNCHANGED <<head, edits>>

(* A preview that is not applied, a plan that is refused, or a transaction that fails. *)
Drop(x) ==
  /\ plans[x] # NoPlan
  /\ plans' = [plans EXCEPT ![x] = NoPlan]
  /\ UNCHANGED <<disk, library, st, head, applied, edits>>

-----------------------------------------------------------------------------
(* loadout install: the newest revision of one package. *)
PlanInstall(x) ==
  \E p \in Packages, agents \in (SUBSET Agents) \ {{}} :
    Makes(x, [op |-> "install",
              batch |-> [id \in {CatalogId(p)} |-> SkillPlan(p, agents, head[p])]])

ApplySkillInstall(x) ==
  /\ plans[x].op = "install" /\ Commits(x)
  /\ TargetsFree(st, disk, plans[x].batch, FALSE)
  /\ disk' = Copied(disk, plans[x].batch)
  /\ st' = RecordInstall(st, plans[x].batch, disk')
  /\ UNCHANGED library

(* prepareCatalogInstall: the reviewed revisions of the selected packages.  A *)
(* target goes to the first package that wants it; in the maximum mode one    *)
(* that a selected package has active is reserved for that package.           *)
Reserved(mode, selected, p, t) ==
  mode = "maximum" /\ \E q \in selected \ {p} : Key(CatalogId(q), t) \in ActiveKeys(st)
Claims(mode, selected, agents, p) ==
  {t \in agents \X Provides[p] :
     /\ ~Reserved(mode, selected, p, t)
     /\ \A q \in selected : <<q, p>> \in Before /\ Unit(t) \in Provides[q] => Reserved(mode, selected, q, t)}
PreparedBatch(mode, selected, agents) ==
  LET Entries(p) == Entry(Claims(mode, selected, agents, p), Upstream(p, Pinned[p]), Upstream(p, Pinned[p]))
      usable == {p \in selected : Claims(mode, selected, agents, p) # {}}
  IN [id \in {CatalogId(p) : p \in usable} |-> Entries(id[2])]

PrepareCatalogInstall(x) ==
  \E mode \in {"profile", "additive", "maximum"}, selected \in SUBSET Packages, agents \in (SUBSET Agents) \ {{}} :
    LET batch == PreparedBatch(mode, selected, agents)
        obsolete == IF mode = "profile" THEN ObsoleteKeys(st, batch, agents) ELSE {}
    IN /\ DOMAIN batch # {}
       /\ mode = "profile" => ReconciliationPossible(st, disk, batch, agents)
       /\ Makes(x, [op |-> mode, batch |-> batch, agents |-> agents, obsolete |-> obsolete])

(* applySkillInstallBatch: the reconciliation must be the one that was shown. *)
ApplySkillInstallBatch(x) ==
  LET plan == plans[x] IN
  /\ plan.op \in {"profile", "additive"} /\ Commits(x)
  /\ plan.op = "profile" =>
       /\ ReconciliationPossible(st, disk, plan.batch, plan.agents)
       /\ ObsoleteKeys(st, plan.batch, plan.agents) = plan.obsolete
  /\ TargetsFree(st, disk, plan.batch, TRUE)
  /\ disk' = Copied(Emptied(disk, {TargetOf(k) : k \in plan.obsolete}), plan.batch)
  /\ st' = RecordReconciliation(RecordInstall(st, plan.batch, disk'), plan.obsolete)
  /\ UNCHANGED library

(* applySkillLibraryBatch: the whole library of a package and agent is replaced; *)
(* an active unit must be in the batch, at the revision it is active with.       *)
(* Mutant: the revisions are not compared. *)
KeepsActiveAnyRevision(batch) ==
  \A k \in ActiveKeys(st) : IdOf(k) \in DOMAIN batch => TargetOf(k) \in batch[IdOf(k)].targets
KeepsActive(batch) ==
  \A k \in ActiveKeys(st) : IdOf(k) \in DOMAIN batch =>
    /\ IdOf(k) \in DOMAIN st.installs /\ st.installs[IdOf(k)].commit = batch[IdOf(k)].commit
    /\ TargetOf(k) \in batch[IdOf(k)].targets
Downloaded(batch, agents) ==
  Over([k \in BatchKeys(batch) |-> batch[IdOf(k)].tree],
       Without(library, {k \in DOMAIN library : IdOf(k) \in DOMAIN batch /\ TargetOf(k)[1] \in agents}))

ApplySkillLibraryBatch(x) ==
  /\ plans[x].op = "maximum" /\ Commits(x)
  /\ KeepsActive(plans[x].batch)
  /\ library' = Downloaded(plans[x].batch, plans[x].agents)
  /\ st' = RecordLibraryInstall(st, plans[x].batch, library')
  /\ UNCHANGED disk

-----------------------------------------------------------------------------
(* loadout enable and disable. *)
Desired(op) == op = "enable"
Backed(k) == TargetOf(k) \in TrackedTargets(st, IdOf(k))

(* planActivationChange: the blockers of a change. *)
Allowed(op, k) ==
  /\ Backed(k) /\ st.activations[k].installed
  /\ op = "disable" => disk[TargetOf(k)] = st.installs[IdOf(k)].files[TargetOf(k)]
  /\ op = "enable" =>
       /\ st.activations[k].cached /\ LibraryTree(library, k) = st.activations[k].lib
       /\ disk[TargetOf(k)] = Nothing
Changes(op, id, agents) ==
  {k \in KeysOf(st, id) : TargetOf(k)[1] \in agents /\ st.activations[k].active # Desired(op)}

PlanActivationChange(x) ==
  \E op \in {"enable", "disable"}, id \in DOMAIN st.installs, agents \in SUBSET Agents :
    /\ Changes(op, id, agents) # {}
    /\ Makes(x, [op |-> op, keys |-> Changes(op, id, agents)])

(* revalidateExactActivationPlan: the same changes are still to be made. *)
Revalidated(plan) ==
  \A k \in plan.keys :
    /\ k \in DOMAIN st.activations /\ IdOf(k) \in DOMAIN st.installs
    /\ st.activations[k].active # Desired(plan.op) /\ Allowed(plan.op, k)

Disabled(record, tree) == [record EXCEPT !.cached = TRUE, !.active = FALSE, !.lib = tree]
ApplyDisable(x) ==
  LET keys == plans[x].keys IN
  /\ plans[x].op = "disable" /\ Revalidated(plans[x]) /\ Commits(x)
  /\ library' = Over([k \in keys |-> disk[TargetOf(k)]], library)
  /\ disk' = Emptied(disk, {TargetOf(k) : k \in keys})
  /\ st' = [st EXCEPT !.activations = Over([k \in keys |-> Disabled(st.activations[k], disk[TargetOf(k)])], @)]

(* The copy must be what the install record says, or the transaction fails. *)
ApplyEnable(x) ==
  LET keys == plans[x].keys IN
  /\ plans[x].op = "enable" /\ Revalidated(plans[x]) /\ Commits(x)
  /\ \A k \in keys : library[k] = st.installs[IdOf(k)].files[TargetOf(k)]
  /\ disk' = [t \in Targets |-> IF \E k \in keys : TargetOf(k) = t
                                THEN library[CHOOSE k \in keys : TargetOf(k) = t] ELSE disk[t]]
  /\ st' = [st EXCEPT !.activations = Over([k \in keys |-> [st.activations[k] EXCEPT !.active = TRUE]], @)]
  /\ UNCHANGED library

-----------------------------------------------------------------------------
(* loadout accept: edited files become what the record expects. *)
Edited(scope) ==
  UNION {{<<id, t, ReadTree(st, disk, library, id, t)>> : t \in Drifted(st, disk, library, id)}
         : id \in scope \cap DOMAIN st.installs}
Lost(scope) == \E id \in scope \cap DOMAIN st.installs : Missing(st, disk, library, id) # {}

PlanAccept(x) ==
  \E scope \in {{id} : id \in DOMAIN st.installs} \cup {Ids} :
    /\ Edited(scope) # {} /\ ~Lost(scope)
    /\ Makes(x, [op |-> "accept", scope |-> scope, edited |-> Edited(scope)])

(* Mutant: the library hash is not accepted. *)
ApplyAcceptFilesOnly(x) ==
  /\ plans[x].op = "accept" /\ Commits(x)
  /\ Edited(plans[x].scope) = plans[x].edited /\ ~Lost(plans[x].scope)
  /\ st' = [st EXCEPT !.installs = [id \in DOMAIN st.installs |->
              [st.installs[id] EXCEPT !.files = [t \in DOMAIN @ |->
                 IF \E e \in plans[x].edited : e[1] = id /\ e[2] = t
                 THEN ReadTree(st, disk, library, id, t) ELSE @[t]]]]]
  /\ UNCHANGED <<disk, library>>

(* applyAccept: a unit read from the library has its library hash accepted too. *)
ApplyAccept(x) ==
  LET edited == plans[x].edited
      Now(id, t) == {e[3] : e \in {e \in edited : e[1] = id /\ e[2] = t}}
      Accepted(id, t, old) == IF Now(id, t) = {} THEN old ELSE CHOOSE tree \in Now(id, t) : TRUE
  IN
  /\ plans[x].op = "accept" /\ Commits(x)
  /\ Edited(plans[x].scope) = edited /\ ~Lost(plans[x].scope)
  /\ st' = [installs |-> [id \in DOMAIN st.installs |->
              [st.installs[id] EXCEPT !.files = [t \in DOMAIN @ |-> Accepted(id, t, @[t])]]],
            activations |-> [k \in DOMAIN st.activations |->
              IF ReadsLibrary(st, IdOf(k), TargetOf(k))
              THEN [st.activations[k] EXCEPT !.lib = Accepted(IdOf(k), TargetOf(k), @)]
              ELSE st.activations[k]]]
  /\ UNCHANGED <<disk, library>>
-----------------------------------------------------------------------------
(* loadout update. *)
Record(id) == st.installs[id]
Commit(id) == Record(id).commit
ManagedUnitIds(id) == {k[3] : k \in Installed(st, id)}
RecordedAgents(id) == {Agent(t) : t \in DOMAIN Record(id).files}

(* buildUpdatePlan: a tracked package whose repository has moved; one that is *)
(* disabled anywhere is not updated.                                          *)
UpdateAvailable(id) == Commit(id) # Untracked /\ Commit(id).rev # head[Commit(id).src]
DisabledSomewhere(id) == \E k \in Installed(st, id) : ~st.activations[k].active

(* applyPackageUpdate up to its transaction: the repository's newest revision *)
(* of the managed units, at the targets of the recorded agents.               *)
PlanPackageUpdate(x) ==
  \E id \in DOMAIN st.installs :
    LET p == Commit(id).src
        targets == RecordedAgents(id) \X ManagedUnitIds(id)
        entry == Entry(targets, Upstream(p, head[p]), Upstream(p, head[p]))
    IN /\ UpdateAvailable(id) /\ ~DisabledSomewhere(id)
       /\ ManagedUnitIds(id) \subseteq Provides[p] /\ targets # {}
       /\ Makes(x, [op |-> "update", id |-> id, batch |-> [i \in {id} |-> entry], record |-> Record(id),
                    activations |-> Restrict(st.activations, KeysOf(st, id))])

(* validateCurrentState: the record and the activations are those the plan was   *)
(* made from, and the files of the planned targets are exactly the recorded ones; *)
(* a planned target that the record does not name has to be empty.                *)
CurrentStateValid(plan) ==
  /\ plan.id \in DOMAIN st.installs /\ Record(plan.id) = plan.record
  /\ Restrict(st.activations, KeysOf(st, plan.id)) = plan.activations
  /\ DOMAIN plan.record.files \subseteq plan.batch[plan.id].targets
  /\ \A t \in plan.batch[plan.id].targets :
       disk[t] = IF t \in DOMAIN plan.record.files THEN plan.record.files[t] ELSE Nothing

ApplyPackageUpdate(x) ==
  LET plan == plans[x] IN
  /\ plan.op = "update" /\ Commits(x)
  /\ CurrentStateValid(plan)
  /\ TargetsFree(st, disk, plan.batch, TRUE)
  /\ disk' = Copied(disk, plan.batch)
  /\ st' = RecordInstall(st, plan.batch, disk')
  /\ UNCHANGED library

-----------------------------------------------------------------------------
(* loadout remove: applyRemove plans again under the lock.  Adopted content *)
(* is only forgotten; drifted content needs --force.                        *)
PreserveFiles(id) == id[1] # "catalog"
Removable(id, force) == PreserveFiles(id) \/ Drifted(st, disk, library, id) = {} \/ force
RemovedFiles(id) == IF PreserveFiles(id) THEN {} ELSE DOMAIN Record(id).files

RemovePackage(id, force) ==
  /\ Removable(id, force)
  /\ disk' = Emptied(disk, {t \in RemovedFiles(id) : ~ReadsLibrary(st, id, t)})
  /\ library' = Without(library, {Key(id, t) : t \in {t \in RemovedFiles(id) : ReadsLibrary(st, id, t)}})
  /\ st' = ForgetInstall(st, id, PreserveFiles(id))

ApplyRemove(force) ==
  \E id \in DOMAIN st.installs :
    /\ applied < MaxApplied /\ applied' = applied + 1
    /\ RemovePackage(id, force)
    /\ UNCHANGED <<head, plans, edits>>

-----------------------------------------------------------------------------
(* loadout adopt: an unmanaged skill is recorded as it lies there. *)
ExactSources(u, tree) == {p \in Packages : u \in Provides[p] /\ Upstream(p, Pinned[p]) = tree}
PlanSkillAdoption(x) ==
  \E t \in Targets :
    LET sources == ExactSources(Unit(t), disk[t]) IN
    /\ disk[t] # Nothing /\ ~Owned(st, t)
    /\ Makes(x, [op |-> "adopt", batch |->
         [id \in {AdoptedId(t)} |-> Entry({t}, disk[t], IF sources = {} THEN Untracked ELSE disk[t])]])

ApplySkillAdoption(x) ==
  LET batch == plans[x].batch IN
  /\ plans[x].op = "adopt" /\ Commits(x)
  /\ \A id \in DOMAIN batch, t \in BatchTargets(batch) : disk[t] = batch[id].tree
  /\ st' = RecordInstall(st, batch, disk)
  /\ UNCHANGED <<disk, library>>

(* loadout reconcile: unmanaged copies of one tree are a group.  itemFor: one *)
(* equal reviewed source is exact; one that differs is outdated; with more    *)
(* than one, or with none, the group is left alone.                           *)
Candidates(u) == {p \in Packages : u \in Provides[p]}
Groups == {<<Unit(t), disk[t]>> : t \in {t \in Targets : disk[t] # Nothing /\ ~Owned(st, t)}}
GroupTargets(g) == {t \in Targets : Unit(t) = g[1] /\ disk[t] = g[2] /\ ~Owned(st, t)}
Exact(g) == Cardinality(ExactSources(g[1], g[2])) = 1
Outdated(g) == ~Exact(g) /\ Cardinality(Candidates(g[1])) = 1
Source(g) == CHOOSE p \in IF Exact(g) THEN ExactSources(g[1], g[2]) ELSE Candidates(g[1]) : TRUE

BuildReconcilePlan(x) ==
  \E replaceOutdated \in BOOLEAN :
    LET selected == {g \in Groups : Exact(g) \/ (replaceOutdated /\ Outdated(g))}
        Reviewed(p) == Upstream(p, Pinned[p])
    IN /\ selected # {}
       /\ Makes(x, [op |-> "reconcile",
                    seen |-> [t \in {t \in Targets : disk[t] # Nothing /\ ~Owned(st, t)} |-> disk[t]],
                    batch |-> [id \in {ReconciledId(Source(g), g[1], g[2]) : g \in selected} |->
                       Entry(GroupTargets(<<id[3], id[4]>>), Reviewed(id[2]), Reviewed(id[2]))]])

(* assertPlanUnchanged: every skill of the plan still has the bytes it had. *)
ApplyReconcilePlan(x) ==
  LET plan == plans[x] IN
  /\ plan.op = "reconcile" /\ Commits(x)
  /\ \A t \in DOMAIN plan.seen : disk[t] = plan.seen[t]
  /\ disk' = Copied(disk, plan.batch)
  /\ st' = RecordInstall(st, plan.batch, disk')
  /\ UNCHANGED library

-----------------------------------------------------------------------------
(* loadout sync: the packages of a manifest, with no two of them at a target. *)
BuildSyncPlan(x) ==
  \E selected \in (SUBSET Packages) \ {{}}, agents \in (SUBSET Agents) \ {{}} :
    LET batch == [id \in {CatalogId(p) : p \in selected} |-> SkillPlan(id[2], agents, head[id[2]])] IN
    /\ \A p, q \in selected : p # q => Provides[p] \cap Provides[q] = {}
    /\ Makes(x, [op |-> "sync", batch |-> batch, st |-> st])

(* applySyncPlan: the install state must be the one the plan was made from; *)
(* the trees are copied over whatever the targets hold.                     *)
ApplySyncPlan(x) ==
  /\ plans[x].op = "sync" /\ Commits(x)
  /\ st = plans[x].st
  /\ disk' = Copied(disk, plans[x].batch)
  /\ st' = RecordInstall(st, plans[x].batch, disk')
  /\ UNCHANGED library

-----------------------------------------------------------------------------
(* loadout uninstall: every package is removed by a transaction of its own,   *)
(* then Loadout's home, with the state and the library, is deleted unlocked.  *)
StartUninstall(x) ==
  \E force \in BOOLEAN :
    /\ \A id \in DOMAIN st.installs : Removable(id, force)
    /\ Makes(x, [op |-> "uninstall", ids |-> DOMAIN st.installs, force |-> force])

UninstallPackage(x) ==
  /\ plans[x].op = "uninstall" /\ applied < MaxApplied /\ applied' = applied + 1
  /\ \E id \in plans[x].ids \cap DOMAIN st.installs :
       /\ RemovePackage(id, plans[x].force)
       /\ plans' = [plans EXCEPT ![x].ids = @ \ {id}]
  /\ UNCHANGED <<head, edits>>

DeleteStateHome(x) ==
  /\ plans[x].op = "uninstall" /\ plans[x].ids = {} /\ Commits(x)
  /\ library' = <<>> /\ st' = EmptyState
  /\ UNCHANGED disk

-----------------------------------------------------------------------------
(* The world outside: the user's editor and the repositories. *)
UserTrees == {Nothing} \cup {UserBytes(n) : n \in 1..MaxBytes} \cup {Upstream(p, Pinned[p]) : p \in Packages}

UserEdits ==
  /\ edits < MaxEdits /\ edits' = edits + 1
  /\ \E t \in Targets : \E tree \in UserTrees \ {disk[t]} : disk' = [disk EXCEPT ![t] = tree]
  /\ UNCHANGED <<library, st, head, plans, applied>>

UserEditsLibrary ==
  /\ edits < MaxEdits /\ edits' = edits + 1
  /\ \E k \in DOMAIN library, n \in 1..MaxBytes : library' = [library EXCEPT ![k] = UserBytes(n)]
  /\ UNCHANGED <<disk, st, head, plans, applied>>

UpstreamMoves ==
  /\ \E p \in Packages : head[p] < MaxRev /\ head' = [head EXCEPT ![p] = @ + 1]
  /\ UNCHANGED <<disk, library, st, plans, applied, edits>>

Applies(x) ==
  \/ ApplySkillInstall(x) \/ ApplySkillInstallBatch(x) \/ ApplySkillLibraryBatch(x)
  \/ ApplyDisable(x) \/ ApplyEnable(x) \/ ApplyAccept(x) \/ ApplyPackageUpdate(x)
  \/ ApplySkillAdoption(x) \/ ApplyReconcilePlan(x) \/ ApplySyncPlan(x)
  \/ UninstallPackage(x) \/ DeleteStateHome(x)

Plans(x) ==
  \/ PlanInstall(x) \/ PrepareCatalogInstall(x) \/ PlanActivationChange(x) \/ PlanAccept(x)
  \/ PlanPackageUpdate(x) \/ PlanSkillAdoption(x) \/ BuildReconcilePlan(x)
  \/ BuildSyncPlan(x) \/ StartUninstall(x) \/ Drop(x)

Outside == UserEdits \/ UserEditsLibrary \/ UpstreamMoves

Next ==
  \/ \E x \in Processes : Plans(x) \/ Applies(x)
  \/ \E force \in BOOLEAN : ApplyRemove(force)
  \/ Outside

Spec == Init /\ [][Next]_vars

-----------------------------------------------------------------------------
(* Properties. *)

Committed == applied' # applied
Accounted(t) == \E id \in DOMAIN st.installs :
  t \in DOMAIN st.installs[id].files /\ st.installs[id].files[t] = disk[t]

(* Steps whose user agreed to lose what lies at the targets: a forced removal, *)
(* and the replacement of outdated copies (applyReconcilePlan); applySyncPlan  *)
(* does not look at its targets at all.                                        *)
Overwrites ==
  \/ ApplyRemove(TRUE)
  \/ \E x \in Processes : ApplyReconcilePlan(x) \/ ApplySyncPlan(x)
  \/ \E x \in Processes : plans[x].op = "uninstall" /\ plans[x].force /\ UninstallPackage(x)

(* No other command ever takes bytes away that no install record accounts for: *)
(* skills the user put there, or edited since, survive every stale plan        *)
(* (assertActiveTargetsUnoccupied, planRemove, exactTreeDifferences).          *)
UnrecordedBytesSurvive ==
  [][Committed =>
       \A t \in Targets : disk'[t] # disk[t] => disk[t] = Nothing \/ Accounted(t) \/ Overwrites]_vars

(* An update changes only trees that are active and unedited when it is        *)
(* applied, whatever was disabled, enabled or edited since it was prepared, so *)
(* it never brings a disabled skill back (update.ts, validateCurrentState).    *)
(* It may also fill an empty target that the package's record does not name: a *)
(* unit of the package is then added for an agent the record does name.        *)
Unedited(id, t) == Key(id, t) \in ActiveKeys(st) /\ t \in DOMAIN Record(id).files /\ Record(id).files[t] = disk[t]
Vacant(id, t) == disk[t] = Nothing /\ t \notin DOMAIN Record(id).files
UpdateNeverReactivates ==
  [][\A x \in Processes : ApplyPackageUpdate(x) =>
       /\ DisabledKeys(st') = DisabledKeys(st)
       /\ \A t \in Targets : disk'[t] # disk[t] => Unedited(plans[x].id, t) \/ Vacant(plans[x].id, t)]_vars

(* The two hashes kept of a disabled unit agree: its library copy's, checked   *)
(* when it is planned to be enabled, and the install record's, checked after   *)
(* it was copied back (planActivationChange and applyActivationChange).        *)
DisabledHashesAgree ==
  \A k \in DisabledKeys(st) : Backed(k) => st.activations[k].lib = Record(IdOf(k)).files[TargetOf(k)]

Intact(id) == \A t \in TrackedTargets(st, id) : ReadTree(st, disk, library, id, t) = Record(id).files[t]
SoleOwner(id) ==
  \A t \in TrackedTargets(st, id), other \in DOMAIN st.installs \ {id} :
    ReadsLibrary(st, id, t) \/ ReadsLibrary(st, other, t) \/ t \notin TrackedTargets(st, other)

(* A Maximum download records the reviewed trees of a package over the edits   *)
(* that were accepted for a unit it leaves active.                             *)
ForgetsAccepted(id) ==
  \E x \in Processes :
    /\ ApplySkillLibraryBatch(x) /\ id \in DOMAIN plans[x].batch
    /\ \E k \in ActiveKeys(st) :
         IdOf(k) = id /\ (~Backed(k) \/ Record(id).files[TargetOf(k)] # Commit(id))

(* No command makes a package drift: one whose trees are what its record says *)
(* still is after the command, or is no longer recorded; packages that own a  *)
(* target together are left out, before or after the step.                    *)
OwnStepsNeverDrift ==
  [][Committed => \A id \in DOMAIN st.installs \cap DOMAIN st'.installs :
       Intact(id) /\ SoleOwner(id) /\ SoleOwner(id)' /\ ~ForgetsAccepted(id) => Intact(id)']_vars

(* The records of a disabled unit agree on its hash, whichever command wrote them *)
(* last, so that enabling it is not refused halfway (applyActivationChange).      *)
ManagedSound == TypeOK /\ DisabledHashesAgree

(* What is applied late does what was planned: an update brings no disabled skill *)
(* back, and no command makes a package drift that nobody edited.                 *)
LateStepsAreExact == UpdateNeverReactivates /\ OwnStepsNeverDrift

(* A unit that is active for an agent is covered by its package's install      *)
(* record, so that it can be disabled, updated and removed: "removal" and      *)
(* "disable" work from the record (planActivationChange, planRemove).          *)
ActiveUnitsAreBacked == \A k \in ActiveKeys(st) : Backed(k)

(* A target is recorded for one package at a time (planSkillAdoption: "is *)
(* already managed as").                                                  *)
OneOwnerPerTarget == \A j, k \in ActiveKeys(st) : TargetOf(j) = TargetOf(k) => j = k
=============================================================================
