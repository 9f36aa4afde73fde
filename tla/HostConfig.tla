----------------------------- MODULE HostConfig -----------------------------
(***************************************************************************)
(* Entries that Loadout writes into configuration files of others: MCP     *)
(* servers in JSON files (src/core/runtime/mcp.ts) and in Codex's TOML     *)
(* file (src/core/agents/codex-mcp.ts), model selections in Loadout's own  *)
(* (model-config.ts), and the removal of a package's servers (remove.ts).  *)
(* A plan is made and shown without the mutation lock and applied, maybe   *)
(* much later, under it: the lock makes each application one step.         *)
(* Between the two the user edits the files, and other commands apply      *)
(* their plans.  A file's other content is not looked at.                  *)
(***************************************************************************)
EXTENDS Naturals, FiniteSets

CONSTANTS
  JsonFiles,    \* JSON files with MCP servers; sync and recipes may write them
  CodexFile,    \* Codex's config.toml
  ModelFile,    \* Loadout's model selections
  Names,        \* names of servers, and ids of selections
  UserValues,   \* what users write
  PlanValues,   \* what Loadout's plans write
  Packages,     \* packages, or recipes for a host, that own servers
  Commands,     \* processes that plan and apply
  MaxPlans, MaxUserEdits, MaxForces  \* bounds

VARIABLES
  entry,    \* what every file has under every name
  records,  \* mcpInstalls of state.json
  plan,     \* the plan every process has made
  lastUndo, \* the snapshot of the last application, which rollback takes
  made, userEdits, forces

hostVars == <<entry, records, plan, lastUndo, made, userEdits, forces>>

Files == JsonFiles \cup {CodexFile, ModelFile}
NoEntry == "none"
Values == UserValues \cup PlanValues
Contents == [Names -> Values \cup {NoEntry}]
Records == [package : Packages, file : JsonFiles \cup {CodexFile}, name : Names, print : Values]
Plan == [package : Packages \cup {NoEntry}, file : Files, names : SUBSET Names, value : Values,
         base : Contents, state : SUBSET Records, synced : BOOLEAN]

(* What a user writes stands for what no plan would write. *)
ASSUME HostConstantsOK ==
  /\ UserValues \cap PlanValues = {} /\ NoEntry \notin Values
  /\ NoEntry \notin Packages

HostTypeOK ==
  /\ entry \in [Files -> Contents] /\ records \subseteq Records
  /\ plan \in [Commands -> SUBSET Plan] /\ \A c \in Commands : Cardinality(plan[c]) <= 1
  /\ Cardinality(lastUndo) <= 1

HostInit ==
  /\ entry = [f \in Files |-> [n \in Names |-> NoEntry]] /\ records = {}
  /\ plan = [c \in Commands |-> {}] /\ lastUndo = {} /\ made = 0 /\ userEdits = 0 /\ forces = 0

-----------------------------------------------------------------------------
(* Plans.  The preview names every entry, and says whether it is replaced. *)

Previews(c, p) ==
  /\ plan[c] = {} /\ made < MaxPlans /\ made' = made + 1
  /\ plan' = [plan EXCEPT ![c] = {[p EXCEPT !.base = entry[p.file], !.state = records]}]
  /\ UNCHANGED <<entry, records, lastUndo, userEdits, forces>>
Draft(package, file, names, value, synced) ==
  [package |-> package, file |-> file, names |-> names, value |-> value,
   base |-> entry[file], state |-> {}, synced |-> synced]

(* planMcpConfig: `mcp-config` writes one server that nobody records. *)
PlanMcpConfig(c) == \E f \in JsonFiles, n \in Names, v \in PlanValues :
  Previews(c, Draft(NoEntry, f, {n}, v, FALSE))
(* planMcpRecipe: the server of a recipe, for a package. *)
PlanMcpRecipe(c) == \E f \in JsonFiles, n \in Names, v \in PlanValues, p \in Packages :
  Previews(c, Draft(p, f, {n}, v, FALSE))
(* planMcpConfigBatch: the servers of a package of the manifest. *)
PlanSyncedServers(c) == \E f \in JsonFiles, ns \in (SUBSET Names) \ {{}}, v \in PlanValues, p \in Packages :
  Previews(c, Draft(p, f, ns, v, TRUE))
(* planCodexMcpConfig: a table that exists is refused. *)
PlanCodexMcpConfig(c) == \E n \in Names, v \in PlanValues, p \in Packages :
  /\ entry[CodexFile][n] = NoEntry
  /\ Previews(c, Draft(p, CodexFile, {n}, v, FALSE))
(* planProviderModelSelection *)
PlanModelSelection(c) == \E n \in Names, v \in PlanValues :
  Previews(c, Draft(NoEntry, ModelFile, {n}, v, FALSE))

DropPlan(c) ==
  /\ plan[c] # {} /\ plan' = [plan EXCEPT ![c] = {}]
  /\ UNCHANGED <<entry, records, lastUndo, made, userEdits, forces>>

-----------------------------------------------------------------------------
(* Applications, under the mutation lock. *)

Proposed(p) == [n \in Names |-> IF n \in p.names THEN p.value ELSE p.base[n]]

(* Mutant: only the entries of the plan are compared. *)
ComparesNames(p) == \A n \in p.names : entry[p.file][n] = p.base[n]
(* The fingerprint of a file covers all of it; a model file is planned again, *)
(* and has to come out the same; sync compares the install state as well.     *)
BaseUnchanged(p) ==
  /\ IF p.file = ModelFile THEN \A n \in Names \ p.names : entry[p.file][n] = p.base[n]
     ELSE entry[p.file] = p.base
  /\ p.synced => records = p.state

(* recordInstallTransaction and recordMcpInstall: a package's records are *)
(* replaced by those of its last plan.                                    *)
Recorded(p) ==
  IF p.package = NoEntry THEN records
  ELSE {r \in records : r.package # p.package}
       \cup {[package |-> p.package, file |-> p.file, name |-> n, print |-> p.value] : n \in p.names}

(* What the transaction's snapshot holds: the files it named as its targets. *)
SnapshotOf(files, withState) ==
  {[files |-> files, withState |-> withState, entry |-> entry, records |-> records,
    after |-> entry', afterRecords |-> records']}

ApplyMcpConfigPlan(c) == \E p \in plan[c] :
  /\ BaseUnchanged(p)
  /\ entry' = [entry EXCEPT ![p.file] = Proposed(p)] /\ records' = Recorded(p)
  /\ plan' = [plan EXCEPT ![c] = {}] /\ lastUndo' = SnapshotOf({p.file}, p.package # NoEntry)
  /\ UNCHANGED <<made, userEdits, forces>>

(* planRemove: an entry that is not as it was recorded blocks the removal. *)
Modified(r) == entry[r.file][r.name] \notin {NoEntry, r.print}
RemoveServers(package) ==
  LET mine == {r \in records : r.package = package}
      modified == {r \in mine : Modified(r)}
  IN /\ mine # {}
     /\ forces' = IF modified = {} THEN forces ELSE forces + 1
     /\ forces' <= MaxForces
     /\ entry' = [f \in Files |-> [n \in Names |->
                   IF \E r \in mine : r.file = f /\ r.name = n THEN NoEntry ELSE entry[f][n]]]
     /\ records' = records \ mine /\ lastUndo' = SnapshotOf({r.file : r \in mine}, TRUE)
     /\ UNCHANGED <<plan, made, userEdits>>

(* rollback: only when files and state are as the mutation left them. *)
RollBackConfig == \E s \in lastUndo :
  /\ \A f \in s.files : entry[f] = s.after[f]
  /\ s.withState => records = s.afterRecords
  /\ entry' = [f \in Files |-> IF f \in s.files THEN s.entry[f] ELSE entry[f]]
  /\ records' = IF s.withState THEN s.records ELSE records
  /\ lastUndo' = {}
  /\ UNCHANGED <<plan, made, userEdits, forces>>

UserEditsConfig ==
  /\ userEdits < MaxUserEdits /\ userEdits' = userEdits + 1
  /\ \E f \in Files, n \in Names, v \in UserValues \cup {NoEntry} :
       v # entry[f][n] /\ entry' = [entry EXCEPT ![f][n] = v]
  /\ UNCHANGED <<records, plan, lastUndo, made, forces>>

HostNext ==
  \/ \E c \in Commands :
       \/ PlanMcpConfig(c) \/ PlanMcpRecipe(c) \/ PlanSyncedServers(c) \/ PlanCodexMcpConfig(c)
       \/ PlanModelSelection(c) \/ DropPlan(c) \/ ApplyMcpConfigPlan(c)
  \/ (\E p \in Packages : RemoveServers(p)) \/ RollBackConfig \/ UserEditsConfig

HostSpec == HostInit /\ [][HostNext]_hostVars

-----------------------------------------------------------------------------
(* Properties. *)

(* What a user wrote is taken away only with the user's knowledge: by the user, *)
(* by a plan whose preview was about this entry (replacing it, in a file that   *)
(* has not changed since; or selecting another model under the same id), or by  *)
(* a removal with --force.  No stale preview, no other command's plan and no    *)
(* rollback does it (writeMcpConfigPlan, applyCodexMcpConfigPlan, planRemove).  *)
Previewed(f, n) == \E c \in Commands : \E p \in plan[c] :
  /\ p \notin plan'[c] /\ p.file = f /\ n \in p.names
  /\ f # ModelFile => p.base[n] = entry[f][n]
UserEntriesSurvive == [][\A f \in Files, n \in Names :
  (entry[f][n] \in UserValues /\ entry'[f][n] # entry[f][n]) =>
     userEdits' # userEdits \/ forces' # forces \/ Previewed(f, n)]_hostVars
=============================================================================
