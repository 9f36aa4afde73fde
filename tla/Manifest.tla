------------------------------ MODULE Manifest -------------------------------
(***************************************************************************)
(* What a project wants installed: loadout.json, edited by commands        *)
(* (src/core/workspace/manifest.ts), and the plan that `loadout sync`      *)
(* makes of it (src/core/install/sync.ts): the packages, those of a        *)
(* registry with everything they depend on, in an order in which each      *)
(* comes after what it needs.  A command reads the whole file and writes   *)
(* it back; no lock keeps two apart.                                       *)
(***************************************************************************)
EXTENDS Naturals, Sequences, FiniteSets, SequencesExt

CONSTANTS
  Shelves,     \* what registries may hold: <<name, version>> -> dependencies, by name
  Entries,     \* packages that commands add
  Profiles,    \* packages that profiles list
  Editors,     \* processes
  MaxChanges  \* bound: commands

VARIABLES
  shelf,    \* what is published
  manifest, \* the packages of loadout.json
  editor,   \* the changes under way: what was read, and what to do
  synced,   \* the last plan, of the manifest as it is
  changes

manifestVars == <<shelf, manifest, editor, synced, changes>>

IdsOf(packages) == {e.id : e \in ToSet(packages)}
Named(packages, id) == {e \in ToSet(packages) : e.id = id}

-----------------------------------------------------------------------------
(* orderManifestPackages: depth first, dependencies before dependents. *)

RECURSIVE VisitPackage(_, _, _)
VisitPackage(packages, r, id) ==
  CASE r.failed \/ id \in ToSet(r.order) -> r
    [] ~r.failed /\ id \notin ToSet(r.order) /\ (id \in r.visiting \/ Named(packages, id) = {}) ->
         [r EXCEPT !.failed = TRUE]
    [] OTHER ->
         LET pkg == CHOOSE e \in Named(packages, id) : TRUE
             after == FoldLeft(LAMBDA s, d : VisitPackage(packages, s, d),
                               [r EXCEPT !.visiting = @ \cup {id}], SetToSeq(pkg.dependsOn))
         IN [after EXCEPT !.visiting = @ \ {id}, !.order = IF after.failed THEN @ ELSE Append(@, id)]
OrderManifestPackages(packages) ==
  FoldLeft(LAMBDA r, e : VisitPackage(packages, r, e.id),
           [order |-> <<>>, visiting |-> {}, failed |-> FALSE], packages)

(* parseManifest *)
Accepts(packages) ==
  /\ Cardinality(IdsOf(packages)) = Len(packages)
  /\ \A e \in ToSet(packages) : e.dependsOn \subseteq IdsOf(packages)
  /\ ~OrderManifestPackages(packages).failed

ManifestInit ==
  /\ shelf \in Shelves /\ manifest = <<>>
  /\ editor = [p \in Editors |-> {}] /\ synced = {} /\ changes = 0

-----------------------------------------------------------------------------
(* addManifestPackage, removeManifestPackage, applyProfileToManifest *)
Edits ==
  [kind : {"add"}, entries : {<<e>> : e \in Entries}]
  \cup [kind : {"remove"}, entries : {<<e>> : e \in Entries}]
  \cup [kind : {"profile"}, entries : Profiles]

ReadManifest(p) ==
  /\ editor[p] = {} /\ changes < MaxChanges /\ changes' = changes + 1
  /\ \E edit \in Edits : editor' = [editor EXCEPT ![p] = {[read |-> manifest, edit |-> edit]}]
  /\ UNCHANGED <<shelf, manifest, synced>>

Edited(packages, edit) ==
  CASE edit.kind = "add" -> packages \o edit.entries
    [] edit.kind = "remove" -> SelectSeq(packages, LAMBDA e : e.id # edit.entries[1].id)
    [] edit.kind = "profile" ->
         packages \o SelectSeq(edit.entries, LAMBDA e : e.id \notin IdsOf(packages))
(* A removal must remove something, and the result must parse. *)
Possible(packages, edit) ==
  /\ edit.kind = "remove" => edit.entries[1].id \in IdsOf(packages)
  /\ Accepts(Edited(packages, edit))
WriteManifest(p) == \E job \in editor[p] :
  /\ editor' = [editor EXCEPT ![p] = {}]
  /\ IF Possible(job.read, job.edit)
     THEN manifest' = Edited(job.read, job.edit) /\ synced' = {}
     ELSE UNCHANGED <<manifest, synced>>
  /\ UNCHANGED <<shelf, changes>>

-----------------------------------------------------------------------------
(* expandRegistryDependencies: what a registry package depends on joins the *)
(* plan, unless it is configured or was met before.                         *)

OneVersion(r, dependency) == \A w \in r.wanted : w[1] = dependency[1] => w = dependency
(* Mutant: the configured package serves, whatever its source. *)
AnySource(configured, dependency) == TRUE
SameSource(configured, dependency) ==
  \A c \in Named(configured, dependency[1]) : c.source = {dependency}
JoinAgents(packages, e) ==
  [i \in DOMAIN packages |->
     IF packages[i].id = e.id THEN [packages[i] EXCEPT !.agents = @ \cup e.agents] ELSE packages[i]]

(* A Map keeps a key's place. *)
Put(packages, e) ==
  IF Named(packages, e.id) = {} THEN Append(packages, e)
  ELSE [i \in DOMAIN packages |-> IF packages[i].id = e.id THEN e ELSE packages[i]]

RECURSIVE Expand(_, _, _)
Follow(configured, e, r, dependency) ==
  LET fails == r.failed \/ ~OneVersion(r, dependency) \/ ~SameSource(configured, dependency)
      new == [id |-> dependency[1], source |-> {dependency}, dependsOn |-> {}, agents |-> e.agents, enabled |-> TRUE]
      next == IF Named(configured, dependency[1]) = {} THEN new
              ELSE CHOOSE c \in Named(configured, dependency[1]) : TRUE
  IN IF fails THEN [r EXCEPT !.failed = TRUE]
     ELSE Expand(configured, [r EXCEPT !.wanted = @ \cup {dependency}], next)
Expand(configured, r, e) ==
  LET met == Named(r.packages, e.id)
      Resolves == \A s \in e.source : s \in DOMAIN shelf
  IN CASE r.failed -> r
       [] ~r.failed /\ e.source = {} -> IF met = {} THEN [r EXCEPT !.packages = Append(@, e)] ELSE r
       [] ~r.failed /\ e.source # {} /\ e.source \subseteq r.visiting -> [r EXCEPT !.failed = TRUE]
       [] ~r.failed /\ e.source # {} /\ ~(e.source \subseteq r.visiting) /\ met # {} ->
            IF \E m \in met : m.source # e.source THEN [r EXCEPT !.failed = TRUE]
            ELSE [r EXCEPT !.packages = JoinAgents(@, e)]
       [] OTHER ->
            IF ~Resolves THEN [r EXCEPT !.failed = TRUE]
            ELSE LET dependencies == shelf[CHOOSE s \in e.source : TRUE]
                     after == FoldLeft(LAMBDA s, d : Follow(configured, e, s, d),
                                       [r EXCEPT !.visiting = @ \cup e.source], dependencies)
                     full == [e EXCEPT !.dependsOn = @ \cup {d[1] : d \in ToSet(dependencies)}]
                 IN [after EXCEPT !.visiting = @ \ e.source,
                                  !.packages = IF after.failed THEN @ ELSE Put(@, full)]
ExpandRegistryDependencies(packages) ==
  FoldLeft(LAMBDA r, e : Expand(packages, r, e),
           [packages |-> <<>>, visiting |-> {}, wanted |-> {}, failed |-> FALSE], packages)

NeedsDisabled(packages) ==
  \E e \in ToSet(packages) : e.enabled /\ \E d \in ToSet(packages) : d.id \in e.dependsOn /\ ~d.enabled
BuildSyncPlan ==
  /\ synced = {}
  /\ LET expanded == ExpandRegistryDependencies(manifest)
         ordered == OrderManifestPackages(expanded.packages)
         refused == expanded.failed \/ NeedsDisabled(expanded.packages) \/ ordered.failed
         Enabled(id) == \A e \in Named(expanded.packages, id) : e.enabled
     IN synced' = {[refused |-> refused, packages |-> ToSet(expanded.packages),
                    order |-> IF refused THEN <<>> ELSE SelectSeq(ordered.order, Enabled)]}
  /\ UNCHANGED <<shelf, manifest, editor, changes>>

ManifestNext == BuildSyncPlan \/ \E p \in Editors : ReadManifest(p) \/ WriteManifest(p)

ManifestSpec == ManifestInit /\ [][ManifestNext]_manifestVars

-----------------------------------------------------------------------------
(* Properties. *)

(* The definition a plan is compared with: everything that is wanted, at any depth. *)
WantedBy(sources) == UNION {ToSet(shelf[s]) : s \in sources \cap DOMAIN shelf}
EverythingWanted ==
  LET explicit == UNION {e.source : e \in ToSet(manifest)}
      closure[n \in 0..Cardinality(DOMAIN shelf)] ==
        IF n = 0 THEN explicit ELSE closure[n - 1] \cup WantedBy(closure[n - 1])
  IN closure[Cardinality(DOMAIN shelf)]
Refusable ==
  LET wanted == EverythingWanted
      asked == WantedBy(wanted)
      Needs(id) == UNION {e.dependsOn : e \in Named(manifest, id)}
                   \cup {d[1] : d \in WantedBy({s \in wanted : s[1] = id} \cup UNION {e.source : e \in Named(manifest, id)})}
      ids == IdsOf(manifest) \cup {w[1] : w \in wanted}
      below[n \in 0..Cardinality(ids), id \in ids] ==
        IF n = 0 THEN Needs(id) ELSE below[n - 1, id] \cup UNION {Needs(d) : d \in below[n - 1, id]}
  IN \/ ~(wanted \subseteq DOMAIN shelf)
     \/ \E v \in asked, w \in asked : v[1] = w[1] /\ v # w
     \/ \E w \in asked : \E e \in Named(manifest, w[1]) : e.source # {w}
     \/ \E id \in ids : id \in below[Cardinality(ids), id]
     \/ \E e \in ToSet(manifest) : ~e.enabled /\ \E id \in ids : e.id \in Needs(id)

(* The manifest stays one that can be read, however commands overlap; and a plan *)
(* for it has every wanted package once, in one version, each after what it      *)
(* depends on, enabled all of them - or is refused for a package that is         *)
(* missing, wanted in two versions, part of a cycle, or disabled and needed      *)
(* (parseManifest, expandRegistryDependencies, orderManifestPackages).           *)
PlansFollowDependencies ==
  /\ Accepts(manifest)
  /\ \A plan \in synced :
       /\ plan.refused => Refusable
       /\ ~plan.refused =>
            /\ Cardinality(ToSet(plan.order)) = Len(plan.order)
            /\ Cardinality(plan.packages) = Cardinality({e.id : e \in plan.packages})
            /\ EverythingWanted \subseteq UNION {e.source : e \in plan.packages}
            /\ \A e \in plan.packages : e.enabled =>
                 \E i \in DOMAIN plan.order :
                   /\ plan.order[i] = e.id
                   /\ e.dependsOn \cup {d[1] : d \in WantedBy(e.source)} \subseteq ToSet(SubSeq(plan.order, 1, i - 1))
=============================================================================
