----------------------------- MODULE Provenance ------------------------------
(***************************************************************************)
(* Where an installed skill comes from (src/core/catalog/provenance.ts):   *)
(* the index of the skills in the reviewed commits of the catalog, one     *)
(* file that `inventory`, `reconcile` and `adopt` read or build anew, and  *)
(* the match of an installed skill against it.  Commands overlap, the      *)
(* catalog moves, packages cannot be fetched, and another fetch may remove *)
(* the directory that is being read.  A repository has one package.        *)
(***************************************************************************)
EXTENDS Naturals, FiniteSets

CONSTANTS
  Reviewed,  \* packages that a catalog may review
  Revisions, \* commits
  Content,   \* Content[<<p, c>>]: the skills there, [name, text, safe]
  Scanned,   \* installed skills, [name, text, hints, owner]: hints and owner are sets of packages
  Indexers, MaxIndexings, MaxMoves, MaxLosses \* commands; bounds

ASSUME ProvenanceAssumption == DOMAIN Content = Reviewed \X Revisions

VARIABLES
  pinnedAt,  \* the catalog: package -> its commit, {} or one
  index,    \* the index file: {} or {[digest, records, failures, lost]}, lost being what nobody knows
  indexer,  \* what each command is doing
  judgement, \* the last answer of each command: {} or {[source, index, pinnedAt]}
  indexings, moves, losses

provenanceVars == <<pinnedAt, index, indexer, judgement, indexings, moves, losses>>

NoIndexer == [pc |-> "idle"]
ProvenanceInit ==
  /\ pinnedAt \in [Reviewed -> {{c} : c \in Revisions} \cup {{}}] /\ index = {}
  /\ indexer = [b \in Indexers |-> NoIndexer] /\ judgement = [b \in Indexers |-> {}]
  /\ indexings = 0 /\ moves = 0 /\ losses = 0

(* Mutant: only the packages are hashed. *)
DigestOfNames(catalog) == {p \in Reviewed : catalog[p] # {}}
(* A digest tells apart what is hashed. *)
ImmutableCatalogDigest(catalog) == {pc \in Reviewed \X Revisions : pc[2] \in catalog[pc[1]]}

-----------------------------------------------------------------------------
(* candidatesFor: the first of four reasons that holds. *)

CandidatesFor(skill, records) ==
  LET owned == {r \in records : r.package \in skill.owner}
      exact == {r \in records : r.skill.text = skill.text}
      embedded == {r \in records : r.package \in skill.hints}
      named == {r \in records : r.skill.name = skill.name}
      As(kind, candidates) == [kind |-> kind, candidates |-> candidates]
  IN CASE skill.owner # {} -> As("loadout-managed", owned)
       [] skill.owner = {} /\ exact # {} -> As("catalog-exact", exact)
       [] skill.owner = {} /\ exact = {} /\ embedded # {} -> As("embedded-source", embedded)
       [] skill.owner = {} /\ exact \cup embedded = {} /\ named # {} -> As("catalog-name-candidate", named)
       [] OTHER -> As("unknown", {})

-----------------------------------------------------------------------------
(* resolveCatalogSkillIndex and buildCatalogSkillIndex *)

Still == UNCHANGED <<pinnedAt, moves>>

LoadCatalog(b) ==
  /\ indexer[b].pc = "idle" /\ indexings < MaxIndexings /\ indexings' = indexings + 1
  /\ \E how \in {"refresh", "offline", "either"} :
       indexer' = [indexer EXCEPT ![b] = [pc |-> "look", how |-> how, pinnedAt |-> pinnedAt]]
  /\ judgement' = [judgement EXCEPT ![b] = {}] /\ Still /\ UNCHANGED <<index, losses>>

Judges(b, source, found) ==
  /\ judgement' = [judgement EXCEPT ![b] = {[source |-> source, index |-> found, pinnedAt |-> indexer[b].pinnedAt]}]
  /\ indexer' = [indexer EXCEPT ![b] = NoIndexer]

ResolveIndex(b) ==
  /\ indexer[b].pc = "look"
  /\ LET me == indexer[b]
         digest == ImmutableCatalogDigest(me.pinnedAt)
         current == {i \in index : i.digest = digest}
     IN \/ me.how # "refresh" /\ current # {} /\ Judges(b, "cache", current)
        \/ me.how = "offline" /\ current = {} /\ Judges(b, IF index = {} THEN "none" ELSE "stale-cache", index)
        \/ /\ me.how = "refresh" \/ (me.how = "either" /\ current = {})
           /\ indexer' = [indexer EXCEPT ![b] =
                [pc |-> "index", pinnedAt |-> me.pinnedAt, left |-> {p \in Reviewed : me.pinnedAt[p] # {}},
                 digest |-> digest, records |-> {}, failures |-> {}, lost |-> {}]]
           /\ UNCHANGED judgement
  /\ Still /\ UNCHANGED <<index, indexings, losses>>

(* Packages are indexed side by side; each ends in one of these ways. *)
Ends(b, p, skills, failed, lost) ==
  /\ indexer[b].pc = "index" /\ p \in indexer[b].left
  /\ indexer' = [indexer EXCEPT ![b] = [indexer[b] EXCEPT
       !.left = @ \ {p},
       !.records = @ \cup {[package |-> p, commit |-> c, skill |-> s] : c \in indexer[b].pinnedAt[p], s \in skills},
       !.failures = @ \cup (IF failed THEN {p} ELSE {}),
       !.lost = @ \cup (IF lost THEN {p} ELSE {})]]
  /\ Still /\ UNCHANGED <<index, judgement, indexings>>
SkillsOf(b, p) == UNION {Content[<<p, c>>] : c \in indexer[b].pinnedAt[p]}
IndexPackage(b, p) ==
  /\ indexer[b].pc = "index"
  /\ Ends(b, p, {s \in SkillsOf(b, p) : s.safe}, \E s \in SkillsOf(b, p) : ~s.safe, FALSE)
  /\ UNCHANGED losses
PackageFails(b, p) == losses < MaxLosses /\ losses' = losses + 1 /\ Ends(b, p, {}, TRUE, FALSE)
(* A directory that is gone has no skills, and that is no failure. *)
DirectoryRemoved(b, p) ==
  /\ indexer[b].pc = "index" /\ losses < MaxLosses /\ losses' = losses + 1
  /\ \E found \in SUBSET {s \in SkillsOf(b, p) : s.safe} : Ends(b, p, found, FALSE, TRUE)

WriteIndex(b) ==
  /\ indexer[b].pc = "index" /\ indexer[b].left = {}
  /\ LET built == {[digest |-> indexer[b].digest, records |-> indexer[b].records,
                    failures |-> indexer[b].failures, lost |-> indexer[b].lost]}
     IN index' = built /\ Judges(b, "refreshed", built)
  /\ Still /\ UNCHANGED <<indexings, losses>>
IndexerDies(b) ==
  /\ indexer[b].pc = "index" /\ indexer' = [indexer EXCEPT ![b] = NoIndexer]
  /\ Still /\ UNCHANGED <<index, judgement, indexings, losses>>

(* Another release, or a proposal that was promoted. *)
CatalogMoves ==
  /\ moves < MaxMoves /\ moves' = moves + 1
  /\ \E p \in Reviewed, c \in {{}} \cup {{x} : x \in Revisions} :
       c # pinnedAt[p] /\ pinnedAt' = [pinnedAt EXCEPT ![p] = c]
  /\ UNCHANGED <<index, indexer, judgement, indexings, losses>>
(* A cache that does not parse, or not as an index, is none. *)
IndexHarmed ==
  /\ index # {} /\ moves < MaxMoves /\ moves' = moves + 1 /\ index' = {}
  /\ UNCHANGED <<pinnedAt, indexer, judgement, indexings, losses>>

ProvenanceNext ==
  \/ CatalogMoves \/ IndexHarmed
  \/ \E b \in Indexers :
       \/ LoadCatalog(b) \/ ResolveIndex(b) \/ WriteIndex(b) \/ IndexerDies(b)
       \/ \E p \in Reviewed : IndexPackage(b, p) \/ PackageFails(b, p) \/ DirectoryRemoved(b, p)
ProvenanceSpec == ProvenanceInit /\ [][ProvenanceNext]_provenanceVars

-----------------------------------------------------------------------------
(* Properties. *)

(* An answer that is not called stale is about the catalog its command read,   *)
(* whoever built the index and whenever: what it matches a skill to is in the  *)
(* reviewed commit, and a skill it calls unknown has no source there, not even *)
(* by name, save in packages whose failure it reports or whose directory was   *)
(* removed under the reader (enrichInventoryWithProvenance).                   *)
ProvenanceJustified ==
  \A b \in Indexers : \A j \in judgement[b] :
    /\ \A i \in j.index : \A r \in i.records : r.skill \in Content[<<r.package, r.commit>>] /\ r.skill.safe
    /\ j.source \in {"cache", "refreshed"} => \A i \in j.index, skill \in Scanned :
         LET match == CandidatesFor(skill, i.records)
             sources == {p \in Reviewed \ (i.failures \cup i.lost) : \E c \in j.pinnedAt[p] : \E s \in Content[<<p, c>>] :
                           s.name = skill.name \/ s.text = skill.text \/ p \in skill.hints}
         IN /\ \A r \in match.candidates : j.pinnedAt[r.package] = {r.commit}
            /\ match.kind = "unknown" => sources = {}
            /\ match.kind = "catalog-name-candidate" =>
                 \A p \in sources, c \in Revisions : c \in j.pinnedAt[p] =>
                   \A s \in Content[<<p, c>>] : s.text # skill.text
=============================================================================
