----------------------------- MODULE MCDiscovery -----------------------------
(***************************************************************************)
(* Instances of the modules about which packages a project gets: reading   *)
(* listings, measuring growth in the three files that keep counts, the way *)
(* from a lead to a proposal, choosing skills of the library within a      *)
(* limit, the registries of packages, where installed skills come from,    *)
(* and alerts about packages.  They share nothing; a behaviour is about    *)
(* one of them.                                                            *)
(***************************************************************************)
EXTENDS Connector, Discovery, Candidates, Selection, PackageRegistry, Provenance, Alerts, TLC

CONSTANTS q1, q2, f1, f2, p1, p2, c1, c2, h1, h2

VARIABLE focus

MCEntries == {"r1", "r2", "r3", "bad"}
MCLayouts == {<<<<"r1", "r2">>, <<"bad", "r3">>>>, <<<<"r1">>, <<"r1", "r2">>>>, <<<<>>>>,
              <<<<>>, <<"r2">>, <<"r3">>>>}

MCSkills == {<<"k1", "u1">>, <<"k2", "u1">>, <<"k2", "u2">>, <<"k1", "u3">>}
MCBySource == <<<<"k2", "u1">>, <<"k2", "u2">>, <<"k1", "u1">>, <<"k1", "u3">>>>
MCFamily == [u \in {"u1", "u2", "u3"} |-> "f"]
MCPinSets == {[skills |-> {}, units |-> {"u1"}], [skills |-> {<<"k1", "u1">>}, units |-> {}],
              [skills |-> {}, units |-> {}]}

Unit(name, text, safe) == [name |-> name, text |-> text, safe |-> safe]
MCContent ==
  (<<p1, c1>> :> {Unit("n", "t1", TRUE), Unit("m", "t3", FALSE)}) @@ (<<p1, c2>> :> {Unit("n", "t2", TRUE)})
  @@ (<<p2, c1>> :> {Unit("n", "t1", TRUE), Unit("o", "t4", TRUE)}) @@ (<<p2, c2>> :> {})
Lies(name, text, hints, owner) == [name |-> name, text |-> text, hints |-> hints, owner |-> owner]
MCScanned ==
  {Lies("n", "t1", {}, {}), Lies("n", "own", {p2}, {}), Lies("o", "own", {}, {}), Lies("z", "z", {}, {}),
   Lies("n", "t2", {}, {p1})}
MCCategoryOf == [p \in {"a", "b", "c"} |-> "same"]

\* each module starts with one of its initial states when the behaviour is not about it
MCInit ==
  /\ focus \in {"listing", "feed", "queue", "history", "review", "selection", "shelf", "remote", "provenance", "alerts"}
  /\ ConnectorInit /\ (focus # "listing" => listing = [q \in Queries |-> <<<<>>>>])
  /\ GrowthInit /\ (focus \in {"feed", "queue", "history"} \/ stars = [at \in 0..MaxTime |-> 1])
  /\ ReviewInit /\ (focus # "review" => head = c1)
  /\ SelectionInit /\ (focus # "selection" => merit = [s \in Skills |-> 0])
  /\ RegistryInit
  /\ ProvenanceInit /\ (focus # "provenance" => pinnedAt = [p \in Reviewed |-> {}])
  /\ AlertsInit
  /\ (focus = "shelf" \/ work = [f \in PackageFiles |-> "a"]) /\ (focus = "remote" \/ remote = [f \in PackageFiles |-> "a"])
MCNext ==
  /\ UNCHANGED focus
  /\ \/ focus = "listing" /\ ConnectorNext /\ UNCHANGED <<growthVars, reviewVars, selectionVars, registryVars, provenanceVars, alertVars>>
     \/ focus = "feed" /\ (Tick \/ BuildArtifact) /\ UNCHANGED <<linkVars, reviewVars, selectionVars, registryVars, provenanceVars, alertVars>>
     \/ focus = "queue" /\ (Tick \/ QueueNext) /\ UNCHANGED <<linkVars, reviewVars, selectionVars, registryVars, provenanceVars, alertVars>>
     \/ focus = "history" /\ (Tick \/ HistoryNext) /\ UNCHANGED <<linkVars, reviewVars, selectionVars, registryVars, provenanceVars, alertVars>>
     \/ focus = "review" /\ ReviewNext /\ UNCHANGED <<linkVars, growthVars, selectionVars, registryVars, provenanceVars, alertVars>>
     \/ focus = "selection" /\ SelectionNext /\ UNCHANGED <<linkVars, growthVars, reviewVars, registryVars, provenanceVars, alertVars>>
     \/ /\ \/ focus = "shelf" /\ ShelfNext
           \/ focus = "remote" /\ RemoteNext
        /\ UNCHANGED <<linkVars, growthVars, reviewVars, selectionVars, provenanceVars, alertVars>>
     \/ /\ focus = "provenance" /\ ProvenanceNext
        /\ UNCHANGED <<linkVars, growthVars, reviewVars, selectionVars, registryVars, alertVars>>
     \/ /\ focus = "alerts" /\ AlertsNext
        /\ UNCHANGED <<linkVars, growthVars, reviewVars, selectionVars, registryVars, provenanceVars>>
MCVars ==
  <<focus, linkVars, growthVars, reviewVars, selectionVars, registryVars, provenanceVars, alertVars>>
MCSpec == MCInit /\ [][MCNext]_MCVars

\* A search says what its answer lacks, and an alert is hidden, and a replacement
\* pinned, as users said (searchMcpServers, buildFreshnessAlerts).
AnswersHold == ConnectorTypeOK /\ GrowthTypeOK /\ AnswersAddUp /\ DecisionsStand

\* A proposal, and the source that is named for an installed skill, rest on what a
\* reviewed commit holds (proposeCandidate, enrichInventoryWithProvenance).
EvidenceHolds == ReviewTypeOK /\ AdmittedOnEvidence /\ ProvenanceJustified

\* A project's skills are chosen for a reason, within the limits and one source of
\* each unit, and what is activated later keeps to the limit (planProjectActivation,
\* applyProjectActivation).
SelectionHolds == [](SelectionTypeOK /\ SelectionJustified) /\ LimitHolds
=============================================================================
