----------------------------- MODULE Candidates -----------------------------
(***************************************************************************)
(* From a lead to a proposal for the catalog (src/core/discovery/          *)
(* candidate-intelligence.ts), over the cache of repository snapshots      *)
(* (src/core/install/source.ts).  `candidate inspect` reads the head of    *)
(* the default branch and writes a dossier; `candidate propose` reads the  *)
(* dossier's commit again before it writes a proposal.  Users edit         *)
(* dossiers and cached files, the branch moves, and every fetch replaces   *)
(* the cached directory that others may be reading.  One repository.       *)
(***************************************************************************)
EXTENDS Naturals, FiniteSets

CONSTANTS
  Commits,      \* commits of the repository
  Unsafe,       \* those whose static evaluation is blocked
  Reviewers,    \* processes
  MaxReviews, MaxEdits \* bounds: commands, edits and damages

ASSUME CandidatesAssumption == Unsafe \subseteq Commits

VARIABLES
  head,      \* the commit of the default branch
  cache,     \* the directory of every commit
  reviewer,  \* what each process is doing
  dossier,   \* the dossier file
  proposals, \* the proposals written so far
  littered,  \* history: the commits whose directory was given files that git ignores
  reviews, edits

reviewVars == <<head, cache, reviewer, dossier, proposals, littered, reviews, edits>>

(* A directory has what its commit holds, that and more which git ignores, or *)
(* anything else: a part.  More may read as less: a SKILL.md makes one skill  *)
(* of all that is below it.                                                   *)
CacheStates == {"absent", "part", "whole", "extra"}
Extents == {"all", "extra", "part", "invented"}
Evidence == [commit : Commits, extent : Extents]
TrueEvidence(c) == [commit |-> c, extent |-> "all"]
(* Findings block; evidence that misses them does not. *)
IsBlocked(evidence) == evidence.extent = "all" /\ evidence.commit \in Unsafe

ReviewTypeOK ==
  /\ head \in Commits /\ cache \in [Commits -> CacheStates] /\ littered \subseteq Commits
  /\ dossier \subseteq [commit : Commits, evidence : Evidence] /\ Cardinality(dossier) <= 1
  /\ \A p \in Reviewers : reviewer[p].pc \in
       {"idle", "clone", "reuse", "fetch", "remove", "rename", "read", "evaluate", "decide"}

ReviewInit ==
  /\ head \in Commits /\ cache = [c \in Commits |-> "absent"]
  /\ reviewer = [p \in Reviewers |-> [pc |-> "idle"]]
  /\ dossier = {} /\ proposals = {} /\ littered = {} /\ reviews = 0 /\ edits = 0

-----------------------------------------------------------------------------
At(p, pc) == reviewer[p].pc = pc
Moves(p, pc) == reviewer' = [reviewer EXCEPT ![p].pc = pc]
Stops(p) == reviewer' = [reviewer EXCEPT ![p] = [pc |-> "idle"]]
Elsewhere == UNCHANGED <<head, dossier, proposals, reviews, edits, littered>>

(* A directory that changes under a reader disturbs the reading. *)
Reading(q, c) == reviewer[q].pc \in {"read", "evaluate"} /\ reviewer[q].commit = c
Changes(c, state, next) ==
  /\ cache' = [cache EXCEPT ![c] = state]
  /\ reviewer' = [q \in Reviewers |-> IF Reading(q, c) THEN [next[q] EXCEPT !.calm = FALSE] ELSE next[q]]

Review(goal, c, claim, pc) ==
  [pc |-> pc, goal |-> goal, commit |-> c, claim |-> claim, extent |-> "all", calm |-> TRUE]
Starts(p, state) ==
  /\ At(p, "idle") /\ reviews < MaxReviews /\ reviews' = reviews + 1
  /\ reviewer' = [reviewer EXCEPT ![p] = state]
  /\ UNCHANGED <<head, cache, dossier, proposals, edits, littered>>

(* buildCandidateDossier, and readCandidateDossier before verification. *)
InspectCandidate(p) == Starts(p, Review("inspect", head, {}, "clone"))
ProposeCandidate(p) == \E d \in dossier : Starts(p, Review("propose", d.commit, {d.evidence}, "reuse"))

-----------------------------------------------------------------------------
(* fetchRepositorySnapshot *)

(* Without a commit, what the branch names by now; any step may fail. *)
CloneHead(p) ==
  /\ At(p, "clone") /\ UNCHANGED cache /\ Elsewhere
  /\ \/ reviewer' = [reviewer EXCEPT ![p].pc = "remove", ![p].commit = head]
     \/ Stops(p)

(* rev-parse HEAD and a clean status, which does not list what git ignores. *)
Reusable(c) == cache[c] \in {"whole", "extra"}
ReuseSnapshot(p) ==
  /\ At(p, "reuse") /\ UNCHANGED cache /\ Elsewhere
  /\ Moves(p, IF Reusable(reviewer[p].commit) THEN "read" ELSE "fetch")
FetchCommit(p) ==
  /\ At(p, "fetch") /\ UNCHANGED cache /\ Elsewhere
  /\ Moves(p, "remove") \/ Stops(p)

(* rm works its way through the directory, whoever reads it ... *)
RemoveSnapshot(p) ==
  /\ At(p, "remove") /\ Elsewhere
  /\ LET c == reviewer[p].commit IN
     \/ cache[c] \in {"whole", "extra"} /\ Changes(c, "part", reviewer)
     \/ Changes(c, "absent", [reviewer EXCEPT ![p].pc = "rename"])
(* ... and the rename fails when somebody else's came first. *)
RenameSnapshot(p) ==
  /\ At(p, "rename") /\ Elsewhere
  /\ LET c == reviewer[p].commit IN
     IF cache[c] = "absent" THEN Changes(c, "whole", [reviewer EXCEPT ![p].pc = "read"])
     ELSE Stops(p) /\ UNCHANGED cache

-----------------------------------------------------------------------------
(* inspectPackage and evaluatePackage; what cannot be read is left out, and *)
(* what git ignores is read like the rest.                                  *)
Sees(extent, state) ==
  IF state = "whole" \/ extent = "part" THEN extent ELSE IF state = "extra" THEN "extra" ELSE "part"
Reads(p, next) ==
  /\ reviewer' = [reviewer EXCEPT ![p].pc = next, ![p].extent = Sees(@, cache[reviewer[p].commit])]
  /\ UNCHANGED cache /\ Elsewhere
InspectPackage(p) == At(p, "read") /\ Reads(p, "evaluate")
EvaluatePackage(p) == At(p, "evaluate") /\ Reads(p, "decide")
Observed(r) == [commit |-> r.commit, extent |-> r.extent]

(* `--write` is up to the user. *)
WriteDossier(p) ==
  /\ At(p, "decide") /\ reviewer[p].goal = "inspect" /\ Stops(p)
  /\ dossier' \in {dossier, {[commit |-> reviewer[p].commit, evidence |-> Observed(reviewer[p])]}}
  /\ UNCHANGED <<head, cache, proposals, reviews, edits, littered>>

(* verifyCandidateDossierSource, then buildCatalogProposal; so is --approve. *)
Passes(r) == Observed(r) \in r.claim /\ ~IsBlocked(Observed(r))
WriteProposal(p) ==
  /\ At(p, "decide") /\ reviewer[p].goal = "propose" /\ Stops(p)
  /\ LET r == reviewer[p]
         proposal == [commit |-> r.commit, evidence |-> Observed(r), calm |-> r.calm]
     IN proposals' \in {proposals} \cup (IF Passes(r) THEN {proposals \cup {proposal}} ELSE {})
  /\ UNCHANGED <<head, cache, dossier, reviews, edits, littered>>

-----------------------------------------------------------------------------
(* The bounds of a snapshot, a timeout, or the end of the process. *)
ReviewFails(p) == reviewer[p].pc \in {"remove", "rename", "read", "evaluate"}
                  /\ Stops(p) /\ UNCHANGED cache /\ Elsewhere
MoveHead == head' \in Commits \ {head} /\ UNCHANGED <<cache, reviewer, dossier, proposals, reviews, edits, littered>>

CountEdit == edits < MaxEdits /\ edits' = edits + 1 /\ UNCHANGED <<head, proposals, reviews>>
EditDossier ==
  /\ CountEdit /\ dossier # {} /\ UNCHANGED <<cache, reviewer, littered>>
  /\ dossier' \in {{[commit |-> c, evidence |-> e]} : c \in Commits, e \in Evidence}
DamageSnapshot(c) ==
  CountEdit /\ cache[c] \in {"whole", "extra"} /\ Changes(c, "part", reviewer) /\ UNCHANGED <<dossier, littered>>
LitterSnapshot(c) ==
  /\ CountEdit /\ cache[c] = "whole" /\ Changes(c, "extra", reviewer)
  /\ littered' = littered \cup {c} /\ UNCHANGED dossier

ReviewNext ==
  \/ \E p \in Reviewers :
       \/ InspectCandidate(p) \/ ProposeCandidate(p)
       \/ CloneHead(p) \/ ReuseSnapshot(p) \/ FetchCommit(p) \/ RemoveSnapshot(p) \/ RenameSnapshot(p)
       \/ InspectPackage(p) \/ EvaluatePackage(p) \/ WriteDossier(p) \/ WriteProposal(p) \/ ReviewFails(p)
  \/ MoveHead \/ EditDossier \/ (\E c \in Commits : DamageSnapshot(c) \/ LitterSnapshot(c))

ReviewSpec == ReviewInit /\ [][ReviewNext]_reviewVars

-----------------------------------------------------------------------------
(* Properties. *)

(* What is proposed for the catalog is what the pinned commit holds, and is not *)
(* blocked - however old, edited or half read the dossier is, whatever was      *)
(* edited in or left behind of the cached directory, and wherever the branch    *)
(* has moved (verifyCandidateDossierSource).  Two things get by: a directory    *)
(* that changes during the verification itself, and one that holds files which  *)
(* git ignores and somebody put beside the commit's: the evidence is then what  *)
(* that directory shows, at the dossier's inspection and at the verification.   *)
AdmittedOnEvidence == \A q \in proposals :
  q.calm => \/ q.evidence = TrueEvidence(q.commit) /\ q.commit \notin Unsafe
            \/ q.evidence = [commit |-> q.commit, extent |-> "extra"] /\ q.commit \in littered
=============================================================================
