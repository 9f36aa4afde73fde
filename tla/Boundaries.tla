----------------------------- MODULE Boundaries -----------------------------
(***************************************************************************)
(* Who owns which part of the project, and what crosses the borders: the   *)
(* commands that set ownership up (src/core/coordination/quick-start.ts,   *)
(* git-ownership.ts), preview a conflict (conflict-preview.ts), and find   *)
(* the exports that other agents use and publish them as contracts         *)
(* (auto-contract.ts).  Each is a sequence of separate reads and appends:  *)
(* CoordLog says what one append does, here other commands and editors     *)
(* come between them.                                                      *)
(***************************************************************************)
EXTENDS Naturals, FiniteSets, FiniteSetsExt

CONSTANTS
  Owners,      \* agents
  Root,        \* the path "."
  Places,      \* the directories that may be claimed, Root among them
  Below,       \* pairs <<x, d>>: directory or file x lies below directory d # Root
  Spellings,   \* other ways to write a path, such as "./api" and "lib/../api"
  Names,       \* the place that a spelling names, or {} when a claim refuses it
  Overlaps,    \* pairs <<s, d>>: d begins the spelling s as it stands, or s begins d
  Files,       \* source files
  ContractName,\* the name a file's contract gets
  Imports,     \* pairs <<f, g>>: file f imports from file g
  Earlier,     \* the claims that a behaviour may begin with
  Splits,      \* what `coord start` may make of the directories: <<one half, other half>>
  Histories,   \* what git may tell: directory -> author -> commits
  AgentOf,     \* authors -> {agent} or {}
  Threshold,   \* percentage of the commits that makes an owner
  Commands,    \* processes
  MaxSteps     \* bound: edits, claims by hand, commands

Claims == [agent : Owners, mode : {"exclusive", "shared"}]

ASSUME BoundariesAssumption ==
  /\ Spellings \cap Places = {} /\ Names \in [Spellings -> {{}} \cup {{d} : d \in Places}]
  /\ Overlaps \subseteq Spellings \X Places
  /\ Root \in Places /\ Threshold \in 1..100 /\ Earlier \subseteq [Places -> SUBSET Claims]
  /\ \A split \in Splits : split[1] \cup split[2] \subseteq Places
  /\ \A h \in Histories : DOMAIN h \subseteq Places

VARIABLES
  claims,    \* directory -> {} or {[agent, mode]}
  contracts, \* name -> {} or {[revision, body]}, the highest revision
  source,    \* the declarations a file exports
  setup,     \* processes -> {} or {the ownership setup under way}
  detect,    \* processes -> {} or {the detection under way}
  steps

boundaryVars == <<claims, contracts, source, setup, detect, steps>>

(* "manual": no exact declaration fits on one line; "secret": redaction *)
(* changes the text when it is published.                               *)
Declarations == {"one", "two", "manual", "secret"}

BoundaryInit ==
  /\ claims \in Earlier /\ contracts = [n \in {ContractName[f] : f \in Files} |-> {}]
  /\ source = [f \in Files |-> "one"]
  /\ setup = [p \in Commands |-> {}] /\ detect = [p \in Commands |-> {}] /\ steps = 0

StepLeft == steps < MaxSteps /\ steps' = steps + 1

-----------------------------------------------------------------------------
(* Claims *)

PathsMeet(x, d) == x = d \/ x = Root \/ d = Root \/ <<x, d>> \in Below \/ <<d, x>> \in Below
MayClaim(a, dirs, mode) ==
  \A x \in dirs, d \in Places : \A c \in claims[d] :
    PathsMeet(x, d) => c.agent = a \/ (c.mode = "shared" /\ mode = "shared")

(* A claim names places in normal form, whichever way they were written. *)
Requests == Places \cup Spellings
NormalizeClaimPath(s) == IF s \in Spellings THEN Names[s] ELSE {s}

(* pathOverlaps of the preview, which compares what was written and knows *)
(* nothing of Root.                                                       *)
PreviewMeets(s, d) == s = d \/ <<s, d>> \in Below \cup Overlaps \/ <<d, s>> \in Below
PreviewSafe(a, s) == \A d \in Places : \A c \in claims[d] : c.agent # a => ~PreviewMeets(s, d)

Claimed(a, dirs, mode) ==
  [d \in Places |-> IF d \in dirs THEN {[agent |-> a, mode |-> mode]} ELSE claims[d]]
(* What a command has read is old from now on. *)
Spoil(jobs) == [p \in Commands |-> {[j EXCEPT !.clean = FALSE] : j \in jobs[p]}]

ClaimByHand(a, s, mode) ==
  /\ StepLeft
  /\ \E d \in NormalizeClaimPath(s) : MayClaim(a, {d}, mode) /\ claims' = Claimed(a, {d}, mode)
  /\ setup' = Spoil(setup) /\ detect' = Spoil(detect) /\ UNCHANGED <<contracts, source>>
Release(a, d) ==
  /\ StepLeft /\ \E c \in claims[d] : c.agent = a
  /\ claims' = [claims EXCEPT ![d] = {}]
  /\ setup' = Spoil(setup) /\ detect' = Spoil(detect) /\ UNCHANGED <<contracts, source>>

-----------------------------------------------------------------------------
(* Setting ownership up: quickStart and applyGitOwnership look at the       *)
(* claims once and then claim for one agent after the other.                *)

Holds(a, d) == \E e \in Places : (d = e \/ <<d, e>> \in Below) /\ \E c \in claims[e] : c.agent = a
CollapsePaths(dirs) == {d \in dirs : \A e \in dirs : <<d, e>> \notin Below}
AtRest(p) == setup[p] = {} /\ detect[p] = {}
Begins(p, suggests, left) ==
  setup' = [setup EXCEPT ![p] = {[suggests |-> suggests, left |-> {w \in left : w[2] # {}}, clean |-> TRUE]}]

QuickStart(p) ==
  /\ StepLeft /\ AtRest(p) /\ \A d \in Places : claims[d] = {}
  /\ \E split \in Splits, a \in Owners, b \in Owners :
       LET left == {<<a, CollapsePaths(split[1])>>, <<b, CollapsePaths(split[2])>>} IN
       /\ a # b
       /\ Begins(p, UNION {{<<w[1], d>> : d \in w[2]} : w \in left}, left)
  /\ UNCHANGED <<claims, contracts, source, detect>>

(* The author of most of a directory's commits, rounded to full percent. *)
Total(h, d) == MapThenSumSet(LAMBDA author : h[d][author], DOMAIN h[d])
Dominant(h, d) == CHOOSE author \in DOMAIN h[d] : \A other \in DOMAIN h[d] : h[d][other] <= h[d][author]
Suggestions(h) ==
  {s \in Owners \X DOMAIN h :
     LET d == s[2] most == Dominant(h, d) IN
     /\ Total(h, d) > 0 /\ s[1] \in AgentOf[most]
     /\ (200 * h[d][most] + Total(h, d)) \div (2 * Total(h, d)) >= Threshold}
ApplyGitOwnership(p) ==
  /\ StepLeft /\ AtRest(p)
  /\ \E h \in Histories :
       Begins(p, Suggestions(h),
              {<<a, {d \in DOMAIN h : <<a, d>> \in Suggestions(h) /\ ~Holds(a, d)}>> : a \in Owners})
  /\ UNCHANGED <<claims, contracts, source, detect>>

(* claimOwnership: the first conflict ends the command, what is claimed stays. *)
ClaimNext(p) == \E job \in setup[p], w \in UNION {j.left : j \in setup[p]} :
  /\ IF MayClaim(w[1], w[2], "exclusive")
     THEN /\ claims' = Claimed(w[1], w[2], "exclusive") /\ detect' = Spoil(detect)
          /\ setup' = [Spoil(setup) EXCEPT ![p] = {[job EXCEPT !.left = @ \ {w}]}]
     ELSE setup' = [setup EXCEPT ![p] = {}] /\ UNCHANGED <<claims, detect>>
  /\ UNCHANGED <<contracts, source, steps>>
EndSetup(p) ==
  /\ \E job \in setup[p] : job.left = {} /\ setup' = [setup EXCEPT ![p] = {}]
  /\ UNCHANGED <<claims, contracts, source, detect, steps>>

-----------------------------------------------------------------------------
(* Contracts *)

Revision(n) == IF contracts[n] = {} THEN 0 ELSE (CHOOSE c \in contracts[n] : TRUE).revision
(* Mutant: the revision that is there, from 1 on. *)
SameRevision(n) == IF contracts[n] = {} THEN 1 ELSE Revision(n)
NextRevision(n) == Revision(n) + 1
(* contractsFromEvents: only a higher revision replaces a contract. *)
Publish(n, revision, body) ==
  contracts' = IF revision > Revision(n)
               THEN [contracts EXCEPT ![n] = {[revision |-> revision, body |-> body]}] ELSE contracts
Stored(f, text) == <<f, IF text = "secret" THEN "redacted" ELSE text>>

PublishByHand(f, revision) ==
  /\ StepLeft /\ Publish(ContractName[f], revision, <<f, "hand">>)
  /\ detect' = Spoil(detect) /\ UNCHANGED <<claims, source, setup>>
EditSource(f) ==
  /\ StepLeft /\ \E text \in Declarations \ {source[f]} : source' = [source EXCEPT ![f] = text]
  /\ detect' = Spoil(detect) /\ UNCHANGED <<claims, contracts, setup>>

-----------------------------------------------------------------------------
(* detectContracts and `coord detect --publish --yes` *)

Covering(owners, f) == {d \in Places : (d = Root \/ <<f, d>> \in Below) /\ owners[d] # {}}
FindOwner(owners, f) ==
  {c.agent : c \in UNION {owners[d] : d \in {e \in Covering(owners, f) :
     \A other \in Covering(owners, f) : other = e \/ other = Root \/ <<e, other>> \in Below}}}
Crossed(owners) ==
  {f \in Files : \E g \in Files : /\ <<g, f>> \in Imports /\ FindOwner(owners, f) # FindOwner(owners, g)
                                  /\ {} \notin {FindOwner(owners, f), FindOwner(owners, g)}}

GetOwnership(p) ==
  /\ StepLeft /\ AtRest(p) /\ \E d \in Places : claims[d] # {}
  /\ detect' = [detect EXCEPT ![p] = {[pc |-> "contracts", owners |-> claims, known |-> contracts,
                                       seen |-> source, left |-> {}, clean |-> TRUE]}]
  /\ UNCHANGED <<claims, contracts, source, setup>>
GetContracts(p) == \E job \in detect[p] :
  /\ job.pc = "contracts"
  /\ detect' = [detect EXCEPT ![p] = {[job EXCEPT !.pc = "scan", !.known = contracts, !.left = Crossed(job.owners)]}]
  /\ UNCHANGED <<claims, contracts, source, setup, steps>>
ScanExports(p) == \E job \in detect[p], f \in UNION {j.left : j \in detect[p]} :
  /\ job.pc = "scan"
  /\ detect' = [detect EXCEPT ![p] = {[job EXCEPT !.seen[f] = source[f], !.left = @ \ {f}]}]
  /\ UNCHANGED <<claims, contracts, source, setup, steps>>
Uncovered(job) ==
  {f \in Crossed(job.owners) : \A c \in job.known[ContractName[f]] : c.body # <<f, job.seen[f]>>}
Candidates(p) == \E job \in detect[p] :
  /\ job.pc = "scan" /\ job.left = {}
  /\ detect' = [detect EXCEPT ![p] =
       IF \E f \in Uncovered(job) : job.seen[f] = "manual" THEN {}
       ELSE {[job EXCEPT !.pc = "publish", !.left = Uncovered(job)]}]
  /\ UNCHANGED <<claims, contracts, source, setup, steps>>
(* A text that is old, or of a file that nobody imports any more, makes others' reports old. *)
PublishContract(p) == \E job \in detect[p], f \in UNION {j.left : j \in detect[p]} :
  /\ job.pc = "publish" /\ Publish(ContractName[f], NextRevision(ContractName[f]), Stored(f, job.seen[f]))
  /\ detect' = [(IF job.seen[f] = source[f] /\ f \in Crossed(claims) THEN detect ELSE Spoil(detect))
                  EXCEPT ![p] = {[job EXCEPT !.left = @ \ {f}]}]
  /\ UNCHANGED <<claims, source, setup, steps>>
EndDetect(p) ==
  /\ \E job \in detect[p] : job.pc = "publish" /\ job.left = {} /\ detect' = [detect EXCEPT ![p] = {}]
  /\ UNCHANGED <<claims, contracts, source, setup, steps>>

BoundaryNext ==
  \/ \E a \in Owners, d \in Places : Release(a, d)
  \/ \E a \in Owners, s \in Requests, mode \in {"exclusive", "shared"} : ClaimByHand(a, s, mode)
  \/ \E f \in Files : EditSource(f) \/ \E revision \in {1, 3} : PublishByHand(f, revision)
  \/ \E p \in Commands : \/ QuickStart(p) \/ ApplyGitOwnership(p) \/ ClaimNext(p) \/ EndSetup(p)
                         \/ GetOwnership(p) \/ GetContracts(p) \/ ScanExports(p) \/ Candidates(p)
                         \/ PublishContract(p) \/ EndDetect(p)

BoundarySpec == BoundaryInit /\ [][BoundaryNext]_boundaryVars

-----------------------------------------------------------------------------
(* Properties. *)

SharesName(f) == \E g \in Crossed(claims) \ {f} : ContractName[g] = ContractName[f]
HoldsRoot(a) == \E c \in claims[Root] : c.agent # a
Claimable(a, s) == \A d \in NormalizeClaimPath(s) : MayClaim(a, {d}, "exclusive")

(* What a command reports stays true until somebody changes what it is about.  A *)
(* setup that ended has claimed all it suggests; a detection that published has   *)
(* left a current contract for every file that another agent imports, but for     *)
(* files that share a contract's name and text that redaction changes; and a path *)
(* that the preview calls safe can be claimed, when it is written as claims write *)
(* it and neither it nor a claim of another agent is ".".                         *)
ReportsHold ==
  /\ \A p \in Commands : \A job \in setup[p] :
       job.clean /\ job.left = {} => \A s \in job.suggests : Holds(s[1], s[2])
  /\ \A p \in Commands : \A job \in detect[p] :
       job.pc = "publish" /\ job.clean /\ job.left = {} =>
         \A f \in Crossed(claims) : \/ SharesName(f) \/ source[f] = "secret"
                                    \/ \E c \in contracts[ContractName[f]] : c.body = <<f, source[f]>>
  /\ \A a \in Owners, s \in Requests :
       PreviewSafe(a, s) /\ NormalizeClaimPath(s) = {s} /\ ~HoldsRoot(a) /\ s # Root => Claimable(a, s)

(* Whatever another agent owns is shown before it is written: no path that is *)
(* called safe belongs to another agent (conflict-preview.ts:38-40).          *)
PreviewShowsOwners == \A a \in Owners, s \in Requests : PreviewSafe(a, s) => Claimable(a, s)
=============================================================================
