----------------------------- MODULE HealthScore -----------------------------
(***************************************************************************)
(* The evidence score of one agent (src/core/agents): health-score-        *)
(* evidence.ts collects what is stored about the agent, one source after   *)
(* the other while other commands go on, and agent-health-score.ts gives   *)
(* ten capped dimensions their part of 100 points.  Points are counted in  *)
(* hundredths.  No command collects benchmarks: that dimension is unknown. *)
(***************************************************************************)
EXTENDS Integers, Sequences, FiniteSets, FiniteSetsExt, Functions

CONSTANTS
  RatedPackages, SkillNames,
  Me, Others,   \* the agent that is scored, and the others
  Starts,       \* the facts to begin with
  Support,      \* of the agent's adapter for skills: "native", "adapted" or "unsupported"
  Capacity,     \* DEFAULT_ACTIVE_SKILL_LIMIT
  FullSample,   \* FULL_OUTCOME_SAMPLE
  StoreLimit,   \* of the outcome file
  Words,        \* commits, and the texts, places and snapshots of packages
  MaxPasses, MaxWear \* bounds on collections and on changes of the facts

Risks == {"clear", "warning", "blocking", "unknown"}
Results == {"accept", "success", "activation", "disable", "reject", "failure", "rollback"}
(* A package has at most one entry in the catalog, and one installation; dates may lie ahead. *)
StoredFacts ==
  {f \in [catalog : [RatedPackages -> SUBSET [commit : Words, licensed : BOOLEAN, age : Int]],
          installs : [RatedPackages -> SUBSET [commit : Words, text : Words, place : Words,
                                               risk : Risks, snapshot : Words]],
          skills : [Others \cup {Me} -> [SkillNames -> Nat]],
          events : Seq([agent : Others \cup {Me}, result : Results]),
          disk : [RatedPackages -> [place : Words, text : Words]], torn : SUBSET Words, pending : Nat] :
     \A p \in RatedPackages : /\ \A c, d \in f.catalog[p] : c = d
                              /\ \A c, d \in f.installs[p] : c = d}

ASSUME HealthAssumption ==
  /\ Me \notin Others /\ {Capacity, FullSample, StoreLimit} \subseteq Nat \ {0}
  /\ IsFiniteSet(RatedPackages) /\ IsFiniteSet(SkillNames) /\ Starts \subseteq StoredFacts
  /\ {"next", "edited", "new", "active", "library", "s0"} \subseteq Words
  /\ Support \in {"native", "adapted", "unsupported"}

VARIABLES
  facts,  \* [catalog, installs, skills, events, disk, torn, pending]
  pass,   \* the collection: [pc, begun, seen, left, mended, lost], begun and seen being facts
  report, \* {}, or that of the collection that has just ended
  passes, wear

healthVars == <<facts, pass, report, passes, wear>>

NoPass == [pc |-> "idle"]
HealthInit == facts \in Starts /\ pass = NoPass /\ report = {} /\ passes = 0 /\ wear = 0

-----------------------------------------------------------------------------
(* What is stored: f is the facts, or what was seen of them. *)

Present(f) == {p \in RatedPackages : f.installs[p] # {}}
The(f, p) == CHOOSE install \in f.installs[p] : TRUE
Verified(f, p) == \E c \in f.catalog[p] : c.commit = The(f, p).commit
Licensed(f, p) == \E c \in f.catalog[p] : c.licensed
(* The age in days; a date in the future is no observation. *)
Freshness(f, p) ==
  LET ages == {c.age : c \in f.catalog[p]} \cap Nat IN
  IF ages = {} THEN "unknown"
  ELSE IF Max(ages) <= 180 THEN "fresh" ELSE IF Max(ages) <= 365 THEN "aging" ELSE "stale"
Drifted(f, p) == f.disk[p] # [place |-> The(f, p).place, text |-> The(f, p).text]
SnapshotsOf(f) == {The(f, p).snapshot : p \in Present(f)}
Exposed(f) == SumFunction(f.skills[Me])
(* A name is duplicated within an agent when any agent has it twice. *)
DuplicateNames(f) ==
  {n \in SkillNames : f.skills[Me][n] > 0 /\ \E a \in Others \cup {Me} : f.skills[a][n] > 1}
MyEvents(f) == {i \in DOMAIN f.events : f.events[i].agent = Me}

-----------------------------------------------------------------------------
(* The dimensions: is there evidence, and the share of the cap, <<part, whole>>. *)

Cap == [provenance |-> 14, risk |-> 12, drift |-> 14, duplicates |-> 8, staleness |-> 8, capacity |-> 10,
        compatibility |-> 10, benchmarks |-> 8, outcomes |-> 8, recoverability |-> 8]

Grades(grade, best) == <<SumFunction(grade), best * Cardinality(DOMAIN grade)>>
Provenance(f) ==
  Grades([p \in Present(f) |-> (IF Verified(f, p) THEN 2 ELSE 1) + (IF Licensed(f, p) THEN 2 ELSE 0)], 4)
RiskGrade == [clear |-> 2, warning |-> 1, blocking |-> 0, unknown |-> 0]
StaticRisk(f) == Grades([p \in Present(f) |-> RiskGrade[The(f, p).risk]], 2)
FreshnessGrade == [fresh |-> 2, aging |-> 1, stale |-> 0, unknown |-> 0]
(* Mutant: of the packages whose activity was observed. *)
ObservedStaleness(f) ==
  LET observed == {p \in Present(f) : Freshness(f, p) # "unknown"} IN
  <<SumFunction([p \in observed |-> FreshnessGrade[Freshness(f, p)]]), 2 * Max({1, Cardinality(observed)})>>
Staleness(f) == Grades([p \in Present(f) |-> FreshnessGrade[Freshness(f, p)]], 2)
Drift(f) == <<Cardinality({p \in Present(f) : ~Drifted(f, p)}), Cardinality(Present(f))>>
Duplicates(f) == <<Exposed(f) - SumFunctionOnSet(f.skills[Me], DuplicateNames(f)), Exposed(f)>>
CapacityUse(f) == IF Exposed(f) <= Capacity THEN <<1, 1>> ELSE <<Capacity, Exposed(f)>>
Compatibility == <<[native |-> 4, adapted |-> 3, unsupported |-> 0][Support], 4>>
(* in twentieths: quality times confidence *)
OutcomeValue == [accept |-> 20, success |-> 20, activation |-> 12, disable |-> 5, reject |-> 0, failure |-> 0, rollback |-> 0]
LocalOutcomes(f) ==
  LET n == Cardinality(MyEvents(f)) IN
  <<SumFunction([i \in MyEvents(f) |-> OutcomeValue[f.events[i].result]]) * Min({n, FullSample}), 20 * n * FullSample>>
Recoverability(f) ==
  LET all == Cardinality(Present(f)) snapshots == Cardinality(SnapshotsOf(f)) IN
  <<6 * Cardinality({p \in Present(f) : The(f, p).snapshot \notin f.torn}) * snapshots
      + 4 * Cardinality(SnapshotsOf(f) \ f.torn) * all,
    10 * all * snapshots * (1 + f.pending)>>

Evidenced(f) ==
  (IF Present(f) = {} THEN {} ELSE {"provenance", "drift", "recoverability"})
  \cup (IF \E p \in Present(f) : The(f, p).risk # "unknown" THEN {"risk"} ELSE {})
  \cup (IF \E p \in Present(f) : Freshness(f, p) # "unknown" THEN {"staleness"} ELSE {})
  \cup (IF Exposed(f) = 0 THEN {} ELSE {"duplicates", "capacity", "compatibility"})
  \cup (IF MyEvents(f) = {} THEN {} ELSE {"outcomes"})
Share(f, d) ==
  CASE d = "provenance" -> Provenance(f) [] d = "risk" -> StaticRisk(f) [] d = "drift" -> Drift(f)
    [] d = "duplicates" -> Duplicates(f) [] d = "staleness" -> Staleness(f) [] d = "capacity" -> CapacityUse(f)
    [] d = "compatibility" -> Compatibility [] d = "outcomes" -> LocalOutcomes(f)
    [] d = "recoverability" -> Recoverability(f)

(* Rounded to hundredths *)
Contribution(f, d) ==
  IF d \notin Evidenced(f) THEN 0
  ELSE LET share == Share(f, d) IN (200 * Cap[d] * share[1] + share[2]) \div (2 * share[2])
(* The quotient of doubles falls short of 0.8 and 0.4 for the caps 12 and 14. *)
Reaches(points, cap, tenths) == IF cap \in {12, 14} THEN points > 10 * cap * tenths ELSE points >= 10 * cap * tenths
StatusFor(f, d) ==
  IF d \notin Evidenced(f) THEN "unknown"
  ELSE IF Reaches(Contribution(f, d), Cap[d], 8) THEN "strong"
  ELSE IF Reaches(Contribution(f, d), Cap[d], 4) THEN "attention" ELSE "critical"
ScoreOf(f) == SumFunction([d \in DOMAIN Cap |-> Contribution(f, d)])

(* 1 unknown, 2 critical, 3 attention, 4 good, 5 excellent *)
Rating(f) ==
  IF Evidenced(f) = {} THEN 1 ELSE IF ScoreOf(f) < 4000 THEN 2
  ELSE IF \E d \in DOMAIN Cap : StatusFor(f, d) = "critical" THEN 3
  ELSE IF ScoreOf(f) >= 9000 /\ \A d \in DOMAIN Cap : StatusFor(f, d) = "strong" THEN 5
  ELSE IF ScoreOf(f) >= 7000 THEN 4 ELSE 3

-----------------------------------------------------------------------------
(* collectLocalAgentHealthEvidence: what is read last is the newest. *)

Goes(pc, left, seen) == pass' = [pass EXCEPT !.pc = pc, !.left = left, !.seen = seen]
Begin ==
  /\ pass.pc = "idle" /\ passes < MaxPasses /\ passes' = passes + 1 /\ report' = {}
  /\ pass' = [pc |-> "stored", begun |-> facts, seen |-> facts, left |-> {"catalog", "installs", "events"},
              mended |-> FALSE, lost |-> FALSE]
  /\ UNCHANGED <<facts, wear>>
(* Promise.all *)
ReadStored ==
  /\ pass.pc = "stored" /\ \E x \in pass.left :
       Goes(IF pass.left = {x} THEN "scan" ELSE "stored", pass.left \ {x}, [pass.seen EXCEPT ![x] = facts[x]])
  /\ UNCHANGED <<facts, report, passes, wear>>
ScanInstalledSkills ==
  /\ pass.pc = "scan" /\ Goes("pending", {}, [pass.seen EXCEPT !.skills = facts.skills])
  /\ UNCHANGED <<facts, report, passes, wear>>
PendingTransactions ==
  /\ pass.pc = "pending" /\ Goes("drift", Present(pass.seen), [pass.seen EXCEPT !.pending = facts.pending])
  /\ UNCHANGED <<facts, report, passes, wear>>
(* The files are looked for where the state that was read has them. *)
DriftForAgent ==
  /\ pass.pc = "drift" /\ pass.left # {} /\ \E p \in pass.left :
       Goes("drift", pass.left \ {p}, [pass.seen EXCEPT !.disk[p] = facts.disk[p]])
  /\ UNCHANGED <<facts, report, passes, wear>>
SnapshotEvidence ==
  /\ pass.pc = "drift" /\ pass.left = {} /\ Goes("snapshots", SnapshotsOf(pass.seen), pass.seen)
  /\ UNCHANGED <<facts, report, passes, wear>>
ReadSnapshot ==
  /\ pass.pc = "snapshots" /\ \E s \in pass.left :
       Goes("snapshots", pass.left \ {s}, [pass.seen EXCEPT !.torn = (@ \ {s}) \cup (facts.torn \cap {s})])
  /\ UNCHANGED <<facts, report, passes, wear>>
BuildAgentHealthScore ==
  /\ pass.pc = "snapshots" /\ pass.left = {} /\ pass' = NoPass
  /\ report' = {[saw |-> pass.seen, begun |-> pass.begun, mended |-> pass.mended, lost |-> pass.lost]}
  /\ UNCHANGED <<facts, passes, wear>>

CollectorNext ==
  \/ Begin \/ ReadStored \/ ScanInstalledSkills \/ PendingTransactions \/ DriftForAgent \/ SnapshotEvidence
  \/ ReadSnapshot \/ BuildAgentHealthScore

-----------------------------------------------------------------------------
(* What happens to the facts: damage, the loss of an observation, and whatever *)
(* may be for the better.                                                      *)

Becomes(new, mends, loses) ==
  /\ wear < MaxWear /\ wear' = wear + 1 /\ facts' = new /\ report' = {} /\ UNCHANGED passes
  /\ pass' = IF pass = NoPass THEN NoPass
             ELSE [pass EXCEPT !.mended = @ \/ mends, !.lost = @ \/ loses]
Damage(new) == Becomes(new, FALSE, FALSE)
Mend(new) == Becomes(new, TRUE, FALSE)

ManagedFileEdited ==
  \E p \in Present(facts) : ~Drifted(facts, p) /\ Damage([facts EXCEPT !.disk[p].text = "edited"])
SnapshotTorn == \E s \in SnapshotsOf(facts) \ facts.torn : Damage([facts EXCEPT !.torn = @ \cup {s}])
TransactionLeft == Damage([facts EXCEPT !.pending = @ + 1])
PackageAges ==
  \E p \in RatedPackages : \E c \in facts.catalog[p], age \in {181, 366} :
    c.age \in 0..(age - 1) /\ Damage([facts EXCEPT !.catalog[p] = {[c EXCEPT !.age = age]}])
SourceMoves ==
  \E p \in Present(facts) : \E c \in facts.catalog[p] :
    c.commit # "next" /\ The(facts, p).commit # "next"
    /\ Damage([facts EXCEPT !.catalog[p] = {[c EXCEPT !.commit = "next"]}])
SkillDuplicated ==
  \E a \in Others \cup {Me}, n \in SkillNames :
    facts.skills[a][n] > 0 /\ Damage([facts EXCEPT !.skills[a][n] = @ + 1])
LeavesCatalog ==
  \E p \in RatedPackages : facts.catalog[p] # {} /\ Becomes([facts EXCEPT !.catalog[p] = {}], FALSE, TRUE)
(* The file keeps the newest events, of whatever agent. *)
RecordLocalOutcome ==
  \E a \in Others \cup {Me}, result \in {"success", "activation", "failure"} :
    LET kept == IF Len(facts.events) < StoreLimit THEN facts.events ELSE Tail(facts.events) IN
    Becomes([facts EXCEPT !.events = Append(kept, [agent |-> a, result |-> result])],
            ~(a = Me /\ result = "failure"), FALSE)
PackageUpdated ==
  \E p \in RatedPackages, risk \in {"clear", "warning", "unknown"} : \E c \in facts.catalog[p] :
    Mend([facts EXCEPT
      !.installs[p] = {[commit |-> c.commit, text |-> "new", place |-> "active", risk |-> risk, snapshot |-> "s0"]},
      !.disk[p] = [place |-> "active", text |-> "new"], !.torn = @ \ {"s0"}])
PackageDisabled ==
  \E p \in Present(facts) :
    LET install == The(facts, p) IN
    install.place = "active" /\ facts.disk[p].place = "active"
    /\ Mend([facts EXCEPT !.installs[p] = {[install EXCEPT !.place = "library"]}, !.disk[p].place = "library"])
Uninstalled == \E p \in Present(facts) : Mend([facts EXCEPT !.installs[p] = {}])
TransactionsRecovered == facts.pending > 0 /\ Mend([facts EXCEPT !.pending = 0])

FactsNext ==
  \/ ManagedFileEdited \/ SnapshotTorn \/ TransactionLeft \/ PackageAges \/ SourceMoves \/ SkillDuplicated
  \/ LeavesCatalog \/ RecordLocalOutcome \/ PackageUpdated \/ PackageDisabled \/ Uninstalled \/ TransactionsRecovered

HealthNext == CollectorNext \/ FactsNext
HealthSpec == HealthInit /\ [][HealthNext]_healthVars

-----------------------------------------------------------------------------
(* Properties. *)

(* While other commands work, a report mixes moments; but it says nothing that  *)
(* was not true at some moment between its beginning and its end, if nothing    *)
(* got better meanwhile: damage lowers no dimension below what holds now nor is *)
(* any above what held when it began, a lost observation earns nothing ("never  *)
(* turns missing evidence into a pass", agent-health-score.ts:786), and if none *)
(* was lost the rating lies between the two as well (an agent of whom nothing   *)
(* was known gets its first rating with its first failure).  The score stays    *)
(* within 100, and is never called excellent with evidence missing.             *)
ReportsStayInRange ==
  \A r \in report :
    /\ ~r.mended => \A d \in DOMAIN Cap :
         Contribution(facts, d) <= Contribution(r.saw, d) /\ Contribution(r.saw, d) <= Contribution(r.begun, d)
    /\ ~r.mended /\ ~r.lost /\ Evidenced(r.begun) # {} =>
         Rating(facts) <= Rating(r.saw) /\ Rating(r.saw) <= Rating(r.begun)
    /\ ScoreOf(r.saw) <= 10000 /\ Rating(r.saw) < 5
=============================================================================
