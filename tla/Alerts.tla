------------------------------- MODULE Alerts --------------------------------
(***************************************************************************)
(* Freshness alerts and what users decide about them                       *)
(* (src/core/reporting/freshness-alerts.ts, and the alert commands of      *)
(* src/commands/health.ts).  An alert is known by its package, its kind    *)
(* and its evidence.  Ignored alerts and pinned replacements are in one    *)
(* file, which each command reads whole and writes whole.                  *)
(***************************************************************************)
EXTENDS Naturals, Sequences, FiniteSets, SequencesExt

CONSTANTS
  Kept,       \* packages of the catalog
  CategoryOf, \* package -> category
  OneYear,    \* 365 days
  MaxIgnored, \* the alerts that stay ignored: the last 1000
  Deciders,   \* processes
  Turning, MaxDecisions, MaxTurns \* bounds: installed packages that change, commands, and changes around them

ASSUME AlertsAssumption == MaxIgnored \in Nat \ {0} /\ OneYear \in Nat /\ Turning \subseteq Kept

VARIABLES
  world,     \* what alerts are about: [held, archived, age, expands], each a function of the package
  decisions, \* the file: [ignored: ids in order, pins: [package, replacement]]
  decider,   \* what each process is doing
  listed,    \* what `alerts --all` last printed: [id, fact, ignored]
  said,      \* the decisions that commands reported, in order: [op, about, fact]
  overlapped, \* whether two commands decided at a time
  decided, turns

alertVars == <<world, decisions, decider, listed, said, overlapped, decided, turns>>

NoDecisions == [ignored |-> <<>>, pins |-> {}]
NoDecider == [pc |-> "idle"]
AlertsInit ==
  /\ world = [p \in Kept |-> [held |-> IF p \in Turning THEN 1 ELSE 0, reviewed |-> 1, archived |-> FALSE, age |-> OneYear - 1, findings |-> {}]]
  /\ decisions = NoDecisions /\ said = <<>> /\ overlapped = FALSE
  /\ decider = [c \in Deciders |-> NoDecider] /\ listed = [c \in Deciders |-> {}]
  /\ decided = 0 /\ turns = 0

-----------------------------------------------------------------------------
(* packageAlerts: an installed package has held # 0, its commit.  What an    *)
(* alert is about is its fact; its id is made of it, the age in days too.    *)

Fact(p, kind, evidence) == [package |-> p, kind |-> kind, evidence |-> evidence]
(* Mutant: the evidence is left out of the id. *)
AlertIdOfKind(fact) == [fact EXCEPT !.evidence = [none |-> 0]]
AlertId(fact) == fact

PackageAlerts(w, updates) ==
  LET installed == {p \in Kept : w[p].held # 0} IN
  {Fact(p, "archived", [repository |-> p]) : p \in {q \in installed : w[q].archived}}
  \cup {Fact(p, "materially-stale", [age |-> w[p].age]) :
          p \in {q \in installed : ~w[q].archived /\ w[q].age >= OneYear}}
  \cup {Fact(p, "reviewed-commit-changed", [from |-> w[p].held, to |-> w[p].reviewed]) :
          p \in {q \in installed : w[q].held # w[q].reviewed}}
  \cup {Fact(p, "permission-expansion", [findings |-> w[p].findings]) :
          p \in {q \in installed : updates /\ w[q].findings # {}}}

-----------------------------------------------------------------------------
Decides(c, state) ==
  /\ decider[c].pc = "idle" /\ decided < MaxDecisions /\ decided' = decided + 1
  /\ decider' = [decider EXCEPT ![c] = state] /\ UNCHANGED <<decisions, listed, said, overlapped, world, turns>>

(* buildFreshnessAlerts reads side by side what alerts are about, with *)
(* --updates or without, and the decisions.                            *)
ListAlerts(c) == Decides(c, [pc |-> "list", facts |-> {}, marks |-> {}])
ReadWorld(c) ==
  /\ decider[c].pc = "list" /\ decider[c].facts = {}
  /\ \E updates \in BOOLEAN : decider' = [decider EXCEPT ![c].facts = {PackageAlerts(world, updates)}]
  /\ UNCHANGED <<world, decisions, listed, said, overlapped, decided, turns>>
ReadMarks(c) ==
  /\ decider[c].pc = "list" /\ decider[c].marks = {}
  /\ decider' = [decider EXCEPT ![c].marks = {Range(decisions.ignored)}]
  /\ UNCHANGED <<world, decisions, listed, said, overlapped, decided, turns>>
ShowAlerts(c) ==
  /\ decider[c].pc = "list" /\ decider[c].facts # {} /\ decider[c].marks # {}
  /\ listed' = [listed EXCEPT ![c] =
       {[id |-> AlertId(f), fact |-> f, ignored |-> AlertId(f) \in UNION decider[c].marks] : f \in UNION decider[c].facts}]
  /\ decider' = [decider EXCEPT ![c] = NoDecider]
  /\ UNCHANGED <<world, decisions, said, overlapped, decided, turns>>

(* The three decisions; users take an alert's id from what they were shown. *)
IgnoreFreshnessAlert(c) ==
  \E u \in Deciders : \E item \in listed[u] : Decides(c, [pc |-> "read", op |-> "ignore", about |-> item.id, fact |-> {item.fact}])
PinReplacement(c) ==
  \E p, r \in Kept :
    /\ p # r /\ world[p].held # 0 /\ CategoryOf[p] = CategoryOf[r]
    /\ Decides(c, [pc |-> "read", op |-> "pin", about |-> [package |-> p, replacement |-> r], fact |-> {}])
UnpinReplacement(c) == \E p \in Kept : Decides(c, [pc |-> "read", op |-> "unpin", about |-> p, fact |-> {}])

(* An id is listed once: the filter takes out one entry at most. *)
Without(ids, id) ==
  IF \E i \in DOMAIN ids : ids[i] = id THEN RemoveAt(ids, CHOOSE i \in DOMAIN ids : ids[i] = id) ELSE ids
MostRecent(s) == IF Len(s) > MaxIgnored THEN Tail(s) ELSE s
Decided(file, op, about) ==
  CASE op = "ignore" -> [file EXCEPT !.ignored = MostRecent(Append(Without(@, about), about))]
    [] op = "pin" -> [file EXCEPT !.pins = {pin \in @ : pin.package # about.package} \cup {about}]
    [] OTHER -> [file EXCEPT !.pins = {pin \in @ : pin.package # about}]
(* Nothing to remove: nothing is written. *)
ReadDecisions(c) ==
  /\ decider[c].pc = "read"
  /\ LET me == decider[c]
         next == Decided(decisions, me.op, me.about)
     IN decider' = [decider EXCEPT ![c] =
          IF me.op = "unpin" /\ next = decisions THEN NoDecider
          ELSE [pc |-> "write", file |-> next, said |-> [op |-> me.op, about |-> me.about, fact |-> me.fact]]]
  /\ overlapped' = (overlapped \/ \E d \in Deciders : decider[d].pc = "write")
  /\ UNCHANGED <<world, decisions, listed, said, decided, turns>>
WriteDecisions(c) ==
  /\ decider[c].pc = "write" /\ decisions' = decider[c].file
  /\ said' = Append(said, decider[c].said)
  /\ decider' = [decider EXCEPT ![c] = NoDecider] /\ UNCHANGED <<world, listed, overlapped, decided, turns>>
DeciderDies(c) ==
  /\ decider[c].pc \in {"read", "write"} /\ decider' = [decider EXCEPT ![c] = NoDecider]
  /\ UNCHANGED <<world, decisions, listed, said, overlapped, decided, turns>>

(* Time, installs, and the catalog; each package on its own. *)
WorldTurns ==
  /\ turns < MaxTurns /\ turns' = turns + 1
  /\ \/ world' = [p \in Kept |-> [world[p] EXCEPT !.age = @ + 1]]
     \/ \E p \in Turning :
          \/ world' = [world EXCEPT ![p].archived = TRUE]
          \/ world' = [world EXCEPT ![p].reviewed = @ + 1]
          \/ world' = [world EXCEPT ![p].age = 0]
          \/ world' = [world EXCEPT ![p].findings = @ \cup {"network"}]
          \/ world[p].held # 0 /\ world' = [world EXCEPT ![p].held = 0]
          \/ world' = [world EXCEPT ![p].held = world[p].reviewed, ![p].findings = {}]
  /\ UNCHANGED <<decisions, decider, listed, said, overlapped, decided>>

AlertsNext ==
  \/ WorldTurns
  \/ \E c \in Deciders :
       \/ ListAlerts(c) \/ ReadWorld(c) \/ ReadMarks(c) \/ ShowAlerts(c)
       \/ IgnoreFreshnessAlert(c) \/ PinReplacement(c) \/ UnpinReplacement(c)
       \/ ReadDecisions(c) \/ WriteDecisions(c) \/ DeciderDies(c)
AlertsSpec == AlertsInit /\ [][AlertsNext]_alertVars

-----------------------------------------------------------------------------
(* Properties. *)

(* An alert is marked as ignored only when a user ignored it for the very same *)
(* evidence, and it had been listed then; unless two commands decided at the   *)
(* same time, the file holds the last decisions that were reported, a package  *)
(* having one replacement, and none that was taken back.                       *)
DecisionsStand ==
  /\ \A c \in Deciders : \A item \in listed[c] : item.ignored =>
       \E i \in DOMAIN said : said[i].op = "ignore" /\ item.fact \in said[i].fact
  /\ \A one, other \in decisions.pins : one.package = other.package => one = other
  /\ \A pin \in decisions.pins : CategoryOf[pin.package] = CategoryOf[pin.replacement]
  /\ overlapped \/
       /\ \A i \in DOMAIN said : said[i].op = "ignore" =>
            \/ said[i].about \in Range(decisions.ignored)
            \/ Cardinality({said[k].about : k \in {x \in (i + 1)..Len(said) : said[x].op = "ignore"}}) >= MaxIgnored
       /\ \A i \in DOMAIN said : said[i].op = "pin" =>
            \/ said[i].about \in decisions.pins
            \/ \E k \in (i + 1)..Len(said) : \/ said[k].op = "unpin" /\ said[k].about = said[i].about.package
                                             \/ said[k].op = "pin" /\ said[k].about.package = said[i].about.package
       /\ \A i \in DOMAIN said : said[i].op = "unpin" =>
            \/ ~\E pin \in decisions.pins : pin.package = said[i].about
            \/ \E k \in (i + 1)..Len(said) : said[k].op = "pin" /\ said[k].about.package = said[i].about
=============================================================================
