------------------------------ MODULE Selection ------------------------------
(***************************************************************************)
(* `loadout optimize` (src/core/workspace/active-policy.ts): from the      *)
(* disabled skills of the managed library, the best ones for a project are *)
(* proposed for every agent within a limit of active skills, and applied   *)
(* together.  Between the proposal and its application other commands      *)
(* enable and disable skills, and users add skills of their own without    *)
(* any lock.                                                               *)
(***************************************************************************)
EXTENDS Naturals, Sequences, FiniteSets, SequencesExt

CONSTANTS
  Skills,        \* <<package, unit>>, as in "package/unit"
  BySource,      \* the skills by priority of their source and by name
  Family,        \* of every unit
  FamilyCap,     \* FAMILY_CAPS
  Hosts,         \* agents that have skills
  Limits,        \* values of --limit
  PinSets,       \* values of --pin: [skills, units]
  Planners,      \* processes
  MaxPlans, MaxOwn, MaxToggles \* bounds: commands, users' skills, other commands

UnitOf(s) == s[2]

ASSUME SelectionAssumption ==
  /\ BySource \in Seq(Skills) /\ ToSet(BySource) = Skills /\ Len(BySource) = Cardinality(Skills)
  /\ \A s \in Skills : UnitOf(s) \in DOMAIN Family
  /\ Limits \subseteq Nat /\ MaxOwn \in Nat

VARIABLES
  merit,    \* what the project and local outcomes say for a skill; 0: not enough
  active,   \* the managed skills in the directory of each host
  own,      \* the number of users' skills there
  planner,  \* what each process is doing
  holder,   \* the process inside runMutationTransaction
  plans, toggles

selectionVars == <<merit, active, own, planner, holder, plans, toggles>>

Total(h) == Cardinality(active[h]) + own[h]
Idle == [pc |-> "idle"]

SelectionTypeOK ==
  /\ merit \in [Skills -> 0..2] /\ active \in [Hosts -> SUBSET Skills] /\ own \in [Hosts -> 0..MaxOwn]
  /\ \A p \in Planners : planner[p].pc \in {"idle", "scan", "plan", "proposed", "activate"}
  /\ holder \subseteq Planners /\ Cardinality(holder) <= 1

SelectionInit ==
  /\ merit \in [Skills -> 0..2] /\ active = [h \in Hosts |-> {}] /\ own = [h \in Hosts |-> 0]
  /\ planner = [p \in Planners |-> Idle] /\ holder = {} /\ plans = 0 /\ toggles = 0

-----------------------------------------------------------------------------
(* A pin overrides the project's evidence and ranks first (but not the rule that *)
(* keeps jest out of vitest projects, which is left out); only a pin of the     *)
(* very skill ("package/unit") overrides the rules of variety.               *)
FullyPinned(s, pins) == s \in pins.skills
Pinned(s, pins) == s \in pins.skills \/ UnitOf(s) \in pins.units
Score(s, pins) == merit[s] + IF Pinned(s, pins) THEN 10 ELSE 0
Eligible(disabled, pins) == {s \in disabled : Score(s, pins) > 0}
InFamily(chosen, s) == {t \in ToSet(chosen) : Family[UnitOf(t)] = Family[UnitOf(s)]}

Ranking(candidates, pins) ==
  LET ByScore(n) == SelectSeq(BySource, LAMBDA s : s \in candidates /\ Score(s, pins) = n)
  IN FlattenSeq([i \in 1..13 |-> ByScore(13 - i)])

(* One source of a unit, and so many skills of a family. *)
Takes(chosen, s, pins) ==
  IF \/ FullyPinned(s, pins)
     \/ /\ \A t \in ToSet(chosen) : UnitOf(t) # UnitOf(s)
        /\ Cardinality(InFamily(chosen, s)) < FamilyCap
  THEN Append(chosen, s) ELSE chosen
Ranked(disabled, pins) ==
  FoldLeft(LAMBDA chosen, s : Takes(chosen, s, pins), <<>>, Ranking(Eligible(disabled, pins), pins))
Chosen(disabled, pins, capacity) ==
  LET ranked == Ranked(disabled, pins) IN {s \in disabled : \E i \in 1..capacity : i <= Len(ranked) /\ ranked[i] = s}

-----------------------------------------------------------------------------
Sets(p, state) == planner' = [planner EXCEPT ![p] = state]
Nothing == [h \in Hosts |-> {}]
None == [h \in Hosts |-> 0]

(* planProjectActivation: the library is read ... *)
ReadLibrary(p) ==
  /\ planner[p].pc = "idle" /\ plans < MaxPlans /\ plans' = plans + 1
  /\ \E limit \in Limits, pins \in PinSets :
       Sets(p, [pc |-> "scan", limit |-> limit, pins |-> pins, disabled |-> [h \in Hosts |-> Skills \ active[h]],
                capacity |-> None, selected |-> Nothing, changes |-> Nothing, found |-> None])
  /\ UNCHANGED <<merit, active, own, holder, toggles>>
(* ... then the hosts' directories ... *)
ScanSkills(p) ==
  /\ planner[p].pc = "scan" /\ UNCHANGED <<merit, active, own, holder, plans, toggles>>
  /\ LET r == planner[p]
         Capacity(h) == IF r.limit > Total(h) THEN r.limit - Total(h) ELSE 0
     IN Sets(p, [r EXCEPT !.pc = "plan", !.capacity = [h \in Hosts |-> Capacity(h)],
                          !.selected = [h \in Hosts |-> Chosen(r.disabled[h], r.pins, Capacity(h))]])
(* ... and planActivationChange looks at the library again: what is active *)
(* by now is skipped.                                                      *)
UnitsIn(skills) == {UnitOf(s) : s \in skills}
PlanChanges(p) ==
  /\ planner[p].pc = "plan" /\ UNCHANGED <<merit, active, own, holder, plans, toggles>>
  /\ LET r == planner[p]
         changes == [h \in Hosts |-> r.selected[h] \ active[h]]
     IN Sets(p, [r EXCEPT !.pc = "proposed", !.changes = changes])

(* Without --yes it ends here. *)
DropProposal(p) ==
  /\ planner[p].pc = "proposed" /\ Sets(p, Idle)
  /\ UNCHANGED <<merit, active, own, holder, plans, toggles>>

(* Mutant: what happened since the proposal is not looked at. *)
AnyRoom(r) == TRUE
(* The preflight of applyProjectActivation. *)
RoomLeft(r) == \A h \in Hosts : Total(h) + Cardinality(r.selected[h]) <= r.limit
(* applyActivationChange, under the lock: room, and the very same changes. *)
BeginActivation(p) ==
  /\ planner[p].pc = "proposed" /\ holder = {} /\ UNCHANGED <<merit, active, own, plans, toggles>>
  /\ LET r == planner[p] IN
     /\ \E h \in Hosts : r.changes[h] # {}
     /\ IF RoomLeft(r) /\ \A h \in Hosts : /\ r.changes[h] \cap active[h] = {}
                                           /\ UnitsIn(r.changes[h]) \cap UnitsIn(active[h]) = {}
        THEN Sets(p, [r EXCEPT !.pc = "activate", !.found = own]) /\ holder' = {p}
        ELSE Sets(p, Idle) /\ UNCHANGED holder
(* Two sources of a unit have the same target: the second one fails, and all *)
(* is rolled back, as it is when copying fails.                              *)
Activate(p) ==
  /\ planner[p].pc = "activate" /\ holder' = {} /\ Sets(p, Idle)
  /\ LET changes == planner[p].changes IN
     /\ \A h \in Hosts : Cardinality(UnitsIn(changes[h])) = Cardinality(changes[h])
     /\ active' = [h \in Hosts |-> active[h] \cup changes[h]]
  /\ UNCHANGED <<merit, own, plans, toggles>>
ActivationFails(p) ==
  /\ planner[p].pc = "activate" /\ holder' = {} /\ Sets(p, Idle)
  /\ UNCHANGED <<merit, active, own, plans, toggles>>

-----------------------------------------------------------------------------
(* loadout enable and disable, and what users keep there. *)
Toggle(h, s) ==
  /\ holder = {} /\ toggles < MaxToggles /\ toggles' = toggles + 1
  /\ \/ s \in active[h] /\ active' = [active EXCEPT ![h] = @ \ {s}]
     \/ UnitOf(s) \notin UnitsIn(active[h]) /\ active' = [active EXCEPT ![h] = @ \cup {s}]
  /\ UNCHANGED <<merit, own, planner, holder, plans>>
AddOwnSkill(h) ==
  /\ own[h] < MaxOwn /\ own' = [own EXCEPT ![h] = @ + 1]
  /\ UNCHANGED <<merit, active, planner, holder, plans, toggles>>

SelectionNext ==
  \/ \E p \in Planners :
       \/ ReadLibrary(p) \/ ScanSkills(p) \/ PlanChanges(p) \/ DropProposal(p)
       \/ BeginActivation(p) \/ Activate(p) \/ ActivationFails(p)
  \/ \E h \in Hosts : AddOwnSkill(h) \/ \E s \in Skills : Toggle(h, s)

SelectionSpec == SelectionInit /\ [][SelectionNext]_selectionVars

-----------------------------------------------------------------------------
(* Properties. *)

(* Every selection can be justified: unless both were asked for by unit or by    *)
(* name it has one source for a unit, of a family no more than its cap beside    *)
(* what is pinned, never more than there is room - and nothing eligible is left  *)
(* out while there is room, except for one of these reasons, nor for a lesser    *)
(* skill (rankedCandidates; "Capacity is a ceiling, never a quota").             *)
SelectionJustified ==
  \A p \in Planners : planner[p].pc \in {"plan", "proposed", "activate"} => \A h \in Hosts :
    LET r == planner[p]
        selected == r.selected[h]
        plain == {s \in selected : ~FullyPinned(s, r.pins)}
        Crowded(s) == \/ \E t \in selected : UnitOf(t) = UnitOf(s) /\ Score(t, r.pins) >= Score(s, r.pins)
                      \/ Cardinality({t \in selected : /\ Family[UnitOf(t)] = Family[UnitOf(s)]
                                                       /\ Score(t, r.pins) >= Score(s, r.pins)}) >= FamilyCap
    IN /\ Cardinality(selected) <= r.capacity[h] /\ selected \subseteq r.disabled[h]
       /\ Cardinality(UnitsIn(plain)) = Cardinality(plain)
       /\ \A s \in plain : Cardinality({t \in plain : Family[UnitOf(t)] = Family[UnitOf(s)]}) <= FamilyCap
       /\ \A s \in Eligible(r.disabled[h], r.pins) \ selected :
            \/ ~FullyPinned(s, r.pins) /\ Crowded(s)
            \/ /\ Cardinality(selected) = r.capacity[h]
               /\ \A t \in selected : Score(t, r.pins) >= Score(s, r.pins)

(* Activation keeps to the limit it was asked for, on every host, whatever was  *)
(* enabled or added since the proposal was made - but for skills that a user    *)
(* adds while it is copying (applyProjectActivation).                           *)
LimitHolds ==
  [][\A p \in Planners, h \in Hosts :
       Activate(p) => Total(h)' <= planner[p].limit + (own[h] - planner[p].found[h])]_selectionVars
=============================================================================
