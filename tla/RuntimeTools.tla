---------------------------- MODULE RuntimeTools ----------------------------
(***************************************************************************)
(* Reviewed runtime tools (src/core/agents/runtime-tools.ts): `loadout     *)
(* tool` installs a runtime below Loadout's state and has it generate a    *)
(* skill for each chosen agent; a removal restores the skills' snapshot.   *)
(* There is no lock and no journal: every process reads runtime-tools.json *)
(* first and writes it last.  One recipe is reviewed, so the file names at *)
(* most one tool.  Between two of its steps a process may die, others may  *)
(* run, and users may edit a skill or roll the tool's snapshot back.       *)
(***************************************************************************)
EXTENDS Naturals, FiniteSets, Functions

CONSTANTS
  ToolAgents,   \* the agents the recipe can register with
  Installers,   \* processes that run `loadout tool`
  MaxApplies,   \* bound: plans that are applied
  MaxSkillEdits \* bound: edits and rollbacks by the user

VARIABLES
  tools,     \* runtime-tools.json: no tool, or one with its snapshot
  runtime,   \* the directory of the isolated runtime
  skill,     \* the skill directory of every agent
  installer, \* the processes
  applies, skillEdits,
  calm,      \* no process has died, and no two plans were applied at once
  mishaps    \* what has failed half-way: a rollback, a removal

toolVars == <<tools, runtime, skill, installer, applies, skillEdits, calm, mishaps>>

SkillContents == {"none", "users", "generated"}  \* "none": nothing, or a part of what was the user's
AtRest == [pc |-> "idle"]
InTool(p, pc) == installer[p].pc = pc
ToolGoes(p, state) == installer' = [installer EXCEPT ![p] = state]
ToolAt(p, pc) == installer' = [installer EXCEPT ![p].pc = pc]
Applying(p) == installer[p].pc \notin {"idle", "planned", "unwanted"}

(* restoreSnapshot: the directories are removed, then written again. *)
Restored(before) == [a \in ToolAgents |-> IF a \in DOMAIN before THEN before[a] ELSE skill[a]]
(* It may fail at any of them. *)
HalfRestored(before) ==
  {halves \in [ToolAgents -> SkillContents] :
     \A a \in ToolAgents :
       halves[a] \in {skill[a]} \cup (IF a \in DOMAIN before THEN {"none", before[a]} ELSE {})}
(* rm, recursive: it fails before the end, or has nothing to do. *)
HalfRemoved == IF runtime = "absent" THEN {"absent"} ELSE {runtime, "partial"}

ToolTypeOK ==
  /\ Cardinality(tools) <= 1
  /\ \A tool \in tools : DOMAIN tool.before \subseteq ToolAgents /\ DOMAIN tool.after = DOMAIN tool.before
  /\ runtime \in {"absent", "partial", "whole"} /\ skill \in [ToolAgents -> SkillContents]
  /\ mishaps \subseteq {"rollback", "removal"}
  /\ \A p \in Installers : installer[p].pc \in
       {"idle", "planned", "unwanted", "probe", "snapshot", "install", "register", "post",
        "write", "restore", "clear", "discard", "forget"}

ToolInit ==
  /\ tools = {} /\ runtime = "absent" /\ skill \in [ToolAgents -> {"none", "users"}]
  /\ installer = [p \in Installers |-> AtRest]
  /\ applies = 0 /\ skillEdits = 0 /\ calm = TRUE /\ mishaps = {}

-----------------------------------------------------------------------------
(* planRuntimeTool: installed already, or not installed, is refused. *)
Plans(p) == InTool(p, "idle") /\ applies < MaxApplies /\ applies' = applies + 1
            /\ UNCHANGED <<tools, runtime, skill, skillEdits, calm, mishaps>>
PlanToolInstall(p) ==
  /\ Plans(p) /\ tools = {}
  /\ \E agents \in (SUBSET ToolAgents) \ {{}} : ToolGoes(p, [pc |-> "planned", agents |-> agents])
PlanToolRemoval(p) == Plans(p) /\ tools # {} /\ ToolGoes(p, [pc |-> "unwanted"])
PlanIsDropped(p) ==
  /\ installer[p].pc \in {"planned", "unwanted"} /\ ToolGoes(p, AtRest)
  /\ UNCHANGED <<tools, runtime, skill, applies, skillEdits, calm, mishaps>>

-----------------------------------------------------------------------------
(* applyRuntimeToolPlan, installing *)
Begins == calm' = (calm /\ \A q \in Installers : ~Applying(q))
Keeps == UNCHANGED <<applies, skillEdits, calm, mishaps>>
Slips(mishap) == mishaps' = mishaps \cup {mishap} /\ UNCHANGED <<applies, skillEdits, calm>>
Fails(p) == ToolAt(p, "restore")

ReadTools(p) ==
  /\ InTool(p, "planned") /\ Begins /\ UNCHANGED <<tools, runtime, skill, applies, skillEdits, mishaps>>
  /\ IF tools = {} THEN ToolAt(p, "probe") ELSE ToolGoes(p, AtRest)

(* A runtime that is there and not recorded belongs to somebody else. *)
ProbeRuntime(p) ==
  /\ InTool(p, "probe") /\ Keeps /\ UNCHANGED <<tools, runtime, skill>>
  /\ IF runtime = "absent" THEN ToolAt(p, "snapshot") ELSE ToolGoes(p, AtRest)

SnapshotSkills(p) ==
  /\ InTool(p, "snapshot") /\ Keeps /\ UNCHANGED <<tools, runtime, skill>>
  /\ \/ ToolGoes(p, [pc |-> "install", before |-> Restrict(skill, installer[p].agents)])
     \/ ToolAt(p, "clear")

InstallRuntime(p) ==
  /\ InTool(p, "install") /\ Keeps /\ UNCHANGED <<tools, skill>>
  /\ \/ /\ runtime' = "whole"
        /\ ToolGoes(p, [pc |-> "register", before |-> installer[p].before, todo |-> DOMAIN installer[p].before])
     \/ runtime' \in {runtime, "partial"} /\ Fails(p)

(* The runtime writes the skill of one agent, if the runtime is there. *)
RegisterAgent(p) ==
  /\ InTool(p, "register") /\ Keeps /\ UNCHANGED <<tools, runtime>>
  /\ \E a \in installer[p].todo :
       \/ /\ runtime = "whole" /\ skill' = [skill EXCEPT ![a] = "generated"]
          /\ installer' = [installer EXCEPT ![p].todo = @ \ {a}]
       \/ skill' \in {skill, [skill EXCEPT ![a] = "generated"]} /\ Fails(p)

(* The health check runs the binary; the required files and the file policy *)
(* are checked in every skill.                                              *)
CheckTool(p) ==
  /\ InTool(p, "register") /\ installer[p].todo = {} /\ Keeps /\ UNCHANGED <<tools, runtime, skill>>
  /\ \/ /\ runtime = "whole" /\ \A a \in DOMAIN installer[p].before : skill[a] # "none"
        /\ ToolAt(p, "post")
     \/ Fails(p)

RecordPostState(p) ==
  /\ InTool(p, "post") /\ Keeps /\ UNCHANGED <<tools, runtime, skill>>
  /\ LET before == installer[p].before IN
     \/ ToolGoes(p, [pc |-> "write", before |-> before, after |-> Restrict(skill, DOMAIN before)])
     \/ Fails(p)

WriteTools(p) ==
  /\ InTool(p, "write") /\ Keeps /\ UNCHANGED <<runtime, skill>>
  /\ \/ tools' = {[before |-> installer[p].before, after |-> installer[p].after]} /\ ToolGoes(p, AtRest)
     \/ UNCHANGED tools /\ Fails(p)

(* catch: the snapshot is restored whatever the skills are by now, and a *)
(* failure of that swallowed, ...                                        *)
RestoreSkills(p) ==
  /\ InTool(p, "restore") /\ UNCHANGED <<tools, runtime>> /\ ToolAt(p, "clear")
  /\ \/ skill' = Restored(installer[p].before) /\ Keeps
     \/ skill' \in HalfRestored(installer[p].before) /\ Slips("rollback")
(* ... and the runtime removed, whoever made it. *)
ClearRuntime(p) ==
  /\ InTool(p, "clear") /\ UNCHANGED <<tools, skill>> /\ ToolGoes(p, AtRest)
  /\ \/ runtime' = "absent" /\ Keeps
     \/ runtime' \in HalfRemoved /\ Slips("rollback")

-----------------------------------------------------------------------------
(* applyRuntimeToolPlan, removing: refused when a skill is not as it was *)
(* recorded; else the snapshot, the runtime and the record go in turn.   *)
(* Whatever fails ends the call, and nothing is put back.                *)
RestoreBeforeRemoval(p) ==
  /\ InTool(p, "unwanted") /\ Begins /\ UNCHANGED <<tools, runtime, applies, skillEdits, mishaps>>
  /\ \/ /\ \A tool \in tools : Restrict(skill, DOMAIN tool.after) # tool.after
        /\ ToolGoes(p, AtRest) /\ UNCHANGED skill
     \/ \E tool \in tools :
          /\ Restrict(skill, DOMAIN tool.after) = tool.after
          /\ \/ skill' = Restored(tool.before) /\ ToolAt(p, "discard")
             \/ skill' \in HalfRestored(tool.before) /\ ToolGoes(p, AtRest)
DiscardRuntime(p) ==
  /\ InTool(p, "discard") /\ UNCHANGED <<tools, skill>>
  /\ \/ runtime' = "absent" /\ ToolAt(p, "forget") /\ Keeps
     \/ runtime' \in HalfRemoved /\ ToolGoes(p, AtRest) /\ Slips("removal")
ForgetTool(p) ==
  /\ InTool(p, "forget") /\ UNCHANGED <<runtime, skill>> /\ ToolGoes(p, AtRest)
  /\ \/ tools' = {} /\ Keeps
     \/ UNCHANGED tools /\ Slips("removal")

-----------------------------------------------------------------------------
InstallerDies(p) ==
  /\ Applying(p) /\ ToolGoes(p, AtRest) /\ calm' = FALSE
  /\ UNCHANGED <<tools, runtime, skill, applies, skillEdits, mishaps>>

Edits == skillEdits < MaxSkillEdits /\ skillEdits' = skillEdits + 1
         /\ UNCHANGED <<tools, runtime, installer, applies, calm, mishaps>>
EditSkill(a) == Edits /\ \E content \in {"none", "users"} : skill' = [skill EXCEPT ![a] = content]
(* `loadout rollback` knows the snapshot, and not the tool. *)
RollBackSkills == Edits /\ \E tool \in tools :
  /\ Restrict(skill, DOMAIN tool.after) = tool.after
  /\ skill' \in {Restored(tool.before)} \cup HalfRestored(tool.before)

ToolNext ==
  \/ \E p \in Installers :
       \/ PlanToolInstall(p) \/ PlanToolRemoval(p) \/ PlanIsDropped(p)
       \/ ReadTools(p) \/ ProbeRuntime(p) \/ SnapshotSkills(p) \/ InstallRuntime(p) \/ RegisterAgent(p)
       \/ CheckTool(p) \/ RecordPostState(p) \/ WriteTools(p) \/ RestoreSkills(p) \/ ClearRuntime(p)
       \/ RestoreBeforeRemoval(p) \/ DiscardRuntime(p) \/ ForgetTool(p) \/ InstallerDies(p)
  \/ (\E a \in ToolAgents : EditSkill(a)) \/ RollBackSkills

ToolSpec == ToolInit /\ [][ToolNext]_toolVars

-----------------------------------------------------------------------------
(* Properties. *)

(* Between two calls, the record tells the truth.  When no tool is recorded,    *)
(* nothing generated is left at an agent and no runtime stays behind, whichever *)
(* step of an installation or removal failed (applyRuntimeToolPlan's catch) and *)
(* whatever users edited, unless the rollback itself failed: nothing remembers  *)
(* that.  And a recorded tool has its runtime, unless a removal failed at the   *)
(* runtime or at the record: that is put back by nobody.  It holds as long as   *)
(* plans are applied one at a time and no process dies: two installations at    *)
(* once can remove each other's runtime, as no lock keeps them apart.           *)
ToolStateAgrees ==
  (calm /\ \A p \in Installers : ~Applying(p)) =>
    /\ tools = {} /\ "rollback" \notin mishaps =>
         runtime = "absent" /\ \A a \in ToolAgents : skill[a] # "generated"
    /\ tools # {} /\ "removal" \notin mishaps => runtime = "whole"
=============================================================================
