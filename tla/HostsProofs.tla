---------------------------- MODULE HostsProofs -----------------------------
(***************************************************************************)
(* Proofs about RuntimeTools, Scheduler, HostConfig, Handshake, Credentials*)
(* and HealthScore: any number of agents, jobs, files, commands, lines,    *)
(* secrets, packages, changes and failures.                                *)
(***************************************************************************)
EXTENDS MCHosts, FiniteSetTheorems, SequenceTheorems, TLAPS

-----------------------------------------------------------------------------
(* Runtime tools. *)

\* What a set of agents may have had in their skill directories.
Pieces == UNION {[A -> SkillContents] : A \in SUBSET ToolAgents}
Quiet == {"idle", "planned", "unwanted"}

Plain == [pc : {"idle", "unwanted", "discard", "forget"}]
Chosen == [pc : {"planned", "probe", "snapshot", "clear"}, agents : SUBSET ToolAgents]
Armed == [pc : {"install", "restore", "clear"}, before : Pieces]
Registering == [pc : {"register", "post", "restore", "clear"}, before : Pieces, todo : SUBSET ToolAgents]
Written == [pc : {"write", "restore", "clear"}, before : Pieces, after : Pieces]

ToolTypes ==
  /\ tools \subseteq [before : Pieces, after : Pieces] /\ Cardinality(tools) <= 1
  /\ \A tool \in tools : DOMAIN tool.after = DOMAIN tool.before
  /\ runtime \in {"absent", "partial", "whole"} /\ skill \in [ToolAgents -> SkillContents]
  /\ installer \in [Installers -> Plain \cup Chosen \cup Armed \cup Registering \cup Written]
  /\ \A p \in Installers : InTool(p, "write") => DOMAIN installer[p].after = DOMAIN installer[p].before
  /\ calm \in BOOLEAN /\ mishaps \subseteq {"rollback", "removal"}

\* Nothing generated is left outside of A, and nothing generated comes back to A,
\* as long as no rollback has failed.
Tidy == "rollback" \notin mishaps
OnlyAt(A) == Tidy => \A a \in ToolAgents \ A : skill[a] # "generated"
Clean(before) == Tidy => \A a \in DOMAIN before : before[a] # "generated"

\* What the step that p is at can rely on, as long as plans are applied one at a time.
ToolPhase(p) ==
  /\ installer[p].pc \in {"probe", "snapshot", "clear", "install", "register", "post", "write", "restore"} => tools = {}
  /\ installer[p].pc \in {"probe", "snapshot", "clear", "install", "discard", "forget"} => OnlyAt({})
  /\ InTool(p, "probe") /\ Tidy => runtime = "absent"
  /\ installer[p].pc \in {"snapshot", "forget"} => runtime = "absent"
  /\ installer[p].pc \in {"discard", "forget"} => tools # {}
  /\ installer[p].pc \in {"register", "post", "write"} => runtime = "whole"
  /\ installer[p].pc \in {"install", "register", "post", "write", "restore"} =>
       Clean(installer[p].before) /\ OnlyAt(DOMAIN installer[p].before)
  /\ InTool(p, "register") => installer[p].todo \subseteq DOMAIN installer[p].before
OneAtATime ==
  /\ \A p, q \in Installers : Applying(p) /\ Applying(q) => p = q
  /\ \A tool \in tools : Clean(tool.before) /\ OnlyAt(DOMAIN tool.before)
  /\ \A p \in Installers : ToolPhase(p)
  /\ ToolStateAgrees
ToolInv == ToolTypes /\ (calm => OneAtATime)

-----------------------------------------------------------------------------
States == Plain \cup Chosen \cup Armed \cup Registering \cup Written

LEMMA ToolInitInv == ToolInit => ToolInv
<1> SUFFICES ASSUME ToolInit PROVE ToolInv
  OBVIOUS
<1>1. AtRest \in Plain /\ AtRest.pc = "idle"
  BY DEF AtRest, Plain
<1>2. \A p \in Installers : installer[p] = AtRest
  BY DEF ToolInit
<1>3. ToolTypes
  <2>1. installer \in [Installers -> Plain \cup Chosen \cup Armed \cup Registering \cup Written]
    BY <1>1 DEF ToolInit
  <2>2. skill \in [ToolAgents -> SkillContents]
    BY DEF ToolInit, SkillContents
  <2>3. tools = {} /\ Cardinality(tools) <= 1 /\ runtime = "absent" /\ calm = TRUE /\ mishaps = {}
    BY FS_EmptySet DEF ToolInit
  <2> QED
    BY <1>1, <1>2, <2>1, <2>2, <2>3 DEF ToolTypes, InTool
<1>4. OneAtATime
  <2>1. tools = {} /\ runtime = "absent" /\ OnlyAt({})
    BY DEF ToolInit, OnlyAt, Tidy
  <2> QED
    BY <1>1, <1>2, <2>1 DEF OneAtATime, ToolPhase, InTool, Applying, ToolStateAgrees, OnlyAt, Tidy
<1> QED
  BY <1>3, <1>4 DEF ToolInv

\* A process goes on; the rest of what is there has its types.
LEMMA ToolGoesOn ==
  ASSUME ToolTypes, NEW p \in Installers, NEW n \in States, ToolGoes(p, n),
         n.pc = "write" => DOMAIN n.after = DOMAIN n.before,
         runtime' \in {"absent", "partial", "whole"}, skill' \in [ToolAgents -> SkillContents],
         calm' \in BOOLEAN, mishaps' \subseteq {"rollback", "removal"},
         \/ tools' \in {tools, {}}
         \/ \E tool \in [before : Pieces, after : Pieces] : tools' = {tool} /\ DOMAIN tool.after = DOMAIN tool.before
  PROVE  /\ ToolTypes'
         /\ installer'[p] = n /\ \A q \in Installers \ {p} : installer'[q] = installer[q]
<1>1. installer'[p] = n /\ \A q \in Installers \ {p} : installer'[q] = installer[q]
  BY DEF ToolTypes, ToolGoes
<1>2. installer' \in [Installers -> Plain \cup Chosen \cup Armed \cup Registering \cup Written]
  BY DEF ToolTypes, ToolGoes, States
<1>3. tools' \subseteq [before : Pieces, after : Pieces] /\ Cardinality(tools') <= 1
      /\ \A tool \in tools' : DOMAIN tool.after = DOMAIN tool.before
  <2>1. CASE tools' = tools
    BY <2>1 DEF ToolTypes
  <2>2. CASE tools' = {}
    BY <2>2, FS_EmptySet
  <2>3. ASSUME NEW tool \in [before : Pieces, after : Pieces], tools' = {tool},
               DOMAIN tool.after = DOMAIN tool.before
        PROVE  /\ tools' \subseteq [before : Pieces, after : Pieces] /\ Cardinality(tools') <= 1
               /\ \A t \in tools' : DOMAIN t.after = DOMAIN t.before
    <3>1. Cardinality({tool}) = 1
      BY FS_Singleton
    <3> QED
      BY <2>3, <3>1
  <2> QED
    BY <2>1, <2>2, <2>3
<1> QED
  BY <1>1, <1>2, <1>3 DEF ToolTypes, InTool

\* The one process that applies a plan goes on.
LEMMA ToolGoesOnAlone ==
  ASSUME ToolInv, calm' => calm, mishaps \subseteq mishaps', NEW p \in Installers, Applying(p),
         \A q \in Installers \ {p} : installer'[q] = installer[q],
         calm' => /\ ToolPhase(p)' /\ \A tool \in tools' : Clean(tool.before) /\ OnlyAt(DOMAIN tool.before)'
                  /\ installer'[p].pc \in Quiet => ToolStateAgrees'
  PROVE  calm' => OneAtATime'
<1> SUFFICES ASSUME calm' PROVE OneAtATime'
  OBVIOUS
<1>1. \A q \in Installers \ {p} : installer'[q].pc \in Quiet
  BY DEF ToolInv, OneAtATime, Applying, Quiet
<1>2. \A q \in Installers : ToolPhase(q)'
  BY <1>1 DEF ToolPhase, InTool, Quiet
<1>3. ToolStateAgrees'
  BY DEF ToolStateAgrees, Applying, Quiet
<1>4. \A q, r \in Installers : Applying(q)' /\ Applying(r)' => q = r
  BY <1>1 DEF Applying, Quiet
<1> QED
  BY <1>2, <1>3, <1>4 DEF OneAtATime, Clean, OnlyAt, Tidy

\* Nobody applies anything now: a process that does not either goes on.
LEMMA QuietGoesOn ==
  ASSUME ToolInv, UNCHANGED <<tools, runtime, skill, calm, mishaps>>, NEW p \in Installers,
         installer[p].pc \in Quiet, installer'[p].pc \in Quiet,
         \A q \in Installers \ {p} : installer'[q] = installer[q]
  PROVE  calm' => OneAtATime'
<1> SUFFICES ASSUME calm' PROVE OneAtATime'
  OBVIOUS
<1>1. calm /\ OneAtATime
  BY DEF ToolInv
<1>2. \A q \in Installers : Applying(q)' <=> Applying(q)
  BY DEF Applying, Quiet
<1>3. \A q \in Installers : ToolPhase(q)'
  BY <1>1 DEF OneAtATime, ToolPhase, InTool, Quiet, OnlyAt, Clean, Tidy
<1>4. ToolStateAgrees'
  BY <1>1, <1>2 DEF OneAtATime, ToolStateAgrees
<1>5. \A q, r \in Installers : Applying(q)' /\ Applying(r)' => q = r
  BY <1>1, <1>2 DEF OneAtATime
<1> QED
  BY <1>1, <1>3, <1>4, <1>5 DEF OneAtATime, Clean, OnlyAt, Tidy

\* A plan begins to be applied.
LEMMA ToolBeginsAlone ==
  ASSUME ToolInv, Begins, UNCHANGED <<tools, runtime, mishaps>>, NEW p \in Installers, installer[p].pc \in Quiet,
         \A q \in Installers \ {p} : installer'[q] = installer[q],
         calm' /\ OneAtATime /\ (tools = {} => OnlyAt({}) /\ (Tidy => runtime = "absent")) =>
             /\ ToolPhase(p)' /\ \A tool \in tools : OnlyAt(DOMAIN tool.before)'
             /\ tools = {} => skill' = skill
  PROVE  calm' => OneAtATime'
<1> SUFFICES ASSUME calm' PROVE OneAtATime'
  OBVIOUS
<1>1. calm /\ OneAtATime /\ \A q \in Installers : ~Applying(q)
  BY DEF ToolInv, Begins
<1>2. tools = {} => OnlyAt({}) /\ (Tidy => runtime = "absent")
  BY <1>1 DEF OneAtATime, ToolStateAgrees, OnlyAt, Tidy
<1>3. ToolPhase(p)' /\ (\A tool \in tools : OnlyAt(DOMAIN tool.before)') /\ (tools = {} => skill' = skill)
  BY <1>1, <1>2
<1>4. \A q \in Installers \ {p} : installer'[q].pc \in Quiet
  BY <1>1 DEF Applying, Quiet
<1>5. \A q \in Installers : ToolPhase(q)'
  BY <1>3, <1>4 DEF ToolPhase, InTool, Quiet
<1>6. ToolStateAgrees'
  BY <1>1, <1>3 DEF OneAtATime, ToolStateAgrees
<1>7. \A q, r \in Installers : Applying(q)' /\ Applying(r)' => q = r
  BY <1>4 DEF Applying, Quiet
<1>8. \A tool \in tools' : Clean(tool.before)' /\ OnlyAt(DOMAIN tool.before)'
  BY <1>1, <1>3 DEF OneAtATime, Clean, OnlyAt, Tidy
<1> QED
  BY <1>5, <1>6, <1>7, <1>8 DEF OneAtATime

-----------------------------------------------------------------------------
(* Planning, and the end of a plan that is not applied *)

LEMMA PlanningTools ==
  ASSUME ToolInv, NEW p \in Installers, PlanToolInstall(p) \/ PlanToolRemoval(p) \/ PlanIsDropped(p)
  PROVE  ToolInv'
<1>0. ToolTypes
  BY DEF ToolInv
<1>1. PICK n \in States : n.pc \in Quiet /\ ToolGoes(p, n)
  <2>1. CASE PlanToolInstall(p)
    <3>1. PICK agents \in SUBSET ToolAgents : ToolGoes(p, [pc |-> "planned", agents |-> agents])
      BY <2>1 DEF PlanToolInstall
    <3> DEFINE n == [pc |-> "planned", agents |-> agents]
    <3>2. n \in Chosen /\ n.pc = "planned"
      BY DEF Chosen
    <3> QED
      BY <3>1, <3>2 DEF States, Quiet
  <2>2. CASE PlanToolRemoval(p)
    <3> DEFINE n == [pc |-> "unwanted"]
    <3>2. n \in Plain /\ n.pc = "unwanted"
      BY DEF Plain
    <3> QED
      BY <2>2, <3>2 DEF States, Quiet, PlanToolRemoval
  <2>3. CASE PlanIsDropped(p)
    <3>2. AtRest \in Plain /\ AtRest.pc = "idle"
      BY DEF Plain, AtRest
    <3> QED
      BY <2>3, <3>2 DEF States, Quiet, PlanIsDropped
  <2> QED
    BY <2>1, <2>2, <2>3
<1>2. installer[p].pc \in Quiet /\ UNCHANGED <<tools, runtime, skill, calm, mishaps>>
  BY DEF PlanToolInstall, PlanToolRemoval, PlanIsDropped, Plans, InTool, Quiet
<1>3. ToolTypes' /\ installer'[p] = n /\ \A q \in Installers \ {p} : installer'[q] = installer[q]
  <2>1. n.pc # "write"
    BY <1>1 DEF Quiet
  <2> QED
    BY <1>0, <1>1, <1>2, <2>1, ToolGoesOn DEF ToolTypes
<1> QED
  BY <1>1, <1>2, <1>3, QuietGoesOn DEF ToolInv

LEMMA ReadToolsKeeps ==
  ASSUME ToolInv, NEW p \in Installers, ReadTools(p)
  PROVE  ToolInv'
<1>0. ToolTypes /\ installer[p] \in States /\ installer[p].pc = "planned"
  BY DEF ToolInv, ReadTools, InTool, ToolTypes, States
<1>1. PICK n \in States : /\ ToolGoes(p, n)
                          /\ n.pc = IF tools = {} THEN "probe" ELSE "idle"
  <2>1. installer[p] \in Chosen
    BY <1>0 DEF States, Plain, Armed, Registering, Written
  <2> DEFINE n == IF tools = {} THEN [installer[p] EXCEPT !.pc = "probe"] ELSE AtRest
  <2>2. [installer[p] EXCEPT !.pc = "probe"] \in Chosen /\ [installer[p] EXCEPT !.pc = "probe"].pc = "probe"
    BY <2>1 DEF Chosen
  <2>3. AtRest \in Plain /\ AtRest.pc = "idle"
    BY DEF AtRest, Plain
  <2>4. ToolGoes(p, n)
    BY DEF ReadTools, ToolAt, ToolGoes
  <2> QED
    BY <2>2, <2>3, <2>4 DEF States
<1>2. UNCHANGED <<tools, runtime, skill, mishaps>> /\ Begins /\ calm' \in BOOLEAN
  BY <1>0 DEF ReadTools, Begins, ToolTypes
<1>3. ToolTypes' /\ installer'[p] = n /\ \A q \in Installers \ {p} : installer'[q] = installer[q]
  BY <1>0, <1>1, <1>2, ToolGoesOn DEF ToolTypes
<1>4. calm' => OneAtATime'
  <2> SUFFICES ASSUME calm', OneAtATime, tools = {} => OnlyAt({}) /\ (Tidy => runtime = "absent")
               PROVE  ToolPhase(p)' /\ \A tool \in tools : OnlyAt(DOMAIN tool.before)'
    BY <1>0, <1>2, <1>3, ToolBeginsAlone DEF Quiet
  <2>1. ToolPhase(p)'
    BY <1>1, <1>2, <1>3 DEF ToolPhase, InTool, OnlyAt, Tidy
  <2> QED
    BY <1>2, <2>1 DEF OneAtATime, OnlyAt, Tidy
<1> QED
  BY <1>3, <1>4 DEF ToolInv

LEMMA RestoredTypes ==
  ASSUME NEW before \in Pieces, skill \in [ToolAgents -> SkillContents]
  PROVE  Restored(before) \in [ToolAgents -> SkillContents]
BY DEF Restored, Pieces

LEMMA RemovalBegins ==
  ASSUME ToolInv, NEW p \in Installers, RestoreBeforeRemoval(p)
  PROVE  ToolInv'
<1>0. ToolTypes /\ installer[p] \in States /\ installer[p].pc = "unwanted"
  BY DEF ToolInv, RestoreBeforeRemoval, InTool, ToolTypes, States
<1>2. UNCHANGED <<tools, runtime, mishaps>> /\ Begins /\ calm' \in BOOLEAN
  BY <1>0 DEF RestoreBeforeRemoval, Begins, ToolTypes
<1>5. CASE ToolGoes(p, AtRest) /\ UNCHANGED skill
  <2>1. AtRest \in States /\ AtRest.pc = "idle"
    BY DEF AtRest, Plain, States
  <2>2. ToolTypes' /\ installer'[p] = AtRest /\ \A q \in Installers \ {p} : installer'[q] = installer[q]
    BY <1>0, <1>2, <1>5, <2>1, ToolGoesOn DEF ToolTypes
  <2>3. calm' => OneAtATime'
    <3> SUFFICES ASSUME calm', OneAtATime
                 PROVE  ToolPhase(p)' /\ \A tool \in tools : OnlyAt(DOMAIN tool.before)'
      BY <1>0, <1>2, <1>5, <2>2, ToolBeginsAlone DEF Quiet
    <3> QED
      BY <1>2, <1>5, <2>1, <2>2 DEF ToolPhase, InTool, OneAtATime, OnlyAt, Tidy
  <2> QED
    BY <2>2, <2>3 DEF ToolInv
<1>6. ASSUME NEW tool \in tools, skill' = Restored(tool.before), ToolAt(p, "discard")
      PROVE  ToolInv'
  <2> DEFINE n == [installer[p] EXCEPT !.pc = "discard"]
  <2>1. n \in Plain /\ n.pc = "discard"
    BY <1>0 DEF Plain, States, Chosen, Armed, Registering, Written
  <2>2. ToolGoes(p, n)
    BY <1>6 DEF ToolAt, ToolGoes
  <2>3. skill' \in [ToolAgents -> SkillContents]
    BY <1>0, <1>6, RestoredTypes DEF ToolTypes
  <2>4. ToolTypes' /\ installer'[p] = n /\ \A q \in Installers \ {p} : installer'[q] = installer[q]
    <3> HIDE DEF n
    <3> QED
      BY <1>0, <1>2, <2>1, <2>2, <2>3, ToolGoesOn DEF ToolTypes, States
  <2>5. calm' => OneAtATime'
    <3> SUFFICES ASSUME calm', OneAtATime
                 PROVE  ToolPhase(p)' /\ \A t \in tools : OnlyAt(DOMAIN t.before)'
      BY <1>0, <1>2, <2>1, <2>4, ToolBeginsAlone DEF Quiet
    <3>1. Tidy => \A a \in ToolAgents : skill'[a] # "generated"
      BY <1>6 DEF OneAtATime, Clean, OnlyAt, Restored
    <3> HIDE DEF n
    <3> QED
      BY <1>2, <2>1, <2>4, <3>1 DEF ToolPhase, InTool, OnlyAt, Tidy
  <2> QED
    BY <2>4, <2>5 DEF ToolInv
<1>7. ASSUME NEW tool \in tools, skill' \in HalfRestored(tool.before), ToolGoes(p, AtRest)
      PROVE  ToolInv'
  <2>1. AtRest \in States /\ AtRest.pc = "idle"
    BY DEF AtRest, Plain, States
  <2>2. skill' \in [ToolAgents -> SkillContents]
    BY <1>7 DEF HalfRestored
  <2>3. ToolTypes' /\ installer'[p] = AtRest /\ \A q \in Installers \ {p} : installer'[q] = installer[q]
    BY <1>0, <1>2, <1>7, <2>1, <2>2, ToolGoesOn DEF ToolTypes
  <2>4. calm' => OneAtATime'
    <3> SUFFICES ASSUME calm', OneAtATime
                 PROVE  ToolPhase(p)' /\ \A t \in tools : OnlyAt(DOMAIN t.before)'
      BY <1>0, <1>2, <1>7, <2>3, ToolBeginsAlone DEF Quiet
    <3>1. ToolPhase(p)'
      BY <2>1, <2>3 DEF ToolPhase, InTool
    <3>2. Tidy => \A a \in ToolAgents : skill'[a] \in {skill[a], "none"} \/ skill'[a] # "generated"
      BY <1>7 DEF HalfRestored, OneAtATime, Clean
    <3> QED
      BY <1>2, <3>1, <3>2 DEF OneAtATime, OnlyAt, Tidy
  <2> QED
    BY <2>3, <2>4 DEF ToolInv
<1> QED
  BY <1>5, <1>6, <1>7 DEF RestoreBeforeRemoval

-----------------------------------------------------------------------------
(* The steps of a plan that is applied *)

\* What a process at one of these steps carries, and that it may go to the end of it.
LEMMA ToolCarries ==
  ASSUME ToolTypes, NEW p \in Installers
  PROVE  /\ installer[p] \in States
         /\ InTool(p, "probe") \/ InTool(p, "snapshot") => installer[p] \in Chosen
         /\ InTool(p, "install") => installer[p] \in Armed
         /\ InTool(p, "register") \/ InTool(p, "post") => installer[p] \in Registering
         /\ InTool(p, "write") => installer[p] \in Written
         /\ InTool(p, "restore") => installer[p] \in Armed \cup Registering \cup Written
         /\ InTool(p, "discard") \/ InTool(p, "forget") => installer[p] \in Plain
<1>1. installer[p] \in States
  BY DEF ToolTypes, States
<1> QED
  BY <1>1 DEF States, InTool, Plain, Chosen, Armed, Registering, Written

LEMMA RestIsPlain == AtRest \in States /\ AtRest.pc = "idle"
BY DEF AtRest, Plain, States

LEMMA ProbeKeeps == ASSUME ToolInv, NEW p \in Installers, ProbeRuntime(p) PROVE ToolInv'
<1>0. ToolTypes /\ installer[p] \in Chosen /\ installer[p].pc = "probe"
  BY ToolCarries DEF ToolInv, ProbeRuntime, InTool
<1> DEFINE n == IF runtime = "absent" THEN [installer[p] EXCEPT !.pc = "snapshot"] ELSE AtRest
<1>1. n \in States /\ n.pc = IF runtime = "absent" THEN "snapshot" ELSE "idle"
  <2>1. [installer[p] EXCEPT !.pc = "snapshot"] \in Chosen /\ [installer[p] EXCEPT !.pc = "snapshot"].pc = "snapshot"
    BY <1>0 DEF Chosen
  <2> QED
    BY <2>1, RestIsPlain DEF States
<1>2. ToolGoes(p, n) /\ UNCHANGED <<tools, runtime, skill, calm, mishaps>>
  BY DEF ProbeRuntime, ToolAt, ToolGoes, Keeps
<1> HIDE DEF n
<1>3. ToolTypes' /\ installer'[p] = n /\ \A q \in Installers \ {p} : installer'[q] = installer[q]
  BY <1>0, <1>1, <1>2, ToolGoesOn DEF ToolTypes
<1>4. calm' => OneAtATime'
  <2> SUFFICES ASSUME calm
      PROVE  /\ ToolPhase(p)' /\ \A tool \in tools' : Clean(tool.before) /\ OnlyAt(DOMAIN tool.before)'
             /\ installer'[p].pc \in Quiet => ToolStateAgrees'
    BY <1>0, <1>2, <1>3, ToolGoesOnAlone DEF Applying
  <2>1. tools = {} /\ OnlyAt({}) /\ (Tidy => runtime = "absent")
    BY <1>0 DEF ToolInv, OneAtATime, ToolPhase, InTool
  <2> QED
    BY <1>1, <1>2, <1>3, <2>1 DEF ToolPhase, InTool, OnlyAt, Quiet, ToolStateAgrees, Tidy
<1> QED
  BY <1>3, <1>4 DEF ToolInv

\* A step of an installation fails.
LEMMA FailKeeps ==
  ASSUME ToolInv, NEW p \in Installers, installer[p].pc \in {"install", "register", "post", "write"}, Fails(p),
         UNCHANGED <<tools, calm, mishaps>>, runtime' \in {"absent", "partial", "whole"},
         skill' \in [ToolAgents -> SkillContents],
         calm => \A a \in ToolAgents \ DOMAIN installer[p].before : skill'[a] = skill[a]
  PROVE  ToolInv'
<1>0. ToolTypes /\ installer[p] \in Armed \cup Registering \cup Written
  BY ToolCarries DEF ToolInv, InTool
<1> DEFINE n == [installer[p] EXCEPT !.pc = "restore"]
<1>1. n \in Armed \cup Registering \cup Written /\ n.pc = "restore" /\ n.before = installer[p].before
  BY <1>0 DEF Armed, Registering, Written
<1>2. ToolGoes(p, n)
  BY DEF ToolAt, ToolGoes, Fails
<1>3. n \in States
  BY <1>1 DEF States
<1> HIDE DEF n
<1>9. ToolTypes' /\ installer'[p] = n /\ \A q \in Installers \ {p} : installer'[q] = installer[q]
  BY <1>0, <1>1, <1>2, <1>3, ToolGoesOn DEF ToolTypes
<1>10. calm' => OneAtATime'
  <2> SUFFICES ASSUME calm
        PROVE  /\ ToolPhase(p)' /\ \A tool \in tools' : Clean(tool.before) /\ OnlyAt(DOMAIN tool.before)'
               /\ installer'[p].pc \in Quiet => ToolStateAgrees'
    BY <1>0, <1>9, ToolGoesOnAlone DEF Applying
  <2>1. ToolPhase(p) /\ OneAtATime
    BY DEF ToolInv, OneAtATime
  <2> QED
    BY <1>0, <1>1, <1>9, <2>1 DEF ToolPhase, InTool, OneAtATime, OnlyAt, Clean, Quiet, ToolStateAgrees, Tidy
<1> QED
  BY <1>9, <1>10 DEF ToolInv

LEMMA SnapshotKeeps == ASSUME ToolInv, NEW p \in Installers, SnapshotSkills(p) PROVE ToolInv'
<1>0. ToolTypes /\ installer[p] \in Chosen /\ installer[p].pc = "snapshot" /\ UNCHANGED <<tools, runtime, skill, calm, mishaps>>
  BY ToolCarries DEF ToolInv, SnapshotSkills, InTool, Keeps
<1>1. CASE ToolGoes(p, [pc |-> "install", before |-> Restrict(skill, installer[p].agents)])
  <2> DEFINE n == [pc |-> "install", before |-> Restrict(skill, installer[p].agents)]
  <2>1. Restrict(skill, installer[p].agents) \in [installer[p].agents -> SkillContents]
    BY <1>0 DEF Restrict, Chosen, ToolTypes
  <2>2. n \in Armed /\ n.pc = "install" /\ n.before = Restrict(skill, installer[p].agents)
    BY <1>0, <2>1 DEF Armed, Chosen, Pieces
  <2>3. ToolGoes(p, n)
    BY <1>1
  <2>4. \A a \in DOMAIN n.before : n.before[a] = skill[a] /\ a \in ToolAgents
    BY <1>0, <2>2 DEF Restrict, Chosen
  <2>5. n \in States
    BY <2>2 DEF States
  <2> HIDE DEF n
  <2>9. ToolTypes' /\ installer'[p] = n /\ \A q \in Installers \ {p} : installer'[q] = installer[q]
    BY <1>0, <2>2, <2>3, <2>5, ToolGoesOn DEF ToolTypes
  <2>10. calm' => OneAtATime'
    <3> SUFFICES ASSUME calm
        PROVE  /\ ToolPhase(p)' /\ \A tool \in tools' : Clean(tool.before) /\ OnlyAt(DOMAIN tool.before)'
               /\ installer'[p].pc \in Quiet => ToolStateAgrees'
      BY <1>0, <2>9, ToolGoesOnAlone DEF Applying
    <3>1. ToolPhase(p) /\ OneAtATime
      BY DEF ToolInv, OneAtATime
    <3> QED
      BY <1>0, <2>2, <2>4, <2>9, <3>1 DEF ToolPhase, InTool, OneAtATime, OnlyAt, Clean, Quiet, ToolStateAgrees, Tidy
  <2> QED
    BY <2>9, <2>10 DEF ToolInv

<1>2. CASE ToolAt(p, "clear")
  <2> DEFINE n == [installer[p] EXCEPT !.pc = "clear"]
  <2>1. n \in Chosen /\ n.pc = "clear"
    BY <1>0 DEF Chosen
  <2>2. ToolGoes(p, n)
    BY <1>2 DEF ToolAt, ToolGoes
  <2>3. n \in States
    BY <2>1 DEF States
  <2> HIDE DEF n
  <2>9. ToolTypes' /\ installer'[p] = n /\ \A q \in Installers \ {p} : installer'[q] = installer[q]
    BY <1>0, <2>1, <2>2, <2>3, ToolGoesOn DEF ToolTypes
  <2>10. calm' => OneAtATime'
    <3> SUFFICES ASSUME calm
        PROVE  /\ ToolPhase(p)' /\ \A tool \in tools' : Clean(tool.before) /\ OnlyAt(DOMAIN tool.before)'
               /\ installer'[p].pc \in Quiet => ToolStateAgrees'
      BY <1>0, <2>9, ToolGoesOnAlone DEF Applying
    <3>1. ToolPhase(p) /\ OneAtATime
      BY DEF ToolInv, OneAtATime
    <3> QED
      BY <1>0, <2>1, <2>9, <3>1 DEF ToolPhase, InTool, OneAtATime, OnlyAt, Clean, Quiet, ToolStateAgrees, Tidy
  <2> QED
    BY <2>9, <2>10 DEF ToolInv

<1> QED
  BY <1>1, <1>2 DEF SnapshotSkills

LEMMA InstallKeeps == ASSUME ToolInv, NEW p \in Installers, InstallRuntime(p) PROVE ToolInv'
<1>0. ToolTypes /\ installer[p] \in Armed /\ installer[p].pc = "install" /\ UNCHANGED <<tools, skill, calm, mishaps>>
  BY ToolCarries DEF ToolInv, InstallRuntime, InTool, Keeps
<1>1. CASE /\ runtime' = "whole"
           /\ ToolGoes(p, [pc |-> "register", before |-> installer[p].before, todo |-> DOMAIN installer[p].before])
  <2> DEFINE n == [pc |-> "register", before |-> installer[p].before, todo |-> DOMAIN installer[p].before]
  <2>1. installer[p].before \in Pieces /\ DOMAIN installer[p].before \subseteq ToolAgents
    BY <1>0 DEF Armed, Pieces
  <2>2. n \in Registering /\ n.pc = "register" /\ n.before = installer[p].before /\ n.todo = DOMAIN n.before
    BY <2>1 DEF Registering
  <2>3. ToolGoes(p, n)
    BY <1>1
  <2>5. n \in States
    BY <2>2 DEF States
  <2> HIDE DEF n
  <2>9. ToolTypes' /\ installer'[p] = n /\ \A q \in Installers \ {p} : installer'[q] = installer[q]
    BY <1>0, <1>1, <2>2, <2>3, <2>5, ToolGoesOn DEF ToolTypes
  <2>10. calm' => OneAtATime'
    <3> SUFFICES ASSUME calm
        PROVE  /\ ToolPhase(p)' /\ \A tool \in tools' : Clean(tool.before) /\ OnlyAt(DOMAIN tool.before)'
               /\ installer'[p].pc \in Quiet => ToolStateAgrees'
      BY <1>0, <2>9, ToolGoesOnAlone DEF Applying
    <3>1. ToolPhase(p) /\ OneAtATime
      BY DEF ToolInv, OneAtATime
    <3> QED
      BY <1>0, <1>1, <2>2, <2>9, <3>1 DEF ToolPhase, InTool, OneAtATime, OnlyAt, Clean, Quiet, ToolStateAgrees, Tidy
  <2> QED
    BY <2>9, <2>10 DEF ToolInv

<1>2. CASE runtime' \in {runtime, "partial"} /\ Fails(p)
  BY <1>0, <1>2, FailKeeps DEF ToolTypes
<1> QED
  BY <1>1, <1>2 DEF InstallRuntime

LEMMA RegisterKeeps == ASSUME ToolInv, NEW p \in Installers, RegisterAgent(p) PROVE ToolInv'
<1>0. ToolTypes /\ installer[p] \in Registering /\ installer[p].pc = "register" /\ UNCHANGED <<tools, runtime, calm, mishaps>>
  BY ToolCarries DEF ToolInv, RegisterAgent, InTool, Keeps
<1>1. PICK a \in installer[p].todo :
        \/ /\ runtime = "whole" /\ skill' = [skill EXCEPT ![a] = "generated"]
           /\ installer' = [installer EXCEPT ![p].todo = @ \ {a}]
        \/ skill' \in {skill, [skill EXCEPT ![a] = "generated"]} /\ Fails(p)
  BY DEF RegisterAgent
<1>2. skill' \in [ToolAgents -> SkillContents] /\ \A b \in ToolAgents \ {a} : skill'[b] = skill[b]
  BY <1>0, <1>1 DEF ToolTypes, SkillContents
<1>3. calm => a \in DOMAIN installer[p].before
  BY <1>0, <1>1 DEF ToolInv, OneAtATime, ToolPhase, InTool
<1>4. CASE installer' = [installer EXCEPT ![p].todo = @ \ {a}]
  <2> DEFINE n == [installer[p] EXCEPT !.todo = @ \ {a}]
  <2>1. n \in Registering /\ n.pc = "register" /\ n.before = installer[p].before /\ n.todo \subseteq installer[p].todo
    BY <1>0 DEF Registering
  <2>2. ToolGoes(p, n)
    BY <1>4 DEF ToolAt, ToolGoes
  <2>3. n \in States
    BY <2>1 DEF States
  <2> HIDE DEF n
  <2>9. ToolTypes' /\ installer'[p] = n /\ \A q \in Installers \ {p} : installer'[q] = installer[q]
    BY <1>0, <1>2, <2>1, <2>2, <2>3, ToolGoesOn DEF ToolTypes
  <2>10. calm' => OneAtATime'
    <3> SUFFICES ASSUME calm
        PROVE  /\ ToolPhase(p)' /\ \A tool \in tools' : Clean(tool.before) /\ OnlyAt(DOMAIN tool.before)'
               /\ installer'[p].pc \in Quiet => ToolStateAgrees'
      BY <1>0, <2>9, ToolGoesOnAlone DEF Applying
    <3>1. ToolPhase(p) /\ OneAtATime
      BY DEF ToolInv, OneAtATime
    <3> QED
      BY <1>0, <1>2, <1>3, <2>1, <2>9, <3>1 DEF ToolPhase, InTool, OneAtATime, OnlyAt, Clean, Quiet, ToolStateAgrees, Tidy
  <2> QED
    BY <2>9, <2>10 DEF ToolInv

<1>5. CASE Fails(p)
  BY <1>0, <1>2, <1>3, <1>5, FailKeeps DEF ToolTypes
<1> QED
  BY <1>1, <1>4, <1>5

LEMMA CheckToolKeeps == ASSUME ToolInv, NEW p \in Installers, CheckTool(p) PROVE ToolInv'
<1>0. /\ ToolTypes /\ installer[p] \in Registering /\ installer[p].pc = "register"
      /\ UNCHANGED <<tools, runtime, skill, calm, mishaps>>
  BY ToolCarries DEF ToolInv, CheckTool, InTool, Keeps
<1>1. CASE ToolAt(p, "post") /\ runtime = "whole"
  <2> DEFINE n == [installer[p] EXCEPT !.pc = "post"]
  <2>1. n \in Registering /\ n.pc = "post" /\ n.before = installer[p].before
    BY <1>0 DEF Registering
  <2>2. ToolGoes(p, n)
    BY <1>1 DEF ToolAt, ToolGoes
  <2>3. n \in States
    BY <2>1 DEF States
  <2> HIDE DEF n
  <2>9. ToolTypes' /\ installer'[p] = n /\ \A q \in Installers \ {p} : installer'[q] = installer[q]
    BY <1>0, <2>1, <2>2, <2>3, ToolGoesOn DEF ToolTypes
  <2>10. calm' => OneAtATime'
    <3> SUFFICES ASSUME calm
        PROVE  /\ ToolPhase(p)' /\ \A tool \in tools' : Clean(tool.before) /\ OnlyAt(DOMAIN tool.before)'
               /\ installer'[p].pc \in Quiet => ToolStateAgrees'
      BY <1>0, <2>9, ToolGoesOnAlone DEF Applying
    <3>1. ToolPhase(p) /\ OneAtATime
      BY DEF ToolInv, OneAtATime
    <3> QED
      BY <1>0, <1>1, <2>1, <2>9, <3>1 DEF ToolPhase, InTool, OneAtATime, OnlyAt, Clean, Quiet, ToolStateAgrees, Tidy
  <2> QED
    BY <2>9, <2>10 DEF ToolInv

<1>2. CASE Fails(p)
  BY <1>0, <1>2, FailKeeps DEF ToolTypes
<1> QED
  BY <1>1, <1>2 DEF CheckTool

LEMMA RecordPostKeeps == ASSUME ToolInv, NEW p \in Installers, RecordPostState(p) PROVE ToolInv'
<1>0. /\ ToolTypes /\ installer[p] \in Registering /\ installer[p].pc = "post"
      /\ UNCHANGED <<tools, runtime, skill, calm, mishaps>>
  BY ToolCarries DEF ToolInv, RecordPostState, InTool, Keeps
<1>1. CASE ToolGoes(p, [pc |-> "write", before |-> installer[p].before,
                        after |-> Restrict(skill, DOMAIN installer[p].before)])
  <2> DEFINE n == [pc |-> "write", before |-> installer[p].before, after |-> Restrict(skill, DOMAIN installer[p].before)]
  <2>1. installer[p].before \in Pieces /\ DOMAIN installer[p].before \subseteq ToolAgents
    BY <1>0 DEF Registering, Pieces
  <2>2. Restrict(skill, DOMAIN installer[p].before) \in [DOMAIN installer[p].before -> SkillContents]
    BY <1>0, <2>1 DEF Restrict, ToolTypes
  <2>3. n \in Written /\ n.pc = "write" /\ n.before = installer[p].before /\ DOMAIN n.after = DOMAIN n.before
    BY <2>1, <2>2 DEF Written, Pieces
  <2>4. ToolGoes(p, n)
    BY <1>1
  <2>5. n \in States
    BY <2>3 DEF States
  <2> HIDE DEF n
  <2>9. ToolTypes' /\ installer'[p] = n /\ \A q \in Installers \ {p} : installer'[q] = installer[q]
    BY <1>0, <2>3, <2>4, <2>5, ToolGoesOn DEF ToolTypes
  <2>10. calm' => OneAtATime'
    <3> SUFFICES ASSUME calm
        PROVE  /\ ToolPhase(p)' /\ \A tool \in tools' : Clean(tool.before) /\ OnlyAt(DOMAIN tool.before)'
               /\ installer'[p].pc \in Quiet => ToolStateAgrees'
      BY <1>0, <2>9, ToolGoesOnAlone DEF Applying
    <3>1. ToolPhase(p) /\ OneAtATime
      BY DEF ToolInv, OneAtATime
    <3> QED
      BY <1>0, <1>1, <2>3, <2>9, <3>1 DEF ToolPhase, InTool, OneAtATime, OnlyAt, Clean, Quiet, ToolStateAgrees, Tidy
  <2> QED
    BY <2>9, <2>10 DEF ToolInv

<1>2. CASE Fails(p)
  BY <1>0, <1>2, FailKeeps DEF ToolTypes
<1> QED
  BY <1>1, <1>2 DEF RecordPostState

LEMMA WriteToolsKeeps == ASSUME ToolInv, NEW p \in Installers, WriteTools(p) PROVE ToolInv'
<1>0. /\ ToolTypes /\ installer[p] \in Written /\ installer[p].pc = "write"
      /\ UNCHANGED <<runtime, skill, calm, mishaps>>
  BY ToolCarries DEF ToolInv, WriteTools, InTool, Keeps
<1>1. CASE tools' = {[before |-> installer[p].before, after |-> installer[p].after]} /\ ToolGoes(p, AtRest)
  <2> DEFINE n == AtRest
             recorded == [before |-> installer[p].before, after |-> installer[p].after]
  <2>1. n \in States /\ n.pc = "idle"
    BY RestIsPlain
  <2>2. recorded \in [before : Pieces, after : Pieces] /\ DOMAIN recorded.after = DOMAIN recorded.before
        /\ recorded.before = installer[p].before
    BY <1>0 DEF ToolTypes, Written, InTool
  <2>3. tools' = {recorded} /\ ToolGoes(p, n)
    BY <1>1
  <2> HIDE DEF n, recorded
  <2>9. ToolTypes' /\ installer'[p] = n /\ \A q \in Installers \ {p} : installer'[q] = installer[q]
    BY <1>0, <2>1, <2>2, <2>3, ToolGoesOn DEF ToolTypes
  <2>10. calm' => OneAtATime'
    <3> SUFFICES ASSUME calm
        PROVE  /\ ToolPhase(p)' /\ \A tool \in tools' : Clean(tool.before) /\ OnlyAt(DOMAIN tool.before)'
               /\ installer'[p].pc \in Quiet => ToolStateAgrees'
      BY <1>0, <2>9, ToolGoesOnAlone DEF Applying
    <3>1. ToolPhase(p) /\ OneAtATime
      BY DEF ToolInv, OneAtATime
    <3> QED
      BY <1>0, <2>1, <2>2, <2>3, <2>9, <3>1 DEF ToolPhase, InTool, OneAtATime, OnlyAt, Clean, Quiet, ToolStateAgrees, Tidy
  <2> QED
    BY <2>9, <2>10 DEF ToolInv

<1>2. CASE UNCHANGED tools /\ Fails(p)
  BY <1>0, <1>2, FailKeeps DEF ToolTypes
<1> QED
  BY <1>1, <1>2 DEF WriteTools

LEMMA RestoreKeeps == ASSUME ToolInv, NEW p \in Installers, RestoreSkills(p) PROVE ToolInv'
<1>0. /\ ToolTypes /\ installer[p] \in Armed \cup Registering \cup Written /\ installer[p].pc = "restore"
      /\ UNCHANGED <<tools, runtime, calm>> /\ mishaps' \in {mishaps, mishaps \cup {"rollback"}}
  BY ToolCarries DEF ToolInv, RestoreSkills, InTool, Keeps, Slips
<1> DEFINE n == [installer[p] EXCEPT !.pc = "clear"]
<1>1. n \in Armed \cup Registering \cup Written /\ n.pc = "clear" /\ installer[p].before \in Pieces
  BY <1>0 DEF Armed, Registering, Written
<1>2. ToolGoes(p, n)
  BY DEF ToolAt, ToolGoes, RestoreSkills
<1>3. n \in States
  BY <1>1 DEF States
<1>4. Tidy' => Tidy /\ skill' = Restored(installer[p].before)
  BY DEF RestoreSkills, Keeps, Slips, Tidy
<1>5. skill' \in [ToolAgents -> SkillContents]
  <2>1. Restored(installer[p].before) \in [ToolAgents -> SkillContents]
    BY <1>0, <1>1, RestoredTypes DEF ToolTypes
  <2> QED
    BY <2>1 DEF RestoreSkills, HalfRestored
<1> HIDE DEF n
<1>9. ToolTypes' /\ installer'[p] = n /\ \A q \in Installers \ {p} : installer'[q] = installer[q]
  BY <1>0, <1>1, <1>2, <1>3, <1>5, ToolGoesOn DEF ToolTypes
<1>10. calm' => OneAtATime'
  <2> SUFFICES ASSUME calm
        PROVE  /\ ToolPhase(p)' /\ \A tool \in tools' : Clean(tool.before) /\ OnlyAt(DOMAIN tool.before)'
               /\ installer'[p].pc \in Quiet => ToolStateAgrees'
    BY <1>0, <1>9, ToolGoesOnAlone DEF Applying
  <2>1. ToolPhase(p) /\ OneAtATime
    BY DEF ToolInv, OneAtATime
  <2> QED
    BY <1>0, <1>1, <1>4, <1>9, <2>1
       DEF ToolPhase, InTool, OneAtATime, OnlyAt, Clean, Quiet, ToolStateAgrees, Tidy, Restored
<1> QED
  BY <1>9, <1>10 DEF ToolInv

LEMMA ClearKeeps == ASSUME ToolInv, NEW p \in Installers, ClearRuntime(p) PROVE ToolInv'
<1>0. /\ ToolTypes /\ installer[p].pc = "clear" /\ UNCHANGED <<tools, skill, calm>>
      /\ \/ runtime' = "absent" /\ UNCHANGED mishaps
         \/ runtime' \in {runtime, "absent", "partial"} /\ mishaps' = mishaps \cup {"rollback"}
  BY DEF ToolInv, ClearRuntime, InTool, Keeps, Slips, HalfRemoved
<1> DEFINE n == AtRest
<1>1. n \in States /\ n.pc = "idle"
  BY RestIsPlain
<1>2. ToolGoes(p, n)
  BY DEF ClearRuntime
<1> HIDE DEF n
<1>9. ToolTypes' /\ installer'[p] = n /\ \A q \in Installers \ {p} : installer'[q] = installer[q]
  BY <1>0, <1>1, <1>2, ToolGoesOn DEF ToolTypes
<1>10. calm' => OneAtATime'
  <2> SUFFICES ASSUME calm
        PROVE  /\ ToolPhase(p)' /\ \A tool \in tools' : Clean(tool.before) /\ OnlyAt(DOMAIN tool.before)'
               /\ installer'[p].pc \in Quiet => ToolStateAgrees'
    BY <1>0, <1>9, ToolGoesOnAlone DEF Applying
  <2>1. ToolPhase(p) /\ OneAtATime
    BY DEF ToolInv, OneAtATime
  <2> QED
    BY <1>0, <1>1, <1>9, <2>1 DEF ToolPhase, InTool, OneAtATime, OnlyAt, Clean, Quiet, ToolStateAgrees, Tidy
<1> QED
  BY <1>9, <1>10 DEF ToolInv

LEMMA DiscardKeeps == ASSUME ToolInv, NEW p \in Installers, DiscardRuntime(p) PROVE ToolInv'
<1>0. /\ ToolTypes /\ installer[p] \in Plain /\ installer[p].pc = "discard"
      /\ UNCHANGED <<tools, skill, calm>>
  BY ToolCarries DEF ToolInv, DiscardRuntime, InTool, Keeps, Slips
<1>1. PICK n \in Plain :
        /\ ToolGoes(p, n)
        /\ \/ n.pc = "forget" /\ runtime' = "absent" /\ UNCHANGED mishaps
           \/ /\ n.pc = "idle" /\ runtime' \in {runtime, "absent", "partial"}
              /\ mishaps' = mishaps \cup {"removal"}
  <2>1. CASE ToolAt(p, "forget") /\ runtime' = "absent" /\ Keeps
    <3> DEFINE m == [installer[p] EXCEPT !.pc = "forget"]
    <3>1. m \in Plain /\ m.pc = "forget"
      BY <1>0 DEF Plain
    <3>2. ToolGoes(p, m)
      BY <2>1 DEF ToolAt, ToolGoes
    <3> QED
      BY <2>1, <3>1, <3>2 DEF Keeps
  <2>2. CASE runtime' \in HalfRemoved /\ ToolGoes(p, AtRest) /\ Slips("removal")
    <3>1. AtRest \in Plain /\ AtRest.pc = "idle"
      BY DEF AtRest, Plain
    <3> QED
      BY <2>2, <3>1 DEF Slips, HalfRemoved
  <2> QED
    BY <2>1, <2>2 DEF DiscardRuntime
<1>2. ToolGoes(p, n)
  BY <1>1
<1>3. n \in States
  BY <1>1 DEF States
<1>9. ToolTypes' /\ installer'[p] = n /\ \A q \in Installers \ {p} : installer'[q] = installer[q]
  BY <1>0, <1>1, <1>2, <1>3, ToolGoesOn DEF ToolTypes
<1>10. calm' => OneAtATime'
  <2> SUFFICES ASSUME calm
        PROVE  /\ ToolPhase(p)' /\ \A tool \in tools' : Clean(tool.before) /\ OnlyAt(DOMAIN tool.before)'
               /\ installer'[p].pc \in Quiet => ToolStateAgrees'
    BY <1>0, <1>1, <1>9, ToolGoesOnAlone DEF Applying
  <2>1. ToolPhase(p) /\ OneAtATime
    BY DEF ToolInv, OneAtATime
  <2>2. Tidy' = Tidy
    BY <1>1 DEF Tidy
  <2>3. \A tool \in tools' : Clean(tool.before) /\ OnlyAt(DOMAIN tool.before)'
    BY <1>0, <2>1, <2>2 DEF OneAtATime, OnlyAt
  <2>4. ToolPhase(p)'
    BY <1>0, <1>1, <1>9, <2>1, <2>2 DEF ToolPhase, InTool, OnlyAt
  <2>5. installer'[p].pc \in Quiet => ToolStateAgrees'
    <3> SUFFICES ASSUME installer'[p].pc \in Quiet PROVE ToolStateAgrees'
      OBVIOUS
    <3>1. "removal" \in mishaps'
      BY <1>1, <1>9 DEF Quiet
    <3>2. tools' # {}
      BY <1>0, <2>1 DEF ToolPhase
    <3> QED
      BY <3>1, <3>2 DEF ToolStateAgrees
  <2> QED
    BY <2>3, <2>4, <2>5
<1> QED
  BY <1>9, <1>10 DEF ToolInv

LEMMA ForgetKeeps == ASSUME ToolInv, NEW p \in Installers, ForgetTool(p) PROVE ToolInv'
<1>0. /\ ToolTypes /\ installer[p].pc = "forget" /\ UNCHANGED <<runtime, skill, calm>>
      /\ \/ tools' = {} /\ UNCHANGED mishaps
         \/ tools' = tools /\ mishaps' = mishaps \cup {"removal"}
  BY DEF ToolInv, ForgetTool, InTool, Keeps, Slips
<1> DEFINE n == AtRest
<1>1. n \in States /\ n.pc = "idle"
  BY RestIsPlain
<1>2. ToolGoes(p, n)
  BY DEF ForgetTool
<1> HIDE DEF n
<1>9. ToolTypes' /\ installer'[p] = n /\ \A q \in Installers \ {p} : installer'[q] = installer[q]
  BY <1>0, <1>1, <1>2, ToolGoesOn DEF ToolTypes
<1>10. calm' => OneAtATime'
  <2> SUFFICES ASSUME calm
        PROVE  /\ ToolPhase(p)' /\ \A tool \in tools' : Clean(tool.before) /\ OnlyAt(DOMAIN tool.before)'
               /\ installer'[p].pc \in Quiet => ToolStateAgrees'
    BY <1>0, <1>9, ToolGoesOnAlone DEF Applying
  <2>1. ToolPhase(p) /\ OneAtATime
    BY DEF ToolInv, OneAtATime
  <2> QED
    BY <1>0, <1>1, <1>9, <2>1 DEF ToolPhase, InTool, OneAtATime, OnlyAt, Clean, Quiet, ToolStateAgrees, Tidy
<1> QED
  BY <1>9, <1>10 DEF ToolInv

-----------------------------------------------------------------------------
(* Deaths, and users *)

LEMMA InstallerDiesKeeps == ASSUME ToolInv, NEW p \in Installers, InstallerDies(p) PROVE ToolInv'
<1>1. ToolTypes /\ ToolGoes(p, AtRest) /\ ~calm' /\ UNCHANGED <<tools, runtime, skill, mishaps>> /\ calm' \in BOOLEAN
  BY DEF ToolInv, InstallerDies
<1>2. ToolTypes'
  BY <1>1, RestIsPlain, ToolGoesOn DEF ToolTypes
<1> QED
  BY <1>1, <1>2 DEF ToolInv

LEMMA ToolEditsKeep ==
  ASSUME ToolInv, (\E a \in ToolAgents : EditSkill(a)) \/ RollBackSkills
  PROVE  ToolInv'
<1>0. ToolTypes /\ UNCHANGED <<tools, runtime, installer, calm, mishaps>>
  BY DEF ToolInv, EditSkill, RollBackSkills, Edits
<1>1. /\ skill' \in [ToolAgents -> SkillContents]
      /\ calm /\ Tidy => \A a \in ToolAgents : skill'[a] = skill[a] \/ skill'[a] # "generated"
  <2>1. ASSUME NEW a \in ToolAgents, EditSkill(a) PROVE <1>1
    BY <1>0, <2>1 DEF EditSkill, ToolTypes, SkillContents
  <2>2. ASSUME NEW tool \in tools,
               skill' \in {Restored(tool.before)} \cup HalfRestored(tool.before)
        PROVE  <1>1
    <3>1. tool.before \in Pieces
      BY <1>0 DEF ToolTypes
    <3>2. skill' \in [ToolAgents -> SkillContents]
      BY <1>0, <2>2, <3>1, RestoredTypes DEF ToolTypes, HalfRestored
    <3>3. calm => Clean(tool.before)
      BY DEF ToolInv, OneAtATime
    <3> QED
      BY <2>2, <3>2, <3>3 DEF Clean, Restored, HalfRestored
  <2> QED
    BY <2>1, <2>2 DEF RollBackSkills
<1>2. ToolTypes'
  BY <1>0, <1>1 DEF ToolTypes, InTool
<1>3. ASSUME calm PROVE OneAtATime'
  <2>1. \A A : OnlyAt(A) => OnlyAt(A)'
    BY <1>0, <1>1, <1>3 DEF OnlyAt, Tidy
  <2>2. OneAtATime
    BY <1>3 DEF ToolInv
  <2>3. \A q \in Installers : ToolPhase(q)'
    BY <1>0, <2>1, <2>2 DEF OneAtATime, ToolPhase, InTool, Clean, Tidy
  <2>4. ToolStateAgrees'
    BY <1>0, <1>1, <1>3, <2>2 DEF OneAtATime, ToolStateAgrees, Applying, Tidy
  <2> QED
    BY <1>0, <2>1, <2>2, <2>3, <2>4 DEF OneAtATime, Applying, Clean, Tidy
<1> QED
  BY <1>0, <1>2, <1>3 DEF ToolInv

LEMMA ToolStep == ToolInv /\ [ToolNext]_toolVars => ToolInv'
<1> SUFFICES ASSUME ToolInv, [ToolNext]_toolVars PROVE ToolInv'
  OBVIOUS
<1>1. CASE UNCHANGED toolVars
  BY <1>1 DEF toolVars, ToolInv, ToolTypes, InTool, OneAtATime, ToolPhase, ToolStateAgrees, Applying, OnlyAt, Clean, Tidy
<1>2. CASE ToolNext
  BY <1>2, PlanningTools, ReadToolsKeeps, ProbeKeeps, SnapshotKeeps, InstallKeeps, RegisterKeeps, CheckToolKeeps,
     RecordPostKeeps, WriteToolsKeeps, RestoreKeeps, ClearKeeps, RemovalBegins, DiscardKeeps, ForgetKeeps,
     InstallerDiesKeeps, ToolEditsKeep DEF ToolNext
<1> QED
  BY <1>1, <1>2

LEMMA ToolInvariant == ToolSpec => []ToolInv
BY ToolInitInv, ToolStep, PTL DEF ToolSpec

\* ToolTypeOK and ToolStateAgrees follow.
LEMMA ToolsAreSound == ToolInv => ToolTypeOK /\ ToolStateAgrees
<1> SUFFICES ASSUME ToolInv PROVE ToolTypeOK /\ ToolStateAgrees
  OBVIOUS
<1>1. \A p \in Installers : installer[p].pc \in
        {"idle", "planned", "unwanted", "probe", "snapshot", "install", "register", "post",
         "write", "restore", "clear", "discard", "forget"}
  BY ToolCarries DEF ToolInv, States, Plain, Chosen, Armed, Registering, Written
<1>2. \A tool \in tools : DOMAIN tool.before \subseteq ToolAgents
  BY DEF ToolInv, ToolTypes, Pieces
<1> QED
  BY <1>1, <1>2 DEF ToolInv, ToolTypes, ToolTypeOK, OneAtATime, ToolStateAgrees

-----------------------------------------------------------------------------
(* Daily jobs. *)

\* A command of the system's scheduler, and a change that is under way.
JobCommands ==
  {step \in [does : {"load", "unload", "reload"}, job : Jobs, allowFailure : BOOLEAN] :
     step.does = "load" => ~step.allowFailure}
Changing ==
  [pc : {"planned", "write", "commands", "remove", "complete", "rollback", "restore"},
   action : {"schedule", "unschedule"}, time : Times, jobs : Seq(Jobs) \ {<<>>},
   before : [Jobs -> Settings], todo : Seq(JobCommands)]
Journals == [pc : {"journal"}, before : [Jobs -> Settings]]
JobTypes ==
  /\ platform \in {"darwin", "linux", "win32"} /\ unit \in [Jobs -> Settings] /\ native \in [Jobs -> Settings]
  /\ change \in {NoChange} \cup Changing \cup Journals /\ stuck \in BOOLEAN

\* A command of this kind is still to come for the job.
ToCome(todo, does, j) == \E i \in 1..Len(todo) : todo[i].does = does /\ todo[i].job = j
Fits(j) == native[j] \in {Off, unit[j]}
Fitted(j) == native[j] \in {Off, change.before[j]}

\* What is to come is about the jobs of the change, and loads none but to schedule it.
ToComeFits ==
  change.pc \in {"commands", "rollback"} =>
    /\ \A i \in 1..Len(change.todo) :
         change.todo[i].does = "reload" \/ change.todo[i].job \in JobsOf(change)
    /\ change.pc = "rollback" \/ change.action = "unschedule" => \A j \in Jobs : ~ToCome(change.todo, "load", j)

Scheduling(j) ==
  /\ change.pc = "commands" /\ ~ToCome(change.todo, "load", j) => Fits(j)
  /\ change.pc \in {"remove", "complete"} => Fits(j)
  /\ change.pc = "rollback" /\ ~ToCome(change.todo, "unload", j) => native[j] = Off
  /\ change.pc = "restore" => native[j] = Off
Unscheduling(j) ==
  /\ change.pc = "commands" => Fitted(j) /\ (~ToCome(change.todo, "unload", j) => native[j] = Off)
  /\ change.pc \in {"remove", "complete"} => native[j] = Off
  /\ change.pc \in {"rollback", "restore"} => Fitted(j)
OtherJob(j) == unit[j] = change.before[j] /\ Fits(j)
JobsFit ==
  /\ change.pc # "journal"
  /\ change.pc \in {"idle", "planned", "write"} => \A j \in Jobs : Fits(j)
  /\ change.pc = "write" => change.before = unit
  /\ change.pc \in {"commands", "remove", "complete", "rollback", "restore"} =>
       \A j \in Jobs :
         IF j \notin JobsOf(change) THEN OtherJob(j)
         ELSE IF change.action = "schedule" THEN Scheduling(j) ELSE Unscheduling(j)
JobInv == JobTypes /\ ToComeFits /\ (~stuck => JobsFit)

-----------------------------------------------------------------------------
(* The commands of a change. *)

LEMMA Positions ==
  ASSUME NEW n \in Nat
  PROVE  /\ \A i \in 1..2 * n : ((i - 1) \div 2) + 1 \in 1..n /\ ((i - 1) % 2) + 1 \in {1, 2}
         /\ \A k \in 1..n : /\ 2 * k \in 1..2 * n
                            /\ ((2 * k - 1) \div 2) + 1 = k /\ ((2 * k - 1) % 2) + 1 = 2
                            /\ 2 * k - 1 \in 1..2 * n
                            /\ (((2 * k - 1) - 1) \div 2) + 1 = k /\ (((2 * k - 1) - 1) % 2) + 1 = 1
         /\ \A i \in 1..1 * n : ((i - 1) \div 1) + 1 = i /\ ((i - 1) % 1) + 1 = 1 /\ i \in 1..n
         /\ 1 * n = n /\ 0 * n = 0
<1>1. \A i \in 1..2 * n : ((i - 1) \div 2) + 1 \in 1..n /\ ((i - 1) % 2) + 1 \in {1, 2}
  OBVIOUS
<1>2. \A k \in 1..n : /\ 2 * k \in 1..2 * n
                      /\ ((2 * k - 1) \div 2) + 1 = k /\ ((2 * k - 1) % 2) + 1 = 2
  OBVIOUS
<1>3. \A k \in 1..n : /\ 2 * k - 1 \in 1..2 * n
                      /\ (((2 * k - 1) - 1) \div 2) + 1 = k /\ (((2 * k - 1) - 1) % 2) + 1 = 1
  OBVIOUS
<1>4. \A i \in 1..1 * n : ((i - 1) \div 1) + 1 = i /\ ((i - 1) % 1) + 1 = 1 /\ i \in 1..n
  OBVIOUS
<1> QED
  BY <1>1, <1>2, <1>3, <1>4

LEMMA CommandIs ==
  ASSUME NEW does \in {"load", "unload", "reload"}, NEW j \in Jobs, NEW allow \in BOOLEAN,
         does = "load" => ~allow
  PROVE  /\ NativeCommand(does, j, allow) \in JobCommands
         /\ NativeCommand(does, j, allow).does = does /\ NativeCommand(does, j, allow).job = j
BY DEF NativeCommand, JobCommands

\* Two commands for every job, or one, or none.
Pairs(of, a, b) == \A j \in Jobs : of[j] = <<a[j], b[j]>>
MadeOf(s, jobs, a, b) ==
  /\ s \in Seq(JobCommands)
  /\ \A i \in 1..Len(s) : \E k \in 1..Len(jobs) : s[i] \in {a[jobs[k]], b[jobs[k]]}
  /\ \A k \in 1..Len(jobs) : \E i \in 1..Len(s) : s[i] = a[jobs[k]]
  /\ \A k \in 1..Len(jobs) : \E i \in 1..Len(s) : s[i] = b[jobs[k]]
Singles(of, a) == \A j \in Jobs : of[j] = <<a[j]>>
LEMMA TwoForEach ==
  ASSUME NEW jobs \in Seq(Jobs) \ {<<>>}, NEW a \in [Jobs -> JobCommands], NEW b \in [Jobs -> JobCommands],
         NEW of, Pairs(of, a, b)
  PROVE  MadeOf(InTurn(of, jobs), jobs, a, b)
<1> DEFINE n == Len(jobs)
           s == InTurn(of, jobs)
           m == 2 * n
<1>1. n \in Nat /\ m \in Nat /\ jobs[1] \in Jobs /\ \A k \in 1..n : jobs[k] \in Jobs
  OBVIOUS
<1>2. s = [i \in 1..m |-> of[jobs[((i - 1) \div 2) + 1]][((i - 1) % 2) + 1]]
  <2>1. Len(of[jobs[1]]) = 2
    <3>1. of[jobs[1]] = <<a[jobs[1]], b[jobs[1]]>>
      BY <1>1 DEF Pairs
    <3> QED
      BY <3>1
  <2> QED
    BY <2>1 DEF InTurn
<1> HIDE DEF s
<1>3. \A i \in 1..m : \E k \in 1..n : s[i] \in {a[jobs[k]], b[jobs[k]]}
  <2> SUFFICES ASSUME NEW i \in 1..m PROVE \E k \in 1..n : s[i] \in {a[jobs[k]], b[jobs[k]]}
    OBVIOUS
  <2> DEFINE k == ((i - 1) \div 2) + 1
             r == ((i - 1) % 2) + 1
  <2>1. k \in 1..n /\ r \in {1, 2}
    BY <1>1, Positions
  <2>2. s[i] = of[jobs[k]][r]
    BY <1>2
  <2> HIDE DEF k, r
  <2>3. s[i] = <<a[jobs[k]], b[jobs[k]]>>[r]
    BY <1>1, <2>1, <2>2 DEF Pairs
  <2> QED
    BY <2>1, <2>3
<1>4. \A k \in 1..n : \E i \in 1..m : s[i] = b[jobs[k]]
  <2> SUFFICES ASSUME NEW k \in 1..n PROVE \E i \in 1..m : s[i] = b[jobs[k]]
    OBVIOUS
  <2>1. 2 * k \in 1..m /\ ((2 * k - 1) \div 2) + 1 = k /\ ((2 * k - 1) % 2) + 1 = 2
    BY <1>1, Positions
  <2>2. s[2 * k] = of[jobs[k]][2]
    BY <1>2, <2>1
  <2>3. of[jobs[k]] = <<a[jobs[k]], b[jobs[k]]>>
    BY <1>1 DEF Pairs
  <2> QED
    BY <2>1, <2>2, <2>3
<1>5. \A k \in 1..n : \E i \in 1..m : s[i] = a[jobs[k]]
  <2> SUFFICES ASSUME NEW k \in 1..n PROVE \E i \in 1..m : s[i] = a[jobs[k]]
    OBVIOUS
  <2>1. /\ 2 * k - 1 \in 1..m
        /\ (((2 * k - 1) - 1) \div 2) + 1 = k /\ (((2 * k - 1) - 1) % 2) + 1 = 1
    BY <1>1, Positions
  <2>2. s[2 * k - 1] = of[jobs[k]][1]
    BY <1>2, <2>1
  <2>3. of[jobs[k]] = <<a[jobs[k]], b[jobs[k]]>>
    BY <1>1 DEF Pairs
  <2> QED
    BY <2>1, <2>2, <2>3
<1> HIDE DEF m, n
<1>6. \A i \in 1..m : s[i] \in JobCommands
  BY <1>1, <1>3
<1>7. s = [i \in 1..m |-> s[i]]
  BY <1>2
<1>8. s \in Seq(JobCommands) /\ Len(s) = m
  BY <1>1, <1>6, <1>7
<1> QED
  BY <1>3, <1>4, <1>5, <1>8 DEF s, n, MadeOf

LEMMA OneForEach ==
  ASSUME NEW jobs \in Seq(Jobs) \ {<<>>}, NEW a \in [Jobs -> JobCommands],
         NEW of, Singles(of, a)
  PROVE  /\ InTurn(of, jobs) \in Seq(JobCommands) /\ Len(InTurn(of, jobs)) = Len(jobs)
         /\ \A i \in 1..Len(jobs) : InTurn(of, jobs)[i] = a[jobs[i]]
<1> DEFINE n == Len(jobs)
           s == InTurn(of, jobs)
<1>1. n \in Nat /\ 1 * n = n /\ jobs[1] \in Jobs /\ \A k \in 1..n : jobs[k] \in Jobs
  OBVIOUS
<1>2. s = [i \in 1..n |-> of[jobs[((i - 1) \div 1) + 1]][((i - 1) % 1) + 1]]
  <2>1. Len(of[jobs[1]]) = 1
    <3>1. of[jobs[1]] = <<a[jobs[1]]>>
      BY <1>1 DEF Singles
    <3> QED
      BY <3>1
  <2> QED
    BY <1>1, <2>1 DEF InTurn
<1> HIDE DEF s
<1>3. \A i \in 1..n : s[i] = a[jobs[i]]
  <2> SUFFICES ASSUME NEW i \in 1..n PROVE s[i] = a[jobs[i]]
    OBVIOUS
  <2>1. ((i - 1) \div 1) + 1 = i /\ ((i - 1) % 1) + 1 = 1
    BY <1>1, Positions
  <2>2. s[i] = of[jobs[i]][1]
    BY <1>2, <2>1
  <2> QED
    BY <1>1, <2>2 DEF Singles
<1> HIDE DEF n
<1>4. s = [i \in 1..n |-> s[i]]
  BY <1>2
<1>5. s \in Seq(JobCommands) /\ Len(s) = n
  BY <1>1, <1>3, <1>4
<1> QED
  BY <1>3, <1>5 DEF s, n

LEMMA NoneForEach ==
  ASSUME NEW jobs \in Seq(Jobs) \ {<<>>}, NEW of, \A j \in Jobs : of[j] = <<>>
  PROVE  InTurn(of, jobs) = <<>>
<1>1. Len(of[jobs[1]]) = 0 /\ Len(jobs) \in Nat
  <2>1. jobs[1] \in Jobs
    OBVIOUS
  <2> QED
    BY <2>1
<1>2. 1..0 * Len(jobs) = {}
  BY <1>1
<1> QED
  BY <1>1, <1>2 DEF InTurn

LEMMA JobsInChange ==
  ASSUME change \in Changing
  PROVE  /\ change.jobs \in Seq(Jobs) \ {<<>>} /\ change.action \in {"schedule", "unschedule"}
         /\ \A k \in 1..Len(change.jobs) : change.jobs[k] \in JobsOf(change) /\ change.jobs[k] \in Jobs
         /\ \A j \in JobsOf(change) : \E k \in 1..Len(change.jobs) : j = change.jobs[k]
BY DEF Changing, JobsOf, ToSet


\* Two kinds of commands for every job of a change, or one kind.
IssuesTwo(of, d, e) == \A j \in Jobs :
  \E x, y \in BOOLEAN : /\ of[j] = <<NativeCommand(d, j, x), NativeCommand(e, j, y)>>
                        /\ d = "load" => ~x
                        /\ e = "load" => ~y
IssuesOne(of, d) == \A j \in Jobs :
  \E x \in BOOLEAN : of[j] = <<NativeCommand(d, j, x)>> /\ (d = "load" => ~x)

LEMMA TwoKinds ==
  ASSUME change \in Changing, NEW d \in {"load", "unload", "reload"}, NEW e \in {"load", "unload", "reload"},
         NEW of, NEW s, s = InTurn(of, change.jobs), IssuesTwo(of, d, e)
  PROVE  /\ s \in Seq(JobCommands) /\ \A i \in 1..Len(s) : s[i].job \in JobsOf(change) /\ s[i].does \in {d, e}
         /\ \A j \in JobsOf(change) : ToCome(s, d, j) /\ ToCome(s, e, j)
<1> DEFINE jobs == change.jobs
           a == [j \in Jobs |-> of[j][1]]
           b == [j \in Jobs |-> of[j][2]]
<1>1. /\ a \in [Jobs -> JobCommands] /\ b \in [Jobs -> JobCommands]
      /\ \A j \in Jobs : a[j].does = d /\ a[j].job = j /\ b[j].does = e /\ b[j].job = j
      /\ Pairs(of, a, b)
  BY CommandIs DEF IssuesTwo, Pairs
<1> HIDE DEF a, b
<1>2. /\ jobs \in Seq(Jobs) \ {<<>>} /\ s = InTurn(of, jobs)
      /\ \A k \in 1..Len(jobs) : jobs[k] \in JobsOf(change) /\ jobs[k] \in Jobs
      /\ \A j \in JobsOf(change) : \E k \in 1..Len(jobs) : j = jobs[k]
  BY JobsInChange
<1> HIDE DEF jobs
<1>3. MadeOf(s, jobs, a, b)
  BY <1>1, <1>2, TwoForEach
<1>4. ASSUME NEW i \in 1..Len(s) PROVE s[i].job \in JobsOf(change) /\ s[i].does \in {d, e}
  <2>1. PICK k \in 1..Len(jobs) : s[i] \in {a[jobs[k]], b[jobs[k]]}
    BY <1>2, <1>3 DEF MadeOf
  <2> QED
    BY <1>1, <1>2, <2>1
<1>5. ASSUME NEW j \in JobsOf(change) PROVE ToCome(s, d, j) /\ ToCome(s, e, j)
  <2>1. PICK k \in 1..Len(jobs) : j = jobs[k] /\ j \in Jobs
    BY <1>2
  <2>2. PICK i \in 1..Len(s) : s[i] = a[jobs[k]]
    BY <1>2, <1>3 DEF MadeOf
  <2>3. PICK l \in 1..Len(s) : s[l] = b[jobs[k]]
    BY <1>2, <1>3 DEF MadeOf
  <2> QED
    BY <1>1, <2>1, <2>2, <2>3 DEF ToCome
<1> QED
  BY <1>3, <1>4, <1>5 DEF MadeOf

LEMMA OneKind ==
  ASSUME change \in Changing, NEW d \in {"load", "unload", "reload"}, NEW of, NEW s,
         s = InTurn(of, change.jobs), IssuesOne(of, d)
  PROVE  /\ s \in Seq(JobCommands) /\ \A i \in 1..Len(s) : s[i].job \in JobsOf(change) /\ s[i].does = d
         /\ \A j \in JobsOf(change) : ToCome(s, d, j)
<1> DEFINE jobs == change.jobs
           a == [j \in Jobs |-> of[j][1]]
<1>1. /\ a \in [Jobs -> JobCommands] /\ \A j \in Jobs : a[j].does = d /\ a[j].job = j
      /\ Singles(of, a)
  BY CommandIs DEF IssuesOne, Singles
<1> HIDE DEF a
<1>2. /\ jobs \in Seq(Jobs) \ {<<>>} /\ s = InTurn(of, jobs)
      /\ \A k \in 1..Len(jobs) : jobs[k] \in JobsOf(change) /\ jobs[k] \in Jobs
      /\ \A j \in JobsOf(change) : \E k \in 1..Len(jobs) : j = jobs[k]
  BY JobsInChange
<1> HIDE DEF jobs
<1>3. s \in Seq(JobCommands) /\ Len(s) = Len(jobs) /\ \A k \in 1..Len(jobs) : s[k] = a[jobs[k]]
  BY <1>1, <1>2, OneForEach
<1> QED
  BY <1>1, <1>2, <1>3 DEF ToCome

\* A change that schedules a job loads it; one that does not unloads it.
LEMMA Applied ==
  ASSUME JobTypes, change \in Changing, NEW s, s = InTurn(ApplyCommands(change.action), change.jobs)
  PROVE  /\ s \in Seq(JobCommands) /\ \A i \in 1..Len(s) : s[i].job \in JobsOf(change)
         /\ change.action = "schedule" => \A j \in JobsOf(change) : ToCome(s, "load", j)
         /\ change.action = "unschedule" => /\ \A j \in JobsOf(change) : ToCome(s, "unload", j)
                                            /\ \A j \in Jobs : ~ToCome(s, "load", j)
<1> DEFINE of == ApplyCommands(change.action)
<1>1. change.action \in {"schedule", "unschedule"} /\ platform \in {"darwin", "linux", "win32"}
      /\ s = InTurn(of, change.jobs)
  BY JobsInChange DEF JobTypes
<1>2. CASE change.action = "schedule" /\ platform = "darwin"
  <2>1. IssuesTwo(of, "unload", "load")
    BY <1>2 DEF ApplyCommands, IssuesTwo
  <2> HIDE DEF of
  <2> QED
    BY <1>1, <1>2, <2>1, TwoKinds
<1>3. CASE change.action = "schedule" /\ platform = "linux"
  <2>1. IssuesTwo(of, "reload", "load")
    BY <1>3 DEF ApplyCommands, IssuesTwo
  <2> HIDE DEF of
  <2> QED
    BY <1>1, <1>3, <2>1, TwoKinds
<1>4. CASE change.action = "schedule" /\ platform = "win32"
  <2>1. IssuesOne(of, "load")
    BY <1>4 DEF ApplyCommands, IssuesOne
  <2> HIDE DEF of
  <2> QED
    BY <1>1, <1>4, <2>1, OneKind
<1>5. CASE change.action = "unschedule" /\ platform = "linux"
  <2>1. IssuesTwo(of, "unload", "reload")
    BY <1>5 DEF ApplyCommands, IssuesTwo
  <2> HIDE DEF of
  <2>2. /\ s \in Seq(JobCommands) /\ \A i \in 1..Len(s) : s[i].job \in JobsOf(change) /\ s[i].does \in {"unload", "reload"}
        /\ \A j \in JobsOf(change) : ToCome(s, "unload", j)
    BY <1>1, <2>1, TwoKinds
  <2> QED
    BY <1>5, <2>2 DEF ToCome
<1>6. CASE change.action = "unschedule" /\ platform # "linux"
  <2>1. IssuesOne(of, "unload")
    BY <1>6 DEF ApplyCommands, IssuesOne
  <2> HIDE DEF of
  <2>2. /\ s \in Seq(JobCommands) /\ \A i \in 1..Len(s) : s[i].job \in JobsOf(change) /\ s[i].does = "unload"
        /\ \A j \in JobsOf(change) : ToCome(s, "unload", j)
    BY <1>1, <2>1, OneKind
  <2> QED
    BY <1>6, <2>2 DEF ToCome
<1> QED
  BY <1>1, <1>2, <1>3, <1>4, <1>5, <1>6

\* What undoes a change unloads the jobs it was to schedule, and does nothing else.
LEMMA Undone ==
  ASSUME JobTypes, change \in Changing
  PROVE  /\ Undoing(change) \in Seq(JobCommands)
         /\ \A i \in 1..Len(Undoing(change)) : Undoing(change)[i].job \in JobsOf(change)
         /\ change.action = "schedule" => \A j \in JobsOf(change) : ToCome(Undoing(change), "unload", j)
         /\ \A j \in Jobs : ~ToCome(Undoing(change), "load", j)
<1> DEFINE jobs == change.jobs
           of == RollbackCommands(change.action)
           unload == [j \in Jobs |-> NativeCommand("unload", j, TRUE)]
           t == InTurn(of, jobs)
<1>1. /\ jobs \in Seq(Jobs) \ {<<>>} /\ change.action \in {"schedule", "unschedule"}
      /\ \A k \in 1..Len(jobs) : jobs[k] \in JobsOf(change) /\ jobs[k] \in Jobs
      /\ \A j \in JobsOf(change) : \E k \in 1..Len(jobs) : j = jobs[k]
  BY JobsInChange
<1>2. unload \in [Jobs -> JobCommands] /\ \A j \in Jobs : unload[j].does = "unload" /\ unload[j].job = j
  BY CommandIs
<1>3. \A j \in Jobs : of[j] = IF change.action = "schedule" THEN <<unload[j]>> ELSE <<>>
  BY DEF RollbackCommands
<1>4. Undoing(change) = Reverse(t)
  BY DEF Undoing
<1> HIDE DEF jobs, of, unload, t
<1>5. /\ t \in Seq(JobCommands)
      /\ \A i \in 1..Len(t) : t[i].does = "unload" /\ t[i].job \in JobsOf(change)
      /\ change.action = "schedule" => \A j \in JobsOf(change) : \E i \in 1..Len(t) : t[i].does = "unload" /\ t[i].job = j
  <2>1. CASE change.action = "schedule"
    <3>1. t \in Seq(JobCommands) /\ Len(t) = Len(jobs) /\ \A k \in 1..Len(jobs) : t[k] = unload[jobs[k]]
      BY <1>1, <1>2, <1>3, <2>1, OneForEach DEF t, Singles
    <3> QED
      BY SMTT(60), <1>1, <1>2, <2>1, <3>1
  <2>2. CASE change.action = "unschedule"
    <3>1. t = <<>>
      BY <1>1, <1>3, <2>2, NoneForEach DEF t
    <3> QED
      BY <2>2, <3>1, EmptySeq
  <2> QED
    BY <1>1, <2>1, <2>2
<1>6. /\ Reverse(t) \in Seq(JobCommands) /\ Len(Reverse(t)) = Len(t)
      /\ \A i \in 1..Len(t) : /\ Reverse(t)[i] = t[(Len(t) - i) + 1] /\ (Len(t) - i) + 1 \in 1..Len(t)
                              /\ Reverse(t)[(Len(t) - i) + 1] = t[i]
  BY <1>5 DEF Reverse
<1>7. \A i \in 1..Len(Reverse(t)) : Reverse(t)[i].job \in JobsOf(change) /\ Reverse(t)[i].does # "load"
  BY <1>5, <1>6
<1>8. ASSUME change.action = "schedule", NEW j \in JobsOf(change) PROVE ToCome(Reverse(t), "unload", j)
  <2>1. PICK i \in 1..Len(t) : t[i].does = "unload" /\ t[i].job = j
    BY <1>5, <1>8
  <2> QED
    BY <1>6, <2>1 DEF ToCome
<1> QED
  BY <1>4, <1>6, <1>7, <1>8 DEF ToCome

LEMMA OneLess ==
  ASSUME NEW todo \in Seq(JobCommands), todo # <<>>
  PROVE  /\ Tail(todo) \in Seq(JobCommands) /\ Head(todo) \in JobCommands /\ Head(todo) = todo[1]
         /\ 1 \in 1..Len(todo)
         /\ \A i \in 1..Len(Tail(todo)) : Tail(todo)[i] = todo[i + 1] /\ i + 1 \in 1..Len(todo)
         /\ \A does, j : ToCome(todo, does, j) <=>
                           (Head(todo).does = does /\ Head(todo).job = j) \/ ToCome(Tail(todo), does, j)
<1>1. /\ Tail(todo) \in Seq(JobCommands) /\ Head(todo) \in JobCommands /\ Head(todo) = todo[1]
      /\ Len(todo) \in Nat \ {0} /\ Len(Tail(todo)) = Len(todo) - 1
      /\ \A i \in 1..Len(Tail(todo)) : Tail(todo)[i] = todo[i + 1] /\ i + 1 \in 1..Len(todo)
  OBVIOUS
<1>2. \A i \in 1..Len(todo) : i = 1 \/ (i - 1 \in 1..Len(Tail(todo)) /\ todo[i] = Tail(todo)[i - 1])
  BY <1>1
<1> QED
  BY <1>1, <1>2 DEF ToCome

LEMMA NoMore == \A does, j : ~ToCome(<<>>, does, j)
BY DEF ToCome

-----------------------------------------------------------------------------
(* The steps. *)

LEMMA JobsBegin == JobInit => JobInv
<1> SUFFICES ASSUME JobInit PROVE JobInv
  OBVIOUS
<1>1. change.pc = "idle" /\ change = NoChange
  BY DEF JobInit, NoChange
<1>2. JobTypes
  BY <1>1 DEF JobInit, JobTypes, Settings
<1>3. \A j \in Jobs : Fits(j)
  BY DEF JobInit, Fits
<1> QED
  BY <1>1, <1>2, <1>3 DEF JobInv, ToComeFits, JobsFit

LEMMA OrderOfJobs ==
  ASSUME NEW jobs \in SUBSET Jobs, jobs # {}
  PROVE  SetToSeq(jobs) \in Seq(Jobs) \ {<<>>}
<1> DEFINE n == Cardinality(jobs)
<1>1. IsFiniteSet(jobs)
  BY JobsAssumption, FS_Subset
<1>2. n \in Nat /\ ExistsBijection(1..n, jobs)
  BY <1>1, FS_CardinalityType
<1>3. n # 0
  BY <1>1, FS_EmptySet
<1>4. PICK f \in Bijection(1..n, jobs) : TRUE
  BY <1>2 DEF ExistsBijection
<1>5. f \in [1..n -> jobs] /\ IsInjective(f)
  BY <1>4 DEF Bijection, Injection, IsInjective
<1>6. SetToSeq(jobs) \in [1..n -> jobs]
  BY <1>5 DEF SetToSeq
<1> HIDE DEF n
<1> QED
  BY <1>2, <1>3, <1>6

LEMMA PlanKeeps == ASSUME JobInv, PlanChange PROVE JobInv'
<1>1. PICK action \in {"schedule", "unschedule"}, time \in Times, jobs \in (SUBSET Jobs) \ {{}} :
        change' = [pc |-> "planned", action |-> action, time |-> time, jobs |-> SetToSeq(jobs),
                   before |-> unit, todo |-> <<>>]
  BY DEF PlanChange
<1> DEFINE n == [pc |-> "planned", action |-> action, time |-> time, jobs |-> SetToSeq(jobs),
                 before |-> unit, todo |-> <<>>]
<1>2. n \in Changing /\ n.pc = "planned"
  <2>1. SetToSeq(jobs) \in Seq(Jobs) \ {<<>>} /\ <<>> \in Seq(JobCommands) /\ unit \in [Jobs -> Settings]
    <3>3. jobs \in SUBSET Jobs /\ jobs # {}
      OBVIOUS
    <3>1. SetToSeq(jobs) \in Seq(Jobs) \ {<<>>}
      BY <3>3, OrderOfJobs, Zenon
    <3>2. <<>> \in Seq(JobCommands)
      BY EmptySeq, Zenon
    <3> QED
      BY <3>1, <3>2 DEF JobInv, JobTypes
  <2> QED
    BY <2>1 DEF Changing
<1>3. change' = n /\ change.pc = "idle" /\ UNCHANGED <<platform, unit, native, stuck>>
  BY <1>1 DEF PlanChange
<1> HIDE DEF n
<1> QED
  BY <1>2, <1>3 DEF JobInv, JobTypes, ToComeFits, JobsFit, Fits

\* A change that is under way.
LEMMA UnderWay ==
  ASSUME JobInv, change.pc \notin {"idle", "journal"}
  PROVE  change \in Changing /\ change.before \in [Jobs -> Settings] /\ change.todo \in Seq(JobCommands)
         /\ change.time \in Times /\ change.action \in {"schedule", "unschedule"}
BY DEF JobInv, JobTypes, NoChange, Journals, Changing

LEMMA IdleKeeps ==
  ASSUME JobInv, change' = NoChange, UNCHANGED <<platform, native, stuck>>, unit' \in [Jobs -> Settings],
         ~stuck => \A j \in Jobs : native[j] \in {Off, unit'[j]}
  PROVE  JobInv'
<1>1. change' = NoChange /\ change'.pc = "idle"
  BY DEF NoChange
<1>2. ~stuck' => \A j \in Jobs : Fits(j)'
  BY DEF Fits
<1> QED
  BY <1>1, <1>2 DEF JobInv, JobTypes, ToComeFits, JobsFit

\* The change goes on with the same jobs.
LEMMA ChangeGoesOn ==
  ASSUME JobInv, change \in Changing, NEW n \in Changing, change' = n,
         n.action = change.action, n.jobs = change.jobs, n.time = change.time,
         UNCHANGED platform, unit' \in [Jobs -> Settings], native' \in [Jobs -> Settings], stuck' \in BOOLEAN
  PROVE  JobTypes' /\ \A j : j \in JobsOf(change)' <=> j \in JobsOf(change)
BY DEF JobInv, JobTypes, JobsOf

LEMMA BeginKeeps == ASSUME JobInv, BeginChange PROVE JobInv'
<1>1. /\ change \in Changing /\ change.pc = "planned" /\ unit \in [Jobs -> Settings] /\ native \in [Jobs -> Settings]
      /\ UNCHANGED <<platform, unit, native, stuck>> /\ stuck \in BOOLEAN
  BY UnderWay DEF BeginChange, JobInv, JobTypes
<1>2. ~stuck => \A j \in Jobs : Fits(j)
  BY <1>1 DEF JobInv, JobsFit
<1>3. CASE change' = NoChange
  BY <1>1, <1>2, <1>3, IdleKeeps DEF Fits
<1>4. CASE change' = [change EXCEPT !.pc = "write", !.before = unit]
  <2> DEFINE n == [change EXCEPT !.pc = "write", !.before = unit]
  <2>1. /\ n \in Changing /\ n.pc = "write" /\ n.before = unit /\ n.action = change.action
        /\ n.jobs = change.jobs /\ n.time = change.time
    BY <1>1 DEF Changing
  <2>2. change' = n
    BY <1>4
  <2> HIDE DEF n
  <2>3. JobTypes'
    BY <1>1, <2>1, <2>2, ChangeGoesOn
  <2> QED
    BY <1>1, <1>2, <2>1, <2>2, <2>3 DEF JobInv, ToComeFits, JobsFit, Fits
<1> QED
  BY <1>3, <1>4 DEF BeginChange

\* Everything is to be undone.
LEMMA RollingBack ==
  ASSUME JobInv, change \in Changing, UNCHANGED platform,
         change' = [change EXCEPT !.pc = "rollback", !.todo = Undoing(change)],
         unit' \in [Jobs -> Settings], native' \in [Jobs -> Settings], stuck' \in BOOLEAN,
         ~stuck' => \A j \in Jobs : /\ j \notin JobsOf(change) => unit'[j] = change.before[j] /\ native'[j] \in {Off, unit'[j]}
                                    /\ j \in JobsOf(change) /\ change.action = "unschedule" =>
                                         native'[j] \in {Off, change.before[j]}
  PROVE  JobInv'
<1> DEFINE n == [change EXCEPT !.pc = "rollback", !.todo = Undoing(change)]
<1>1. /\ Undoing(change) \in Seq(JobCommands)
      /\ \A i \in 1..Len(Undoing(change)) : Undoing(change)[i].job \in JobsOf(change)
      /\ change.action = "schedule" => \A j \in JobsOf(change) : ToCome(Undoing(change), "unload", j)
      /\ \A j \in Jobs : ~ToCome(Undoing(change), "load", j)
  BY Undone DEF JobInv
<1>2. /\ n \in Changing /\ n.pc = "rollback" /\ n.todo = Undoing(change) /\ n.before = change.before
      /\ n.action = change.action /\ n.jobs = change.jobs /\ n.time = change.time
      /\ change.action \in {"schedule", "unschedule"}
  BY <1>1 DEF Changing
<1>3. change' = n
  OBVIOUS
<1> HIDE DEF n
<1>4. JobTypes' /\ \A j : j \in JobsOf(change)' <=> j \in JobsOf(change)
  BY <1>2, <1>3, ChangeGoesOn
<1>5. ToComeFits'
  BY <1>1, <1>2, <1>3, <1>4 DEF ToComeFits
<1>6. ASSUME ~stuck' PROVE JobsFit'
  <2>1. ASSUME NEW j \in Jobs, j \notin JobsOf(change) PROVE OtherJob(j)'
    BY <1>2, <1>3, <1>6, <2>1 DEF OtherJob, Fits
  <2>2. ASSUME NEW j \in Jobs, j \in JobsOf(change), change.action = "schedule" PROVE Scheduling(j)'
    BY <1>1, <1>2, <1>3, <2>2 DEF Scheduling
  <2>3. ASSUME NEW j \in Jobs, j \in JobsOf(change), change.action = "unschedule" PROVE Unscheduling(j)'
    BY <1>2, <1>3, <1>6, <2>3 DEF Unscheduling, Fitted
  <2> QED
    BY <1>2, <1>3, <1>4, <2>1, <2>2, <2>3 DEF JobsFit
<1> QED
  BY <1>4, <1>5, <1>6 DEF JobInv

LEMMA WriteKeeps == ASSUME JobInv, WriteUnits PROVE JobInv'
<1>1. /\ change \in Changing /\ change.pc = "write" /\ unit \in [Jobs -> Settings] /\ native \in [Jobs -> Settings]
      /\ UNCHANGED <<platform, native, stuck>> /\ stuck \in BOOLEAN /\ JobTypes
      /\ change.time \in Settings /\ change.action \in {"schedule", "unschedule"}
  BY UnderWay DEF WriteUnits, JobInv, JobTypes, Settings
<1>2. ~stuck => change.before = unit /\ \A j \in Jobs : Fits(j)
  BY <1>1 DEF JobInv, JobsFit
<1>3. CASE /\ unit' = [j \in Jobs |-> IF change.action = "schedule" /\ j \in JobsOf(change) THEN change.time ELSE unit[j]]
           /\ change' = [change EXCEPT !.pc = "commands", !.todo = InTurn(ApplyCommands(change.action), change.jobs)]
  <2> DEFINE s == InTurn(ApplyCommands(change.action), change.jobs)
             n == [change EXCEPT !.pc = "commands", !.todo = s]
  <2>1. /\ s \in Seq(JobCommands) /\ \A i \in 1..Len(s) : s[i].job \in JobsOf(change)
        /\ change.action = "schedule" => \A j \in JobsOf(change) : ToCome(s, "load", j)
        /\ change.action = "unschedule" => /\ \A j \in JobsOf(change) : ToCome(s, "unload", j)
                                           /\ \A j \in Jobs : ~ToCome(s, "load", j)
    BY <1>1, Applied
  <2> HIDE DEF s
  <2>2. /\ n \in Changing /\ n.pc = "commands" /\ n.todo = s /\ n.before = change.before
        /\ n.action = change.action /\ n.jobs = change.jobs /\ n.time = change.time
    BY <1>1, <2>1 DEF Changing
  <2>3. change' = n
    BY <1>3 DEF s
  <2> HIDE DEF n
  <2>4. unit' \in [Jobs -> Settings] /\ \A j \in Jobs :
           unit'[j] = IF change.action = "schedule" /\ j \in JobsOf(change) THEN change.time ELSE unit[j]
    BY <1>1, <1>3
  <2>5. JobTypes' /\ \A j : j \in JobsOf(change)' <=> j \in JobsOf(change)
    BY <1>1, <2>2, <2>3, <2>4, ChangeGoesOn
  <2>6. ToComeFits'
    BY <2>1, <2>2, <2>3, <2>5 DEF ToComeFits
  <2>7. ASSUME ~stuck' PROVE JobsFit'
    <3>1. ASSUME NEW j \in Jobs, j \notin JobsOf(change) PROVE OtherJob(j)'
      BY <1>1, <1>2, <2>2, <2>3, <2>4, <2>7, <3>1 DEF OtherJob, Fits
    <3>2. ASSUME NEW j \in Jobs, j \in JobsOf(change), change.action = "schedule" PROVE Scheduling(j)'
      BY <2>1, <2>2, <2>3, <3>2 DEF Scheduling
    <3>3. ASSUME NEW j \in Jobs, j \in JobsOf(change), change.action = "unschedule" PROVE Unscheduling(j)'
      BY <1>1, <1>2, <2>1, <2>2, <2>3, <2>7, <3>3 DEF Unscheduling, Fitted, Fits
    <3> QED
      BY <1>1, <2>2, <2>3, <2>5, <3>1, <3>2, <3>3 DEF JobsFit
  <2> QED
    BY <2>5, <2>6, <2>7 DEF JobInv
<1>4. CASE /\ change.action = "schedule"
           /\ \E newest \in SUBSET JobsOf(change) :
                unit' = [j \in Jobs |-> IF j \in newest THEN change.time ELSE unit[j]]
           /\ change' = [change EXCEPT !.pc = "rollback", !.todo = Undoing(change)]
  <2>1. PICK newest \in SUBSET JobsOf(change) :
          unit' = [j \in Jobs |-> IF j \in newest THEN change.time ELSE unit[j]]
    BY <1>4
  <2>2. unit' \in [Jobs -> Settings]
    BY <1>1, <2>1
  <2>3. ~stuck' => \A j \in Jobs : j \notin JobsOf(change) => unit'[j] = change.before[j] /\ native'[j] \in {Off, unit'[j]}
    BY <1>1, <1>2, <2>1 DEF Fits
  <2> QED
    BY <1>1, <1>4, <2>2, <2>3, RollingBack
<1> QED
  BY <1>3, <1>4 DEF WriteUnits

LEMMA WorksTyped ==
  ASSUME JobTypes, NEW step \in JobCommands, Works(step)
  PROVE  /\ native' \in [Jobs -> Settings]
         /\ \A j \in Jobs : native'[j] = IF step.job = j /\ step.does = "load" THEN unit[j]
                                         ELSE IF step.job = j /\ step.does = "unload" THEN Off ELSE native[j]
<1>1. step.does \in {"load", "unload", "reload"} /\ step.job \in Jobs
  BY DEF JobCommands
<1>2. CASE step.does = "load"
  BY <1>1, <1>2 DEF Works, JobTypes
<1>3. CASE step.does = "unload"
  BY <1>1, <1>3 DEF Works, JobTypes, Settings
<1>4. CASE step.does = "reload"
  BY <1>1, <1>4 DEF Works, JobTypes
<1> QED
  BY <1>1, <1>2, <1>3, <1>4

\* One command less is to come, and it has worked, or a failure has been swallowed.
LEMMA OneCommandLess ==
  ASSUME JobInv, change \in Changing, change.pc \in {"commands", "rollback"}, change.todo # <<>>,
         change' = [change EXCEPT !.todo = Tail(@)], UNCHANGED <<platform, unit>>,
         \/ Works(Head(change.todo)) /\ UNCHANGED stuck
         \/ Refuses(Head(change.todo)) /\ (change.pc = "commands" => Head(change.todo).does # "load")
  PROVE  JobInv'
<1> DEFINE step == Head(change.todo)
           n == [change EXCEPT !.todo = Tail(change.todo)]
<1>1. /\ change.todo \in Seq(JobCommands) /\ change.action \in {"schedule", "unschedule"}
      /\ change.pc \in {"commands", "rollback"} /\ JobTypes
      /\ unit \in [Jobs -> Settings] /\ native \in [Jobs -> Settings]
  BY DEF Changing, JobInv, JobTypes
<1>2. /\ Tail(change.todo) \in Seq(JobCommands) /\ step \in JobCommands /\ step = change.todo[1]
      /\ 1 \in 1..Len(change.todo)
      /\ \A i \in 1..Len(Tail(change.todo)) : Tail(change.todo)[i] = change.todo[i + 1] /\ i + 1 \in 1..Len(change.todo)
      /\ \A does, j : ToCome(change.todo, does, j) <=>
                        (step.does = does /\ step.job = j) \/ ToCome(Tail(change.todo), does, j)
  BY <1>1, OneLess
<1>3. /\ n \in Changing /\ n.pc = change.pc /\ n.todo = Tail(change.todo) /\ n.before = change.before
      /\ n.action = change.action /\ n.jobs = change.jobs /\ n.time = change.time
  BY <1>2 DEF Changing
<1>4. change' = n
  OBVIOUS
<1> HIDE DEF n
<1>5. step.does \in {"load", "unload", "reload"} /\ step.job \in Jobs
  BY <1>2 DEF JobCommands
<1>6. /\ native' \in [Jobs -> Settings] /\ stuck' \in BOOLEAN /\ (~stuck' => ~stuck)
      /\ ~stuck' => \A j \in Jobs :
           \/ native'[j] = IF step.job = j /\ step.does = "load" THEN unit[j]
                           ELSE IF step.job = j /\ step.does = "unload" THEN Off ELSE native[j]
           \/ native'[j] = native[j] /\ change.pc = "rollback" /\ step.job = j /\ step.does = "load"
  <2>1. CASE Works(step) /\ UNCHANGED stuck
    BY <1>1, <1>2, <2>1, WorksTyped DEF JobTypes
  <2>2. CASE Refuses(step) /\ (change.pc = "commands" => step.does # "load")
    <3>1. native' = native /\ stuck' = (stuck \/ (step.does = "unload" /\ native[step.job] # Off))
      BY <2>2 DEF Refuses
    <3>2. stuck' \in BOOLEAN /\ (~stuck' => ~stuck)
      BY <1>1, <3>1 DEF JobTypes
    <3> QED
      BY <1>1, <1>5, <2>2, <3>1, <3>2
  <2> QED
    BY <2>1, <2>2
<1> HIDE DEF step
<1>7. JobTypes' /\ \A j : j \in JobsOf(change)' <=> j \in JobsOf(change)
  BY <1>1, <1>3, <1>4, <1>6, ChangeGoesOn
<1>8. ToComeFits'
  <2>1. /\ \A i \in 1..Len(change.todo) : change.todo[i].does = "reload" \/ change.todo[i].job \in JobsOf(change)
        /\ change.pc = "rollback" \/ change.action = "unschedule" => \A j \in Jobs : ~ToCome(change.todo, "load", j)
    BY <1>1 DEF JobInv, ToComeFits
  <2>2. \A i \in 1..Len(Tail(change.todo)) :
          Tail(change.todo)[i].does = "reload" \/ Tail(change.todo)[i].job \in JobsOf(change)
    BY <1>2, <2>1
  <2>3. change.pc = "rollback" \/ change.action = "unschedule" =>
          \A j \in Jobs : ~ToCome(Tail(change.todo), "load", j)
    BY <1>2, <2>1
  <2>4. \A i \in 1..Len(change'.todo) : change'.todo[i].does = "reload" \/ change'.todo[i].job \in JobsOf(change)'
    BY <1>3, <1>4, <1>7, <2>2
  <2>5. change'.pc = "rollback" \/ change'.action = "unschedule" => \A j \in Jobs : ~ToCome(change'.todo, "load", j)
    BY <1>3, <1>4, <2>3
  <2> QED
    BY <2>4, <2>5 DEF ToComeFits
<1>9. /\ step.does # "reload" => step.job \in JobsOf(change)
      /\ change.pc = "rollback" \/ change.action = "unschedule" => step.does # "load"
  BY <1>1, <1>2, <1>5 DEF JobInv, ToComeFits
<1>10. ASSUME ~stuck' PROVE JobsFit'
  <2>1. \A j \in Jobs : native'[j] = IF step.job = j /\ step.does = "load" THEN unit[j]
                                     ELSE IF step.job = j /\ step.does = "unload" THEN Off ELSE native[j]
    BY <1>6, <1>9, <1>10
  <2>2. JobsFit
    BY <1>6, <1>10 DEF JobInv
  <2>3. ASSUME NEW j \in Jobs, j \notin JobsOf(change) PROVE OtherJob(j)'
    <3>1. OtherJob(j) /\ native'[j] = native[j]
      BY <1>1, <1>5, <1>9, <2>1, <2>2, <2>3 DEF JobsFit
    <3> QED
      BY <1>3, <1>4, <3>1 DEF OtherJob, Fits
  <2>4. ASSUME NEW j \in Jobs, j \in JobsOf(change), change.action = "schedule" PROVE Scheduling(j)'
    <3>1. Scheduling(j)
      BY <1>1, <2>2, <2>4 DEF JobsFit
    <3> QED
      BY <1>1, <1>2, <1>3, <1>4, <1>9, <2>1, <2>4, <3>1 DEF Scheduling, Fits
  <2>5. ASSUME NEW j \in Jobs, j \in JobsOf(change), change.action = "unschedule" PROVE Unscheduling(j)'
    <3>1. Unscheduling(j)
      BY <1>1, <2>2, <2>5 DEF JobsFit
    <3> QED
      BY <1>1, <1>2, <1>3, <1>4, <1>9, <2>1, <2>5, <3>1 DEF Unscheduling, Fitted
  <2> QED
    BY <1>1, <1>3, <1>4, <1>7, <2>3, <2>4, <2>5 DEF JobsFit
<1> QED
  BY <1>7, <1>8, <1>10 DEF JobInv

\* No command that loads a job may fail unnoticed.
LEMMA FailuresAllowed ==
  ASSUME NEW todo \in Seq(JobCommands), todo # <<>>, Head(todo).allowFailure
  PROVE  Head(todo).does # "load"
<1>1. Head(todo) \in JobCommands
  BY HeadTailProperties
<1> QED
  BY <1>1 DEF JobCommands

LEMMA RunKeeps == ASSUME JobInv, RunCommand PROVE JobInv'
<1>1. /\ change \in Changing /\ change.pc = "commands" /\ UNCHANGED <<platform, unit>>
      /\ unit \in [Jobs -> Settings] /\ native \in [Jobs -> Settings] /\ stuck \in BOOLEAN
      /\ change.action \in {"schedule", "unschedule"} /\ change.todo \in Seq(JobCommands)
  BY UnderWay DEF RunCommand, JobInv, JobTypes
<1>2. CASE change.todo = <<>>
  <2> DEFINE n == [change EXCEPT !.pc = "remove"]
  <2>1. /\ n \in Changing /\ n.pc = "remove" /\ n.before = change.before
        /\ n.action = change.action /\ n.jobs = change.jobs /\ n.time = change.time
    BY <1>1 DEF Changing
  <2>2. change' = n /\ UNCHANGED <<native, stuck>>
    BY <1>2 DEF RunCommand
  <2> HIDE DEF n
  <2>3. JobTypes' /\ \A j : j \in JobsOf(change)' <=> j \in JobsOf(change)
    BY <1>1, <2>1, <2>2, ChangeGoesOn
  <2>4. ASSUME ~stuck' PROVE JobsFit'
    <3>1. JobsFit
      BY <2>2, <2>4 DEF JobInv
    <3>2. ASSUME NEW j \in Jobs, j \notin JobsOf(change) PROVE OtherJob(j)'
      BY <1>1, <2>1, <2>2, <3>1, <3>2 DEF JobsFit, OtherJob, Fits
    <3>3. ASSUME NEW j \in Jobs, j \in JobsOf(change), change.action = "schedule" PROVE Scheduling(j)'
      <4>1. Scheduling(j)
        BY <1>1, <3>1, <3>3 DEF JobsFit
      <4> QED
        BY <1>1, <1>2, <2>1, <2>2, <4>1, NoMore DEF Scheduling, Fits
    <3>4. ASSUME NEW j \in Jobs, j \in JobsOf(change), change.action = "unschedule" PROVE Unscheduling(j)'
      <4>1. Unscheduling(j)
        BY <1>1, <3>1, <3>4 DEF JobsFit
      <4> QED
        BY <1>1, <1>2, <2>1, <2>2, <4>1, NoMore DEF Unscheduling
    <3> QED
      BY <1>1, <2>1, <2>2, <2>3, <3>2, <3>3, <3>4 DEF JobsFit
  <2> QED
    BY <2>1, <2>2, <2>3, <2>4 DEF JobInv, ToComeFits
<1>3. CASE change.todo # <<>>
  <2>1. PICK step : step = Head(change.todo)
    OBVIOUS
  <2>2. CASE Works(step) /\ UNCHANGED stuck /\ change' = [change EXCEPT !.todo = Tail(@)]
    BY <1>1, <1>3, <2>1, <2>2, OneCommandLess
  <2>3. CASE Refuses(step) /\ step.allowFailure /\ change' = [change EXCEPT !.todo = Tail(@)]
    <3>1. step.does # "load"
      BY <1>1, <1>3, <2>1, <2>3, FailuresAllowed
    <3> QED
      BY <1>1, <1>3, <2>1, <2>3, <3>1, OneCommandLess
  <2>4. CASE Refuses(step) /\ change' = [change EXCEPT !.pc = "rollback", !.todo = Undoing(change)]
    <3>1. native' = native /\ (stuck' = (stuck \/ (step.does = "unload" /\ native[step.job] # Off)))
      BY <2>4 DEF Refuses
    <3>2. stuck' \in BOOLEAN /\ (~stuck' => JobsFit)
      BY <1>1, <3>1 DEF JobInv
    <3>3. ~stuck' => \A j \in Jobs :
            /\ j \notin JobsOf(change) => unit'[j] = change.before[j] /\ native'[j] \in {Off, unit'[j]}
            /\ j \in JobsOf(change) /\ change.action = "unschedule" => native'[j] \in {Off, change.before[j]}
      BY <1>1, <3>1, <3>2 DEF JobsFit, OtherJob, Fits, Unscheduling, Fitted
    <3> QED
      BY <1>1, <2>4, <3>1, <3>2, <3>3, RollingBack
  <2> QED
    BY <1>3, <2>1, <2>2, <2>3, <2>4 DEF RunCommand
<1> QED
  BY <1>2, <1>3

LEMMA RemoveKeeps == ASSUME JobInv, RemoveUnits PROVE JobInv'
<1> DEFINE n == [change EXCEPT !.pc = "complete"]
<1>1. /\ change \in Changing /\ change.pc = "remove" /\ UNCHANGED <<platform, native, stuck>>
      /\ unit \in [Jobs -> Settings] /\ native \in [Jobs -> Settings] /\ stuck \in BOOLEAN
      /\ change.action \in {"schedule", "unschedule"}
      /\ unit' = [j \in Jobs |-> IF change.action = "unschedule" /\ j \in JobsOf(change) THEN Off ELSE unit[j]]
  BY UnderWay DEF RemoveUnits, JobInv, JobTypes
<1>2. /\ n \in Changing /\ n.pc = "complete" /\ n.before = change.before
      /\ n.action = change.action /\ n.jobs = change.jobs /\ n.time = change.time
  BY <1>1 DEF Changing
<1>3. change' = n
  BY DEF RemoveUnits
<1> HIDE DEF n
<1>4. unit' \in [Jobs -> Settings]
  BY <1>1 DEF Settings
<1>5. JobTypes' /\ \A j : j \in JobsOf(change)' <=> j \in JobsOf(change)
  BY <1>1, <1>2, <1>3, <1>4, ChangeGoesOn
<1>6. ASSUME ~stuck' PROVE JobsFit'
  <2>1. JobsFit
    BY <1>1, <1>6 DEF JobInv
  <2>2. ASSUME NEW j \in Jobs, j \notin JobsOf(change) PROVE OtherJob(j)'
    BY <1>1, <1>2, <1>3, <2>1, <2>2 DEF JobsFit, OtherJob, Fits
  <2>3. ASSUME NEW j \in Jobs, j \in JobsOf(change), change.action = "schedule" PROVE Scheduling(j)'
    BY <1>1, <1>2, <1>3, <2>1, <2>3 DEF JobsFit, Scheduling, Fits
  <2>4. ASSUME NEW j \in Jobs, j \in JobsOf(change), change.action = "unschedule" PROVE Unscheduling(j)'
    BY <1>1, <1>2, <1>3, <2>1, <2>4 DEF JobsFit, Unscheduling
  <2> QED
    BY <1>1, <1>2, <1>3, <1>5, <2>2, <2>3, <2>4 DEF JobsFit
<1> QED
  BY <1>2, <1>3, <1>5, <1>6 DEF JobInv, ToComeFits

LEMMA CompleteKeeps == ASSUME JobInv, CompleteChange PROVE JobInv'
<1>1. /\ change \in Changing /\ change.pc = "complete" /\ UNCHANGED <<platform, unit, native, stuck>>
      /\ unit \in [Jobs -> Settings] /\ native \in [Jobs -> Settings] /\ stuck \in BOOLEAN
      /\ change.action \in {"schedule", "unschedule"}
  BY UnderWay DEF CompleteChange, JobInv, JobTypes
<1>2. ~stuck => \A j \in Jobs :
        /\ native[j] \in {Off, unit[j]}
        /\ j \notin JobsOf(change) => unit[j] = change.before[j]
        /\ j \in JobsOf(change) /\ change.action = "unschedule" => native[j] = Off
  BY <1>1 DEF JobInv, JobsFit, OtherJob, Scheduling, Unscheduling, Fits
<1>3. CASE change' = NoChange
  BY <1>1, <1>2, <1>3, IdleKeeps
<1>4. CASE change' = [change EXCEPT !.pc = "rollback", !.todo = Undoing(change)]
  BY <1>1, <1>2, <1>4, RollingBack
<1> QED
  BY <1>3, <1>4 DEF CompleteChange

LEMMA RollBackKeeps == ASSUME JobInv, RollBackCommand PROVE JobInv'
<1>1. /\ change \in Changing /\ change.pc = "rollback" /\ UNCHANGED <<platform, unit>>
      /\ unit \in [Jobs -> Settings] /\ native \in [Jobs -> Settings] /\ stuck \in BOOLEAN
      /\ change.action \in {"schedule", "unschedule"}
  BY UnderWay DEF RollBackCommand, JobInv, JobTypes
<1>2. CASE change.todo = <<>>
  <2> DEFINE n == [change EXCEPT !.pc = "restore"]
  <2>1. /\ n \in Changing /\ n.pc = "restore" /\ n.before = change.before
        /\ n.action = change.action /\ n.jobs = change.jobs /\ n.time = change.time
    BY <1>1 DEF Changing
  <2>2. change' = n /\ UNCHANGED <<native, stuck>>
    BY <1>2 DEF RollBackCommand
  <2> HIDE DEF n
  <2>3. JobTypes' /\ \A j : j \in JobsOf(change)' <=> j \in JobsOf(change)
    BY <1>1, <2>1, <2>2, ChangeGoesOn
  <2>4. ASSUME ~stuck' PROVE JobsFit'
    <3>1. JobsFit
      BY <2>2, <2>4 DEF JobInv
    <3>2. ASSUME NEW j \in Jobs, j \notin JobsOf(change) PROVE OtherJob(j)'
      BY <1>1, <2>1, <2>2, <3>1, <3>2 DEF JobsFit, OtherJob, Fits
    <3>3. ASSUME NEW j \in Jobs, j \in JobsOf(change), change.action = "schedule" PROVE Scheduling(j)'
      <4>1. Scheduling(j)
        BY <1>1, <3>1, <3>3 DEF JobsFit
      <4> QED
        BY <1>1, <1>2, <2>1, <2>2, <4>1, NoMore DEF Scheduling
    <3>4. ASSUME NEW j \in Jobs, j \in JobsOf(change), change.action = "unschedule" PROVE Unscheduling(j)'
      BY <1>1, <2>1, <2>2, <3>1, <3>4 DEF JobsFit, Unscheduling, Fitted
    <3> QED
      BY <1>1, <2>1, <2>2, <2>3, <3>2, <3>3, <3>4 DEF JobsFit
  <2> QED
    BY <2>1, <2>2, <2>3, <2>4 DEF JobInv, ToComeFits
<1>3. CASE change.todo # <<>>
  BY <1>1, <1>3, OneCommandLess DEF RollBackCommand
<1> QED
  BY <1>2, <1>3

LEMMA RestoreUnitsKeeps == ASSUME JobInv, RestoreUnits PROVE JobInv'
<1>1. change.before \in [Jobs -> Settings] /\ change.pc \in {"restore", "journal"}
  BY DEF RestoreUnits, JobInv, JobTypes, NoChange, Changing, Journals
<1>2. /\ unit' = change.before /\ change' = NoChange /\ UNCHANGED <<platform, native, stuck>>
  BY DEF RestoreUnits
<1>3. ~stuck => change.pc = "restore" /\ JobsFit
  BY <1>1 DEF JobInv, JobsFit
<1>4. ASSUME ~stuck, NEW j \in Jobs PROVE native[j] \in {Off, unit'[j]}
  <2>1. change.pc = "restore" /\ JobsFit /\ change.action \in {"schedule", "unschedule"}
    BY <1>3, <1>4, UnderWay
  <2> QED
    BY <1>2, <2>1 DEF JobsFit, OtherJob, Fits, Fitted, Scheduling, Unscheduling
<1> QED
  BY <1>1, <1>2, <1>4, IdleKeeps

LEMMA DiesKeeps == ASSUME JobInv, ChangeDies PROVE JobInv'
<1>1. change.before \in [Jobs -> Settings]
  BY UnderWay DEF ChangeDies
<1>2. change' \in Journals /\ change'.pc = "journal" /\ stuck' = TRUE /\ UNCHANGED <<platform, unit, native>>
  BY <1>1 DEF ChangeDies, Journals
<1> QED
  BY <1>2 DEF JobInv, JobTypes, ToComeFits, JobsFit

LEMMA JobInvariant == ASSUME JobInv, [JobNext]_jobVars PROVE JobInv'
<1>1. CASE UNCHANGED jobVars
  BY <1>1 DEF jobVars, JobInv, JobTypes, ToComeFits, JobsFit, JobsOf, OtherJob, Scheduling, Unscheduling, Fits, Fitted,
              ToCome
<1> QED
  BY <1>1, PlanKeeps, BeginKeeps, WriteKeeps, RunKeeps, RemoveKeeps, CompleteKeeps, RollBackKeeps, RestoreUnitsKeeps,
     DiesKeeps DEF JobNext

LEMMA JobsAreSound == JobInv => JobTypeOK /\ JobsMatchUnits
<1> SUFFICES ASSUME JobInv PROVE JobTypeOK /\ JobsMatchUnits
  OBVIOUS
<1>1. JobTypeOK
  BY DEF JobInv, JobTypes, JobTypeOK, NoChange, Changing, Journals
<1>2. JobsMatchUnits
  BY DEF JobInv, JobsFit, JobsMatchUnits, Fits
<1> QED
  BY <1>1, <1>2

-----------------------------------------------------------------------------
(* Configuration entries. *)

Undo == [files : SUBSET Files, withState : BOOLEAN, entry : [Files -> Contents], records : SUBSET Records,
         after : [Files -> Contents], afterRecords : SUBSET Records]

(* What Loadout writes, and has recorded as its own, is no user's value. *)
OwnRecords(rs) == \A r \in rs : r.print \in PlanValues
Own(p) == p.value \in PlanValues /\ (p.package # NoEntry => p.file \in JsonFiles \cup {CodexFile})
OwnPlans == \A c \in Commands : \A p \in plan[c] : Own(p)

(* A user's value in a file a mutation left was there before the mutation. *)
NewUserValues(s) == \E f \in s.files, n \in Names :
  s.after[f][n] \in UserValues /\ s.entry[f][n] # s.after[f][n]
UndoOwn == \A s \in lastUndo : s \in Undo /\ OwnRecords(s.records) /\ ~NewUserValues(s)

HostInv ==
  /\ HostTypeOK /\ OwnPlans /\ OwnRecords(records) /\ UndoOwn
  /\ userEdits \in Nat /\ forces \in Nat

LEMMA AtMostOne == Cardinality({}) <= 1 /\ \A e : Cardinality({e}) <= 1
  BY FS_EmptySet, FS_Singleton

LEMMA HostInitInv == HostInit => HostInv
<1> SUFFICES ASSUME HostInit PROVE HostInv
  OBVIOUS
<1>1. entry \in [Files -> Contents]
  BY DEF HostInit, Contents
<1> QED
  BY <1>1, AtMostOne DEF HostInit, HostInv, HostTypeOK, OwnPlans, OwnRecords, UndoOwn

(* Plans that are made or dropped. *)
LEMMA PlansKeep ==
  ASSUME HostInv, NEW c \in Commands, NEW P, plan' = [plan EXCEPT ![c] = P],
         P = {} \/ \E p \in Plan : P = {p} /\ Own(p),
         UNCHANGED <<entry, records, lastUndo, userEdits, forces>>
  PROVE  HostInv'
<1>1. P \subseteq Plan /\ Cardinality(P) <= 1 /\ \A p \in P : Own(p)
  BY AtMostOne
<1>2. plan' \in [Commands -> SUBSET Plan] /\ \A d \in Commands : plan'[d] = plan[d] \/ plan'[d] = P
  BY <1>1 DEF HostInv, HostTypeOK
<1>3. HostTypeOK'
  BY <1>1, <1>2 DEF HostInv, HostTypeOK
<1>4. OwnPlans'
  BY <1>1, <1>2 DEF HostInv, OwnPlans
<1> QED
  BY <1>3, <1>4 DEF HostInv, OwnRecords, UndoOwn, NewUserValues

LEMMA PreviewKeeps ==
  ASSUME HostInv, NEW c \in Commands, NEW package \in Packages \cup {NoEntry}, NEW file \in Files,
         NEW names \in SUBSET Names, NEW value \in PlanValues, NEW synced \in BOOLEAN,
         package # NoEntry => file \in JsonFiles \cup {CodexFile},
         Previews(c, Draft(package, file, names, value, synced))
  PROVE  HostInv'
<1> DEFINE d == Draft(package, file, names, value, synced)
           p == [d EXCEPT !.base = entry[file], !.state = records]
<1>1. d.file = file
  BY DEF Draft
<1>2. entry[file] \in Contents /\ records \in SUBSET Records /\ value \in Values
  BY DEF HostInv, HostTypeOK, Values
<1>3. d \in Plan /\ Own(d)
  BY <1>2 DEF Draft, Plan, Own
<1>4. p \in Plan /\ Own(p)
  <2> HIDE DEF d
  <2>1. p \in Plan
    BY <1>2, <1>3 DEF Plan
  <2>2. p.value = d.value /\ p.package = d.package /\ p.file = d.file
    BY <1>3 DEF Plan
  <2> QED
    BY <1>3, <2>1, <2>2 DEF Own
<1>5. plan' = [plan EXCEPT ![c] = {p}] /\ UNCHANGED <<entry, records, lastUndo, userEdits, forces>>
  BY <1>1 DEF Previews
<1> HIDE DEF p
<1> QED
  BY <1>4, <1>5, PlansKeep

LEMMA PlanningKeeps ==
  ASSUME HostInv, NEW c \in Commands,
         \/ PlanMcpConfig(c) \/ PlanMcpRecipe(c) \/ PlanSyncedServers(c) \/ PlanCodexMcpConfig(c)
         \/ PlanModelSelection(c) \/ DropPlan(c)
  PROVE  HostInv'
<1> USE DEF Files
<1>1. CASE PlanMcpConfig(c)
  BY <1>1, PreviewKeeps DEF PlanMcpConfig
<1>2. CASE PlanMcpRecipe(c)
  BY <1>2, PreviewKeeps DEF PlanMcpRecipe
<1>3. CASE PlanSyncedServers(c)
  BY <1>3, PreviewKeeps DEF PlanSyncedServers
<1>4. CASE PlanCodexMcpConfig(c)
  BY <1>4, PreviewKeeps DEF PlanCodexMcpConfig
<1>5. CASE PlanModelSelection(c)
  BY <1>5, PreviewKeeps DEF PlanModelSelection
<1>6. CASE DropPlan(c)
  BY <1>6, PlansKeep DEF DropPlan
<1> QED
  BY <1>1, <1>2, <1>3, <1>4, <1>5, <1>6

(* An application writes what the preview said, and nothing else. *)
LEMMA ApplicationIs ==
  ASSUME HostInv, NEW c \in Commands, NEW p \in plan[c], BaseUnchanged(p),
         entry' = [entry EXCEPT ![p.file] = Proposed(p)]
  PROVE  /\ p \in Plan /\ entry' \in [Files -> Contents]
         /\ \A f \in Files, n \in Names : entry'[f][n] # entry[f][n] =>
              f = p.file /\ n \in p.names /\ entry'[f][n] = p.value
<1>1. p \in Plan /\ entry \in [Files -> Contents]
  BY DEF HostInv, HostTypeOK
<1>2. p.file \in Files /\ p.value \in Values /\ p.base \in Contents /\ p.names \subseteq Names
  BY <1>1 DEF Plan
<1>3. Proposed(p) \in Contents
  BY <1>2 DEF Proposed, Contents
<1>4. \A n \in Names \ p.names : entry[p.file][n] = p.base[n]
  BY DEF BaseUnchanged
<1>5. \A f \in Files : entry'[f] = IF f = p.file THEN Proposed(p) ELSE entry[f]
  BY <1>1
<1>6. \A n \in Names : Proposed(p)[n] = IF n \in p.names THEN p.value ELSE p.base[n]
  BY DEF Proposed
<1> QED
  BY <1>1, <1>2, <1>3, <1>4, <1>5, <1>6

(* A mutation that writes only Loadout's values, or none, keeps the invariant. *)
LEMMA MutationKeeps ==
  ASSUME HostInv, NEW files \in SUBSET Files, NEW withState \in BOOLEAN,
         entry' \in [Files -> Contents], records' \in SUBSET Records, OwnRecords(records'),
         lastUndo' = SnapshotOf(files, withState),
         \A f \in files, n \in Names : entry'[f][n] # entry[f][n] => entry'[f][n] \notin UserValues,
         plan' = plan \/ \E c \in Commands : plan' = [plan EXCEPT ![c] = {}],
         UNCHANGED userEdits, forces' \in Nat
  PROVE  HostInv'
<1> DEFINE s == [files |-> files, withState |-> withState, entry |-> entry, records |-> records,
                 after |-> entry', afterRecords |-> records']
<1>1. entry \in [Files -> Contents] /\ records \in SUBSET Records /\ OwnRecords(records)
  BY DEF HostInv, HostTypeOK
<1>2. s \in Undo
  BY <1>1 DEF Undo
<1>3. lastUndo' = {s}
  BY DEF SnapshotOf
<1>4. ~NewUserValues(s)
  BY DEF NewUserValues
<1>5. UndoOwn'
  <2>1. OwnRecords(s.records)
    BY <1>1
  <2> HIDE DEF s
  <2>2. \A t \in lastUndo' : t \in Undo /\ OwnRecords(t.records) /\ ~NewUserValues(t)
    BY <1>2, <1>3, <1>4, <2>1
  <2> QED
    BY <2>2 DEF UndoOwn, OwnRecords, NewUserValues
<1>6. plan' \in [Commands -> SUBSET Plan] /\ \A c \in Commands : plan'[c] = plan[c] \/ plan'[c] = {}
  BY DEF HostInv, HostTypeOK
<1>7. HostTypeOK'
  BY <1>3, <1>6, AtMostOne DEF HostInv, HostTypeOK
<1>8. OwnPlans'
  BY <1>6 DEF HostInv, OwnPlans
<1>9. OwnRecords(records)'
  BY DEF OwnRecords
<1> QED
  BY <1>5, <1>7, <1>8, <1>9 DEF HostInv

LEMMA ApplyKeeps == ASSUME HostInv, NEW c \in Commands, ApplyMcpConfigPlan(c) PROVE HostInv'
<1>1. PICK p \in plan[c] :
        /\ BaseUnchanged(p) /\ entry' = [entry EXCEPT ![p.file] = Proposed(p)] /\ records' = Recorded(p)
        /\ plan' = [plan EXCEPT ![c] = {}] /\ lastUndo' = SnapshotOf({p.file}, p.package # NoEntry)
  BY DEF ApplyMcpConfigPlan
<1>2. UNCHANGED <<userEdits, forces>> /\ forces \in Nat
  BY DEF ApplyMcpConfigPlan, HostInv
<1>3. /\ p \in Plan /\ entry' \in [Files -> Contents]
      /\ \A f \in Files, n \in Names : entry'[f][n] # entry[f][n] =>
           f = p.file /\ n \in p.names /\ entry'[f][n] = p.value
  BY <1>1, ApplicationIs
<1>4. p.file \in Files /\ p.names \subseteq Names /\ p.package \in Packages \cup {NoEntry} /\ Own(p)
  BY <1>3 DEF Plan, HostInv, OwnPlans
<1>5. records' \in SUBSET Records /\ OwnRecords(records')
  <2>1. records \subseteq Records /\ OwnRecords(records)
    BY DEF HostInv, HostTypeOK
  <2>2. CASE p.package = NoEntry
    BY <1>1, <2>1, <2>2 DEF Recorded
  <2>3. CASE p.package # NoEntry
    <3>1. \A n \in p.names :
            /\ [package |-> p.package, file |-> p.file, name |-> n, print |-> p.value] \in Records
            /\ [package |-> p.package, file |-> p.file, name |-> n, print |-> p.value].print \in PlanValues
      BY <1>4, <2>3 DEF Own, Records, Values
    <3> QED
      BY <1>1, <2>1, <2>3, <3>1 DEF Recorded, OwnRecords
  <2> QED
    BY <2>2, <2>3
<1> QED
  <2>1. {p.file} \in SUBSET Files /\ (p.package # NoEntry) \in BOOLEAN
    BY <1>4
  <2>2. \A f \in {p.file}, n \in Names : entry'[f][n] # entry[f][n] => entry'[f][n] \notin UserValues
    BY <1>3, <1>4, HostConstantsOK DEF Own
  <2> QED
    BY <1>1, <1>2, <1>3, <1>5, <2>1, <2>2, MutationKeeps

(* A removal takes away what is as it was recorded, or asks for --force. *)
LEMMA RemovalIs ==
  ASSUME HostInv, NEW package \in Packages, RemoveServers(package)
  PROVE  /\ entry' \in [Files -> Contents] /\ forces' \in Nat
         /\ \A f \in Files, n \in Names : entry'[f][n] # entry[f][n] =>
              entry'[f][n] = NoEntry /\ (entry[f][n] \in UserValues => forces' # forces)
<1> DEFINE mine == {r \in records : r.package = package}
           Listed(f, n) == \E r \in mine : r.file = f /\ r.name = n
<1>1. entry \in [Files -> Contents] /\ records \subseteq Records /\ OwnRecords(records) /\ forces \in Nat
  BY DEF HostInv, HostTypeOK
<1>2. entry' = [f \in Files |-> [n \in Names |-> IF Listed(f, n) THEN NoEntry ELSE entry[f][n]]]
      /\ forces' = IF {r \in mine : Modified(r)} = {} THEN forces ELSE forces + 1
  BY DEF RemoveServers
<1>3. ASSUME NEW r \in mine, entry[r.file][r.name] \in UserValues PROVE Modified(r)
  BY <1>1, <1>3, HostConstantsOK DEF OwnRecords, Modified, Values
<1>4. \A f \in Files, n \in Names : entry'[f][n] = IF Listed(f, n) THEN NoEntry ELSE entry[f][n]
  BY <1>2
<1>5. \A f \in Files, n \in Names : Listed(f, n) /\ entry[f][n] \in UserValues => forces' = forces + 1
  BY <1>2, <1>3
<1>6. entry' \in [Files -> Contents]
  <2>1. \A f \in Files : entry[f] \in [Names -> Values \cup {NoEntry}]
    BY <1>1 DEF Contents
  <2>2. \A f \in Files : [n \in Names |-> IF Listed(f, n) THEN NoEntry ELSE entry[f][n]] \in Contents
    BY <2>1 DEF Contents
  <2> QED
    BY <1>2, <2>2
<1> QED
  BY <1>1, <1>2, <1>4, <1>5, <1>6

LEMMA RemovalKeeps == ASSUME HostInv, NEW package \in Packages, RemoveServers(package) PROVE HostInv'
<1> DEFINE mine == {r \in records : r.package = package}
<1>1. lastUndo' = SnapshotOf({r.file : r \in mine}, TRUE) /\ records' = records \ mine /\ UNCHANGED <<plan, userEdits>>
  BY DEF RemoveServers
<1>2. records \subseteq Records /\ OwnRecords(records)
  BY DEF HostInv, HostTypeOK
<1>3. {r.file : r \in mine} \in SUBSET Files /\ records' \in SUBSET Records /\ OwnRecords(records')
  BY <1>1, <1>2 DEF Records, Files, OwnRecords
<1>4. \A f \in {r.file : r \in mine}, n \in Names : entry'[f][n] # entry[f][n] => entry'[f][n] \notin UserValues
  BY <1>3, RemovalIs, HostConstantsOK DEF Values
<1> QED
  BY <1>1, <1>3, <1>4, RemovalIs, MutationKeeps

(* A rollback puts back no user's value for another. *)
LEMMA RollBackIs ==
  ASSUME HostInv, RollBackConfig
  PROVE  HostInv' /\ \A f \in Files, n \in Names : entry[f][n] \in UserValues => entry'[f][n] = entry[f][n]
<1>1. PICK s \in lastUndo :
        /\ \A f \in s.files : entry[f] = s.after[f]
        /\ entry' = [f \in Files |-> IF f \in s.files THEN s.entry[f] ELSE entry[f]]
        /\ records' = IF s.withState THEN s.records ELSE records
        /\ lastUndo' = {} /\ UNCHANGED <<plan, made, userEdits, forces>>
  BY DEF RollBackConfig
<1>2. s \in Undo /\ OwnRecords(s.records) /\ ~NewUserValues(s)
  BY DEF HostInv, UndoOwn
<1>3. entry \in [Files -> Contents] /\ records \subseteq Records /\ OwnRecords(records)
  BY DEF HostInv, HostTypeOK
<1>4. s.files \subseteq Files /\ s.entry \in [Files -> Contents] /\ s.records \subseteq Records
  BY <1>2 DEF Undo
<1>5. \A f \in Files, n \in Names : entry[f][n] \in UserValues => entry'[f][n] = entry[f][n]
  BY <1>1, <1>2 DEF NewUserValues
<1>6. HostTypeOK'
  <2>1. entry' \in [Files -> Contents]
    BY <1>1, <1>3, <1>4
  <2> QED
    BY <1>1, <1>3, <1>4, <2>1, AtMostOne DEF HostInv, HostTypeOK
<1>7. OwnRecords(records)'
  BY <1>1, <1>2, <1>3 DEF OwnRecords
<1> QED
  BY <1>1, <1>5, <1>6, <1>7 DEF HostInv, OwnPlans, UndoOwn

LEMMA EditsKeep == ASSUME HostInv, UserEditsConfig PROVE HostInv' /\ userEdits' # userEdits
<1>1. PICK f \in Files, n \in Names, v \in UserValues \cup {NoEntry} : entry' = [entry EXCEPT ![f][n] = v]
  BY DEF UserEditsConfig
<1>2. userEdits' = userEdits + 1 /\ UNCHANGED <<records, plan, lastUndo, made, forces>> /\ userEdits \in Nat
  BY DEF UserEditsConfig, HostInv
<1>3. entry' \in [Files -> Contents]
  BY <1>1 DEF HostInv, HostTypeOK, Contents, Values
<1>4. HostTypeOK'
  BY <1>2, <1>3 DEF HostInv, HostTypeOK
<1> QED
  BY <1>2, <1>4 DEF HostInv, OwnPlans, OwnRecords, UndoOwn, NewUserValues

LEMMA HostStep == HostInv /\ [HostNext]_hostVars => HostInv'
<1> SUFFICES ASSUME HostInv, [HostNext]_hostVars PROVE HostInv'
  OBVIOUS
<1>1. CASE UNCHANGED hostVars
  BY <1>1 DEF hostVars, HostInv, HostTypeOK, OwnPlans, OwnRecords, UndoOwn, NewUserValues
<1> QED
  BY <1>1, PlanningKeeps, ApplyKeeps, RemovalKeeps, RollBackIs, EditsKeep DEF HostNext

LEMMA HostInvariant == HostSpec => []HostInv
  BY HostInitInv, HostStep, PTL DEF HostSpec

(* The files, the records, the plans and the last snapshot stay within their types. *)
THEOREM HostTypesCorrect == HostSpec => []HostTypeOK
<1>1. HostInv => HostTypeOK
  BY DEF HostInv
<1> QED
  BY HostInvariant, <1>1, PTL

(* What a user wrote is taken away only by the user, by a plan whose preview was *)
(* about this very entry, or by a removal with --force: no stale preview, no     *)
(* other command's plan and no rollback does it (writeMcpConfigPlan,             *)
(* applyCodexMcpConfigPlan, planRemove).                                         *)
THEOREM UserEntriesAreKept == HostSpec => UserEntriesSurvive
<1> DEFINE Kept == \A f \in Files, n \in Names :
             (entry[f][n] \in UserValues /\ entry'[f][n] # entry[f][n]) =>
                userEdits' # userEdits \/ forces' # forces \/ Previewed(f, n)
<1>1. HostInv /\ [HostNext]_hostVars => [Kept]_hostVars
  <2> SUFFICES ASSUME HostInv, HostNext, NEW f \in Files, NEW n \in Names,
                      entry[f][n] \in UserValues, entry'[f][n] # entry[f][n]
               PROVE  userEdits' # userEdits \/ forces' # forces \/ Previewed(f, n)
    OBVIOUS
  <2>1. ASSUME NEW c \in Commands, ApplyMcpConfigPlan(c) PROVE Previewed(f, n)
    <3>1. PICK p \in plan[c] : BaseUnchanged(p) /\ entry' = [entry EXCEPT ![p.file] = Proposed(p)]
                               /\ plan' = [plan EXCEPT ![c] = {}]
      BY <2>1 DEF ApplyMcpConfigPlan
    <3>2. f = p.file /\ n \in p.names
      BY <3>1, ApplicationIs
    <3>3. f # ModelFile => p.base[n] = entry[f][n]
      BY <3>1, <3>2 DEF BaseUnchanged
    <3>4. plan'[c] = {}
      BY <3>1 DEF HostInv, HostTypeOK
    <3> QED
      BY <3>2, <3>3, <3>4 DEF Previewed
  <2>2. ASSUME NEW c \in Commands,
               \/ PlanMcpConfig(c) \/ PlanMcpRecipe(c) \/ PlanSyncedServers(c) \/ PlanCodexMcpConfig(c)
               \/ PlanModelSelection(c) \/ DropPlan(c)
        PROVE  UNCHANGED entry
    BY <2>2 DEF PlanMcpConfig, PlanMcpRecipe, PlanSyncedServers, PlanCodexMcpConfig, PlanModelSelection,
                DropPlan, Previews
  <2>3. ASSUME NEW package \in Packages, RemoveServers(package) PROVE forces' # forces
    BY <2>3, RemovalIs
  <2> QED
    BY <2>1, <2>2, <2>3, RollBackIs, EditsKeep DEF HostNext
<1> QED
  BY <1>1, HostInvariant, PTL DEF HostSpec, UserEntriesSurvive

-----------------------------------------------------------------------------
(* The handshake with an MCP server. *)

LEMMA SettleKeeps ==
  ASSUME ShakeTypeOK, NEW v \in {"connected", "failed"}, Settle(v)
  PROVE  /\ phase' = "over" /\ verdict' \in {"none", "connected", "failed"}
         /\ server' \in {"none", "running", "told", "gone"}
BY DEF ShakeTypeOK, Settle

LEMMA ReceiveKeeps == ASSUME ShakeTypeOK, ReceiveOutput PROVE ShakeTypeOK'
<1>1. PICK n \in 1..Len(unread) :
        /\ unread' = SubSeq(unread, n + 1, Len(unread)) /\ received' = received + n
        /\ IF received + n > OutputLimit THEN Settle("failed") /\ UNCHANGED buffer
           ELSE buffer' = SubSeq(unread, 1, n) /\ UNCHANGED <<phase, verdict, server>>
  BY DEF ReceiveOutput
<1>2. unread' \in Seq(Lines) /\ SubSeq(unread, 1, n) \in Seq(Lines) /\ received' \in Nat
  BY <1>1 DEF ShakeTypeOK
<1>3. UNCHANGED <<written, aborted>>
  BY DEF ReceiveOutput
<1>4. CASE Settle("failed") /\ UNCHANGED buffer
  BY <1>2, <1>3, <1>4, SettleKeeps DEF ShakeTypeOK
<1>5. CASE buffer' = SubSeq(unread, 1, n) /\ UNCHANGED <<phase, verdict, server>>
  BY <1>2, <1>3, <1>5 DEF ShakeTypeOK
<1> QED
  BY <1>1, <1>4, <1>5

LEMMA ReadKeeps == ASSUME ShakeTypeOK, ReadLine PROVE ShakeTypeOK'
<1>1. buffer' \in Seq(Lines) /\ UNCHANGED <<written, unread, received, aborted>>
  BY DEF ReadLine, ShakeTypeOK
<1>2. \/ UNCHANGED <<phase, verdict, server>>
      \/ \E v \in {"connected", "failed"} : Settle(v)
  BY DEF ReadLine
<1> QED
  BY <1>1, <1>2, SettleKeeps DEF ShakeTypeOK

LEMMA GivesUpKeeps == ASSUME ShakeTypeOK, GivesUp PROVE ShakeTypeOK'
BY SettleKeeps DEF GivesUp, ShakeTypeOK

LEMMA AbortKeeps == ASSUME ShakeTypeOK, Abort PROVE ShakeTypeOK'
<1>1. UNCHANGED <<written, unread, buffer, received>> /\ aborted' \in BOOLEAN
  BY DEF Abort
<1>2. Settle("failed") \/ UNCHANGED <<phase, verdict, server>>
  BY DEF Abort
<1> QED
  BY <1>1, <1>2, SettleKeeps DEF ShakeTypeOK

LEMMA ShakeInvariant ==
  ASSUME ShakeTypeOK, [ShakeNext]_shakeVars PROVE ShakeTypeOK'
<1>1. CASE BeginShake
  BY <1>1 DEF BeginShake, OutsideServer, ShakeTypeOK
<1>2. CASE ResolveCredentials
  BY <1>2 DEF ResolveCredentials, OutsideServer, ShakeTypeOK
<1>3. CASE StartServer
  BY <1>3 DEF StartServer, ShakeTypeOK
<1>4. CASE TimesOut \/ ServerCloses \/ RequestFails
  BY <1>4, GivesUpKeeps DEF TimesOut, ServerCloses, RequestFails
<1>5. CASE ServerWrites
  <2>1. unread' \in Seq(Lines) /\ written' \in Nat
    BY <1>5 DEF ServerWrites, ShakeTypeOK
  <2> QED
    BY <1>5, <2>1 DEF ServerWrites, ShakeTypeOK
<1>6. CASE ServerExits
  BY <1>6 DEF ServerExits, ShakeTypeOK
<1>7. CASE UNCHANGED shakeVars
  BY <1>7 DEF shakeVars, ShakeTypeOK
<1>8. CASE ReceiveOutput
  BY <1>8, ReceiveKeeps
<1>9. CASE ReadLine
  BY <1>9, ReadKeeps
<1>10. CASE Abort
  BY <1>10, AbortKeeps
<1> QED
  BY <1>1, <1>2, <1>3, <1>4, <1>5, <1>6, <1>7, <1>8, <1>9, <1>10 DEF ShakeNext

LEMMA ShakeBegins == ShakeInit => ShakeTypeOK
<1> SUFFICES ASSUME ShakeInit PROVE ShakeTypeOK
  OBVIOUS
<1>1. unread \in Seq(Lines) /\ buffer \in Seq(Lines)
  BY EmptySeq, Zenon DEF ShakeInit
<1> QED
  BY <1>1 DEF ShakeInit, ShakeTypeOK

-----------------------------------------------------------------------------
(* Secrets. *)

\* A secret that has been given, a line of the store, and a call that is under way.
SecretTexts == {s.text : s \in Secrets}
Given == [text : SecretTexts, size : Nat, newlines : Nat]
Stored == [target : {Target(ref) : ref \in References}, secret : Given, by : References]
Waiting == [pc : {"waits"}, op : {"get", "set", "delete"}, ref : References, given : SUBSET Given,
            failure : {"none", "output", "timeout"}, past : SUBSET SUBSET Stored, refused : BOOLEAN]

Calls == {NoAsk} \cup Waiting
Children == {NoChild} \cup [pc : {"works"}] \cup [pc : {"closing"}, code : Nat, out : SUBSET Stored]

CredentialTypes ==
  /\ backend \in {"darwin", "linux", "win32"}
  /\ vault \subseteq Stored /\ \A e \in vault : e.target = Target(e.by)
  /\ DOMAIN told = Askers /\ ask \in [Askers -> Calls] /\ child \in [Askers -> Children]

\* What was printed comes from a line that was in the store under the name asked for.
Printed(a, o) ==
  \E found \in a.past : \E e \in found :
    /\ e.by = o.by /\ e.secret.text = o.secret.text /\ Target(e.by) = Target(a.ref)
    /\ Size(WithoutNewline(o.secret)) = 0 => Size(WithoutNewline(e.secret)) = 0

\* A call that waits has seen what the store holds now, ...
Follows(c) == ask[c].pc = "waits" => Entry(ask[c].ref) \in ask[c].past /\ child[c].pc # "none"
\* ... and its child's exit code is explained by something it has seen.
Explained(a, k) ==
  /\ k.code = 0 /\ a.op = "set" => \E found \in a.past : \E e \in found : e.secret \in a.given
  /\ k.code = 0 /\ a.op = "delete" => {} \in a.past
  /\ k.code = 0 /\ a.op = "get" => (k.out = {} => a.failure # "none") /\ \A o \in k.out : Printed(a, o)
  /\ k.code = NotFound => {} \in a.past \/ (backend = "linux" /\ a.refused) \/ a.failure # "none"

CredentialInv ==
  /\ CredentialTypes
  /\ \A c \in Askers : Follows(c)
  /\ \A c \in Askers : child[c].pc = "closing" => Explained(ask[c], child[c])
  /\ CredentialsAgree

-----------------------------------------------------------------------------
LEMMA SecretKeepsItsText ==
  ASSUME NEW s \in Given
  PROVE  /\ WithoutNewline(s) \in Given /\ WithoutNewline(s).text = s.text
         /\ [s EXCEPT !.newlines = @ + 1] \in Given /\ [s EXCEPT !.newlines = @ + 1].text = s.text
         /\ WithoutNewline([s EXCEPT !.newlines = @ + 1]) = s
         /\ Size(WithoutNewline(s)) <= Size(s) /\ Size(s) \in Nat
         /\ Size(s) = 0 => WithoutNewline(s) = s
<1>1. PICK t \in SecretTexts, n \in Nat, k \in Nat : s = [text |-> t, size |-> n, newlines |-> k]
  BY DEF Given
<1>2. [s EXCEPT !.newlines = @ + 1] = [text |-> t, size |-> n, newlines |-> k + 1]
  BY <1>1
<1>3. [s EXCEPT !.newlines = @ - 1] = [text |-> t, size |-> n, newlines |-> k - 1]
  BY <1>1
<1>4. WithoutNewline(s) = IF k > 0 THEN [text |-> t, size |-> n, newlines |-> k - 1] ELSE s
  BY <1>1, <1>3 DEF WithoutNewline
<1>5. WithoutNewline(s) \in Given /\ WithoutNewline(s).text = s.text
  BY <1>1, <1>4 DEF Given
<1>6. [s EXCEPT !.newlines = @ + 1] \in Given /\ [s EXCEPT !.newlines = @ + 1].text = s.text
  BY <1>1, <1>2 DEF Given
<1>7. WithoutNewline([s EXCEPT !.newlines = @ + 1]) = s
  <2>1. WithoutNewline([text |-> t, size |-> n, newlines |-> k + 1])
          = [[text |-> t, size |-> n, newlines |-> k + 1] EXCEPT !.newlines = @ - 1]
    BY DEF WithoutNewline
  <2>2. [[text |-> t, size |-> n, newlines |-> k + 1] EXCEPT !.newlines = @ - 1]
          = [text |-> t, size |-> n, newlines |-> (k + 1) - 1]
    OBVIOUS
  <2>3. (k + 1) - 1 = k
    OBVIOUS
  <2> QED
    BY <1>1, <1>2, <2>1, <2>2, <2>3
<1>8. Size(WithoutNewline(s)) <= Size(s) /\ Size(s) \in Nat /\ (Size(s) = 0 => WithoutNewline(s) = s)
  BY <1>1, <1>4 DEF Size
<1> QED
  BY <1>5, <1>6, <1>7, <1>8

\* Elsewhere than on Windows, a target belongs to one reference.
LEMMA TargetsDiffer ==
  ASSUME NEW r \in References, NEW q \in References, Target(r) = Target(q), backend # "win32"
  PROVE  r = q
<1>1. r.service = q.service /\ r.account = q.account
  BY DEF Target
<1>2. /\ r \in [service : {x.service : x \in References}, account : {x.account : x \in References}]
      /\ q \in [service : {x.service : x \in References}, account : {x.account : x \in References}]
  BY CredentialAssumption
<1> QED
  BY <1>1, <1>2

LEMMA CredentialsBegin == CredentialInit => CredentialInv
<1> SUFFICES ASSUME CredentialInit PROVE CredentialInv
  OBVIOUS
<1>1. \A c \in Askers : ask[c].pc = "idle" /\ child[c].pc = "none" /\ told[c] = {}
  BY DEF CredentialInit, NoAsk, NoChild
<1>2. CredentialTypes
  BY DEF CredentialInit, CredentialTypes, Calls, Children
<1> QED
  BY <1>1, <1>2 DEF CredentialInv, CredentialsAgree, AllOver, Follows

\* The system does not change under Loadout.
LEMMA SameBackend ==
  ASSUME backend' = backend PROVE Stored' = Stored /\ Calls' = Calls /\ Children' = Children
<1>1. \A r : Target(r)' = Target(r)
  BY DEF Target
<1>2. Stored' = Stored
  BY <1>1 DEF Stored
<1> QED
  BY <1>2 DEF Calls, Children, Waiting

\* A call goes on: nothing it was told is lost, and what others wait for stays.
LEMMA CallGoesOn ==
  ASSUME CredentialInv, UNCHANGED <<backend, vault>>, NEW c \in Askers,
         told' \in {told, [told EXCEPT ![c] = {}]},
         NEW a \in Calls, ask' = [ask EXCEPT ![c] = a],
         NEW k \in Children,
         child' = [child EXCEPT ![c] = k],
         a.pc = "idle" => k.pc = "none",
         a.pc = "waits" => Entry(a.ref) \in a.past /\ k.pc # "none",
         k.pc = "closing" => Explained(a, k)
  PROVE  CredentialInv'
<1>1. /\ ask'[c] = a /\ child'[c] = k
      /\ \A d \in Askers \ {c} : ask'[d] = ask[d] /\ child'[d] = child[d]
  BY DEF CredentialInv, CredentialTypes
<1>2. CredentialTypes'
  <2>1. \A r : Target(r)' = Target(r)
    BY DEF Target
  <2>2. Calls' = Calls /\ Children' = Children /\ Stored' = Stored
    BY SameBackend
  <2> QED
    BY <2>1, <2>2 DEF CredentialInv, CredentialTypes
<1>3. \A r : Entry(r)' = Entry(r)
  BY DEF Entry, Target
<1>4. AllOver'
  BY <1>1 DEF CredentialInv, CredentialsAgree, AllOver
<1>5. \A d \in Askers : Follows(d)'
  BY <1>1, <1>3 DEF CredentialInv, Follows
<1>6. \A b, l : Explained(b, l)' <=> Explained(b, l)
  BY DEF Explained, NotFound, Printed, Target
<1>7. \A d \in Askers : child'[d].pc = "closing" => Explained(ask[d], child[d])'
  BY <1>1, <1>6 DEF CredentialInv
<1>8. /\ \A t : Truthful(t)' <=> Truthful(t)
      /\ \A d \in Askers : told'[d] \in {told[d], {}}
  BY DEF Truthful, Target, CredentialInv, CredentialTypes
<1>9. CredentialsAgree'
  BY <1>4, <1>8 DEF CredentialInv, CredentialsAgree
<1> QED
  BY <1>2, <1>4, <1>5, <1>7, <1>9 DEF CredentialInv

-----------------------------------------------------------------------------
(* The steps of a call that leave the store alone. *)

LEMMA AsksKeeps ==
  ASSUME CredentialInv, NEW c \in Askers, NEW op \in {"get", "set", "delete"}, NEW r \in References,
         NEW g \in SUBSET Given, Asks(c, op, r, g)
  PROVE  CredentialInv'
<1> DEFINE a == [pc |-> "waits", op |-> op, ref |-> r, given |-> g, failure |-> "none",
                 past |-> {Entry(r)}, refused |-> FALSE]
           k == [pc |-> "works"]
<1>1. Entry(r) \in SUBSET Stored
  BY DEF Entry, CredentialInv, CredentialTypes
<1>2. a \in Waiting /\ a.pc = "waits" /\ a.ref = r /\ a.past = {Entry(r)}
  BY <1>1 DEF Waiting
<1>3. k \in Children /\ k.pc = "works"
  BY DEF Children
<1>4. ask' = [ask EXCEPT ![c] = a] /\ child' = [child EXCEPT ![c] = k] /\ told' = [told EXCEPT ![c] = {}]
      /\ UNCHANGED <<backend, vault>>
  BY DEF Asks
<1> HIDE DEF a, k
<1> QED
  BY <1>2, <1>3, <1>4, CallGoesOn DEF Calls

\* A call whose child is there waits, and has seen what the store holds.
LEMMA CallWaits ==
  ASSUME CredentialInv, NEW c \in Askers, ask[c].pc = "waits" \/ child[c].pc # "none"
  PROVE  /\ ask[c] \in Waiting /\ ask[c].pc = "waits" /\ child[c] \in Children /\ child[c].pc # "none"
         /\ Entry(ask[c].ref) \in ask[c].past /\ ask[c].ref \in References
         /\ vault \subseteq Stored /\ \A e \in vault : e.target = Target(e.by)
         /\ DOMAIN told = Askers /\ backend \in {"darwin", "linux", "win32"}
<1>1. ask[c] \in Calls /\ child[c] \in Children /\ Follows(c)
  BY DEF CredentialInv, CredentialTypes
<1>2. ask[c].pc # "idle"
  BY <1>1 DEF CredentialInv, CredentialsAgree, AllOver, Calls, NoAsk
<1>3. ask[c] \in Waiting /\ ask[c].pc = "waits"
  BY <1>1, <1>2 DEF Calls, NoAsk, Waiting
<1> QED
  BY <1>1, <1>3 DEF Follows, Waiting, CredentialInv, CredentialTypes

\* A child ends with an exit code and what it has printed.
LEMMA ExitsKeeps ==
  ASSUME CredentialInv, UNCHANGED <<backend, vault, told>>, NEW c \in Askers, child[c].pc = "works",
         NEW a \in Waiting, ask' = [ask EXCEPT ![c] = a], a.ref = ask[c].ref, a.past = ask[c].past,
         NEW code \in Nat, NEW out \in SUBSET Stored, Exits(c, code, out),
         NEW k, k = [pc |-> "closing", code |-> code, out |-> out], Explained(a, k)
  PROVE  CredentialInv'
<1>1. k \in Children /\ k.pc = "closing"
  BY DEF Children
<1>2. child' = [child EXCEPT ![c] = k]
  BY DEF Exits
<1>3. a.pc = "waits" /\ Entry(a.ref) \in a.past
  BY CallWaits DEF Waiting
<1> QED
  BY <1>1, <1>2, <1>3, CallGoesOn DEF Calls

LEMMA Codes ==
  ASSUME backend \in {"darwin", "linux", "win32"}
  PROVE  NotFound \in Nat /\ NotFound # 0 /\ (NotFound = 1 => backend = "linux")
BY DEF NotFound

\* A failure of its own explains the code 1.
LEMMA Failed ==
  ASSUME backend \in {"darwin", "linux", "win32"}, NEW a, a.failure # "none", NEW k, k.code = 1
  PROVE  Explained(a, k)
<1>1. k.code # 0
  OBVIOUS
<1>2. k.code = NotFound => backend = "linux"
  BY Codes
<1> QED
  BY <1>1, <1>2 DEF Explained

LEMMA Refused ==
  ASSUME backend \in {"darwin", "linux", "win32"}, NEW a, a.refused, NEW k, k.code = 1
  PROVE  Explained(a, k)
<1>1. k.code # 0
  OBVIOUS
<1>2. k.code = NotFound => backend = "linux"
  BY Codes
<1> QED
  BY <1>1, <1>2 DEF Explained

LEMMA RefusesKeeps == ASSUME CredentialInv, NEW c \in Askers, ChildRefuses(c) PROVE CredentialInv'
<1> DEFINE a == [ask[c] EXCEPT !.refused = TRUE]
<1>1. child[c].pc = "works" /\ ask[c] \in Waiting /\ backend \in {"darwin", "linux", "win32"}
  BY CallWaits DEF ChildRefuses
<1>2. a \in Waiting /\ a.ref = ask[c].ref /\ a.past = ask[c].past /\ a.refused
  BY <1>1 DEF Waiting
<1>3. ask' = [ask EXCEPT ![c] = a] /\ Exits(c, 1, {}) /\ UNCHANGED <<backend, vault, told>>
  BY DEF ChildRefuses
<1> HIDE DEF a
<1> DEFINE k == [pc |-> "closing", code |-> 1, out |-> {}]
<1>4. Explained(a, k) /\ k = [pc |-> "closing", code |-> 1, out |-> {}]
  <2>1. k.code = 1
    OBVIOUS
  <2> HIDE DEF k
  <2>2. Explained(a, k)
    BY <1>1, <1>2, <2>1, Refused
  <2> QED
    BY <2>2 DEF k
<1> HIDE DEF k
<1> QED
  BY <1>1, <1>2, <1>3, <1>4, ExitsKeeps

LEMMA KilledKeeps == ASSUME CredentialInv, NEW c \in Askers, ChildIsKilled(c) PROVE CredentialInv'
<1>1. /\ child[c].pc = "works" /\ ask[c] \in Waiting /\ ask[c].failure # "none"
      /\ backend \in {"darwin", "linux", "win32"}
  BY CallWaits DEF ChildIsKilled
<1>2. ask' = [ask EXCEPT ![c] = ask[c]] /\ Exits(c, 1, {}) /\ UNCHANGED <<backend, vault, told>>
  BY DEF ChildIsKilled, CredentialInv, CredentialTypes
<1> DEFINE k == [pc |-> "closing", code |-> 1, out |-> {}]
<1>3. Explained(ask[c], k) /\ k = [pc |-> "closing", code |-> 1, out |-> {}]
  <2>1. k.code = 1
    OBVIOUS
  <2> HIDE DEF k
  <2>2. Explained(ask[c], k)
    BY <1>1, <2>1, Failed
  <2> QED
    BY <2>2 DEF k
<1> HIDE DEF k
<1> QED
  BY <1>1, <1>2, <1>3, ExitsKeeps

LEMMA PrintsKeeps == ASSUME CredentialInv, NEW c \in Askers, ChildPrints(c) PROVE CredentialInv'
<1>1. /\ child[c].pc = "works" /\ ask[c] \in Waiting /\ ask[c].op = "get"
      /\ Entry(ask[c].ref) \in ask[c].past /\ backend \in {"darwin", "linux", "win32"}
      /\ UNCHANGED <<backend, vault, told>>
  BY CallWaits DEF ChildPrints
<1>2. [ask EXCEPT ![c] = ask[c]] = ask
  BY DEF CredentialInv, CredentialTypes
<1>3. CASE Entry(ask[c].ref) = {}
  <2>1. Exits(c, NotFound, {}) /\ ask' = [ask EXCEPT ![c] = ask[c]]
    BY <1>2, <1>3 DEF ChildPrints
  <2>2. Explained(ask[c], [pc |-> "closing", code |-> NotFound, out |-> {}])
    BY <1>1, <1>3, Codes DEF Explained
  <2> QED
    BY <1>1, <2>1, <2>2, Codes, ExitsKeeps
<1>4. CASE Entry(ask[c].ref) # {}
  <2>1. PICK e \in Entry(ask[c].ref) :
          LET printed == IF backend = "darwin" THEN [e.secret EXCEPT !.newlines = @ + 1] ELSE e.secret IN
          IF Size(printed) > SecretLimit
          THEN /\ Exits(c, 0, {})
               /\ ask' = [ask EXCEPT ![c].failure = IF @ = "none" THEN "output" ELSE @]
          ELSE Exits(c, 0, {[e EXCEPT !.secret = printed]}) /\ UNCHANGED ask
    BY <1>4 DEF ChildPrints
  <2> DEFINE printed == IF backend = "darwin" THEN [e.secret EXCEPT !.newlines = @ + 1] ELSE e.secret
             o == [e EXCEPT !.secret = printed]
  <2>2. e \in Stored /\ e.target = Target(e.by) /\ e.target = Target(ask[c].ref)
    BY CallWaits, <1>1 DEF Entry
  <2>3. e.secret \in Given
    BY <2>2 DEF Stored
  <2>4. /\ printed \in Given /\ printed.text = e.secret.text
        /\ Size(WithoutNewline(printed)) = 0 => Size(WithoutNewline(e.secret)) = 0
    <3>1. CASE backend = "darwin"
      <4>1. printed = [e.secret EXCEPT !.newlines = @ + 1]
        BY <3>1
      <4>2. /\ [e.secret EXCEPT !.newlines = @ + 1] \in Given
            /\ [e.secret EXCEPT !.newlines = @ + 1].text = e.secret.text
            /\ WithoutNewline([e.secret EXCEPT !.newlines = @ + 1]) = e.secret
            /\ (Size(e.secret) = 0 => WithoutNewline(e.secret) = e.secret)
        BY <2>3, SecretKeepsItsText
      <4> HIDE DEF printed
      <4> QED
        BY <4>1, <4>2
    <3>2. CASE backend # "darwin"
      BY <2>3, <3>2
    <3> QED
      BY <3>1, <3>2
  <2> HIDE DEF printed
  <2>5. o \in Stored /\ o.by = e.by /\ o.secret = printed
    BY <2>2, <2>4 DEF Stored
  <2> HIDE DEF o
  <2>6. CASE Size(printed) > SecretLimit
    <3> DEFINE a == [ask[c] EXCEPT !.failure = IF ask[c].failure = "none" THEN "output" ELSE ask[c].failure]
    <3>1. a \in Waiting /\ a.ref = ask[c].ref /\ a.past = ask[c].past /\ a.failure # "none" /\ a.op = "get"
      BY <1>1 DEF Waiting
    <3>2. Exits(c, 0, {}) /\ ask' = [ask EXCEPT ![c] = a]
      BY <2>1, <2>6 DEF printed
    <3> HIDE DEF a
    <3>3. Explained(a, [pc |-> "closing", code |-> 0, out |-> {}])
      BY <1>1, <3>1, Codes DEF Explained
    <3> QED
      BY <1>1, <3>1, <3>2, <3>3, ExitsKeeps
  <2>7. CASE ~(Size(printed) > SecretLimit)
    <3>1. Exits(c, 0, {o}) /\ ask' = [ask EXCEPT ![c] = ask[c]]
      BY <1>2, <2>1, <2>7 DEF printed, o
    <3>2. Printed(ask[c], o)
      BY <1>1, <2>2, <2>4, <2>5 DEF Printed
    <3>3. Explained(ask[c], [pc |-> "closing", code |-> 0, out |-> {o}])
      BY <1>1, <3>2, Codes DEF Explained
    <3> QED
      BY <1>1, <2>5, <3>1, <3>3, ExitsKeeps
  <2> QED
    BY <2>6, <2>7
<1> QED
  BY <1>3, <1>4

LEMMA TimesOutKeeps == ASSUME CredentialInv, NEW c \in Askers, TimesOutAsk(c) PROVE CredentialInv'
<1> DEFINE a == [ask[c] EXCEPT !.failure = "timeout"]
<1>1. /\ ask[c] \in Waiting /\ child[c] \in Children /\ child[c].pc # "none"
      /\ Entry(ask[c].ref) \in ask[c].past
  BY CallWaits DEF TimesOutAsk
<1>2. a \in Waiting /\ a.pc = "waits" /\ a.ref = ask[c].ref /\ a.past = ask[c].past /\ a.failure = "timeout"
      /\ a.op = ask[c].op /\ a.given = ask[c].given
  BY <1>1 DEF Waiting
<1>3. /\ ask' = [ask EXCEPT ![c] = a] /\ child' = [child EXCEPT ![c] = child[c]]
      /\ UNCHANGED <<backend, vault, told>>
  BY DEF TimesOutAsk, CredentialInv, CredentialTypes
<1> HIDE DEF a
<1>4. child[c].pc = "closing" => Explained(ask[c], child[c])
  BY DEF CredentialInv
<1>5. child[c].pc = "closing" => Explained(a, child[c])
  BY <1>2, <1>4 DEF Explained, Printed
<1> QED
  BY <1>1, <1>2, <1>3, <1>5, CallGoesOn DEF Calls

LEMMA CannotSpawnKeeps == ASSUME CredentialInv, NEW c \in Askers, CannotSpawn(c) PROVE CredentialInv'
<1>1. /\ ask' = [ask EXCEPT ![c] = NoAsk] /\ child' = [child EXCEPT ![c] = NoChild]
      /\ UNCHANGED <<backend, vault, told>>
  BY DEF CannotSpawn
<1>2. NoAsk \in Calls /\ NoChild \in Children /\ NoAsk.pc = "idle" /\ NoChild.pc = "none"
  BY DEF NoAsk, NoChild, Calls, Children
<1> QED
  BY <1>1, <1>2, CallGoesOn

-----------------------------------------------------------------------------
(* The steps that change the store, or end a call. *)

\* A store changes for everybody who asks for the same target.
LEMMA WitnessedKeeps ==
  ASSUME CredentialInv, UNCHANGED <<backend, told>>, NEW c \in Askers, child[c].pc = "works",
         NEW found \in SUBSET Stored, \A e \in found : e.target = Target(ask[c].ref) /\ e.target = Target(e.by),
         vault' = (vault \ Entry(ask[c].ref)) \cup found, Witnessed(found, Target(ask[c].ref)),
         NEW code \in Nat, Exits(c, code, {}),
         NEW a, a = [ask[c] EXCEPT !.past = @ \cup {found}],
         Explained(a, [pc |-> "closing", code |-> code, out |-> {}])
  PROVE  CredentialInv'
<1> DEFINE k == [pc |-> "closing", code |-> code, out |-> {}]
<1>1. k \in Children /\ k.pc = "closing"
  BY DEF Children
<1>2. /\ child'[c] = k /\ \A d \in Askers \ {c} : child'[d] = child[d]
      /\ child' \in [Askers -> Children]
  BY <1>1 DEF Exits, CredentialInv, CredentialTypes
<1>3. ask[c] \in Waiting /\ ask[c].pc = "waits"
  BY CallWaits
<1>4. \A d \in Askers : \/ ask'[d] = ask[d] /\ (ask[d].pc = "waits" => Target(ask[d].ref) # Target(ask[c].ref))
                        \/ /\ ask[d].pc = "waits" /\ ask[d] \in Waiting /\ Target(ask[d].ref) = Target(ask[c].ref)
                           /\ ask'[d] = [ask[d] EXCEPT !.past = @ \cup {found}]
  BY CallWaits DEF Witnessed
<1> DEFINE Same(d) == /\ ask'[d] \in Waiting /\ ask'[d].pc = "waits" /\ ask'[d].ref = ask[d].ref
                      /\ ask'[d].op = ask[d].op /\ ask'[d].given = ask[d].given
                      /\ ask'[d].failure = ask[d].failure /\ ask'[d].refused = ask[d].refused
                      /\ ask'[d].past = ask[d].past \cup {found}
<1>5. \A d \in Askers : ask'[d] = ask[d] \/ Same(d)
  <2> SUFFICES ASSUME NEW d \in Askers, ask[d] \in Waiting, ask'[d] = [ask[d] EXCEPT !.past = @ \cup {found}]
               PROVE  Same(d)
    BY <1>4
  <2> QED
    BY DEF Waiting
<1>6. ask' \in [Askers -> Calls]
  <2>1. \A d \in Askers : ask'[d] \in Calls
    BY <1>5 DEF CredentialInv, CredentialTypes, Calls
  <2> QED
    BY <2>1 DEF Witnessed
<1>7. ask'[c] = a
  BY <1>3, <1>4
<1>8. CredentialTypes'
  <2>1. \A r : Target(r)' = Target(r)
    BY DEF Target
  <2>2. Calls' = Calls /\ Children' = Children /\ Stored' = Stored
    BY SameBackend
  <2> QED
    BY <1>2, <1>6, <2>1, <2>2 DEF CredentialInv, CredentialTypes
<1>9. AllOver'
  <2>1. \A d \in Askers : ask'[d].pc = ask[d].pc
    BY ZenonT(60), <1>4, <1>5
  <2> QED
    BY <1>2, <1>3, <2>1 DEF CredentialInv, CredentialsAgree, AllOver
<1>10. \A r : Target(r)' = Target(r) /\ Entry(r)' = IF Target(r) = Target(ask[c].ref) THEN found ELSE Entry(r)
  BY DEF Entry, Target
<1>11. \A d \in Askers : Follows(d)'
  <2> SUFFICES ASSUME NEW d \in Askers, ask'[d].pc = "waits"
               PROVE  Entry(ask[d].ref)' \in ask'[d].past /\ child'[d].pc # "none"
    BY DEF Follows
  <2>1. ask[d].pc = "waits" /\ ask'[d].ref = ask[d].ref
    BY <1>4, <1>5
  <2>2. Entry(ask[d].ref) \in ask[d].past /\ child[d].pc # "none"
    BY <2>1, CallWaits
  <2>3. child'[d].pc # "none"
    BY <1>1, <1>2, <2>2
  <2>4. CASE Target(ask[d].ref) = Target(ask[c].ref)
    <3>1. ask'[d] = [ask[d] EXCEPT !.past = @ \cup {found}] /\ ask[d] \in Waiting
      BY <1>4, <2>1, <2>4
    <3>2. ask'[d].past = ask[d].past \cup {found}
      BY <3>1 DEF Waiting
    <3>3. Entry(ask[d].ref)' = found
      BY <1>10, <2>1, <2>4 DEF Entry, Target
    <3> QED
      BY <2>3, <3>2, <3>3
  <2>5. CASE Target(ask[d].ref) # Target(ask[c].ref)
    <3>1. Entry(ask[d].ref)' = Entry(ask[d].ref)
      BY <1>10, <2>1, <2>5 DEF Entry, Target
    <3> QED
      BY <1>5, <2>2, <2>3, <3>1
  <2> QED
    BY <2>4, <2>5
<1>12. \A b, l : Explained(b, l)' <=> Explained(b, l)
  BY DEF Explained, NotFound, Printed, Target
<1>13. \A d \in Askers : child'[d].pc = "closing" => Explained(ask[d], child[d])'
  <2> SUFFICES ASSUME NEW d \in Askers, child'[d].pc = "closing" PROVE Explained(ask[d], child[d])'
    OBVIOUS
  <2>1. CASE d = c
    BY <1>2, <1>7, <1>12, <2>1
  <2>2. CASE d # c
    <3>1. child'[d] = child[d] /\ Explained(ask[d], child[d])
      BY <1>2, <2>2 DEF CredentialInv
    <3>2. Explained(ask'[d], child[d])
      BY <1>5, <3>1 DEF Explained, Printed
    <3> QED
      BY <1>12, <3>1, <3>2
  <2> QED
    BY <2>1, <2>2
<1>14. \A t : Truthful(t)' <=> Truthful(t)
  BY DEF Truthful, Target
<1>15. CredentialsAgree'
  BY <1>9, <1>14 DEF CredentialInv, CredentialsAgree
<1> QED
  BY <1>8, <1>9, <1>11, <1>13, <1>15 DEF CredentialInv

LEMMA StoresKeeps == ASSUME CredentialInv, NEW c \in Askers, ChildStores(c) PROVE CredentialInv'
<1>1. /\ child[c].pc = "works" /\ ask[c].op = "set" /\ ask[c] \in Waiting /\ ask[c].ref \in References
      /\ UNCHANGED <<backend, told>> /\ Exits(c, 0, {}) /\ backend \in {"darwin", "linux", "win32"}
  BY CallWaits DEF ChildStores
<1>2. PICK secret \in ask[c].given :
        LET new == [target |-> Target(ask[c].ref), secret |-> secret, by |-> ask[c].ref] IN
        vault' = (vault \ Entry(ask[c].ref)) \cup {new} /\ Witnessed({new}, new.target)
  BY DEF ChildStores
<1> DEFINE new == [target |-> Target(ask[c].ref), secret |-> secret, by |-> ask[c].ref]
           a == [ask[c] EXCEPT !.past = @ \cup {{new}}]
           k == [pc |-> "closing", code |-> 0, out |-> {}]
<1>3. secret \in Given
  BY <1>1 DEF Waiting
<1>4. new \in Stored /\ new.target = Target(ask[c].ref) /\ new.target = Target(new.by) /\ new.secret = secret
  BY <1>1, <1>3 DEF Stored
<1>5. vault' = (vault \ Entry(ask[c].ref)) \cup {new} /\ Witnessed({new}, Target(ask[c].ref))
  BY <1>2
<1> HIDE DEF new
<1>6. a.op = "set" /\ a.given = ask[c].given /\ {new} \in a.past
  BY <1>1 DEF Waiting
<1>7. k.code = 0 /\ NotFound # 0
  BY <1>1, Codes
<1>8. Explained(a, k)
  <2> HIDE DEF a, k
  <2> QED
    BY <1>4, <1>6, <1>7 DEF Explained
<1> QED
  BY <1>1, <1>4, <1>5, <1>8, WitnessedKeeps

LEMMA DeletesKeeps == ASSUME CredentialInv, NEW c \in Askers, ChildDeletes(c) PROVE CredentialInv'
<1> DEFINE code == IF Entry(ask[c].ref) = {} THEN NotFound ELSE 0
           a == [ask[c] EXCEPT !.past = @ \cup {{}}]
           k == [pc |-> "closing", code |-> code, out |-> {}]
<1>1. /\ child[c].pc = "works" /\ ask[c].op = "delete" /\ ask[c] \in Waiting
      /\ UNCHANGED <<backend, told>> /\ Exits(c, code, {}) /\ backend \in {"darwin", "linux", "win32"}
  BY CallWaits DEF ChildDeletes
<1>2. vault' = (vault \ Entry(ask[c].ref)) \cup {} /\ Witnessed({}, Target(ask[c].ref))
  BY DEF ChildDeletes
<1>3. code \in Nat
  BY <1>1, Codes
<1>4. a.op = "delete" /\ {} \in a.past
  BY <1>1 DEF Waiting
<1>5. Explained(a, k)
  <2> HIDE DEF a, code
  <2> QED
    BY <1>4 DEF Explained
<1> HIDE DEF code
<1> QED
  BY <1>1, <1>2, <1>3, <1>5, WitnessedKeeps

\* The call is told what came of it.
LEMMA AnswerIsTrue ==
  ASSUME CredentialInv, NEW c \in Askers, child[c].pc = "closing", ask[c].failure = "none",
         NEW missing \in BOOLEAN, missing = (ask[c].op # "set" /\ child[c].code = NotFound),
         child[c].code = 0 \/ missing,
         NEW out, out = {[e EXCEPT !.secret = WithoutNewline(e.secret)] : e \in child[c].out}
  PROVE  Truthful([op |-> ask[c].op, ref |-> ask[c].ref, given |-> ask[c].given, past |-> ask[c].past,
                   refused |-> ask[c].refused, found |-> ~missing /\ (\A e \in out : Size(e.secret) > 0), out |-> out])
<1> DEFINE a == ask[c]
           k == child[c]
           t == [op |-> ask[c].op, ref |-> ask[c].ref, given |-> ask[c].given, past |-> ask[c].past,
                 refused |-> ask[c].refused, found |-> ~missing /\ (\A e \in out : Size(e.secret) > 0), out |-> out]
<1>1. /\ t.op = a.op /\ t.ref = a.ref /\ t.given = a.given /\ t.past = a.past /\ t.refused = a.refused
      /\ (t.found <=> (~missing /\ (\A e \in out : Size(e.secret) > 0))) /\ t.out = out
  OBVIOUS
<1>2. /\ a \in Waiting /\ a.ref \in References /\ k \in Children /\ backend \in {"darwin", "linux", "win32"}
      /\ Explained(a, k) /\ NotFound # 0
  BY CallWaits, Codes DEF CredentialInv
<1>3. k.out \in SUBSET Stored
  BY <1>2 DEF Children, NoChild
<1>4. \A o \in out : \E q \in k.out :
         /\ q \in Stored /\ o.by = q.by /\ o.secret = WithoutNewline(q.secret)
         /\ o.secret.text = q.secret.text /\ Size(o.secret) \in Nat
  <2> SUFFICES ASSUME NEW q \in k.out
               PROVE  LET o == [q EXCEPT !.secret = WithoutNewline(q.secret)] IN
                      /\ q \in Stored /\ o.by = q.by /\ o.secret = WithoutNewline(q.secret)
                      /\ o.secret.text = q.secret.text /\ Size(o.secret) \in Nat
    OBVIOUS
  <2>1. q \in Stored /\ q.secret \in Given
    BY <1>3 DEF Stored
  <2>2. WithoutNewline(q.secret) \in Given /\ WithoutNewline(q.secret).text = q.secret.text
    BY <2>1, SecretKeepsItsText
  <2>3. Size(WithoutNewline(q.secret)) \in Nat
    BY <2>2, SecretKeepsItsText
  <2> QED
    BY <2>1, <2>2, <2>3 DEF Stored
<1>5. CASE a.op = "get" /\ ~missing
  <2>1. (k.out = {} => a.failure # "none") /\ \A o \in k.out : Printed(a, o)
    BY <1>2, <1>5 DEF Explained
  <2>2. CASE \A e \in out : Size(e.secret) > 0
    <3>0. ASSUME NEW o \in out
          PROVE  /\ \E found \in a.past : \E e \in found : e.by = o.by /\ e.secret.text = o.secret.text
                 /\ \/ o.by = a.ref
                    \/ backend = "win32" /\ \E ref \in References \ {a.ref} : Target(ref) = Target(a.ref)
      <4>1. PICK q \in k.out : q \in Stored /\ o.by = q.by /\ o.secret.text = q.secret.text
        BY <1>4
      <4>2. PICK found \in a.past : \E e \in found :
               e.by = q.by /\ e.secret.text = q.secret.text /\ Target(e.by) = Target(a.ref)
        BY <2>1 DEF Printed
      <4>3. o.by \in References /\ Target(o.by) = Target(a.ref)
        BY <4>1, <4>2 DEF Stored
      <4> QED
        BY <1>2, <4>1, <4>2, <4>3, TargetsDiffer
    <3> HIDE DEF t, a
    <3>1. t.op = "get" /\ t.past = a.past /\ t.out = out /\ t.ref = a.ref
      BY <1>1, <1>5
    <3>3. t.found
      BY <1>1, <1>5, <2>2
    <3>4. \A o \in t.out :
            /\ \E found \in t.past : \E e \in found : e.by = o.by /\ e.secret.text = o.secret.text
            /\ \/ o.by = t.ref
               \/ backend = "win32" /\ \E ref \in References \ {t.ref} : Target(ref) = Target(t.ref)
      BY <3>0, <3>1
    <3>2. Truthful(t)
      BY <3>1, <3>3, <3>4 DEF Truthful
    <3> QED
      BY <3>2 DEF t
  <2>3. CASE ~(\A e \in out : Size(e.secret) > 0)
    <3>1. PICK o \in out : ~(Size(o.secret) > 0)
      BY <2>3
    <3>2. PICK q \in k.out : o.secret = WithoutNewline(q.secret) /\ Size(o.secret) \in Nat
      BY <1>4
    <3>3. Size(WithoutNewline(q.secret)) = 0
      BY <3>1, <3>2
    <3>4. \E found \in a.past : \E e \in found : Size(WithoutNewline(e.secret)) = 0
      BY <2>1, <3>3 DEF Printed
    <3>5. t.op = "get" /\ ~t.found /\ t.past = a.past
      BY <1>1, <1>5, <2>3
    <3> HIDE DEF t, a
    <3>6. Truthful(t)
      BY <3>4, <3>5 DEF Truthful
    <3> QED
      BY <3>6 DEF t
  <2> QED
    BY <2>2, <2>3
<1>6. CASE a.op # "get" \/ missing
  <2>1. /\ a.op = "set" => \E found \in a.past : \E e \in found : e.secret \in a.given
        /\ a.op # "set" => {} \in a.past \/ (backend = "linux" /\ a.refused)
    <3>1. k.code = 0 \/ k.code = NotFound
      OBVIOUS
    <3>2. a.op \in {"get", "set", "delete"} /\ a.failure = "none"
      BY <1>2 DEF Waiting
    <3>3. a.op = "set" => k.code = 0
      OBVIOUS
    <3>4. a.op = "get" => k.code = NotFound
      BY <1>6
    <3> HIDE DEF a, k
    <3> QED
      BY <1>2, <3>1, <3>2, <3>3, <3>4 DEF Explained
  <2>2. t.op = a.op /\ t.past = a.past /\ t.given = a.given /\ t.refused = a.refused
        /\ (t.op = "get" => ~t.found)
    BY <1>1, <1>6
  <2> HIDE DEF t, a
  <2>3. Truthful(t)
    BY <2>1, <2>2 DEF Truthful
  <2> QED
    BY <2>3 DEF t
<1> QED
  BY <1>5, <1>6

LEMMA ClosesKeeps == ASSUME CredentialInv, NEW c \in Askers, ChildCloses(c) PROVE CredentialInv'
<1> DEFINE missing == ask[c].op # "set" /\ child[c].code = NotFound
           out == {[e EXCEPT !.secret = WithoutNewline(e.secret)] : e \in child[c].out}
           t == [op |-> ask[c].op, ref |-> ask[c].ref, given |-> ask[c].given, past |-> ask[c].past,
                 refused |-> ask[c].refused, found |-> ~missing /\ (\A e \in out : Size(e.secret) > 0), out |-> out]
           news == IF ask[c].failure # "none" \/ (child[c].code # 0 /\ ~missing) THEN {} ELSE {t}
<1>1. /\ ask[c].pc = "waits" /\ child[c].pc = "closing" /\ told' = [told EXCEPT ![c] = news]
      /\ ask' = [ask EXCEPT ![c] = NoAsk] /\ child' = [child EXCEPT ![c] = NoChild]
      /\ UNCHANGED <<backend, vault>>
  BY DEF ChildCloses
<1>2. \A u \in news : Truthful(u)
  <2> SUFFICES ASSUME ask[c].failure = "none", child[c].code = 0 \/ missing PROVE Truthful(t)
    OBVIOUS
  <2> QED
    BY <1>1, AnswerIsTrue
<1> HIDE DEF news
<1>3. NoAsk \in Calls /\ NoChild \in Children /\ NoAsk.pc = "idle" /\ NoChild.pc = "none"
  BY DEF NoAsk, NoChild, Calls, Children
<1>4. /\ ask'[c] = NoAsk /\ child'[c] = NoChild /\ told'[c] = news /\ DOMAIN told' = Askers
      /\ \A d \in Askers \ {c} : ask'[d] = ask[d] /\ child'[d] = child[d] /\ told'[d] = told[d]
  BY <1>1 DEF CredentialInv, CredentialTypes
<1>5. CredentialTypes'
  <2>1. \A r : Target(r)' = Target(r)
    BY <1>1 DEF Target
  <2>2. Calls' = Calls /\ Children' = Children /\ Stored' = Stored
    BY <1>1, SameBackend
  <2> QED
    BY <1>1, <1>3, <1>4, <2>1, <2>2 DEF CredentialInv, CredentialTypes
<1>6. AllOver'
  BY <1>3, <1>4 DEF CredentialInv, CredentialsAgree, AllOver
<1>7. \A r : Entry(r)' = Entry(r)
  BY <1>1 DEF Entry, Target
<1>8. \A d \in Askers : Follows(d)'
  BY <1>3, <1>4, <1>7 DEF CredentialInv, Follows
<1>9. \A b, l : Explained(b, l)' <=> Explained(b, l)
  BY <1>1 DEF Explained, NotFound, Printed, Target
<1>10. \A d \in Askers : child'[d].pc = "closing" => Explained(ask[d], child[d])'
  BY <1>3, <1>4, <1>9 DEF CredentialInv
<1>11. \A u : Truthful(u)' <=> Truthful(u)
  BY <1>1 DEF Truthful, Target
<1>12. CredentialsAgree'
  BY <1>2, <1>4, <1>6, <1>11 DEF CredentialInv, CredentialsAgree
<1> QED
  BY <1>5, <1>6, <1>8, <1>10, <1>12 DEF CredentialInv

LEMMA CredentialInvariant == ASSUME CredentialInv, [CredentialNext]_credentialVars PROVE CredentialInv'
<1>1. CASE UNCHANGED credentialVars
  <2> USE <1>1 DEF credentialVars
  <2>1. \A r : Target(r)' = Target(r) /\ Entry(r)' = Entry(r)
    BY DEF Target, Entry
  <2>2. Calls' = Calls /\ Children' = Children /\ Stored' = Stored
    BY SameBackend
  <2>3. CredentialTypes'
    BY <2>1, <2>2 DEF CredentialInv, CredentialTypes
  <2>4. AllOver' /\ \A c \in Askers : Follows(c)'
    BY <2>1 DEF CredentialInv, CredentialsAgree, AllOver, Follows
  <2>5. \A b, l : Explained(b, l)' <=> Explained(b, l)
    BY DEF Explained, NotFound, Printed, Target
  <2>6. \A u : Truthful(u)' <=> Truthful(u)
    BY DEF Truthful, Target
  <2>7. CredentialsAgree'
    BY <2>4, <2>6 DEF CredentialInv, CredentialsAgree
  <2> QED
    BY <2>3, <2>4, <2>5, <2>7 DEF CredentialInv
<1>2. ASSUME NEW c \in Askers, GetCredential(c) \/ DeleteCredential(c) \/ SetCredential(c) PROVE CredentialInv'
  <2>1. ASSUME NEW r \in References, NEW s \in Secrets, Asks(c, "set", r, {WithoutNewline(s)}) PROVE CredentialInv'
    <3>1. s \in Given
      BY CredentialAssumption DEF Given, SecretTexts
    <3>2. {WithoutNewline(s)} \in SUBSET Given
      BY <3>1, SecretKeepsItsText
    <3> QED
      BY <2>1, <3>2, AsksKeeps
  <2>2. ASSUME NEW r \in References, NEW op \in {"get", "delete"}, Asks(c, op, r, {}) PROVE CredentialInv'
    BY <2>2, AsksKeeps
  <2> QED
    BY <1>2, <2>1, <2>2 DEF GetCredential, DeleteCredential, SetCredential
<1>3. ASSUME NEW c \in Askers,
             \/ ChildStores(c) \/ ChildDeletes(c) \/ ChildPrints(c) \/ ChildRefuses(c) \/ ChildIsKilled(c)
             \/ TimesOutAsk(c) \/ CannotSpawn(c) \/ ChildCloses(c)
      PROVE  CredentialInv'
  BY <1>3, StoresKeeps, DeletesKeeps, PrintsKeeps, RefusesKeeps, KilledKeeps, TimesOutKeeps, CannotSpawnKeeps,
     ClosesKeeps
<1> QED
  BY <1>1, <1>2, <1>3 DEF CredentialNext

-----------------------------------------------------------------------------
(* Together. *)

\* What is recorded of runtime tools is what is in their directories, while plans
\* are applied one at a time and nobody edits a generated skill
\* (installRuntimeTool, removeRuntimeTool).
THEOREM ToolsAreRecorded == ToolSpec => [](ToolTypeOK /\ ToolStateAgrees)
BY ToolInvariant, ToolsAreSound, PTL

\* Every job that is loaded runs at the time that its unit file names, whatever
\* commands fail, until a process dies or an unloading fails unnoticed
\* (applyNativeSchedulerBundle, rollback).
THEOREM JobsFollowUnits == JobSpec => []JobsMatchUnits
<1>1. JobInv /\ [JobNext]_jobVars => JobInv'
  BY JobInvariant
<1> QED
  BY <1>1, JobsBegin, JobsAreSound, PTL DEF JobSpec

\* What a command says of a secret was so at some time while it ran, whatever the
\* store's helper prints or refuses and whenever it is killed (credentials.ts).
THEOREM AnswersAboutSecrets == CredentialSpec => []CredentialsAgree
<1>1. CredentialInv /\ [CredentialNext]_credentialVars => CredentialInv'
  BY CredentialInvariant
<1>2. CredentialInv => CredentialsAgree
  BY DEF CredentialInv
<1> QED
  BY <1>1, <1>2, CredentialsBegin, PTL DEF CredentialSpec

AllHosts == ToolInv /\ JobInv /\ HostInv /\ ShakeTypeOK /\ CredentialInv

\* What Loadout does to its host, as one instance (MCHosts): tools, jobs,
\* configuration entries, the handshake and secrets, for all constants.
THEOREM HostsAreSound == MCSpec => []HostsSound
<1>1. MCInit => AllHosts
  BY ToolInitInv, JobsBegin, HostInitInv, ShakeBegins, CredentialsBegin DEF MCInit, AllHosts
<1>2. AllHosts /\ [MCNext]_<<focus, toolVars, jobVars, hostVars, shakeVars, outboxVars, healthVars, credentialVars>>
        => AllHosts'
  <2> SUFFICES ASSUME AllHosts,
                      [MCNext]_<<focus, toolVars, jobVars, hostVars, shakeVars, outboxVars, healthVars, credentialVars>>
               PROVE  AllHosts'
    OBVIOUS
  <2>1. /\ [ToolNext]_toolVars /\ [JobNext]_jobVars /\ [HostNext]_hostVars
        /\ [ShakeNext]_shakeVars /\ [CredentialNext]_credentialVars
    BY Zenon DEF MCNext
  <2> QED
    BY <2>1, ToolStep, JobInvariant, HostStep, ShakeInvariant, CredentialInvariant DEF AllHosts
<1>3. AllHosts => HostsSound
  BY ToolsAreSound, JobsAreSound DEF AllHosts, HostsSound, HostInv, CredentialInv
<1> QED
  BY <1>1, <1>2, <1>3, PTL DEF MCSpec

-----------------------------------------------------------------------------
(* The score of an agent's stored evidence: sums. *)

\* A set that holds 0, and with every number the next, holds them all.  (The numbers
\* up to one that it lacks would have as many successors, among themselves, less 0.)
LEMMA NumbersByInduction ==
  ASSUME NEW S, 0 \in S, \A n \in Nat : n \in S => n + 1 \in S
  PROVE  \A n \in Nat : n \in S
<1> SUFFICES ASSUME NEW n \in Nat, n \notin S PROVE FALSE
  OBVIOUS
<1> DEFINE T == {k \in 0..n : k \in S}
<1> DEFINE f == [k \in T |-> k + 1]
<1>1. IsFiniteSet(T)
  <2>1. IsFiniteSet(0..n)
    BY FS_Interval
  <2> QED
    BY <2>1, FS_Subset
<1>2. 0 \in T
  OBVIOUS
<1>3. f \in [T -> T \ {0}]
  <2> SUFFICES ASSUME NEW k \in T PROVE k + 1 \in T \ {0}
    OBVIOUS
  <2>1. k # n
    OBVIOUS
  <2> QED
    BY <2>1
<1>4. IsFiniteSet(T \ {0}) /\ Cardinality(T \ {0}) = Cardinality(T) - 1
  BY <1>1, <1>2, FS_RemoveElement
<1>5. Cardinality(T) \in Nat /\ Cardinality(T \ {0}) \in Nat
  BY <1>1, <1>4, FS_CardinalityType
<1>6. PICK x \in T, y \in T : x # y /\ f[x] = f[y]
  <2> HIDE DEF f, T
  <2>1. Cardinality(T \ {0}) < Cardinality(T)
    BY <1>4, <1>5
  <2> QED
    BY <1>1, <1>3, <1>4, <2>1, FS_PigeonHole
<1>7. f[x] = x + 1 /\ f[y] = y + 1
  OBVIOUS
<1> QED
  BY <1>6, <1>7

LEMMA SizeOfPart ==
  ASSUME NEW S, IsFiniteSet(S), NEW T \in SUBSET S
  PROVE  /\ IsFiniteSet(T) /\ Cardinality(T) \in Nat /\ Cardinality(T) <= Cardinality(S)
         /\ (Cardinality(T) = 0 <=> T = {})
         /\ \A x \in T : T \ {x} \in SUBSET S /\ Cardinality(T \ {x}) = Cardinality(T) - 1
BY FS_Subset, FS_CardinalityType, FS_RemoveElement, FS_EmptySet

\* What holds of a set once it holds of the set less any of its elements holds of all parts.
LEMMA PartsByInduction ==
  ASSUME NEW S, IsFiniteSet(S), NEW Good, \A T \in SUBSET S : (\A x \in T : T \ {x} \in Good) => T \in Good
  PROVE  \A T \in SUBSET S : T \in Good
<1> DEFINE N == {n \in Nat : \A T \in SUBSET S : Cardinality(T) = n => T \in Good}
<1>1. 0 \in N
  BY SizeOfPart
<1>2. ASSUME NEW n \in Nat, n \in N PROVE n + 1 \in N
  <2> SUFFICES ASSUME NEW T \in SUBSET S, Cardinality(T) = n + 1 PROVE T \in Good
    OBVIOUS
  <2>1. \A x \in T : T \ {x} \in SUBSET S /\ Cardinality(T \ {x}) = n
    BY SizeOfPart
  <2>2. \A x \in T : T \ {x} \in Good
    BY <1>2, <2>1
  <2> QED
    BY <2>2
<1> HIDE DEF N
<1>3. \A n \in Nat : n \in N
  BY <1>1, <1>2, NumbersByInduction
<1> QED
  BY <1>3, SizeOfPart DEF N

Pick(s) == CHOOSE x \in s : TRUE
Totals(g, f, S) == \A T \in SUBSET S : g[T] = IF T = {} THEN 0 ELSE f[Pick(T)] + g[T \ {Pick(T)}]

LEMMA TotalsExist ==
  ASSUME NEW S, IsFiniteSet(S), NEW f \in [S -> Nat]
  PROVE  \E g \in [SUBSET S -> Nat] : Totals(g, f, S)
<1> DEFINE Upto(g, k) == \A T \in SUBSET S : Cardinality(T) <= k =>
                           g[T] = IF T = {} THEN 0 ELSE f[Pick(T)] + g[T \ {Pick(T)}]
           N == {k \in Nat : \E g \in [SUBSET S -> Nat] : Upto(g, k)}
<1>0. \A T \in SUBSET S : T # {} => Pick(T) \in T /\ Pick(T) \in S /\ f[Pick(T)] \in Nat
  BY DEF Pick
<1>1. 0 \in N
  <2> DEFINE g == [T \in SUBSET S |-> 0]
  <2>1. g \in [SUBSET S -> Nat]
    OBVIOUS
  <2>2. Upto(g, 0)
    <3> SUFFICES ASSUME NEW T \in SUBSET S, Cardinality(T) <= 0 PROVE T = {} /\ g[T] = 0
      OBVIOUS
    <3> QED
      BY SizeOfPart
  <2> HIDE DEF g, Upto
  <2> QED
    BY <2>1, <2>2
<1>2. ASSUME NEW k \in Nat, k \in N PROVE k + 1 \in N
  <2>1. PICK g \in [SUBSET S -> Nat] : Upto(g, k)
    BY <1>2
  <2> DEFINE new == [T \in SUBSET S |-> IF Cardinality(T) = k + 1 THEN f[Pick(T)] + g[T \ {Pick(T)}] ELSE g[T]]
  <2>2. ASSUME NEW T \in SUBSET S, T # {}
        PROVE  /\ Cardinality(T) \in Nat \ {0} /\ T \ {Pick(T)} \in SUBSET S
               /\ Cardinality(T \ {Pick(T)}) = Cardinality(T) - 1 /\ g[T \ {Pick(T)}] \in Nat
    BY <1>0, <2>2, SizeOfPart
  <2>3. new \in [SUBSET S -> Nat]
    <3> SUFFICES ASSUME NEW T \in SUBSET S
                 PROVE  (IF Cardinality(T) = k + 1 THEN f[Pick(T)] + g[T \ {Pick(T)}] ELSE g[T]) \in Nat
      OBVIOUS
    <3>1. CASE Cardinality(T) = k + 1
      <4>1. T # {}
        BY <3>1, SizeOfPart
      <4> QED
        BY <1>0, <2>2, <3>1, <4>1
    <3> QED
      BY <3>1
  <2>4. Upto(new, k + 1)
    <3> SUFFICES ASSUME NEW T \in SUBSET S, Cardinality(T) <= k + 1
                 PROVE  new[T] = IF T = {} THEN 0 ELSE f[Pick(T)] + new[T \ {Pick(T)}]
      OBVIOUS
    <3>1. CASE T = {}
      <4>1. Cardinality(T) = 0
        BY <3>1, FS_EmptySet
      <4>2. g[T] = 0
        BY <2>1, <3>1, <4>1
      <4> QED
        BY <3>1, <4>1, <4>2
    <3>2. CASE T # {}
      <4> DEFINE U == T \ {Pick(T)}
      <4>1. U \in SUBSET S /\ Cardinality(T) \in Nat \ {0} /\ Cardinality(U) = Cardinality(T) - 1
        BY <2>2, <3>2
      <4>2. new[U] = g[U]
        <5> HIDE DEF U
        <5>1. Cardinality(U) # k + 1
          BY <4>1
        <5> QED
          BY <4>1, <5>1
      <4>3. CASE Cardinality(T) = k + 1
        BY <3>2, <4>2, <4>3
      <4>4. CASE Cardinality(T) # k + 1
        <5>1. Cardinality(T) <= k
          BY <4>1, <4>4
        <5>2. g[T] = f[Pick(T)] + g[U]
          BY <2>1, <3>2, <5>1
        <5> QED
          BY <3>2, <4>2, <4>4, <5>2
      <4> QED
        BY <4>3, <4>4
    <3> QED
      BY <3>1, <3>2
  <2> HIDE DEF new, Upto
  <2> QED
    BY <2>3, <2>4
<1>3. Cardinality(S) \in Nat /\ \A T \in SUBSET S : Cardinality(T) <= Cardinality(S)
  BY SizeOfPart, FS_CardinalityType
<1>4. Cardinality(S) \in N
  <2> HIDE DEF N
  <2> QED
    BY <1>1, <1>2, <1>3, NumbersByInduction
<1> QED
  BY <1>3, <1>4 DEF Totals

\* The sum over a part is what the library's fold comes to.
LEMMA SumIsTotal ==
  ASSUME NEW S, IsFiniteSet(S), NEW f \in [S -> Nat], NEW g \in [SUBSET S -> Nat], Totals(g, f, S),
         NEW T \in SUBSET S
  PROVE  SumFunctionOnSet(f, T) = g[T]
<1> DEFINE Defines(it) == it = [U \in SUBSET T |-> IF U = {} THEN 0 ELSE f[Pick(U)] + it[U \ {Pick(U)}]]
           iter == CHOOSE it : Defines(it)
           h == [U \in SUBSET T |-> g[U]]
<1>1. Defines(h)
  <2> SUFFICES ASSUME NEW U \in SUBSET T PROVE h[U] = IF U = {} THEN 0 ELSE f[Pick(U)] + h[U \ {Pick(U)}]
    OBVIOUS
  <2>1. U \in SUBSET S /\ U \ {Pick(U)} \in SUBSET T
    OBVIOUS
  <2>2. h[U] = g[U] /\ h[U \ {Pick(U)}] = g[U \ {Pick(U)}]
    BY <2>1
  <2> HIDE DEF h
  <2> QED
    BY <2>1, <2>2 DEF Totals
<1>2. Defines(iter)
  <2> HIDE DEF Defines, h
  <2> QED
    BY <1>1
<1>3. SumFunctionOnSet(f, T) = iter[T]
  BY Zenon DEF SumFunctionOnSet, FoldFunctionOnSet, MapThenFoldSet, Pick
<1>4. IsFiniteSet(T)
  BY FS_Subset
<1> HIDE DEF iter
<1> DEFINE Good == {U \in SUBSET T : iter[U] = g[U]}
<1>5. ASSUME NEW U \in SUBSET T, \A x \in U : U \ {x} \in Good PROVE U \in Good
  <2>1. iter[U] = IF U = {} THEN 0 ELSE f[Pick(U)] + iter[U \ {Pick(U)}]
    BY <1>2
  <2>2. g[U] = IF U = {} THEN 0 ELSE f[Pick(U)] + g[U \ {Pick(U)}]
    BY DEF Totals
  <2>3. U # {} => iter[U \ {Pick(U)}] = g[U \ {Pick(U)}]
    BY <1>5 DEF Pick
  <2> QED
    BY <2>1, <2>2, <2>3
<1>6. T \in Good
  <2> HIDE DEF Good
  <2> QED
    BY <1>4, <1>5, PartsByInduction
<1> QED
  BY <1>3, <1>6

Sum(f, T) == SumFunctionOnSet(f, T)

\* A sum is its elements' values in any order.
LEMMA SumByElement ==
  ASSUME NEW S, IsFiniteSet(S), NEW f \in [S -> Nat]
  PROVE  /\ Sum(f, {}) = 0 /\ SumFunction(f) = Sum(f, S)
         /\ \A T \in SUBSET S : Sum(f, T) \in Nat /\ \A x \in T : Sum(f, T) = f[x] + Sum(f, T \ {x})
<1>1. PICK g \in [SUBSET S -> Nat] : Totals(g, f, S)
  BY TotalsExist
<1>2. \A T \in SUBSET S : Sum(f, T) = g[T] /\ g[T] \in Nat
  BY <1>1, SumIsTotal DEF Sum
<1>3. Sum(f, {}) = 0
  <2>1. {} \in SUBSET S
    OBVIOUS
  <2> QED
    BY <1>1, <1>2, <2>1 DEF Totals
<1>4. SumFunction(f) = Sum(f, S)
  <2>1. DOMAIN f = S
    OBVIOUS
  <2> QED
    BY <2>1 DEF SumFunction, Sum
<1> DEFINE Good == {T \in SUBSET S : \A x \in T : g[T] = f[x] + g[T \ {x}]}
<1>5. ASSUME NEW T \in SUBSET S, \A x \in T : T \ {x} \in Good PROVE T \in Good
  <2> SUFFICES ASSUME NEW x \in T PROVE g[T] = f[x] + g[T \ {x}]
    OBVIOUS
  <2> DEFINE c == Pick(T)
  <2>1. c \in T /\ g[T] = f[c] + g[T \ {c}]
    BY <1>1 DEF Pick, Totals
  <2> HIDE DEF c
  <2>2. CASE c = x
    BY <2>1, <2>2
  <2>3. CASE c # x
    <3> DEFINE U == T \ {c, x}
    <3>1. U = (T \ {c}) \ {x} /\ U = (T \ {x}) \ {c} /\ x \in T \ {c} /\ c \in T \ {x}
      BY <2>1, <2>3
    <3> HIDE DEF U
    <3>2. g[T \ {c}] = f[x] + g[U] /\ g[T \ {x}] = f[c] + g[U]
      BY <1>5, <2>1, <3>1
    <3>3. f[x] \in Nat /\ f[c] \in Nat /\ g[U] \in Nat
      BY <2>1, <3>1
    <3> QED
      BY <2>1, <3>2, <3>3
  <2> QED
    BY <2>2, <2>3
<1>6. \A T \in SUBSET S : T \in Good
  <2> HIDE DEF Good
  <2> QED
    BY <1>5, PartsByInduction
<1>7. ASSUME NEW T \in SUBSET S, NEW x \in T PROVE Sum(f, T) = f[x] + Sum(f, T \ {x})
  <2>1. T \ {x} \in SUBSET S /\ g[T] = f[x] + g[T \ {x}]
    BY <1>6
  <2> QED
    BY <1>2, <2>1
<1> HIDE DEF Good
<1> QED
  BY <1>2, <1>3, <1>4, <1>7

LEMMA SumTakesOut ==
  ASSUME NEW S, IsFiniteSet(S), NEW f \in [S -> Nat], NEW T \in SUBSET S, NEW x \in T
  PROVE  Sum(f, T) = f[x] + Sum(f, T \ {x})
BY SumByElement

\* Fewer and smaller values make a smaller sum.
LEMMA SumIsLess ==
  ASSUME NEW S, IsFiniteSet(S), NEW f \in [S -> Nat], NEW g \in [S -> Nat],
         NEW T \in SUBSET S, NEW U \in SUBSET T, \A x \in U : f[x] <= g[x]
  PROVE  Sum(f, U) <= Sum(g, T)
<1>1. IsFiniteSet(T)
  BY FS_Subset
<1> DEFINE Good == {V \in SUBSET T : Sum(f, U \cap V) <= Sum(g, V)}
<1>2. ASSUME NEW V \in SUBSET T, \A x \in V : V \ {x} \in Good PROVE V \in Good
  <2>1. CASE V = {}
    <3>1. U \cap V = {}
      BY <2>1
    <3>2. Sum(f, {}) = 0 /\ Sum(g, {}) = 0
      BY SumByElement
    <3> QED
      BY <2>1, <3>1, <3>2
  <2>2. CASE V # {}
    <3>1. PICK x \in V : TRUE
      BY <2>2
    <3> DEFINE W == U \cap (V \ {x})
    <3>2. Sum(f, W) <= Sum(g, V \ {x})
      BY <1>2
    <3>3. Sum(g, V) = g[x] + Sum(g, V \ {x}) /\ Sum(g, V \ {x}) \in Nat /\ g[x] \in Nat /\ Sum(f, W) \in Nat
      <4>1. V \in SUBSET S /\ V \ {x} \in SUBSET S /\ W \in SUBSET S
        OBVIOUS
      <4> HIDE DEF W
      <4> QED
        BY <3>1, <4>1, SumByElement
    <3>4. CASE x \in U
      <4>1. U \cap V \in SUBSET S /\ x \in U \cap V /\ (U \cap V) \ {x} = W
        BY <3>1, <3>4
      <4> HIDE DEF W
      <4>2. Sum(f, U \cap V) = f[x] + Sum(f, W) /\ f[x] \in Nat /\ f[x] <= g[x]
        BY <3>4, <4>1, SumByElement
      <4> QED
        BY <3>2, <3>3, <4>2
    <3>5. CASE x \notin U
      <4>1. U \cap V = W
        BY <3>5
      <4>2. Sum(f, U \cap V) = Sum(f, W)
        BY <4>1
      <4> HIDE DEF W
      <4> QED
        BY <3>2, <3>3, <4>2
    <3> QED
      BY <3>4, <3>5
  <2> QED
    BY <2>1, <2>2
<1>3. T \in Good
  <2> HIDE DEF Good
  <2> QED
    BY <1>1, <1>2, PartsByInduction
<1>4. U \cap T = U
  OBVIOUS
<1> QED
  BY <1>3, <1>4

\* Values up to k sum up to k times their number.
LEMMA SumIsAtMost ==
  ASSUME NEW S, IsFiniteSet(S), NEW f \in [S -> Nat], NEW k \in Nat, \A x \in S : f[x] <= k
  PROVE  SumFunction(f) \in Nat /\ SumFunction(f) <= k * Cardinality(S)
<1> DEFINE Good == {T \in SUBSET S : Sum(f, T) <= k * Cardinality(T)}
<1>1. ASSUME NEW T \in SUBSET S, \A x \in T : T \ {x} \in Good PROVE T \in Good
  <2>1. CASE T = {}
    BY <2>1, SumByElement, FS_EmptySet
  <2>2. CASE T # {}
    <3>1. PICK x \in T : TRUE
      BY <2>2
    <3> DEFINE n == Cardinality(T \ {x})
    <3>2. Sum(f, T \ {x}) <= k * n
      BY <1>1
    <3>3. Cardinality(T) = n + 1 /\ n \in Nat
      BY <3>1, SizeOfPart
    <3>4. Sum(f, T) = f[x] + Sum(f, T \ {x}) /\ Sum(f, T \ {x}) \in Nat
      BY <3>1, SumByElement
    <3>5. f[x] \in Nat /\ f[x] <= k
      OBVIOUS
    <3> HIDE DEF n
    <3>6. k * (n + 1) = k * n + k /\ k * n \in Nat
      BY <3>3
    <3> QED
      BY <3>2, <3>3, <3>4, <3>5, <3>6
  <2> QED
    BY <2>1, <2>2
<1>2. S \in Good
  <2> HIDE DEF Good
  <2> QED
    BY <1>1, PartsByInduction
<1> QED
  BY <1>2, SumByElement

LEMMA SumSplits ==
  ASSUME NEW S, IsFiniteSet(S), NEW f \in [S -> Nat], NEW T \in SUBSET S
  PROVE  Sum(f, S) = Sum(f, T) + Sum(f, S \ T)
<1> DEFINE Good == {V \in SUBSET S : Sum(f, V) = Sum(f, V \cap T) + Sum(f, V \ T)}
<1>1. ASSUME NEW V \in SUBSET S, \A x \in V : V \ {x} \in Good PROVE V \in Good
  <2>1. CASE V = {}
    <3>1. V \cap T = {} /\ V \ T = {}
      BY <2>1
    <3> QED
      BY <2>1, <3>1, SumByElement
  <2>2. CASE V # {}
    <3>1. PICK x \in V : TRUE
      BY <2>2
    <3> DEFINE W == V \ {x}
    <3>2. Sum(f, W) = Sum(f, W \cap T) + Sum(f, W \ T)
      BY <1>1
    <3>3. Sum(f, V) = f[x] + Sum(f, W) /\ f[x] \in Nat
      BY <3>1, SumByElement
    <3>4. W \in SUBSET S
      OBVIOUS
    <3>5. W \cap T \in SUBSET S /\ W \ T \in SUBSET S
      OBVIOUS
    <3>6. Sum(f, W \cap T) \in Nat /\ Sum(f, W \ T) \in Nat
      BY <3>5, SumByElement
    <3>7. CASE x \in T
      <4>1. V \cap T \in SUBSET S /\ x \in V \cap T /\ (V \cap T) \ {x} = W \cap T /\ V \ T = W \ T
        BY <3>1, <3>7
      <4> HIDE DEF W
      <4>2. Sum(f, V \cap T) = f[x] + Sum(f, W \cap T) /\ Sum(f, V \ T) = Sum(f, W \ T)
        <5>1. PICK U, Z : U = V \cap T /\ Z = W \cap T
          OBVIOUS
        <5>2. U \in SUBSET S /\ x \in U /\ U \ {x} = Z
          BY <4>1, <5>1
        <5>3. Sum(f, U) = f[x] + Sum(f, U \ {x})
          BY <5>2, SumTakesOut
        <5> QED
          BY <4>1, <5>1, <5>2, <5>3
      <4> QED
        BY <3>2, <3>3, <3>6, <4>2
    <3>8. CASE x \notin T
      <4>1. V \ T \in SUBSET S /\ x \in V \ T /\ (V \ T) \ {x} = W \ T /\ V \cap T = W \cap T
        BY <3>1, <3>8
      <4> HIDE DEF W
      <4>2. Sum(f, V \ T) = f[x] + Sum(f, W \ T) /\ Sum(f, V \cap T) = Sum(f, W \cap T)
        <5>1. PICK U, Z : U = V \ T /\ Z = W \ T
          OBVIOUS
        <5>2. U \in SUBSET S /\ x \in U /\ U \ {x} = Z
          BY <4>1, <5>1
        <5>3. Sum(f, U) = f[x] + Sum(f, U \ {x})
          BY <5>2, SumTakesOut
        <5> QED
          BY <4>1, <5>1, <5>2, <5>3
      <4> QED
        BY <3>2, <3>3, <3>6, <4>2
    <3> QED
      BY <3>7, <3>8
  <2> QED
    BY <2>1, <2>2
<1>2. S \in Good
  <2> HIDE DEF Good
  <2> QED
    BY <1>1, PartsByInduction
<1>3. S \cap T = T
  OBVIOUS
<1> QED
  BY <1>2, <1>3

\* A sum does not change when its values move elsewhere.
LEMMA SumMoves ==
  ASSUME NEW S, IsFiniteSet(S), NEW f \in [S -> Nat], NEW R, IsFiniteSet(R), NEW g \in [R -> Nat],
         NEW T \in SUBSET S, NEW h \in [T -> R], \A x, y \in T : h[x] = h[y] => x = y, \A x \in T : f[x] = g[h[x]],
         NEW Moved, Moved = {h[x] : x \in T}
  PROVE  Sum(f, T) = Sum(g, Moved)
<1>1. IsFiniteSet(T)
  BY FS_Subset
<1> DEFINE Image(V) == {h[x] : x \in V}
           Good == {V \in SUBSET T : Sum(f, V) = Sum(g, Image(V))}
<1>2. ASSUME NEW V \in SUBSET T, \A x \in V : V \ {x} \in Good PROVE V \in Good
  <2>1. CASE V = {}
    <3>1. Image(V) = {}
      BY <2>1
    <3> HIDE DEF Image
    <3> QED
      BY <2>1, <3>1, SumByElement
  <2>2. CASE V # {}
    <3>1. PICK x \in V : TRUE
      BY <2>2
    <3>2. Sum(f, V \ {x}) = Sum(g, Image(V \ {x}))
      BY <1>2
    <3>3. V \in SUBSET S /\ Image(V) \in SUBSET R /\ h[x] \in Image(V) /\ Image(V) \ {h[x]} = Image(V \ {x})
      BY <3>1
    <3> HIDE DEF Image
    <3>4. Sum(f, V) = f[x] + Sum(f, V \ {x})
      BY <3>1, <3>3, SumByElement
    <3>5. Sum(g, Image(V)) = g[h[x]] + Sum(g, Image(V \ {x}))
      <4>1. PICK U, y, Z : U = Image(V) /\ y = h[x] /\ Z = Image(V \ {x})
        OBVIOUS
      <4>2. U \in SUBSET R /\ y \in U /\ U \ {y} = Z
        BY <3>3, <4>1
      <4>3. Sum(g, U) = g[y] + Sum(g, U \ {y})
        BY <4>2, SumTakesOut
      <4> QED
        BY <4>1, <4>2, <4>3
    <3> QED
      BY <3>1, <3>2, <3>4, <3>5
  <2> QED
    BY <2>1, <2>2
<1>3. \A V \in SUBSET T : V \in Good
  <2> HIDE DEF Good
  <2> QED
    BY <1>1, <1>2, PartsByInduction
<1> QED
  BY <1>3

-----------------------------------------------------------------------------
(* Quotients. *)

LEMMA LessTimes == ASSUME NEW a \in Nat, NEW b \in Nat, NEW c \in Nat, a <= b PROVE a * c <= b * c /\ c * a <= c * b
<1>1. PICK d \in Nat : b = a + d
  <2>1. b - a \in Nat /\ b = a + (b - a)
    OBVIOUS
  <2> QED
    BY <2>1
<1>2. b * c = a * c + d * c /\ d * c \in Nat /\ a * c \in Nat
  BY <1>1
<1>3. c * b = b * c /\ c * a = a * c
  OBVIOUS
<1> QED
  BY <1>2, <1>3

LEMMA QuotientIs ==
  ASSUME NEW n \in Nat, NEW m \in Nat \ {0}
  PROVE  /\ n \div m \in Nat /\ (n \div m) * m <= n /\ n < (n \div m + 1) * m
OBVIOUS

LEMMA QuotientAtLeast ==
  ASSUME NEW n \in Nat, NEW m \in Nat \ {0}, NEW k \in Nat, k * m <= n
  PROVE  k <= n \div m
<1>1. n \div m \in Nat /\ n < (n \div m + 1) * m
  BY QuotientIs
<1> DEFINE q == n \div m
<1> HIDE DEF q
<1>2. SUFFICES ASSUME ~(k <= q) PROVE FALSE
  BY DEF q
<1>3. q \in Nat /\ n < (q + 1) * m
  BY <1>1 DEF q
<1>4. (q + 1) * m <= k * m
  <2>1. q + 1 \in Nat /\ q + 1 <= k
    BY <1>2, <1>3
  <2> QED
    BY <2>1, LessTimes
<1> QED
  BY <1>3, <1>4

LEMMA QuotientLess ==
  ASSUME NEW c \in Nat, NEW a \in Nat, NEW b \in Nat \ {0}, NEW x \in Nat, NEW y \in Nat \ {0}, x * b <= a * y
  PROVE  (200 * c * x + y) \div (2 * y) <= (200 * c * a + b) \div (2 * b)
<1> DEFINE p == 200 * c * x + y
           n == 200 * c * a + b
           q == p \div (2 * y)
<1>1. p \in Nat /\ n \in Nat /\ 2 * y \in Nat \ {0} /\ 2 * b \in Nat \ {0}
  OBVIOUS
<1>2. q \in Nat /\ q * (2 * y) <= p
  <2> HIDE DEF p
  <2> QED
    BY <1>1, QuotientIs
<1> HIDE DEF q
<1>3. (q * (2 * b)) * y <= n * y
  <2>1. (q * (2 * y)) * b <= p * b
    BY <1>1, <1>2, LessTimes
  <2>2. (q * (2 * y)) * b = (q * (2 * b)) * y
    BY <1>2
  <2>3. p * b = (200 * c) * (x * b) + b * y
    OBVIOUS
  <2>4. n * y = (200 * c) * (a * y) + b * y
    OBVIOUS
  <2>5. (200 * c) * (x * b) <= (200 * c) * (a * y)
    <3>1. x * b \in Nat /\ a * y \in Nat /\ 200 * c \in Nat
      OBVIOUS
    <3> QED
      BY <3>1, LessTimes
  <2>6. b * y \in Nat /\ (200 * c) * (x * b) \in Nat /\ (200 * c) * (a * y) \in Nat /\ (q * (2 * b)) * y \in Nat
    BY <1>2
  <2> HIDE DEF p, n
  <2> QED
    BY <2>1, <2>2, <2>3, <2>4, <2>5, <2>6
<1>4. q * (2 * b) <= n
  <2> DEFINE k == q * (2 * b)
  <2>1. k \in Nat
    BY <1>2
  <2> HIDE DEF k, n
  <2>2. SUFFICES ASSUME n + 1 <= k PROVE FALSE
    BY <1>1, <2>1 DEF k
  <2>3. (n + 1) * y <= k * y
    BY <1>1, <2>1, <2>2, LessTimes
  <2>4. (n + 1) * y = n * y + y /\ n * y \in Nat
    BY <1>1
  <2>5. k * y <= n * y /\ k * y \in Nat
    BY <1>3, <2>1 DEF k
  <2> QED
    BY <2>3, <2>4, <2>5
<1> HIDE DEF n, p
<1>5. q <= n \div (2 * b)
  BY <1>1, <1>2, <1>4, QuotientAtLeast
<1> QED
  BY <1>5 DEF q, n, p

LEMMA QuotientAtMost ==
  ASSUME NEW c \in Nat, NEW a \in Nat, NEW b \in Nat \ {0}, a <= b
  PROVE  (200 * c * a + b) \div (2 * b) \in Nat /\ (200 * c * a + b) \div (2 * b) <= 100 * c
<1> DEFINE n == 200 * c * a + b
           q == n \div (2 * b)
<1>1. n \in Nat /\ 2 * b \in Nat \ {0}
  OBVIOUS
<1>2. q \in Nat /\ q * (2 * b) <= n
  <2> HIDE DEF n
  <2> QED
    BY <1>1, QuotientIs
<1> HIDE DEF q
<1>3. n <= (100 * c) * (2 * b) + b
  <2>1. (200 * c) * a <= (200 * c) * b
    <3>1. 200 * c \in Nat
      OBVIOUS
    <3> QED
      BY <3>1, LessTimes
  <2>2. n = (200 * c) * a + b /\ (100 * c) * (2 * b) = (200 * c) * b /\ (200 * c) * b \in Nat /\ (200 * c) * a \in Nat
    OBVIOUS
  <2> HIDE DEF n
  <2> QED
    BY <2>1, <2>2
<1>4. SUFFICES ASSUME 100 * c + 1 <= q PROVE FALSE
  BY <1>2 DEF q
<1>5. (100 * c + 1) * (2 * b) <= q * (2 * b)
  <2>1. 100 * c + 1 \in Nat /\ 2 * b \in Nat
    OBVIOUS
  <2> QED
    BY <1>2, <1>4, <2>1, LessTimes
<1>6. (100 * c + 1) * (2 * b) = (100 * c) * (2 * b) + 2 * b /\ (100 * c) * (2 * b) \in Nat /\ q * (2 * b) \in Nat
  BY <1>2
<1> HIDE DEF n
<1> QED
  BY <1>1, <1>2, <1>3, <1>5, <1>6

-----------------------------------------------------------------------------
(* The shares of the dimensions. *)

GoodShare(s) == s[1] \in Nat /\ s[2] \in Nat \ {0} /\ s[1] <= s[2]
LessShare(s, t) == s[1] * t[2] <= t[1] * s[2]

\* What has become of the facts, when nothing got better: of the catalog, the disk, the
\* skills, the outcomes and the snapshots.
LowerCatalog(old, new, lost) ==
  \A p \in RatedPackages :
    /\ Verified(new, p) => Verified(old, p)
    /\ Licensed(new, p) => Licensed(old, p)
    /\ FreshnessGrade[Freshness(new, p)] <= FreshnessGrade[Freshness(old, p)]
    /\ Freshness(old, p) = "unknown" => Freshness(new, p) = "unknown"
    /\ lost \/ (Freshness(new, p) = "unknown" => Freshness(old, p) = "unknown")
LowerDisk(old, new) == \A p \in RatedPackages : ~Drifted(new, p) => ~Drifted(old, p)
LowerSkills(old, new) ==
  \A a \in Others \cup {Me} : \A n \in SkillNames :
    old.skills[a][n] <= new.skills[a][n] /\ (old.skills[a][n] = 0 => new.skills[a][n] = 0)
Earned(f) == SumFunction([i \in MyEvents(f) |-> OutcomeValue[f.events[i].result]])
LowerEvents(old, new) ==
  Earned(new) <= Earned(old) /\ Cardinality(MyEvents(old)) <= Cardinality(MyEvents(new))
LowerSnapshots(old, new) == old.torn \subseteq new.torn /\ old.pending <= new.pending
Lower(old, new, lost) ==
  /\ new.installs = old.installs /\ LowerCatalog(old, new, lost) /\ LowerDisk(old, new)
  /\ LowerSkills(old, new) /\ LowerEvents(old, new) /\ LowerSnapshots(old, new)

LEMMA StoredIs ==
  ASSUME NEW f \in StoredFacts
  PROVE  /\ f.catalog \in [RatedPackages -> SUBSET [commit : Words, licensed : BOOLEAN, age : Int]]
         /\ f.installs \in [RatedPackages -> SUBSET [commit : Words, text : Words, place : Words,
                                                     risk : Risks, snapshot : Words]]
         /\ f.skills \in [Others \cup {Me} -> [SkillNames -> Nat]]
         /\ f.events \in Seq([agent : Others \cup {Me}, result : Results])
         /\ f.disk \in [RatedPackages -> [place : Words, text : Words]]
         /\ f.torn \in SUBSET Words /\ f.pending \in Nat
         /\ \A p \in RatedPackages : \A c, d \in f.catalog[p] : c = d
         /\ \A p \in RatedPackages : \A c, d \in f.installs[p] : c = d
         /\ f = [catalog |-> f.catalog, installs |-> f.installs, skills |-> f.skills, events |-> f.events,
                 disk |-> f.disk, torn |-> f.torn, pending |-> f.pending]
BY DEF StoredFacts

LEMMA PresentIs ==
  ASSUME NEW f \in StoredFacts
  PROVE  /\ Present(f) \in SUBSET RatedPackages /\ IsFiniteSet(Present(f)) /\ Cardinality(Present(f)) \in Nat
         /\ Present(f) # {} => Cardinality(Present(f)) # 0
         /\ \A p \in Present(f) : The(f, p) \in f.installs[p] /\ The(f, p).risk \in Risks /\ The(f, p).snapshot \in Words
<1>1. Present(f) \in SUBSET RatedPackages
  BY DEF Present
<1>2. IsFiniteSet(Present(f)) /\ Cardinality(Present(f)) \in Nat /\ (Present(f) # {} => Cardinality(Present(f)) # 0)
  BY <1>1, HealthAssumption, SizeOfPart
<1>3. ASSUME NEW p \in Present(f)
      PROVE  The(f, p) \in f.installs[p] /\ The(f, p).risk \in Risks /\ The(f, p).snapshot \in Words
  <2>1. The(f, p) \in f.installs[p]
    BY DEF Present, The
  <2> QED
    BY <1>1, <2>1, StoredIs
<1> QED
  BY <1>1, <1>2, <1>3

LEMMA FreshnessIs ==
  ASSUME NEW f, NEW p
  PROVE  /\ Freshness(f, p) \in {"fresh", "aging", "stale", "unknown"}
         /\ FreshnessGrade[Freshness(f, p)] \in 0..2
BY DEF Freshness, FreshnessGrade

LEMMA GradesAreGood ==
  ASSUME NEW S, IsFiniteSet(S), S # {}, NEW grade \in [S -> Nat], NEW best \in Nat \ {0}, \A x \in S : grade[x] <= best
  PROVE  GoodShare(Grades(grade, best))
<1>1. DOMAIN grade = S /\ Cardinality(S) \in Nat \ {0}
  BY SizeOfPart
<1>2. SumFunction(grade) \in Nat /\ SumFunction(grade) <= best * Cardinality(S)
  BY SumIsAtMost
<1>3. best * Cardinality(S) \in Nat \ {0}
  BY <1>1
<1> QED
  BY <1>1, <1>2, <1>3 DEF GoodShare, Grades

LEMMA SameWhole ==
  ASSUME NEW a \in Nat, NEW b \in Nat, NEW c \in Nat, a <= b
  PROVE  LessShare(<<a, c>>, <<b, c>>)
BY LessTimes DEF LessShare

LEMMA GradesAreLess ==
  ASSUME NEW S, IsFiniteSet(S), NEW grade \in [S -> Nat], NEW old \in [S -> Nat], NEW best \in Nat,
         \A x \in S : grade[x] <= old[x]
  PROVE  LessShare(Grades(grade, best), Grades(old, best))
<1>1. DOMAIN grade = S /\ DOMAIN old = S /\ Cardinality(S) \in Nat
  BY SizeOfPart
<1>2. SumFunction(grade) \in Nat /\ SumFunction(old) \in Nat /\ SumFunction(grade) <= SumFunction(old)
  <2>1. Sum(grade, S) <= Sum(old, S)
    BY SumIsLess
  <2>2. Sum(grade, S) \in Nat /\ Sum(old, S) \in Nat /\ SumFunction(grade) = Sum(grade, S) /\ SumFunction(old) = Sum(old, S)
    BY SumByElement
  <2> QED
    BY <2>1, <2>2
<1>3. best * Cardinality(S) \in Nat
  BY <1>1
<1> QED
  BY <1>1, <1>2, <1>3, SameWhole DEF Grades

ProvenanceGrade(f) == [p \in Present(f) |-> (IF Verified(f, p) THEN 2 ELSE 1) + (IF Licensed(f, p) THEN 2 ELSE 0)]
StalenessGrade(f) == [p \in Present(f) |-> FreshnessGrade[Freshness(f, p)]]
RiskGrades(f) == [p \in Present(f) |-> RiskGrade[The(f, p).risk]]

\* The grades of the packages of an agent, and what becomes of them.
LEMMA PackageShares ==
  ASSUME NEW f \in StoredFacts, Present(f) # {}
  PROVE  GoodShare(Provenance(f)) /\ GoodShare(StaticRisk(f)) /\ GoodShare(Staleness(f)) /\ GoodShare(Drift(f))
<1>1. /\ IsFiniteSet(Present(f)) /\ Cardinality(Present(f)) \in Nat \ {0} /\ \A p \in Present(f) : The(f, p).risk \in Risks
  BY PresentIs
<1>2. GoodShare(Provenance(f))
  <2>1. /\ ProvenanceGrade(f) \in [Present(f) -> Nat] /\ \A p \in Present(f) : ProvenanceGrade(f)[p] <= 4
    BY DEF ProvenanceGrade
  <2>2. GoodShare(Grades(ProvenanceGrade(f), 4))
    BY <1>1, <2>1, GradesAreGood
  <2> QED
    BY <2>2 DEF Provenance, ProvenanceGrade
<1>3. GoodShare(StaticRisk(f))
  <2>1. \A risk \in Risks : RiskGrade[risk] \in 0..2
    BY DEF Risks, RiskGrade
  <2>2. /\ RiskGrades(f) \in [Present(f) -> Nat] /\ \A p \in Present(f) : RiskGrades(f)[p] <= 2
    BY <1>1, <2>1 DEF RiskGrades
  <2>3. GoodShare(Grades(RiskGrades(f), 2))
    BY <1>1, <2>2, GradesAreGood
  <2> QED
    BY <2>3 DEF StaticRisk, RiskGrades
<1>4. GoodShare(Staleness(f))
  <2>1. /\ StalenessGrade(f) \in [Present(f) -> Nat] /\ \A p \in Present(f) : StalenessGrade(f)[p] <= 2
    BY FreshnessIs DEF StalenessGrade
  <2>2. GoodShare(Grades(StalenessGrade(f), 2))
    BY <1>1, <2>1, GradesAreGood
  <2> QED
    BY <2>2 DEF Staleness, StalenessGrade
<1>5. GoodShare(Drift(f))
  <2>1. {p \in Present(f) : ~Drifted(f, p)} \in SUBSET Present(f)
    OBVIOUS
  <2>2. Cardinality({p \in Present(f) : ~Drifted(f, p)}) \in Nat
        /\ Cardinality({p \in Present(f) : ~Drifted(f, p)}) <= Cardinality(Present(f))
    BY <1>1, <2>1, SizeOfPart
  <2> QED
    BY <1>1, <2>2 DEF GoodShare, Drift
<1> QED
  BY <1>2, <1>3, <1>4, <1>5

LEMMA PackageSharesGetLess ==
  ASSUME NEW f \in StoredFacts, NEW g \in StoredFacts, NEW lost, Lower(f, g, lost)
  PROVE  /\ LessShare(Provenance(g), Provenance(f)) /\ LessShare(StaticRisk(g), StaticRisk(f))
         /\ LessShare(Staleness(g), Staleness(f)) /\ LessShare(Drift(g), Drift(f))
<1> DEFINE S == Present(f)
<1>1. IsFiniteSet(S) /\ Cardinality(S) \in Nat /\ Present(g) = S /\ (\A p \in S : The(g, p) = The(f, p)) /\ S \subseteq RatedPackages
      /\ \A p \in S : The(f, p).risk \in Risks
  BY PresentIs DEF Lower, Present, The
<1>2. LessShare(Provenance(g), Provenance(f))
  <2>1. /\ ProvenanceGrade(f) \in [S -> Nat] /\ ProvenanceGrade(g) \in [S -> Nat]
        /\ \A p \in S : ProvenanceGrade(g)[p] <= ProvenanceGrade(f)[p]
    BY <1>1 DEF ProvenanceGrade, Lower, LowerCatalog
  <2> HIDE DEF S
  <2>2. LessShare(Grades(ProvenanceGrade(g), 4), Grades(ProvenanceGrade(f), 4))
    BY <1>1, <2>1, GradesAreLess
  <2> QED
    BY <2>2 DEF Provenance, ProvenanceGrade
<1>3. LessShare(StaticRisk(g), StaticRisk(f))
  <2>1. \A risk \in Risks : RiskGrade[risk] \in 0..2
    BY DEF Risks, RiskGrade
  <2>2. RiskGrades(f) \in [S -> Nat] /\ RiskGrades(g) = RiskGrades(f)
    BY <1>1, <2>1 DEF RiskGrades
  <2> HIDE DEF S
  <2>3. \A p \in S : RiskGrades(g)[p] <= RiskGrades(f)[p]
    BY <2>2
  <2>4. LessShare(Grades(RiskGrades(g), 2), Grades(RiskGrades(f), 2))
    BY <1>1, <2>2, <2>3, GradesAreLess
  <2> QED
    BY <2>4 DEF StaticRisk, RiskGrades
<1>4. LessShare(Staleness(g), Staleness(f))
  <2>1. /\ StalenessGrade(f) \in [S -> Nat] /\ StalenessGrade(g) \in [S -> Nat]
        /\ \A p \in S : StalenessGrade(g)[p] <= StalenessGrade(f)[p]
    BY <1>1, FreshnessIs DEF StalenessGrade, Lower, LowerCatalog
  <2> HIDE DEF S
  <2>2. LessShare(Grades(StalenessGrade(g), 2), Grades(StalenessGrade(f), 2))
    BY <1>1, <2>1, GradesAreLess
  <2> QED
    BY <2>2 DEF Staleness, StalenessGrade
<1>5. LessShare(Drift(g), Drift(f))
  <2> DEFINE Kept == {p \in S : ~Drifted(f, p)}
             Left == {p \in S : ~Drifted(g, p)}
  <2>1. Left \in SUBSET Kept /\ Kept \in SUBSET S
    BY <1>1 DEF Lower, LowerDisk
  <2>2. Drift(f) = <<Cardinality(Kept), Cardinality(S)>> /\ Drift(g) = <<Cardinality(Left), Cardinality(S)>>
    BY <1>1 DEF Drift
  <2> HIDE DEF S, Kept, Left
  <2>3. Cardinality(Left) \in Nat /\ Cardinality(Kept) \in Nat /\ Cardinality(Left) <= Cardinality(Kept)
    BY <1>1, <2>1, SizeOfPart
  <2> QED
    BY <1>1, <2>2, <2>3, SameWhole
<1> QED
  BY <1>2, <1>3, <1>4, <1>5

LEMMA SmallerPart ==
  ASSUME NEW a \in Nat, NEW b \in Nat, NEW c \in Nat, NEW d \in Nat, a <= b, c <= d
  PROVE  LessShare(<<a, d>>, <<b, c>>)
<1>1. a * c <= b * c /\ b * c <= b * d
  BY LessTimes
<1>2. a * c \in Nat /\ b * c \in Nat /\ b * d \in Nat
  OBVIOUS
<1> QED
  BY <1>1, <1>2 DEF LessShare

Unique(f) == Sum(f.skills[Me], SkillNames \ DuplicateNames(f))

LEMMA ExposedIs ==
  ASSUME NEW f \in StoredFacts
  PROVE  /\ f.skills[Me] \in [SkillNames -> Nat] /\ DuplicateNames(f) \in SUBSET SkillNames
         /\ Exposed(f) = Sum(f.skills[Me], SkillNames) /\ Exposed(f) \in Nat /\ Unique(f) \in Nat
         /\ Unique(f) <= Exposed(f) /\ Duplicates(f) = <<Unique(f), Exposed(f)>>
         /\ Exposed(f) = 0 <=> \A n \in SkillNames : f.skills[Me][n] = 0
<1> DEFINE s == f.skills[Me]
           D == DuplicateNames(f)
<1>1. s \in [SkillNames -> Nat] /\ D \in SUBSET SkillNames /\ SkillNames \ D \in SUBSET SkillNames
      /\ IsFiniteSet(SkillNames) /\ SkillNames \in SUBSET SkillNames
  BY StoredIs, HealthAssumption DEF DuplicateNames
<1> HIDE DEF s, D
<1>2. SumFunction(s) = Sum(s, SkillNames) /\ \A T \in SUBSET SkillNames : Sum(s, T) \in Nat
  BY <1>1, SumByElement
<1>3. Sum(s, SkillNames) = Sum(s, D) + Sum(s, SkillNames \ D)
  BY <1>1, SumSplits
<1>4. Sum(s, SkillNames) \in Nat /\ Sum(s, D) \in Nat /\ Sum(s, SkillNames \ D) \in Nat
  BY <1>1, <1>2
<1>5. Sum(s, SkillNames) = 0 <=> \A n \in SkillNames : s[n] = 0
  <2>1. ASSUME NEW n \in SkillNames PROVE s[n] <= Sum(s, SkillNames)
    <3>1. Sum(s, SkillNames) = s[n] + Sum(s, SkillNames \ {n})
      BY <1>1, SumTakesOut
    <3>2. SkillNames \ {n} \in SUBSET SkillNames
      OBVIOUS
    <3>3. Sum(s, SkillNames \ {n}) \in Nat /\ s[n] \in Nat
      BY <1>1, <1>2, <3>2
    <3> QED
      BY <3>1, <3>3
  <2>2. ASSUME \A n \in SkillNames : s[n] = 0 PROVE Sum(s, SkillNames) = 0
    <3>1. \A n \in SkillNames : s[n] <= 0
      BY <2>2
    <3>2. SumFunction(s) <= 0 * Cardinality(SkillNames) /\ Cardinality(SkillNames) \in Nat
      BY <1>1, <3>1, SumIsAtMost, FS_CardinalityType
    <3> QED
      BY <1>2, <1>4, <3>2
  <2>3. \A n \in SkillNames : s[n] \in Nat
    BY <1>1
  <2> QED
    BY <1>4, <2>1, <2>2, <2>3
<1>6. Exposed(f) = Sum(s, SkillNames) /\ Unique(f) = Sum(s, SkillNames \ D)
      /\ Duplicates(f) = <<Exposed(f) - Sum(s, D), Exposed(f)>>
  BY <1>2 DEF Exposed, Unique, Duplicates, s, D, Sum
<1>7. Duplicates(f) = <<Unique(f), Exposed(f)>>
  <2>1. Exposed(f) - Sum(s, D) = Unique(f)
    BY <1>3, <1>4, <1>6
  <2> QED
    BY <1>6, <2>1
<1>8. Unique(f) <= Exposed(f)
  BY <1>3, <1>4, <1>6
<1>9. Exposed(f) = 0 <=> \A n \in SkillNames : f.skills[Me][n] = 0
  BY <1>5, <1>6 DEF s
<1>10. f.skills[Me] \in [SkillNames -> Nat] /\ DuplicateNames(f) \in SUBSET SkillNames /\ Exposed(f) = Sum(f.skills[Me], SkillNames)
  BY <1>1, <1>6 DEF s, D
<1> QED
  BY <1>4, <1>6, <1>7, <1>8, <1>9, <1>10

LEMMA SkillShares ==
  ASSUME NEW f \in StoredFacts, Exposed(f) # 0
  PROVE  GoodShare(Duplicates(f)) /\ GoodShare(CapacityUse(f)) /\ GoodShare(Compatibility)
<1>1. Exposed(f) \in Nat \ {0} /\ Unique(f) \in Nat /\ Unique(f) <= Exposed(f) /\ Duplicates(f) = <<Unique(f), Exposed(f)>>
  BY ExposedIs
<1>2. GoodShare(Duplicates(f))
  BY <1>1 DEF GoodShare
<1>3. GoodShare(CapacityUse(f))
  BY <1>1, HealthAssumption DEF GoodShare, CapacityUse
<1>4. GoodShare(Compatibility)
  BY HealthAssumption DEF GoodShare, Compatibility
<1> QED
  BY <1>2, <1>3, <1>4

LEMMA SkillSharesGetLess ==
  ASSUME NEW f \in StoredFacts, NEW g \in StoredFacts, LowerSkills(f, g)
  PROVE  /\ LessShare(Duplicates(g), Duplicates(f)) /\ LessShare(CapacityUse(g), CapacityUse(f))
         /\ LessShare(Compatibility, Compatibility) /\ (Exposed(f) = 0 <=> Exposed(g) = 0)
<1> DEFINE s == f.skills[Me]
           t == g.skills[Me]
           K == SkillNames \ DuplicateNames(f)
           L == SkillNames \ DuplicateNames(g)
<1>1. /\ s \in [SkillNames -> Nat] /\ t \in [SkillNames -> Nat] /\ IsFiniteSet(SkillNames)
      /\ \A n \in SkillNames : s[n] <= t[n] /\ (s[n] = 0 => t[n] = 0)
  BY StoredIs, HealthAssumption DEF LowerSkills
<1>2. L \in SUBSET K /\ K \in SUBSET SkillNames /\ \A n \in L : t[n] <= s[n]
  <2>1. ASSUME NEW n \in SkillNames, n \notin DuplicateNames(g) PROVE n \notin DuplicateNames(f) /\ t[n] <= s[n]
    <3>1. /\ f.skills \in [Others \cup {Me} -> [SkillNames -> Nat]]
          /\ g.skills \in [Others \cup {Me} -> [SkillNames -> Nat]]
      BY StoredIs
    <3>2. \A a \in Others \cup {Me} : f.skills[a][n] \in Nat /\ g.skills[a][n] \in Nat /\ f.skills[a][n] <= g.skills[a][n]
                                      /\ (f.skills[a][n] = 0 => g.skills[a][n] = 0)
      BY <3>1 DEF LowerSkills
    <3>3. g.skills[Me][n] > 0 => \A a \in Others \cup {Me} : ~(g.skills[a][n] > 1)
      BY <2>1 DEF DuplicateNames
    <3>4. t[n] <= s[n]
      BY <3>2, <3>3
    <3>5. n \notin DuplicateNames(f)
      <4>1. SUFFICES ASSUME f.skills[Me][n] > 0, NEW a \in Others \cup {Me}, f.skills[a][n] > 1 PROVE FALSE
        BY DEF DuplicateNames
      <4> QED
        BY <3>2, <3>3, <4>1
    <3> QED
      BY <3>4, <3>5
  <2> QED
    BY <2>1
<1>3. /\ Exposed(f) = Sum(s, SkillNames) /\ Exposed(g) = Sum(t, SkillNames) /\ Unique(f) = Sum(s, K) /\ Unique(g) = Sum(t, L)
      /\ Exposed(f) \in Nat /\ Exposed(g) \in Nat /\ Unique(f) \in Nat /\ Unique(g) \in Nat
      /\ Duplicates(f) = <<Unique(f), Exposed(f)>> /\ Duplicates(g) = <<Unique(g), Exposed(g)>>
  BY ExposedIs DEF Unique
<1>4. Exposed(f) = 0 <=> Exposed(g) = 0
  <2>1. \A n \in SkillNames : s[n] \in Nat /\ t[n] \in Nat
    BY <1>1
  <2>2. (Exposed(f) = 0 <=> \A n \in SkillNames : s[n] = 0) /\ (Exposed(g) = 0 <=> \A n \in SkillNames : t[n] = 0)
    BY ExposedIs
  <2> QED
    BY <1>1, <2>1, <2>2
<1> HIDE DEF s, t, K, L
<1>5. Exposed(f) <= Exposed(g)
  <2>1. SkillNames \in SUBSET SkillNames
    OBVIOUS
  <2>2. Sum(s, SkillNames) <= Sum(t, SkillNames)
    BY <1>1, <2>1, SumIsLess
  <2> QED
    BY <1>3, <2>2
<1>6. Unique(g) <= Unique(f)
  <2>1. Sum(t, L) <= Sum(s, K)
    BY <1>1, <1>2, SumIsLess
  <2> QED
    BY <1>3, <2>1
<1>7. LessShare(Duplicates(g), Duplicates(f))
  BY <1>3, <1>5, <1>6, SmallerPart
<1>8. LessShare(CapacityUse(g), CapacityUse(f))
  <2>1. Capacity \in Nat \ {0}
    BY HealthAssumption
  <2>2. CASE Exposed(g) <= Capacity
    <3>1. CapacityUse(f) = <<1, 1>> /\ CapacityUse(g) = <<1, 1>>
      BY <1>3, <1>5, <2>1, <2>2 DEF CapacityUse
    <3> QED
      BY <3>1 DEF LessShare
  <2>3. CASE ~(Exposed(g) <= Capacity) /\ Exposed(f) <= Capacity
    BY <1>3, <2>1, <2>3 DEF CapacityUse, LessShare
  <2>4. CASE ~(Exposed(g) <= Capacity) /\ ~(Exposed(f) <= Capacity)
    <3>1. CapacityUse(f) = <<Capacity, Exposed(f)>> /\ CapacityUse(g) = <<Capacity, Exposed(g)>>
      BY <2>4 DEF CapacityUse
    <3> QED
      BY <1>3, <1>5, <2>1, <3>1, SmallerPart
  <2> QED
    BY <2>2, <2>3, <2>4
<1>9. LessShare(Compatibility, Compatibility)
  BY HealthAssumption DEF LessShare, Compatibility
<1> QED
  BY <1>4, <1>7, <1>8, <1>9

LEMMA SmallerOfTwo ==
  ASSUME NEW n \in Nat, NEW m \in Nat
  PROVE  Min({n, m}) = IF n <= m THEN n ELSE m
<1>1. Min({n, m}) \in {n, m} /\ Min({n, m}) <= n /\ Min({n, m}) <= m
  <2> DEFINE P(x) == \A y \in {n, m} : x <= y
  <2>1. \E x \in {n, m} : P(x)
    <3>1. CASE n <= m
      BY <3>1
    <3>2. CASE ~(n <= m)
      BY <3>2
    <3> QED
      BY <3>1, <3>2
  <2>2. Min({n, m}) = CHOOSE x \in {n, m} : P(x)
    BY DEF Min
  <2>3. Min({n, m}) \in {n, m} /\ P(Min({n, m}))
    BY <2>1, <2>2
  <2> QED
    BY <2>3
<1> QED
  BY <1>1

LEMMA EventsAre ==
  ASSUME NEW f \in StoredFacts
  PROVE  /\ MyEvents(f) \in SUBSET (1..Len(f.events)) /\ IsFiniteSet(MyEvents(f)) /\ Cardinality(MyEvents(f)) \in Nat
         /\ (Cardinality(MyEvents(f)) = 0 <=> MyEvents(f) = {})
         /\ [i \in MyEvents(f) |-> OutcomeValue[f.events[i].result]] \in [MyEvents(f) -> Nat]
         /\ Earned(f) \in Nat /\ Earned(f) <= 20 * Cardinality(MyEvents(f))
<1> DEFINE value == [i \in MyEvents(f) |-> OutcomeValue[f.events[i].result]]
           T == MyEvents(f)
<1> DEFINE E == f.events
           Outcomes == [agent : Others \cup {Me}, result : Results]
<1>0. E \in Seq(Outcomes) /\ T = {i \in DOMAIN E : E[i].agent = Me} /\ \A e \in Outcomes : e.result \in Results
  BY StoredIs DEF MyEvents
<1> HIDE DEF E, T, Outcomes
<1>1. Len(E) \in Nat /\ DOMAIN E = 1..Len(E) /\ \A i \in DOMAIN E : E[i] \in Outcomes
  BY <1>0
<1>2. T \in SUBSET (1..Len(E)) /\ \A i \in T : E[i].result \in Results
  BY <1>0, <1>1
<1>3. IsFiniteSet(T) /\ Cardinality(T) \in Nat /\ (Cardinality(T) = 0 <=> T = {})
  <2>1. IsFiniteSet(1..Len(E))
    BY <1>1, FS_Interval
  <2> QED
    BY <1>2, <2>1, SizeOfPart
<1>4. \A r \in Results : OutcomeValue[r] \in 0..20
  BY DEF Results, OutcomeValue
<1>5. value \in [T -> Nat] /\ \A i \in T : value[i] <= 20
  <2>1. value = [i \in T |-> OutcomeValue[E[i].result]]
    BY DEF T, E
  <2> HIDE DEF value
  <2>2. \A i \in T : OutcomeValue[E[i].result] \in 0..20
    BY <1>2, <1>4
  <2> QED
    BY <2>1, <2>2
<1>6. Earned(f) \in Nat /\ Earned(f) <= 20 * Cardinality(T)
  <2> HIDE DEF value, T
  <2>1. SumFunction(value) \in Nat /\ SumFunction(value) <= 20 * Cardinality(T)
    BY <1>3, <1>5, SumIsAtMost
  <2> QED
    BY <2>1 DEF Earned, value, T
<1> QED
  BY <1>2, <1>3, <1>5, <1>6 DEF T, E

LEMMA OutcomeShares ==
  ASSUME NEW f \in StoredFacts, MyEvents(f) # {}
  PROVE  GoodShare(LocalOutcomes(f))
<1> DEFINE n == Cardinality(MyEvents(f))
           m == Min({n, FullSample})
<1>1. n \in Nat \ {0} /\ FullSample \in Nat \ {0} /\ Earned(f) \in Nat /\ Earned(f) <= 20 * n
  BY EventsAre, HealthAssumption
<1>2. LocalOutcomes(f) = <<Earned(f) * m, 20 * n * FullSample>>
  BY DEF LocalOutcomes, Earned
<1> HIDE DEF n
<1>3. m \in Nat /\ m <= FullSample
  BY <1>1, SmallerOfTwo
<1> HIDE DEF m
<1>4. Earned(f) * m <= (20 * n) * FullSample
  <2>1. Earned(f) * m <= (20 * n) * m /\ (20 * n) * m <= (20 * n) * FullSample
    <3>1. 20 * n \in Nat
      BY <1>1
    <3> QED
      BY <1>1, <1>3, <3>1, LessTimes
  <2>2. Earned(f) * m \in Nat /\ (20 * n) * m \in Nat /\ (20 * n) * FullSample \in Nat
    BY <1>1, <1>3
  <2> QED
    BY <2>1, <2>2
<1>5. Earned(f) * m \in Nat /\ 20 * n * FullSample \in Nat \ {0}
  BY <1>1, <1>3
<1> QED
  BY <1>2, <1>4, <1>5 DEF GoodShare

LEMMA OutcomeSharesGetLess ==
  ASSUME NEW f \in StoredFacts, NEW g \in StoredFacts, LowerEvents(f, g)
  PROVE  LessShare(LocalOutcomes(g), LocalOutcomes(f))
<1> DEFINE n == Cardinality(MyEvents(f))
           k == Cardinality(MyEvents(g))
           m == Min({n, FullSample})
           j == Min({k, FullSample})
           S == Earned(f)
           R == Earned(g)
<1>1. n \in Nat /\ k \in Nat /\ n <= k /\ S \in Nat /\ R \in Nat /\ R <= S /\ FullSample \in Nat
  BY EventsAre, HealthAssumption DEF LowerEvents
<1>2. LocalOutcomes(f) = <<S * m, 20 * n * FullSample>> /\ LocalOutcomes(g) = <<R * j, 20 * k * FullSample>>
  BY DEF LocalOutcomes, Earned
<1> HIDE DEF n, k, S, R
<1>3. m = (IF n <= FullSample THEN n ELSE FullSample) /\ j = (IF k <= FullSample THEN k ELSE FullSample)
  BY <1>1, SmallerOfTwo
<1> HIDE DEF m, j
<1>4. j * n <= m * k
  <2>1. CASE n <= FullSample
    <3>1. m = n /\ j <= k /\ j \in Nat
      BY <1>1, <1>3, <2>1
    <3>2. j * n <= k * n /\ k * n = n * k
      BY <1>1, <3>1, LessTimes
    <3> QED
      BY <3>1, <3>2
  <2>2. CASE ~(n <= FullSample)
    <3>1. m = FullSample /\ j = FullSample
      BY <1>1, <1>3, <2>2
    <3> QED
      BY <1>1, <3>1, LessTimes
  <2> QED
    BY <2>1, <2>2
<1>5. m \in Nat /\ j \in Nat
  BY <1>1, <1>3
<1>6. R * (j * n) <= S * (m * k)
  <2>1. j * n \in Nat /\ m * k \in Nat
    BY <1>1, <1>5
  <2>2. R * (j * n) <= S * (j * n) /\ S * (j * n) <= S * (m * k)
    BY <1>1, <1>4, <2>1, LessTimes
  <2>3. R * (j * n) \in Nat /\ S * (j * n) \in Nat /\ S * (m * k) \in Nat
    BY <1>1, <2>1
  <2> QED
    BY <2>2, <2>3
<1>7. (20 * FullSample) * (R * (j * n)) <= (20 * FullSample) * (S * (m * k))
  <2>1. 20 * FullSample \in Nat /\ R * (j * n) \in Nat /\ S * (m * k) \in Nat
    BY <1>1, <1>5
  <2> QED
    BY <1>6, <2>1, LessTimes
<1>8. (R * j) * (20 * n * FullSample) = (20 * FullSample) * (R * (j * n))
  BY <1>1, <1>5
<1>9. (S * m) * (20 * k * FullSample) = (20 * FullSample) * (S * (m * k))
  BY <1>1, <1>5
<1> QED
  BY <1>2, <1>7, <1>8, <1>9 DEF LessShare

LEMMA SnapshotsAre ==
  ASSUME NEW f \in StoredFacts
  PROVE  /\ IsFiniteSet(SnapshotsOf(f)) /\ Cardinality(SnapshotsOf(f)) \in Nat
         /\ Present(f) # {} => Cardinality(SnapshotsOf(f)) # 0
<1> DEFINE h == [p \in Present(f) |-> The(f, p).snapshot]
<1>1. IsFiniteSet(Present(f))
  BY PresentIs
<1>2. SnapshotsOf(f) = {h[p] : p \in Present(f)}
  BY DEF SnapshotsOf
<1>3. h \in [Present(f) -> SnapshotsOf(f)] /\ \A s \in SnapshotsOf(f) : \E p \in Present(f) : h[p] = s
  BY <1>2
<1> HIDE DEF h
<1>4. h \in Surjection(Present(f), SnapshotsOf(f))
  BY <1>3 DEF Surjection
<1>5. IsFiniteSet(SnapshotsOf(f))
  BY <1>1, <1>4, FS_Surjection
<1>6. Present(f) # {} => SnapshotsOf(f) # {}
  BY <1>3
<1> QED
  BY <1>5, <1>6, FS_CardinalityType, FS_EmptySet

Intact(f) == Cardinality({p \in Present(f) : The(f, p).snapshot \notin f.torn})
Whole(f) == Cardinality(SnapshotsOf(f) \ f.torn)

LEMMA RecoverabilityIs ==
  ASSUME NEW f \in StoredFacts, NEW a, NEW s, a = Cardinality(Present(f)), s = Cardinality(SnapshotsOf(f))
  PROVE  /\ a \in Nat /\ s \in Nat /\ f.pending \in Nat
         /\ Intact(f) \in Nat /\ Intact(f) <= a /\ Whole(f) \in Nat /\ Whole(f) <= s
         /\ Recoverability(f) = <<6 * Intact(f) * s + 4 * Whole(f) * a, 10 * a * s * (1 + f.pending)>>
<1>1. a \in Nat /\ s \in Nat /\ f.pending \in Nat /\ IsFiniteSet(Present(f)) /\ IsFiniteSet(SnapshotsOf(f))
  BY PresentIs, SnapshotsAre, StoredIs
<1>2. Intact(f) \in Nat /\ Intact(f) <= a
  <2>1. {p \in Present(f) : The(f, p).snapshot \notin f.torn} \in SUBSET Present(f)
    OBVIOUS
  <2> QED
    BY <1>1, <2>1, SizeOfPart DEF Intact
<1>3. Whole(f) \in Nat /\ Whole(f) <= s
  <2>1. SnapshotsOf(f) \ f.torn \in SUBSET SnapshotsOf(f)
    OBVIOUS
  <2> QED
    BY <1>1, <2>1, SizeOfPart DEF Whole
<1> QED
  BY <1>1, <1>2, <1>3 DEF Recoverability, Intact, Whole

LEMMA RecoverabilityIsGood ==
  ASSUME NEW f \in StoredFacts, Present(f) # {}
  PROVE  GoodShare(Recoverability(f))
<1>1. PICK a, s : a = Cardinality(Present(f)) /\ s = Cardinality(SnapshotsOf(f))
  OBVIOUS
<1>2. a \in Nat \ {0} /\ s \in Nat \ {0} /\ f.pending \in Nat
      /\ Intact(f) \in Nat /\ Intact(f) <= a /\ Whole(f) \in Nat /\ Whole(f) <= s
      /\ Recoverability(f) = <<6 * Intact(f) * s + 4 * Whole(f) * a, 10 * a * s * (1 + f.pending)>>
  BY <1>1, RecoverabilityIs, PresentIs, SnapshotsAre
<1>3. Intact(f) * s <= a * s /\ Whole(f) * a <= s * a /\ s * a = a * s
  BY <1>2, LessTimes
<1> DEFINE w == a * s
           x == Intact(f) * s
           y == Whole(f) * a
<1>4. w \in Nat \ {0} /\ x \in Nat /\ y \in Nat
  BY <1>2
<1>5. 6 * Intact(f) * s = 6 * x /\ 4 * Whole(f) * a = 4 * y /\ 10 * a * s * (1 + f.pending) = (10 * w) * (1 + f.pending)
  BY <1>2
<1> HIDE DEF w, x, y
<1>6. x <= w /\ y <= w
  BY <1>3 DEF w, x, y
<1>7. (10 * w) * 1 <= (10 * w) * (1 + f.pending)
  <2>1. 10 * w \in Nat /\ 1 <= 1 + f.pending /\ 1 + f.pending \in Nat
    BY <1>2, <1>4
  <2> QED
    BY <2>1, LessTimes
<1>8. 6 * x + 4 * y <= (10 * w) * (1 + f.pending) /\ (10 * w) * (1 + f.pending) \in Nat
  BY <1>2, <1>4, <1>6, <1>7
<1>9. (10 * w) * (1 + f.pending) # 0
  BY <1>2, <1>4, <1>7
<1>10. Recoverability(f) = <<6 * x + 4 * y, (10 * w) * (1 + f.pending)>>
  BY <1>2, <1>5
<1> QED
  BY <1>4, <1>8, <1>9, <1>10 DEF GoodShare

LEMMA RecoverabilityGetsLess ==
  ASSUME NEW f \in StoredFacts, NEW g \in StoredFacts, g.installs = f.installs, LowerSnapshots(f, g)
  PROVE  LessShare(Recoverability(g), Recoverability(f))
<1>1. Present(g) = Present(f) /\ SnapshotsOf(g) = SnapshotsOf(f) /\ \A p \in Present(f) : The(g, p) = The(f, p)
  BY DEF Present, SnapshotsOf, The
<1>2. PICK a, s : a = Cardinality(Present(f)) /\ s = Cardinality(SnapshotsOf(f))
  OBVIOUS
<1>3. a \in Nat /\ s \in Nat /\ f.pending \in Nat /\ g.pending \in Nat /\ f.pending <= g.pending
      /\ Intact(f) \in Nat /\ Whole(f) \in Nat /\ Intact(g) \in Nat /\ Whole(g) \in Nat
      /\ Recoverability(f) = <<6 * Intact(f) * s + 4 * Whole(f) * a, 10 * a * s * (1 + f.pending)>>
      /\ Recoverability(g) = <<6 * Intact(g) * s + 4 * Whole(g) * a, 10 * a * s * (1 + g.pending)>>
  BY <1>1, <1>2, RecoverabilityIs DEF LowerSnapshots
<1>4. Intact(g) <= Intact(f)
  <2> DEFINE I == {p \in Present(f) : The(f, p).snapshot \notin f.torn}
             J == {p \in Present(g) : The(g, p).snapshot \notin g.torn}
  <2>1. J \in SUBSET I /\ I \in SUBSET Present(f) /\ IsFiniteSet(Present(f))
    BY <1>1, PresentIs DEF LowerSnapshots
  <2>2. IsFiniteSet(I)
    BY <2>1, FS_Subset
  <2> HIDE DEF I, J
  <2>3. Cardinality(J) <= Cardinality(I)
    BY <2>1, <2>2, SizeOfPart
  <2> QED
    BY <2>3 DEF Intact, I, J
<1>5. Whole(g) <= Whole(f)
  <2>1. SnapshotsOf(g) \ g.torn \in SUBSET (SnapshotsOf(f) \ f.torn) /\ IsFiniteSet(SnapshotsOf(f))
    BY <1>1, SnapshotsAre DEF LowerSnapshots
  <2>2. IsFiniteSet(SnapshotsOf(f) \ f.torn)
    BY <2>1, FS_Subset
  <2> QED
    BY <2>1, <2>2, SizeOfPart DEF Whole
<1>6. Intact(g) * s <= Intact(f) * s /\ Whole(g) * a <= Whole(f) * a
  BY <1>3, <1>4, <1>5, LessTimes
<1> DEFINE x == Intact(f) * s
           y == Whole(f) * a
           u == Intact(g) * s
           v == Whole(g) * a
           w == a * s
<1>7. x \in Nat /\ y \in Nat /\ u \in Nat /\ v \in Nat /\ w \in Nat
  BY <1>3
<1>8. /\ 6 * Intact(f) * s = 6 * x /\ 4 * Whole(f) * a = 4 * y /\ 10 * a * s * (1 + f.pending) = (10 * w) * (1 + f.pending)
      /\ 6 * Intact(g) * s = 6 * u /\ 4 * Whole(g) * a = 4 * v /\ 10 * a * s * (1 + g.pending) = (10 * w) * (1 + g.pending)
  BY <1>3
<1>9. u <= x /\ v <= y
  BY <1>6
<1> HIDE DEF x, y, u, v, w
<1>10. /\ 6 * u + 4 * v \in Nat /\ 6 * x + 4 * y \in Nat /\ 6 * u + 4 * v <= 6 * x + 4 * y
       /\ (10 * w) * (1 + f.pending) \in Nat /\ (10 * w) * (1 + g.pending) \in Nat
       /\ (10 * w) * (1 + f.pending) <= (10 * w) * (1 + g.pending)
  <2>1. 10 * w \in Nat /\ 1 + f.pending \in Nat /\ 1 + g.pending \in Nat /\ 1 + f.pending <= 1 + g.pending
    BY <1>3, <1>7
  <2>2. (10 * w) * (1 + f.pending) <= (10 * w) * (1 + g.pending)
    BY <2>1, LessTimes
  <2>3. 6 * u + 4 * v \in Nat /\ 6 * x + 4 * y \in Nat /\ 6 * u + 4 * v <= 6 * x + 4 * y
    BY <1>7, <1>9
  <2> QED
    BY <2>1, <2>2, <2>3
<1>11. Recoverability(f) = <<6 * x + 4 * y, (10 * w) * (1 + f.pending)>>
       /\ Recoverability(g) = <<6 * u + 4 * v, (10 * w) * (1 + g.pending)>>
  BY <1>3, <1>8
<1> QED
  BY <1>10, <1>11, SmallerPart

-----------------------------------------------------------------------------
(* Contributions, the score and the rating. *)

Dimensions ==
  {"provenance", "risk", "drift", "duplicates", "staleness", "capacity", "compatibility", "benchmarks", "outcomes",
   "recoverability"}

LEMMA DimensionsAre ==
  /\ DOMAIN Cap = Dimensions /\ \A d \in Dimensions : Cap[d] \in Nat \ {0}
  /\ \A f : Evidenced(f) \subseteq Dimensions \ {"benchmarks"}
BY DEF Cap, Dimensions, Evidenced

LEMMA EvidenceIs ==
  ASSUME NEW f
  PROVE  /\ "provenance" \in Evidenced(f) <=> Present(f) # {}
         /\ "drift" \in Evidenced(f) <=> Present(f) # {}
         /\ "recoverability" \in Evidenced(f) <=> Present(f) # {}
         /\ "risk" \in Evidenced(f) <=> \E p \in Present(f) : The(f, p).risk # "unknown"
         /\ "staleness" \in Evidenced(f) <=> \E p \in Present(f) : Freshness(f, p) # "unknown"
         /\ "duplicates" \in Evidenced(f) <=> Exposed(f) # 0
         /\ "capacity" \in Evidenced(f) <=> Exposed(f) # 0
         /\ "compatibility" \in Evidenced(f) <=> Exposed(f) # 0
         /\ "outcomes" \in Evidenced(f) <=> MyEvents(f) # {}
BY DEF Evidenced

LEMMA SharesAreOf ==
  ASSUME NEW f
  PROVE  /\ Share(f, "provenance") = Provenance(f) /\ Share(f, "risk") = StaticRisk(f) /\ Share(f, "drift") = Drift(f)
         /\ Share(f, "duplicates") = Duplicates(f) /\ Share(f, "staleness") = Staleness(f)
         /\ Share(f, "capacity") = CapacityUse(f) /\ Share(f, "compatibility") = Compatibility
         /\ Share(f, "outcomes") = LocalOutcomes(f) /\ Share(f, "recoverability") = Recoverability(f)
BY DEF Share

LEMMA SharesAreGood ==
  ASSUME NEW f \in StoredFacts, NEW d \in Evidenced(f)
  PROVE  GoodShare(Share(f, d))
<1>1. d \in Dimensions \ {"benchmarks"}
  BY DimensionsAre
<1>2. CASE d \in {"provenance", "risk", "staleness", "drift"}
  <2>1. Present(f) # {}
    BY <1>2, EvidenceIs
  <2> QED
    BY <1>2, <2>1, PackageShares, SharesAreOf
<1>3. CASE d \in {"duplicates", "capacity", "compatibility"}
  <2>1. Exposed(f) # 0
    BY <1>3, EvidenceIs
  <2> QED
    BY <1>3, <2>1, SkillShares, SharesAreOf
<1>4. CASE d = "outcomes"
  BY <1>4, EvidenceIs, OutcomeShares, SharesAreOf
<1>5. CASE d = "recoverability"
  BY <1>5, EvidenceIs, RecoverabilityIsGood, SharesAreOf
<1> QED
  BY <1>1, <1>2, <1>3, <1>4, <1>5 DEF Dimensions

LEMMA SharesGetLess ==
  ASSUME NEW f \in StoredFacts, NEW g \in StoredFacts, NEW lost, Lower(f, g, lost),
         NEW d \in Dimensions \ {"benchmarks"}
  PROVE  LessShare(Share(g, d), Share(f, d))
<1>1. CASE d \in {"provenance", "risk", "staleness", "drift"}
  BY <1>1, PackageSharesGetLess, SharesAreOf
<1>2. CASE d \in {"duplicates", "capacity", "compatibility"}
  BY <1>2, SkillSharesGetLess, SharesAreOf DEF Lower
<1>3. CASE d = "outcomes"
  BY <1>3, OutcomeSharesGetLess, SharesAreOf DEF Lower
<1>4. CASE d = "recoverability"
  BY <1>4, RecoverabilityGetsLess, SharesAreOf DEF Lower
<1> QED
  BY <1>1, <1>2, <1>3, <1>4 DEF Dimensions

\* Evidence is lost only with an observation, and found only with an outcome.
LEMMA EvidenceStays ==
  ASSUME NEW f \in StoredFacts, NEW g \in StoredFacts, NEW lost, Lower(f, g, lost)
  PROVE  Evidenced(g) \subseteq Evidenced(f) \cup {"outcomes"} /\ (lost \/ Evidenced(f) \subseteq Evidenced(g))
<1>1. Present(g) = Present(f) /\ Present(f) \subseteq RatedPackages /\ \A p \in Present(f) : The(g, p) = The(f, p)
  BY PresentIs DEF Lower, Present, The
<1>2. Exposed(f) = 0 <=> Exposed(g) = 0
  BY SkillSharesGetLess DEF Lower
<1>3. MyEvents(f) # {} => MyEvents(g) # {}
  <2>1. Cardinality(MyEvents(f)) \in Nat /\ Cardinality(MyEvents(g)) \in Nat
        /\ (Cardinality(MyEvents(f)) = 0 <=> MyEvents(f) = {}) /\ (Cardinality(MyEvents(g)) = 0 <=> MyEvents(g) = {})
        /\ Cardinality(MyEvents(f)) <= Cardinality(MyEvents(g))
    BY EventsAre DEF Lower, LowerEvents
  <2> QED
    BY <2>1
<1>4. /\ (\E p \in Present(g) : Freshness(g, p) # "unknown") => \E p \in Present(f) : Freshness(f, p) # "unknown"
      /\ lost \/ ((\E p \in Present(f) : Freshness(f, p) # "unknown") => \E p \in Present(g) : Freshness(g, p) # "unknown")
  BY <1>1 DEF Lower, LowerCatalog
<1>5. (\E p \in Present(g) : The(g, p).risk # "unknown") <=> \E p \in Present(f) : The(f, p).risk # "unknown"
  BY <1>1
<1> QED
  BY <1>1, <1>2, <1>3, <1>4, <1>5, EvidenceIs, DimensionsAre DEF Dimensions

\* No dimension gives more points than its cap.
LEMMA ContributionIs ==
  ASSUME NEW f \in StoredFacts, NEW d \in Dimensions
  PROVE  Contribution(f, d) \in Nat /\ Contribution(f, d) <= 100 * Cap[d]
<1>1. Cap[d] \in Nat
  BY DimensionsAre
<1>2. CASE d \notin Evidenced(f)
  BY <1>1, <1>2 DEF Contribution
<1>3. CASE d \in Evidenced(f)
  <2> DEFINE c == Cap[d]
             a == Share(f, d)[1]
             b == Share(f, d)[2]
  <2>1. a \in Nat /\ b \in Nat \ {0} /\ a <= b /\ c \in Nat
    BY <1>1, <1>3, SharesAreGood DEF GoodShare
  <2>2. Contribution(f, d) = (200 * c * a + b) \div (2 * b)
    BY <1>3 DEF Contribution
  <2> HIDE DEF a, b, c
  <2>3. (200 * c * a + b) \div (2 * b) \in Nat /\ (200 * c * a + b) \div (2 * b) <= 100 * c
    BY <2>1, QuotientAtMost
  <2>4. Contribution(f, d) \in Nat /\ Contribution(f, d) <= 100 * c
    BY <2>2, <2>3, Zenon
  <2> QED
    BY <2>4 DEF c
<1> QED
  BY <1>2, <1>3

\* Nothing earns more than it did: the first outcomes, failures, earn nothing.
LEMMA ContributionsGetLess ==
  ASSUME NEW f \in StoredFacts, NEW g \in StoredFacts, NEW lost, Lower(f, g, lost), NEW d \in Dimensions
  PROVE  Contribution(g, d) <= Contribution(f, d)
<1>1. Cap[d] \in Nat /\ Contribution(f, d) \in Nat /\ Contribution(g, d) \in Nat
  BY DimensionsAre, ContributionIs
<1>2. CASE d \notin Evidenced(g)
  BY <1>1, <1>2 DEF Contribution
<1> DEFINE t == Share(g, d)
<1>3. ASSUME d \in Evidenced(g)
      PROVE  /\ t[1] \in Nat /\ t[2] \in Nat \ {0} /\ d \in Dimensions \ {"benchmarks"}
             /\ Contribution(g, d) = (200 * Cap[d] * t[1] + t[2]) \div (2 * t[2])
  BY <1>3, SharesAreGood, DimensionsAre DEF GoodShare, Contribution
<1>4. CASE d \in Evidenced(g) /\ d \in Evidenced(f)
  <2> DEFINE c == Cap[d]
             a == Share(f, d)[1]
             b == Share(f, d)[2]
             x == t[1]
             y == t[2]
  <2>1. a \in Nat /\ b \in Nat \ {0} /\ c \in Nat
    BY <1>1, <1>4, SharesAreGood DEF GoodShare
  <2>2. x \in Nat /\ y \in Nat \ {0}
    BY <1>3, <1>4
  <2>3. Contribution(f, d) = (200 * c * a + b) \div (2 * b) /\ Contribution(g, d) = (200 * c * x + y) \div (2 * y)
    BY <1>3, <1>4 DEF Contribution
  <2>4. x * b <= a * y
    BY <1>3, <1>4, SharesGetLess DEF LessShare
  <2> HIDE DEF a, b, c, x, y
  <2>5. (200 * c * x + y) \div (2 * y) <= (200 * c * a + b) \div (2 * b)
    BY <2>1, <2>2, <2>4, QuotientLess
  <2> QED
    BY <2>3, <2>5, Zenon
<1>5. CASE d \in Evidenced(g) /\ d \notin Evidenced(f)
  <2>1. d = "outcomes"
    BY <1>5, EvidenceStays
  <2>2. MyEvents(f) = {}
    BY <1>5, <2>1, EvidenceIs
  <2>3. Earned(g) = 0
    <3>1. Earned(f) \in Nat /\ Earned(g) \in Nat /\ Earned(g) <= Earned(f)
          /\ Earned(f) <= 20 * Cardinality(MyEvents(f)) /\ Cardinality(MyEvents(f)) = 0
      BY <2>2, EventsAre DEF Lower, LowerEvents
    <3> QED
      BY <3>1
  <2>4. t[1] = 0
    <3>1. t = LocalOutcomes(g)
      BY <2>1, SharesAreOf
    <3> DEFINE m == Min({Cardinality(MyEvents(g)), FullSample})
    <3>2. LocalOutcomes(g)[1] = Earned(g) * m
      BY DEF LocalOutcomes, Earned
    <3>3. m \in Nat
      BY EventsAre, HealthAssumption, SmallerOfTwo
    <3> HIDE DEF m
    <3> QED
      BY <2>3, <3>1, <3>2, <3>3
  <2>5. t[2] \in Nat \ {0} /\ Contribution(g, d) = (200 * Cap[d] * t[1] + t[2]) \div (2 * t[2])
    BY <1>3, <1>5
  <2> HIDE DEF t
  <2>6. Contribution(g, d) = t[2] \div (2 * t[2])
    BY <1>1, <2>4, <2>5
  <2>7. t[2] \div (2 * t[2]) = 0
    <3> DEFINE n == t[2]
               q == n \div (2 * n)
    <3>1. n \in Nat \ {0}
      BY <2>5
    <3> HIDE DEF n
    <3>2. 2 * n \in Nat \ {0}
      BY <3>1
    <3>3. q \in Nat /\ q * (2 * n) <= n
      BY <3>1, <3>2, QuotientIs
    <3> HIDE DEF q
    <3>4. SUFFICES ASSUME 1 <= q PROVE FALSE
      BY <3>3 DEF q, n
    <3>5. 1 * (2 * n) <= q * (2 * n)
      BY <3>2, <3>3, <3>4, LessTimes
    <3> QED
      BY <3>1, <3>3, <3>5
  <2> QED
    BY <1>1, <2>6, <2>7
<1> QED
  BY <1>2, <1>4, <1>5

Points(f) == [d \in Dimensions |-> Contribution(f, d)]

\* The score is a natural number, the sum of the contributions.
LEMMA ScoreIs ==
  ASSUME NEW f \in StoredFacts
  PROVE  /\ Points(f) \in [Dimensions -> Nat] /\ IsFiniteSet(Dimensions)
         /\ ScoreOf(f) = Sum(Points(f), Dimensions) /\ ScoreOf(f) \in Nat
<1>1. Points(f) \in [Dimensions -> Nat]
  BY ContributionIs DEF Points
<1>2. IsFiniteSet(Dimensions)
  <2> DEFINE nth == [i \in 1..10 |-> CASE i = 1 -> "provenance" [] i = 2 -> "risk" [] i = 3 -> "drift" [] i = 4 -> "duplicates"
                                       [] i = 5 -> "staleness" [] i = 6 -> "capacity" [] i = 7 -> "compatibility"
                                       [] i = 8 -> "benchmarks" [] i = 9 -> "outcomes" [] i = 10 -> "recoverability"]
  <2>1. nth[1] = "provenance" /\ nth[2] = "risk" /\ nth[3] = "drift" /\ nth[4] = "duplicates" /\ nth[5] = "staleness"
        /\ nth[6] = "capacity" /\ nth[7] = "compatibility" /\ nth[8] = "benchmarks" /\ nth[9] = "outcomes"
        /\ nth[10] = "recoverability"
    OBVIOUS
  <2>2. \A i \in 1..10 : i = 1 \/ i = 2 \/ i = 3 \/ i = 4 \/ i = 5 \/ i = 6 \/ i = 7 \/ i = 8 \/ i = 9 \/ i = 10
    OBVIOUS
  <2>3. nth = [i \in 1..10 |-> nth[i]]
    OBVIOUS
  <2> HIDE DEF nth
  <2>4. \A i \in 1..10 : nth[i] \in Dimensions
    BY <2>1, <2>2 DEF Dimensions
  <2>5. \A d \in Dimensions : \E i \in 1..10 : nth[i] = d
    BY <2>1 DEF Dimensions
  <2> DEFINE I == 1..10
  <2>6. IsFiniteSet(I)
    <3>1. \A a, b \in Int : IsFiniteSet(a..b)
      BY FS_Interval
    <3>2. 1 \in Int /\ 10 \in Int
      OBVIOUS
    <3> QED
      BY <3>1, <3>2, Zenon
  <2>7. nth \in [I -> Dimensions] /\ \A d \in Dimensions : \E i \in I : nth[i] = d
    BY <2>3, <2>4, <2>5
  <2> HIDE DEF nth, I
  <2>8. nth \in Surjection(I, Dimensions)
    BY <2>7 DEF Surjection
  <2> QED
    BY <2>6, <2>8, FS_Surjection
<1>3. ScoreOf(f) = SumFunction(Points(f))
  BY DimensionsAre DEF ScoreOf, Points
<1>4. Dimensions \in SUBSET Dimensions
  OBVIOUS
<1> QED
  BY <1>1, <1>2, <1>3, <1>4, SumByElement

\* Nor does it raise the score.
LEMMA ScoresGetLess ==
  ASSUME NEW f \in StoredFacts, NEW g \in StoredFacts, NEW lost, Lower(f, g, lost)
  PROVE  ScoreOf(g) <= ScoreOf(f)
<1>1. \A d \in Dimensions : Points(g)[d] <= Points(f)[d]
  BY ContributionsGetLess DEF Points
<1>2. Dimensions \in SUBSET Dimensions
  OBVIOUS
<1>3. Sum(Points(g), Dimensions) <= Sum(Points(f), Dimensions)
  BY <1>1, <1>2, ScoreIs, SumIsLess
<1> QED
  BY <1>3, ScoreIs

\* The caps of the ten dimensions come to 100 points.
LEMMA ScoreIsAtMost ==
  ASSUME NEW f \in StoredFacts
  PROVE  ScoreOf(f) <= 10000
<1> DEFINE P == Points(f)
<1>1. P \in [Dimensions -> Nat] /\ IsFiniteSet(Dimensions) /\ ScoreOf(f) = Sum(P, Dimensions)
  BY ScoreIs
<1>2. \A d \in Dimensions : P[d] \in Nat /\ P[d] <= 100 * Cap[d]
  BY ContributionIs DEF Points
<1> HIDE DEF P
<1>3. ASSUME NEW T \in SUBSET Dimensions, NEW x \in T
      PROVE  Sum(P, T) = P[x] + Sum(P, T \ {x}) /\ Sum(P, T \ {x}) \in Nat /\ T \ {x} \in SUBSET Dimensions
  <2>1. T \ {x} \in SUBSET Dimensions
    OBVIOUS
  <2> QED
    BY <1>1, <2>1, SumByElement
<1>4. /\ P["provenance"] <= 1400 /\ P["risk"] <= 1200 /\ P["drift"] <= 1400 /\ P["duplicates"] <= 800
      /\ P["staleness"] <= 800 /\ P["capacity"] <= 1000 /\ P["compatibility"] <= 1000 /\ P["benchmarks"] <= 800
      /\ P["outcomes"] <= 800 /\ P["recoverability"] <= 800
  BY <1>2 DEF Dimensions, Cap
<1> DEFINE D1 == Dimensions \ {"provenance"}
           D2 == D1 \ {"risk"}
           D3 == D2 \ {"drift"}
           D4 == D3 \ {"duplicates"}
           D5 == D4 \ {"staleness"}
           D6 == D5 \ {"capacity"}
           D7 == D6 \ {"compatibility"}
           D8 == D7 \ {"benchmarks"}
           D9 == D8 \ {"outcomes"}
           D10 == D9 \ {"recoverability"}
<1>5. /\ "provenance" \in Dimensions /\ "risk" \in D1 /\ "drift" \in D2 /\ "duplicates" \in D3 /\ "staleness" \in D4
      /\ "capacity" \in D5 /\ "compatibility" \in D6 /\ "benchmarks" \in D7 /\ "outcomes" \in D8
      /\ "recoverability" \in D9 /\ D10 = {}
  BY DEF Dimensions
<1>6. /\ D1 \in SUBSET Dimensions /\ D2 \in SUBSET Dimensions /\ D3 \in SUBSET Dimensions /\ D4 \in SUBSET Dimensions
      /\ D5 \in SUBSET Dimensions /\ D6 \in SUBSET Dimensions /\ D7 \in SUBSET Dimensions /\ D8 \in SUBSET Dimensions
      /\ D9 \in SUBSET Dimensions /\ Dimensions \in SUBSET Dimensions
  OBVIOUS
<1>7. /\ Sum(P, Dimensions) = P["provenance"] + Sum(P, D1) /\ Sum(P, D1) = P["risk"] + Sum(P, D2)
      /\ Sum(P, D2) = P["drift"] + Sum(P, D3) /\ Sum(P, D3) = P["duplicates"] + Sum(P, D4)
      /\ Sum(P, D4) = P["staleness"] + Sum(P, D5)
  BY <1>3, <1>5, <1>6
<1>8. /\ Sum(P, D5) = P["capacity"] + Sum(P, D6) /\ Sum(P, D6) = P["compatibility"] + Sum(P, D7)
      /\ Sum(P, D7) = P["benchmarks"] + Sum(P, D8)
      /\ Sum(P, D8) = P["outcomes"] + Sum(P, D9) /\ Sum(P, D9) = P["recoverability"] + Sum(P, D10)
  BY <1>3, <1>5, <1>6
<1>9. Sum(P, D10) = 0
  BY <1>1, <1>5, SumByElement
<1>10. /\ P["provenance"] \in Nat /\ P["risk"] \in Nat /\ P["drift"] \in Nat /\ P["duplicates"] \in Nat
       /\ P["staleness"] \in Nat /\ P["capacity"] \in Nat /\ P["compatibility"] \in Nat /\ P["benchmarks"] \in Nat
       /\ P["outcomes"] \in Nat /\ P["recoverability"] \in Nat
  BY <1>2 DEF Dimensions
<1> HIDE DEF D1, D2, D3, D4, D5, D6, D7, D8, D9, D10
<1>11. Sum(P, Dimensions) <= 10000
  BY <1>4, <1>7, <1>8, <1>9, <1>10
<1> QED
  BY <1>1, <1>11

\* Benchmarks are never collected, so that nothing is excellent.
LEMMA NeverExcellent ==
  ASSUME NEW f \in StoredFacts
  PROVE  Rating(f) \in 1..4 /\ (Evidenced(f) # {} => Rating(f) # 1)
<1>1. "benchmarks" \in DOMAIN Cap /\ StatusFor(f, "benchmarks") = "unknown"
  BY DimensionsAre DEF StatusFor, Dimensions
<1>2. ~(\A d \in DOMAIN Cap : StatusFor(f, d) = "strong")
  <2>1. StatusFor(f, "benchmarks") # "strong"
    BY <1>1
  <2> QED
    BY <1>1, <2>1
<1> QED
  BY <1>2 DEF Rating

\* Damage raises no rating, of whom something is known.
LEMMA RatingsGetLess ==
  ASSUME NEW f \in StoredFacts, NEW g \in StoredFacts, Lower(f, g, FALSE), Evidenced(f) # {}
  PROVE  Rating(g) <= Rating(f)
<1>1. Evidenced(f) \subseteq Evidenced(g) /\ Evidenced(g) # {}
  BY EvidenceStays
<1>2. ScoreOf(g) <= ScoreOf(f) /\ ScoreOf(f) \in Nat /\ ScoreOf(g) \in Nat
  BY ScoresGetLess, ScoreIs
<1>3. ASSUME NEW d \in DOMAIN Cap, StatusFor(f, d) = "critical" PROVE StatusFor(g, d) = "critical"
  <2>1. d \in Dimensions /\ Cap[d] \in Nat /\ Contribution(f, d) \in Nat /\ Contribution(g, d) \in Nat
        /\ Contribution(g, d) <= Contribution(f, d)
    BY DimensionsAre, ContributionIs, ContributionsGetLess
  <2>2. d \in Evidenced(f) /\ ~Reaches(Contribution(f, d), Cap[d], 8) /\ ~Reaches(Contribution(f, d), Cap[d], 4)
    BY <1>3 DEF StatusFor
  <2>3. ASSUME NEW k \in {4, 8}, ~Reaches(Contribution(f, d), Cap[d], k) PROVE ~Reaches(Contribution(g, d), Cap[d], k)
    BY <2>1, <2>3 DEF Reaches
  <2> QED
    BY <1>1, <2>2, <2>3 DEF StatusFor
<1>4. Rating(f) \in 1..4 /\ Rating(g) \in 1..4 /\ Rating(f) # 1 /\ Rating(g) # 1
  BY <1>1, NeverExcellent
<1>5. CASE ScoreOf(f) < 4000
  <2>1. Rating(g) = 2
    BY <1>1, <1>2, <1>5 DEF Rating
  <2> QED
    BY <1>4, <2>1
<1>6. CASE \E d \in DOMAIN Cap : StatusFor(f, d) = "critical"
  <2>1. Rating(g) = 2 \/ Rating(g) = 3
    BY <1>1, <1>3, <1>6 DEF Rating
  <2>2. CASE ScoreOf(f) < 4000
    BY <1>5, <2>2
  <2>3. CASE ~(ScoreOf(f) < 4000)
    <3>1. Rating(f) = 3
      BY <1>6, <2>3 DEF Rating
    <3> QED
      BY <2>1, <3>1
  <2> QED
    BY <2>2, <2>3
<1>7. CASE ~(ScoreOf(f) < 4000) /\ ~(\E d \in DOMAIN Cap : StatusFor(f, d) = "critical")
  <2>1. CASE ScoreOf(f) >= 7000
    <3>1. Rating(f) = 4 \/ Rating(f) = 5
      BY <1>7, <2>1 DEF Rating
    <3> QED
      BY <1>4, <3>1
  <2>2. CASE ~(ScoreOf(f) >= 7000)
    <3>1. Rating(f) = 3
      BY <1>2, <1>7, <2>2 DEF Rating
    <3>2. ~(ScoreOf(g) >= 7000) /\ ~(ScoreOf(g) >= 9000)
      BY <1>2, <2>2
    <3>3. Rating(g) # 4
      BY <3>2 DEF Rating
    <3> QED
      BY <1>4, <3>1, <3>3
  <2> QED
    BY <2>1, <2>2
<1> QED
  BY <1>5, <1>6, <1>7

-----------------------------------------------------------------------------
(* What the collector reads lies between the facts at its beginning and now. *)

LEMMA LowerIsReflexive ==
  ASSUME NEW f \in StoredFacts, NEW lost
  PROVE  Lower(f, f, lost)
<1>1. LowerCatalog(f, f, lost)
  <2>1. \A p : FreshnessGrade[Freshness(f, p)] \in 0..2
    BY FreshnessIs
  <2> QED
    BY <2>1 DEF LowerCatalog
<1>2. LowerSkills(f, f)
  <2>1. \A a \in Others \cup {Me} : \A n \in SkillNames : f.skills[a][n] \in Nat
    BY StoredIs
  <2> QED
    BY <2>1 DEF LowerSkills
<1>3. LowerEvents(f, f) /\ LowerSnapshots(f, f) /\ LowerDisk(f, f)
  BY EventsAre, StoredIs DEF LowerEvents, LowerSnapshots, LowerDisk
<1> QED
  BY <1>1, <1>2, <1>3 DEF Lower

\* Damage adds up.
LEMMA LowerIsTransitive ==
  ASSUME NEW f \in StoredFacts, NEW g \in StoredFacts, NEW h \in StoredFacts, NEW lost, NEW more,
         Lower(f, g, lost), Lower(g, h, more)
  PROVE  Lower(f, h, lost \/ more)
<1>1. LowerCatalog(f, h, lost \/ more)
  <2>1. \A t, p : FreshnessGrade[Freshness(t, p)] \in 0..2
    BY FreshnessIs
  <2> SUFFICES ASSUME NEW p \in RatedPackages
               PROVE  /\ Verified(h, p) => Verified(f, p)
                      /\ Licensed(h, p) => Licensed(f, p)
                      /\ FreshnessGrade[Freshness(h, p)] <= FreshnessGrade[Freshness(f, p)]
                      /\ Freshness(f, p) = "unknown" => Freshness(h, p) = "unknown"
                      /\ (lost \/ more) \/ (Freshness(h, p) = "unknown" => Freshness(f, p) = "unknown")
    BY DEF LowerCatalog
  <2>2. FreshnessGrade[Freshness(h, p)] <= FreshnessGrade[Freshness(f, p)]
    <3>1. FreshnessGrade[Freshness(h, p)] <= FreshnessGrade[Freshness(g, p)]
          /\ FreshnessGrade[Freshness(g, p)] <= FreshnessGrade[Freshness(f, p)]
      BY DEF Lower, LowerCatalog
    <3> QED
      BY <2>1, <3>1
  <2>3. /\ Verified(h, p) => Verified(f, p)
        /\ Licensed(h, p) => Licensed(f, p)
        /\ Freshness(f, p) = "unknown" => Freshness(h, p) = "unknown"
        /\ (lost \/ more) \/ (Freshness(h, p) = "unknown" => Freshness(f, p) = "unknown")
    BY Zenon DEF Lower, LowerCatalog
  <2> QED
    BY <2>2, <2>3
<1>2. LowerSkills(f, h)
  <2>1. \A a \in Others \cup {Me} : \A n \in SkillNames :
          f.skills[a][n] \in Nat /\ g.skills[a][n] \in Nat /\ h.skills[a][n] \in Nat
    BY StoredIs
  <2>2. LowerSkills(f, g) /\ LowerSkills(g, h)
    BY DEF Lower
  <2> QED
    BY <2>1, <2>2 DEF LowerSkills
<1>3. LowerEvents(f, h) /\ LowerSnapshots(f, h)
  <2>1. /\ Earned(f) \in Nat /\ Earned(g) \in Nat /\ Earned(h) \in Nat
        /\ Cardinality(MyEvents(f)) \in Nat /\ Cardinality(MyEvents(g)) \in Nat /\ Cardinality(MyEvents(h)) \in Nat
        /\ f.pending \in Nat /\ g.pending \in Nat /\ h.pending \in Nat
    BY EventsAre, StoredIs
  <2> QED
    BY <2>1 DEF Lower, LowerEvents, LowerSnapshots
<1>4. LowerDisk(f, h)
  BY DEF Lower, LowerDisk
<1> QED
  BY <1>1, <1>2, <1>3, <1>4 DEF Lower

\* t was read in part when the facts were s, in part later, when they were g.
Mixed(t, s, g) ==
  /\ t.catalog \in {s.catalog, g.catalog} /\ t.installs \in {s.installs, g.installs}
  /\ t.skills \in {s.skills, g.skills} /\ t.events \in {s.events, g.events}
  /\ \A p \in RatedPackages : t.disk[p] \in {s.disk[p], g.disk[p]}
  /\ s.torn \cap g.torn \subseteq t.torn /\ t.torn \subseteq s.torn \cup g.torn
  /\ t.pending \in {s.pending, g.pending}

\* What was read of two moments lies between them.
LEMMA MixedIsBetween ==
  ASSUME NEW s \in StoredFacts, NEW g \in StoredFacts, NEW t \in StoredFacts, NEW lost,
         Lower(s, g, lost), Mixed(t, s, g)
  PROVE  Lower(s, t, lost) /\ Lower(t, g, lost)
<1>1. t.installs = s.installs /\ g.installs = s.installs /\ \A p : The(t, p) = The(s, p) /\ The(g, p) = The(s, p)
  BY DEF Lower, Mixed, The
<1>2. ASSUME NEW x, NEW y, x.catalog = y.catalog, x.installs = y.installs
      PROVE  \A p : Verified(x, p) = Verified(y, p) /\ Licensed(x, p) = Licensed(y, p) /\ Freshness(x, p) = Freshness(y, p)
  BY <1>2 DEF Verified, Licensed, Freshness, The
<1>3. LowerCatalog(s, s, lost) /\ LowerCatalog(g, g, lost) /\ LowerCatalog(s, g, lost)
  BY LowerIsReflexive DEF Lower
<1>4. LowerCatalog(s, t, lost) /\ LowerCatalog(t, g, lost)
  <2>1. CASE t.catalog = s.catalog
    <3>1. \A p : Verified(t, p) = Verified(s, p) /\ Licensed(t, p) = Licensed(s, p) /\ Freshness(t, p) = Freshness(s, p)
      BY <1>1, <1>2, <2>1
    <3> QED
      BY <1>3, <3>1 DEF LowerCatalog
  <2>2. CASE t.catalog = g.catalog
    <3>1. \A p : Verified(t, p) = Verified(g, p) /\ Licensed(t, p) = Licensed(g, p) /\ Freshness(t, p) = Freshness(g, p)
      BY <1>1, <1>2, <2>2
    <3> QED
      BY <1>3, <3>1 DEF LowerCatalog
  <2> QED
    BY <2>1, <2>2 DEF Mixed
<1>5. LowerDisk(s, t) /\ LowerDisk(t, g)
  <2>1. LowerDisk(s, g)
    BY DEF Lower
  <2> QED
    BY <1>1, <2>1 DEF LowerDisk, Mixed, Drifted
<1>6. LowerSkills(s, t) /\ LowerSkills(t, g)
  <2>1. LowerSkills(s, s) /\ LowerSkills(g, g) /\ LowerSkills(s, g)
    BY LowerIsReflexive DEF Lower
  <2> QED
    BY <2>1 DEF LowerSkills, Mixed
<1>7. LowerEvents(s, t) /\ LowerEvents(t, g)
  <2>1. LowerEvents(s, s) /\ LowerEvents(g, g) /\ LowerEvents(s, g)
    BY LowerIsReflexive DEF Lower
  <2>2. ASSUME NEW x, NEW y, x.events = y.events PROVE Earned(x) = Earned(y) /\ MyEvents(x) = MyEvents(y)
    BY <2>2 DEF Earned, MyEvents
  <2>3. CASE t.events = s.events
    BY <2>1, <2>2, <2>3 DEF LowerEvents
  <2>4. CASE t.events = g.events
    BY <2>1, <2>2, <2>4 DEF LowerEvents
  <2> QED
    BY <2>3, <2>4 DEF Mixed
<1>8. LowerSnapshots(s, t) /\ LowerSnapshots(t, g)
  <2>1. LowerSnapshots(s, g) /\ s.pending \in Nat /\ g.pending \in Nat
    BY StoredIs DEF Lower
  <2> QED
    BY <2>1 DEF LowerSnapshots, Mixed
<1> QED
  BY <1>1, <1>4, <1>5, <1>6, <1>7, <1>8 DEF Lower

-----------------------------------------------------------------------------
(* What damage does to the facts. *)

\* The parts of what is stored.
OneEach(f) == \A p \in RatedPackages : \A c, d \in f[p] : c = d
Entries == [commit : Words, licensed : BOOLEAN, age : Int]
Installs == [commit : Words, text : Words, place : Words, risk : Risks, snapshot : Words]

Catalogs == {c \in [RatedPackages -> SUBSET Entries] : OneEach(c)}
Installations == {i \in [RatedPackages -> SUBSET Installs] : OneEach(i)}
SkillCounts == [Others \cup {Me} -> [SkillNames -> Nat]]
OutcomeLists == Seq([agent : Others \cup {Me}, result : Results])
Disks == [RatedPackages -> [place : Words, text : Words]]
TheFacts(catalog, installs, skills, events, disk, torn, pending) ==
  [catalog |-> catalog, installs |-> installs, skills |-> skills, events |-> events, disk |-> disk,
   torn |-> torn, pending |-> pending]

\* Facts by their parts.
LEMMA StoredWhen ==
  ASSUME NEW catalog \in Catalogs, NEW installs \in Installations, NEW skills \in SkillCounts,
         NEW events \in OutcomeLists, NEW disk \in Disks, NEW torn \in SUBSET Words, NEW pending \in Nat
  PROVE  TheFacts(catalog, installs, skills, events, disk, torn, pending) \in StoredFacts
<1>1. catalog \in [RatedPackages -> SUBSET Entries] /\ OneEach(catalog)
      /\ installs \in [RatedPackages -> SUBSET Installs] /\ OneEach(installs)
  BY DEF Catalogs, Installations
<1> QED
  BY <1>1, Zenon DEF TheFacts, SkillCounts, OutcomeLists, Disks, StoredFacts, OneEach, Entries, Installs

LEMMA StoredParts ==
  ASSUME NEW f \in StoredFacts
  PROVE  /\ f.catalog \in Catalogs /\ f.installs \in Installations /\ f.skills \in SkillCounts
         /\ f.events \in OutcomeLists /\ f.disk \in Disks /\ f.torn \in SUBSET Words /\ f.pending \in Nat
         /\ f = TheFacts(f.catalog, f.installs, f.skills, f.events, f.disk, f.torn, f.pending)
BY StoredIs DEF Catalogs, Installations, SkillCounts, OutcomeLists, Disks, OneEach, Entries, Installs, TheFacts

LEMMA FactsAre ==
  ASSUME NEW catalog, NEW installs, NEW skills, NEW events, NEW disk, NEW torn, NEW pending
  PROVE  LET f == TheFacts(catalog, installs, skills, events, disk, torn, pending) IN
         /\ f.catalog = catalog /\ f.installs = installs /\ f.skills = skills /\ f.events = events /\ f.disk = disk
         /\ f.torn = torn /\ f.pending = pending
BY DEF TheFacts

\* The facts with one part of them replaced.
WithDisk(disk) == [facts EXCEPT !.disk = disk]
WithTorn(torn) == [facts EXCEPT !.torn = torn]
WithPending(pending) == [facts EXCEPT !.pending = pending]
WithCatalog(catalog) == [facts EXCEPT !.catalog = catalog]
WithSkills(skills) == [facts EXCEPT !.skills = skills]
WithEvents(events) == [facts EXCEPT !.events = events]

LEMMA SameParts ==
  ASSUME facts \in StoredFacts, NEW new, new.installs = facts.installs
  PROVE  /\ new.catalog = facts.catalog => LowerCatalog(facts, new, FALSE)
         /\ new.disk = facts.disk => LowerDisk(facts, new)
         /\ new.skills = facts.skills => LowerSkills(facts, new)
         /\ new.events = facts.events => LowerEvents(facts, new)
         /\ facts.torn \subseteq new.torn /\ new.pending = facts.pending => LowerSnapshots(facts, new)
<1>1. /\ LowerCatalog(facts, facts, FALSE) /\ LowerDisk(facts, facts)
      /\ LowerSkills(facts, facts) /\ LowerEvents(facts, facts) /\ LowerSnapshots(facts, facts)
  BY LowerIsReflexive DEF Lower
<1>2. new.catalog = facts.catalog => LowerCatalog(facts, new, FALSE)
  <2> SUFFICES ASSUME new.catalog = facts.catalog PROVE LowerCatalog(facts, new, FALSE)
    OBVIOUS
  <2>1. \A p : (Verified(new, p) <=> Verified(facts, p)) /\ (Licensed(new, p) <=> Licensed(facts, p))
               /\ Freshness(new, p) = Freshness(facts, p)
    BY DEF Verified, Licensed, Freshness, The
  <2> QED
    BY <1>1, <2>1 DEF LowerCatalog
<1>3. new.disk = facts.disk => LowerDisk(facts, new)
  BY <1>1 DEF LowerDisk, Drifted, The
<1>4. new.skills = facts.skills => LowerSkills(facts, new)
  BY <1>1 DEF LowerSkills
<1>5. new.events = facts.events => LowerEvents(facts, new)
  BY <1>1 DEF LowerEvents, Earned, MyEvents
<1>6. facts.torn \subseteq new.torn /\ new.pending = facts.pending => LowerSnapshots(facts, new)
  BY <1>1 DEF LowerSnapshots
<1> QED
  BY <1>2, <1>3, <1>4, <1>5, <1>6

\* The facts with one part replaced.
LEMMA PartsReplaced ==
  ASSUME facts \in StoredFacts
  PROVE  /\ \A x \in Disks :
              /\ WithDisk(x) \in StoredFacts /\ WithDisk(x).disk = x /\ WithDisk(x).installs = facts.installs
              /\ LowerDisk(facts, WithDisk(x)) => Lower(facts, WithDisk(x), FALSE)
         /\ \A x \in SUBSET Words :
              WithTorn(x) \in StoredFacts /\ (facts.torn \subseteq x => Lower(facts, WithTorn(x), FALSE))
         /\ \A x \in Nat :
              WithPending(x) \in StoredFacts /\ (facts.pending <= x => Lower(facts, WithPending(x), FALSE))
         /\ \A x \in Catalogs :
              /\ WithCatalog(x) \in StoredFacts /\ WithCatalog(x).catalog = x /\ WithCatalog(x).installs = facts.installs
              /\ \A lost : LowerCatalog(facts, WithCatalog(x), lost) => Lower(facts, WithCatalog(x), lost)
         /\ \A x \in SkillCounts :
              /\ WithSkills(x) \in StoredFacts /\ WithSkills(x).skills = x
              /\ LowerSkills(facts, WithSkills(x)) => Lower(facts, WithSkills(x), FALSE)
         /\ \A x \in OutcomeLists :
              /\ WithEvents(x) \in StoredFacts /\ WithEvents(x).events = x
              /\ LowerEvents(facts, WithEvents(x)) => Lower(facts, WithEvents(x), FALSE)
<1>1. /\ facts.catalog \in Catalogs /\ facts.installs \in Installations /\ facts.skills \in SkillCounts
      /\ facts.events \in OutcomeLists /\ facts.disk \in Disks /\ facts.torn \in SUBSET Words /\ facts.pending \in Nat
      /\ facts = TheFacts(facts.catalog, facts.installs, facts.skills, facts.events, facts.disk, facts.torn, facts.pending)
  BY StoredParts
<1>2. ASSUME NEW x \in Disks
      PROVE  /\ WithDisk(x) \in StoredFacts /\ WithDisk(x).disk = x /\ WithDisk(x).installs = facts.installs
             /\ LowerDisk(facts, WithDisk(x)) => Lower(facts, WithDisk(x), FALSE)
  <2> DEFINE new == WithDisk(x)
  <2>1. new = TheFacts(facts.catalog, facts.installs, facts.skills, facts.events, x, facts.torn, facts.pending)
    BY <1>1, FactsAre DEF WithDisk, TheFacts
  <2>2. /\ new.catalog = facts.catalog /\ new.installs = facts.installs /\ new.skills = facts.skills /\ new.events = facts.events
        /\ new.disk = x /\ new.torn = facts.torn /\ new.pending = facts.pending
    BY <2>1, FactsAre
  <2>3. new \in StoredFacts
    BY <1>1, <2>1, StoredWhen
  <2> HIDE DEF new
  <2>4. LowerDisk(facts, new) => Lower(facts, new, FALSE)
    BY <2>2, SameParts DEF Lower
  <2> QED
    BY <2>2, <2>3, <2>4 DEF new
<1>3. ASSUME NEW x \in SUBSET Words
      PROVE  /\ WithTorn(x) \in StoredFacts 
             /\ facts.torn \subseteq x => Lower(facts, WithTorn(x), FALSE)
  <2> DEFINE new == WithTorn(x)
  <2>1. new = TheFacts(facts.catalog, facts.installs, facts.skills, facts.events, facts.disk, x, facts.pending)
    BY <1>1, FactsAre DEF WithTorn, TheFacts
  <2>2. /\ new.catalog = facts.catalog /\ new.installs = facts.installs /\ new.skills = facts.skills /\ new.events = facts.events
        /\ new.disk = facts.disk /\ new.torn = x /\ new.pending = facts.pending
    BY <2>1, FactsAre
  <2>3. new \in StoredFacts
    BY <1>1, <2>1, StoredWhen
  <2> HIDE DEF new
  <2>4. facts.torn \subseteq x => Lower(facts, new, FALSE)
    BY <2>2, SameParts DEF Lower, LowerSnapshots
  <2> QED
    BY <2>2, <2>3, <2>4 DEF new
<1>4. ASSUME NEW x \in Nat
      PROVE  /\ WithPending(x) \in StoredFacts 
             /\ facts.pending <= x => Lower(facts, WithPending(x), FALSE)
  <2> DEFINE new == WithPending(x)
  <2>1. new = TheFacts(facts.catalog, facts.installs, facts.skills, facts.events, facts.disk, facts.torn, x)
    BY <1>1, FactsAre DEF WithPending, TheFacts
  <2>2. /\ new.catalog = facts.catalog /\ new.installs = facts.installs /\ new.skills = facts.skills /\ new.events = facts.events
        /\ new.disk = facts.disk /\ new.torn = facts.torn /\ new.pending = x
    BY <2>1, FactsAre
  <2>3. new \in StoredFacts
    BY <1>1, <2>1, StoredWhen
  <2> HIDE DEF new
  <2>4. facts.pending <= x => Lower(facts, new, FALSE)
    BY <2>2, SameParts DEF Lower, LowerSnapshots
  <2> QED
    BY <2>2, <2>3, <2>4 DEF new
<1>5. ASSUME NEW x \in Catalogs
      PROVE  /\ WithCatalog(x) \in StoredFacts /\ WithCatalog(x).catalog = x /\ WithCatalog(x).installs = facts.installs
             /\ \A lost : LowerCatalog(facts, WithCatalog(x), lost) => Lower(facts, WithCatalog(x), lost)
  <2> DEFINE new == WithCatalog(x)
  <2>1. new = TheFacts(x, facts.installs, facts.skills, facts.events, facts.disk, facts.torn, facts.pending)
    BY <1>1, FactsAre DEF WithCatalog, TheFacts
  <2>2. /\ new.catalog = x /\ new.installs = facts.installs /\ new.skills = facts.skills /\ new.events = facts.events
        /\ new.disk = facts.disk /\ new.torn = facts.torn /\ new.pending = facts.pending
    BY <2>1, FactsAre
  <2>3. new \in StoredFacts
    BY <1>1, <2>1, StoredWhen
  <2> HIDE DEF new
  <2>4. \A lost : LowerCatalog(facts, new, lost) => Lower(facts, new, lost)
    BY <2>2, SameParts DEF Lower
  <2> QED
    BY <2>2, <2>3, <2>4 DEF new
<1>6. ASSUME NEW x \in SkillCounts
      PROVE  /\ WithSkills(x) \in StoredFacts /\ WithSkills(x).skills = x
             /\ LowerSkills(facts, WithSkills(x)) => Lower(facts, WithSkills(x), FALSE)
  <2> DEFINE new == WithSkills(x)
  <2>1. new = TheFacts(facts.catalog, facts.installs, x, facts.events, facts.disk, facts.torn, facts.pending)
    BY <1>1, FactsAre DEF WithSkills, TheFacts
  <2>2. /\ new.catalog = facts.catalog /\ new.installs = facts.installs /\ new.skills = x /\ new.events = facts.events
        /\ new.disk = facts.disk /\ new.torn = facts.torn /\ new.pending = facts.pending
    BY <2>1, FactsAre
  <2>3. new \in StoredFacts
    BY <1>1, <2>1, StoredWhen
  <2> HIDE DEF new
  <2>4. LowerSkills(facts, new) => Lower(facts, new, FALSE)
    BY <2>2, SameParts DEF Lower
  <2> QED
    BY <2>2, <2>3, <2>4 DEF new
<1>7. ASSUME NEW x \in OutcomeLists
      PROVE  /\ WithEvents(x) \in StoredFacts /\ WithEvents(x).events = x
             /\ LowerEvents(facts, WithEvents(x)) => Lower(facts, WithEvents(x), FALSE)
  <2> DEFINE new == WithEvents(x)
  <2>1. new = TheFacts(facts.catalog, facts.installs, facts.skills, x, facts.disk, facts.torn, facts.pending)
    BY <1>1, FactsAre DEF WithEvents, TheFacts
  <2>2. /\ new.catalog = facts.catalog /\ new.installs = facts.installs /\ new.skills = facts.skills /\ new.events = x
        /\ new.disk = facts.disk /\ new.torn = facts.torn /\ new.pending = facts.pending
    BY <2>1, FactsAre
  <2>3. new \in StoredFacts
    BY <1>1, <2>1, StoredWhen
  <2> HIDE DEF new
  <2>4. LowerEvents(facts, new) => Lower(facts, new, FALSE)
    BY <2>2, SameParts DEF Lower
  <2> QED
    BY <2>2, <2>3, <2>4 DEF new
<1> QED
  BY <1>2, <1>3, <1>4, <1>5, <1>6, <1>7

\* What a change of the facts does to a collection and to the report.
Changes(mends, loses) ==
  report' = {} /\ pass' = IF pass = NoPass THEN NoPass ELSE [pass EXCEPT !.mended = @ \/ mends, !.lost = @ \/ loses]

\* The changes of the facts, one by one.
LEMMA FileEdited ==
  ASSUME facts \in StoredFacts, ManagedFileEdited
  PROVE  facts' \in StoredFacts /\ Changes(FALSE, FALSE) /\ Lower(facts, facts', FALSE)
<1>1. PICK p \in Present(facts) : ~Drifted(facts, p) /\ Damage([facts EXCEPT !.disk[p].text = "edited"])
  BY DEF ManagedFileEdited
<1> DEFINE disk == [facts.disk EXCEPT ![p] = [facts.disk[p] EXCEPT !.text = "edited"]]
<1>2. facts' = WithDisk(disk) /\ Changes(FALSE, FALSE)
  <2>1. facts' = [facts EXCEPT !.disk[p].text = "edited"] /\ Changes(FALSE, FALSE)
    BY <1>1 DEF Damage, Becomes, Changes
  <2>2. [facts EXCEPT !.disk[p].text = "edited"] = WithDisk(disk)
    BY DEF WithDisk
  <2> QED
    BY <2>1, <2>2
<1>3. disk \in Disks /\ p \in RatedPackages /\ facts.disk \in Disks
  BY StoredParts, HealthAssumption DEF Disks, Present
<1>4. \A q \in RatedPackages \ {p} : disk[q] = facts.disk[q]
  BY <1>3 DEF Disks
<1> HIDE DEF disk
<1>5. WithDisk(disk).disk = disk /\ WithDisk(disk).installs = facts.installs
  BY <1>3, PartsReplaced
<1>6. LowerDisk(facts, WithDisk(disk))
  BY <1>1, <1>4, <1>5 DEF LowerDisk, Drifted, The
<1> QED
  BY <1>2, <1>3, <1>6, PartsReplaced

LEMMA SnapshotLost ==
  ASSUME facts \in StoredFacts, SnapshotTorn
  PROVE  facts' \in StoredFacts /\ Changes(FALSE, FALSE) /\ Lower(facts, facts', FALSE)
<1>1. PICK s \in SnapshotsOf(facts) : Damage([facts EXCEPT !.torn = @ \cup {s}])
  BY DEF SnapshotTorn
<1> DEFINE torn == facts.torn \cup {s}
<1>2. facts' = WithTorn(torn) /\ Changes(FALSE, FALSE)
  BY <1>1 DEF Damage, Becomes, Changes, WithTorn
<1>3. torn \in SUBSET Words /\ facts.torn \subseteq torn
  BY StoredIs, PresentIs DEF SnapshotsOf
<1> QED
  BY <1>2, <1>3, PartsReplaced

LEMMA OneTransactionLeft ==
  ASSUME facts \in StoredFacts, TransactionLeft
  PROVE  facts' \in StoredFacts /\ Changes(FALSE, FALSE) /\ Lower(facts, facts', FALSE)
<1>1. facts' = WithPending(facts.pending + 1) /\ Changes(FALSE, FALSE)
  BY DEF TransactionLeft, Damage, Becomes, Changes, WithPending
<1>2. facts.pending + 1 \in Nat /\ facts.pending <= facts.pending + 1
  BY StoredIs
<1> QED
  BY <1>1, <1>2, PartsReplaced

LEMMA TransactionsDone ==
  ASSUME facts \in StoredFacts, TransactionsRecovered
  PROVE  facts' \in StoredFacts /\ Changes(TRUE, FALSE)
<1>1. facts' = WithPending(0) /\ Changes(TRUE, FALSE)
  BY DEF TransactionsRecovered, Mend, Becomes, Changes, WithPending
<1> QED
  BY <1>1, PartsReplaced

Freshest(ages) ==
  IF ages = {} THEN "unknown" ELSE IF Max(ages) <= 180 THEN "fresh" ELSE IF Max(ages) <= 365 THEN "aging" ELSE "stale"
Ages(f, p) == {c.age : c \in f.catalog[p]}

LEMMA FreshnessByAge ==
  ASSUME NEW f, NEW p
  PROVE  Freshness(f, p) = Freshest(Ages(f, p) \cap Nat)
BY Zenon DEF Freshness, Freshest, Ages

LEMMA FreshnessOfOne ==
  ASSUME NEW f, NEW p, NEW c, f.catalog[p] = {c}, c.age \in Nat
  PROVE  Freshness(f, p) = IF c.age <= 180 THEN "fresh" ELSE IF c.age <= 365 THEN "aging" ELSE "stale"
<1> DEFINE ages == {e.age : e \in f.catalog[p]} \cap Nat
<1>1. ages = {c.age}
  OBVIOUS
<1>2. Max(ages) = c.age
  BY <1>1 DEF Max
<1> QED
  BY <1>1, <1>2 DEF Freshness

\* One entry of the catalog becomes another.
LEMMA EntryReplaced ==
  ASSUME facts \in StoredFacts, NEW p \in RatedPackages, NEW entries \in SUBSET Entries, \A c, d \in entries : c = d,
         NEW new, new = WithCatalog([facts.catalog EXCEPT ![p] = entries])
  PROVE  /\ new \in StoredFacts /\ new.catalog[p] = entries /\ new.installs = facts.installs
         /\ \A lost :
              /\ (\E e \in entries : e.commit = The(facts, p).commit) => Verified(facts, p)
              /\ (\E e \in entries : e.licensed) => Licensed(facts, p)
              /\ FreshnessGrade[Freshness(new, p)] <= FreshnessGrade[Freshness(facts, p)]
              /\ Freshness(facts, p) = "unknown" => Freshness(new, p) = "unknown"
              /\ lost \/ (Freshness(new, p) = "unknown" => Freshness(facts, p) = "unknown")
              => Lower(facts, new, lost)
<1> DEFINE catalog == [facts.catalog EXCEPT ![p] = entries]
<1>1. facts.catalog \in [RatedPackages -> SUBSET Entries] /\ OneEach(facts.catalog)
  BY StoredParts DEF Catalogs
<1>2. catalog \in Catalogs /\ catalog[p] = entries /\ \A q \in RatedPackages \ {p} : catalog[q] = facts.catalog[q]
  BY <1>1 DEF Catalogs, OneEach
<1> HIDE DEF catalog
<1>3. new \in StoredFacts /\ new.catalog = catalog /\ new.installs = facts.installs
      /\ \A lost : LowerCatalog(facts, new, lost) => Lower(facts, new, lost)
  <2>1. new = WithCatalog(catalog)
    BY DEF catalog
  <2> QED
    BY <1>2, <2>1, PartsReplaced
<1>4. \A q : The(new, q) = The(facts, q)
  BY <1>3 DEF The
<1>5. (Verified(new, p) <=> \E e \in entries : e.commit = The(facts, p).commit) /\ (Licensed(new, p) <=> \E e \in entries : e.licensed)
  BY <1>2, <1>3, <1>4 DEF Verified, Licensed
<1>6. ASSUME NEW q \in RatedPackages \ {p}
      PROVE  (Verified(new, q) <=> Verified(facts, q)) /\ (Licensed(new, q) <=> Licensed(facts, q))
             /\ Freshness(new, q) = Freshness(facts, q)
  <2>1. new.catalog[q] = facts.catalog[q] /\ The(new, q) = The(facts, q)
    BY <1>2, <1>3, <1>4
  <2>2. Ages(new, q) = Ages(facts, q)
    BY <2>1 DEF Ages
  <2>3. Freshness(new, q) = Freshness(facts, q)
    BY <2>2, FreshnessByAge
  <2> QED
    BY <2>1, <2>3 DEF Verified, Licensed
<1>7. LowerCatalog(facts, facts, FALSE)
  BY LowerIsReflexive DEF Lower
<1>8. ASSUME NEW lost,
             (\E e \in entries : e.commit = The(facts, p).commit) => Verified(facts, p),
             (\E e \in entries : e.licensed) => Licensed(facts, p),
             FreshnessGrade[Freshness(new, p)] <= FreshnessGrade[Freshness(facts, p)],
             Freshness(facts, p) = "unknown" => Freshness(new, p) = "unknown",
             lost \/ (Freshness(new, p) = "unknown" => Freshness(facts, p) = "unknown")
      PROVE  Lower(facts, new, lost)
  <2>1. ASSUME NEW q \in RatedPackages \ {p}
        PROVE  /\ Verified(new, q) => Verified(facts, q)
               /\ Licensed(new, q) => Licensed(facts, q)
               /\ FreshnessGrade[Freshness(new, q)] <= FreshnessGrade[Freshness(facts, q)]
               /\ Freshness(facts, q) = "unknown" => Freshness(new, q) = "unknown"
               /\ lost \/ (Freshness(new, q) = "unknown" => Freshness(facts, q) = "unknown")
    BY <1>6, <1>7 DEF LowerCatalog
  <2>2. LowerCatalog(facts, new, lost)
    BY <1>5, <1>8, <2>1 DEF LowerCatalog
  <2> QED
    BY <1>3, <2>2
<1> QED
  BY <1>2, <1>3, <1>8

LEMMA OneAges ==
  ASSUME facts \in StoredFacts, PackageAges
  PROVE  facts' \in StoredFacts /\ Changes(FALSE, FALSE) /\ Lower(facts, facts', FALSE)
<1>0. PICK p \in RatedPackages : \E c \in facts.catalog[p], age \in {181, 366} :
        c.age \in 0..(age - 1) /\ Damage([facts EXCEPT !.catalog[p] = {[c EXCEPT !.age = age]}])
  BY DEF PackageAges
<1>1. PICK c \in facts.catalog[p], age \in {181, 366} :
        c.age \in 0..(age - 1) /\ Damage([facts EXCEPT !.catalog[p] = {[c EXCEPT !.age = age]}])
  BY <1>0
<1> DEFINE e == [c EXCEPT !.age = age]
           entries == {e}
           new == WithCatalog([facts.catalog EXCEPT ![p] = entries])
<1>2. facts' = new /\ Changes(FALSE, FALSE)
  BY <1>1 DEF Damage, Becomes, Changes, WithCatalog
<1>3. c \in Entries /\ facts.catalog[p] = {c} /\ c.age \in Nat
  BY <1>1, StoredParts DEF Catalogs, OneEach
<1>4. e \in Entries /\ e.commit = c.commit /\ e.licensed = c.licensed /\ e.age = age /\ age \in Nat
  BY <1>3 DEF Entries
<1> HIDE DEF e
<1>11. entries \in SUBSET Entries /\ (\A x, y \in entries : x = y)
       /\ new = WithCatalog([facts.catalog EXCEPT ![p] = entries])
  BY <1>4
<1> HIDE DEF new, entries
<1>12. new \in StoredFacts /\ new.catalog[p] = entries
  BY <1>11, EntryReplaced
<1>5. new \in StoredFacts /\ new.catalog[p] = {e}
  BY <1>12 DEF entries
<1>6. ((\E x \in entries : x.commit = The(facts, p).commit) => Verified(facts, p))
      /\ ((\E x \in entries : x.licensed) => Licensed(facts, p))
  BY <1>3, <1>4 DEF Verified, Licensed, entries
<1> HIDE DEF new
<1>7. Freshness(facts, p) = IF c.age <= 180 THEN "fresh" ELSE IF c.age <= 365 THEN "aging" ELSE "stale"
  BY <1>3, FreshnessOfOne
<1>8. Freshness(new, p) = IF age <= 180 THEN "fresh" ELSE IF age <= 365 THEN "aging" ELSE "stale"
  BY <1>4, <1>5, FreshnessOfOne
<1>9. FreshnessGrade[Freshness(new, p)] <= FreshnessGrade[Freshness(facts, p)]
      /\ Freshness(facts, p) # "unknown" /\ Freshness(new, p) # "unknown"
  <2>1. c.age < age
    BY <1>1, <1>3
  <2> QED
    BY <1>3, <1>4, <1>7, <1>8, <2>1 DEF FreshnessGrade
<1>10. Lower(facts, new, FALSE)
  <2>1. PICK lost : lost = FALSE
    OBVIOUS
  <2>2. Lower(facts, new, lost)
    BY <1>6, <1>9, <1>11, EntryReplaced, SMTT(60)
  <2> QED
    BY <2>1, <2>2
<1> QED
  BY <1>2, <1>5, <1>10 DEF new

LEMMA OneMoves ==
  ASSUME facts \in StoredFacts, SourceMoves
  PROVE  facts' \in StoredFacts /\ Changes(FALSE, FALSE) /\ Lower(facts, facts', FALSE)
<1>0. PICK p \in Present(facts) : \E c \in facts.catalog[p] :
        The(facts, p).commit # "next" /\ Damage([facts EXCEPT !.catalog[p] = {[c EXCEPT !.commit = "next"]}])
  BY DEF SourceMoves
<1>1. PICK c \in facts.catalog[p] :
        The(facts, p).commit # "next" /\ Damage([facts EXCEPT !.catalog[p] = {[c EXCEPT !.commit = "next"]}])
  BY <1>0
<1> DEFINE e == [c EXCEPT !.commit = "next"]
           entries == {e}
           new == WithCatalog([facts.catalog EXCEPT ![p] = entries])
<1>2. facts' = new /\ Changes(FALSE, FALSE)
  BY <1>1 DEF Damage, Becomes, Changes, WithCatalog
<1>3. p \in RatedPackages /\ c \in Entries /\ facts.catalog[p] = {c}
  BY <1>1, StoredParts DEF Catalogs, OneEach, Present
<1>4. e \in Entries /\ e.commit = "next" /\ e.licensed = c.licensed /\ e.age = c.age
  <2>1. c = [commit |-> c.commit, licensed |-> c.licensed, age |-> c.age] /\ c.licensed \in BOOLEAN /\ c.age \in Int
    BY <1>3 DEF Entries
  <2>2. e = [commit |-> "next", licensed |-> c.licensed, age |-> c.age]
    BY <2>1
  <2> HIDE DEF e
  <2>3. e.commit = "next" /\ e.licensed = c.licensed /\ e.age = c.age
    BY <2>2
  <2>4. "next" \in Words
    BY HealthAssumption
  <2>5. e \in Entries
    BY <2>1, <2>2, <2>4, Zenon DEF Entries
  <2> QED
    BY <2>3, <2>5
<1> HIDE DEF e
<1>11. entries \in SUBSET Entries /\ (\A x, y \in entries : x = y)
       /\ new = WithCatalog([facts.catalog EXCEPT ![p] = entries])
  BY <1>4
<1> HIDE DEF new, entries
<1>12. new \in StoredFacts /\ new.catalog[p] = entries
  BY <1>3, <1>11, EntryReplaced, SMTT(60)
<1>5. new \in StoredFacts /\ new.catalog[p] = {e}
  BY <1>12 DEF entries
<1>6. ((\E x \in entries : x.commit = The(facts, p).commit) => Verified(facts, p))
      /\ ((\E x \in entries : x.licensed) => Licensed(facts, p))
  BY <1>1, <1>3, <1>4 DEF Licensed, entries
<1> HIDE DEF new
<1>7. Freshness(new, p) = Freshness(facts, p)
  <2>1. Ages(new, p) = {e.age} /\ Ages(facts, p) = {c.age}
    BY <1>3, <1>5 DEF Ages
  <2> QED
    BY <1>4, <2>1, FreshnessByAge
<1>8. FreshnessGrade[Freshness(facts, p)] \in 0..2
  BY FreshnessIs
<1>9. Lower(facts, new, FALSE)
  <2>1. FreshnessGrade[Freshness(new, p)] <= FreshnessGrade[Freshness(facts, p)]
        /\ (Freshness(facts, p) = "unknown" <=> Freshness(new, p) = "unknown")
    BY <1>7, <1>8
  <2> QED
    BY <1>3, <1>6, <1>11, <2>1, EntryReplaced
<1> QED
  BY <1>2, <1>5, <1>9 DEF new

LEMMA OneLeaves ==
  ASSUME facts \in StoredFacts, LeavesCatalog
  PROVE  facts' \in StoredFacts /\ Changes(FALSE, TRUE) /\ Lower(facts, facts', TRUE)
<1>1. PICK p \in RatedPackages : Becomes([facts EXCEPT !.catalog[p] = {}], FALSE, TRUE)
  BY DEF LeavesCatalog
<1> DEFINE new == WithCatalog([facts.catalog EXCEPT ![p] = {}])
<1>2. facts' = new /\ Changes(FALSE, TRUE)
  BY <1>1 DEF Becomes, Changes, WithCatalog
<1>3. {} \in SUBSET Entries /\ \A c, d \in {} : c = d
  OBVIOUS
<1>4. new \in StoredFacts /\ new.catalog[p] = {}
  BY <1>3, EntryReplaced
<1>5. Freshness(new, p) = "unknown"
  <2>1. {c.age : c \in new.catalog[p]} \cap Nat = {}
    BY <1>4
  <2> QED
    BY <2>1 DEF Freshness
<1>6. FreshnessGrade[Freshness(new, p)] <= FreshnessGrade[Freshness(facts, p)]
  BY <1>5, FreshnessIs DEF FreshnessGrade
<1> HIDE DEF new
<1>7. Lower(facts, new, TRUE)
  BY <1>3, <1>5, <1>6, EntryReplaced DEF new
<1> QED
  BY <1>2, <1>4, <1>7 DEF new

LEMMA OneDuplicated ==
  ASSUME facts \in StoredFacts, SkillDuplicated
  PROVE  facts' \in StoredFacts /\ Changes(FALSE, FALSE) /\ Lower(facts, facts', FALSE)
<1>1. PICK a \in Others \cup {Me}, n \in SkillNames :
        facts.skills[a][n] > 0 /\ Damage([facts EXCEPT !.skills[a][n] = @ + 1])
  BY DEF SkillDuplicated
<1> DEFINE skills == [facts.skills EXCEPT ![a][n] = @ + 1]
<1>2. facts' = WithSkills(skills) /\ Changes(FALSE, FALSE)
  BY <1>1 DEF Damage, Becomes, Changes, WithSkills
<1>3. facts.skills \in [Others \cup {Me} -> [SkillNames -> Nat]]
  BY StoredIs
<1>4. skills \in SkillCounts /\ \A b \in Others \cup {Me} : \A m \in SkillNames :
        skills[b][m] = IF b = a /\ m = n THEN facts.skills[a][n] + 1 ELSE facts.skills[b][m]
  BY <1>3 DEF SkillCounts
<1> HIDE DEF skills
<1>5. LowerSkills(facts, WithSkills(skills))
  <2>1. WithSkills(skills).skills = skills
    BY <1>4, PartsReplaced
  <2>2. \A b \in Others \cup {Me} : \A m \in SkillNames : facts.skills[b][m] \in Nat
    BY <1>3
  <2> QED
    BY <1>1, <1>4, <2>1, <2>2 DEF LowerSkills
<1> QED
  BY <1>2, <1>4, <1>5, PartsReplaced

\* What may be for the better only keeps the facts well formed.
LEMMA InstallsReplaced ==
  ASSUME facts \in StoredFacts, NEW p \in RatedPackages, NEW it \in SUBSET Installs, \A c, d \in it : c = d,
         NEW disk \in Disks, NEW torn \in SUBSET Words,
         NEW new, new = TheFacts(facts.catalog, [facts.installs EXCEPT ![p] = it], facts.skills, facts.events, disk, torn, facts.pending)
  PROVE  new \in StoredFacts
<1> DEFINE installs == [facts.installs EXCEPT ![p] = it]
<1>1. /\ facts.catalog \in Catalogs /\ facts.installs \in Installations /\ facts.skills \in SkillCounts
      /\ facts.events \in OutcomeLists /\ facts.pending \in Nat
  BY StoredParts
<1>2. installs \in Installations
  BY <1>1 DEF Installations, OneEach
<1> HIDE DEF installs
<1>3. new = TheFacts(facts.catalog, installs, facts.skills, facts.events, disk, torn, facts.pending)
  BY DEF installs
<1> QED
  BY <1>1, <1>2, <1>3, StoredWhen

LEMMA OneUpdated ==
  ASSUME facts \in StoredFacts, PackageUpdated
  PROVE  facts' \in StoredFacts /\ Changes(TRUE, FALSE)
<1>1. PICK p \in RatedPackages, risk \in {"clear", "warning", "unknown"} : \E c \in facts.catalog[p] :
        Mend([facts EXCEPT
          !.installs[p] = {[commit |-> c.commit, text |-> "new", place |-> "active", risk |-> risk, snapshot |-> "s0"]},
          !.disk[p] = [place |-> "active", text |-> "new"], !.torn = @ \ {"s0"}])
  BY DEF PackageUpdated
<1>2. PICK c \in facts.catalog[p] :
        Mend([facts EXCEPT
          !.installs[p] = {[commit |-> c.commit, text |-> "new", place |-> "active", risk |-> risk, snapshot |-> "s0"]},
          !.disk[p] = [place |-> "active", text |-> "new"], !.torn = @ \ {"s0"}])
  BY <1>1
<1> DEFINE new == [commit |-> c.commit, text |-> "new", place |-> "active", risk |-> risk, snapshot |-> "s0"]
           it == {new}
           disk == [facts.disk EXCEPT ![p] = [place |-> "active", text |-> "new"]]
           torn == facts.torn \ {"s0"}
<1>3. facts' = TheFacts(facts.catalog, [facts.installs EXCEPT ![p] = it], facts.skills, facts.events, disk, torn, facts.pending)
      /\ Changes(TRUE, FALSE)
  <2>1. facts' = [facts EXCEPT !.installs = [facts.installs EXCEPT ![p] = it], !.disk = disk, !.torn = torn] /\ Changes(TRUE, FALSE)
    BY <1>2 DEF Mend, Becomes, Changes
  <2>2. facts = TheFacts(facts.catalog, facts.installs, facts.skills, facts.events, facts.disk, facts.torn, facts.pending)
    BY StoredParts
  <2> QED
    BY <2>1, <2>2 DEF TheFacts
<1>4. c \in Entries /\ facts.disk \in Disks /\ facts.torn \in SUBSET Words
  BY StoredParts DEF Catalogs
<1>5. new \in Installs
  <2>1. risk \in Risks
    BY DEF Risks
  <2>2. c.commit \in Words
    BY <1>4 DEF Entries
  <2> QED
    BY <2>1, <2>2, HealthAssumption DEF Installs
<1>6. disk \in Disks /\ torn \in SUBSET Words
  BY <1>4, HealthAssumption DEF Disks
<1> HIDE DEF new, disk, torn
<1>7. it \in SUBSET Installs /\ \A x, y \in it : x = y
  BY <1>5
<1> HIDE DEF it
<1> QED
  BY <1>3, <1>6, <1>7, InstallsReplaced

LEMMA OneDisabled ==
  ASSUME facts \in StoredFacts, PackageDisabled
  PROVE  facts' \in StoredFacts /\ Changes(TRUE, FALSE)
<1>1. PICK p \in Present(facts) :
        Mend([facts EXCEPT !.installs[p] = {[The(facts, p) EXCEPT !.place = "library"]}, !.disk[p].place = "library"])
  BY DEF PackageDisabled
<1> DEFINE new == [The(facts, p) EXCEPT !.place = "library"]
           it == {new}
           disk == [facts.disk EXCEPT ![p] = [facts.disk[p] EXCEPT !.place = "library"]]
<1>2. facts' = TheFacts(facts.catalog, [facts.installs EXCEPT ![p] = it], facts.skills, facts.events, disk, facts.torn, facts.pending)
      /\ Changes(TRUE, FALSE)
  <2>1. facts' = [facts EXCEPT !.installs[p] = it, !.disk[p].place = "library"] /\ Changes(TRUE, FALSE)
    BY <1>1 DEF Mend, Becomes, Changes
  <2>2. facts = TheFacts(facts.catalog, facts.installs, facts.skills, facts.events, facts.disk, facts.torn, facts.pending)
    BY StoredParts
  <2> HIDE DEF it
  <2> QED
    BY <2>1, <2>2 DEF TheFacts
<1>3. facts.disk \in Disks /\ facts.torn \in SUBSET Words /\ p \in RatedPackages /\ The(facts, p) \in Installs
  <2>1. facts.disk \in Disks /\ facts.torn \in SUBSET Words /\ facts.installs \in Installations
    BY StoredParts
  <2>2. p \in RatedPackages
    BY DEF Present
  <2>3. The(facts, p) \in facts.installs[p]
    BY PresentIs
  <2>4. facts.installs[p] \in SUBSET Installs
    BY <2>1, <2>2 DEF Installations
  <2> QED
    BY <2>1, <2>2, <2>3, <2>4
<1>4. new \in Installs
  <2>1. PICK old : old = The(facts, p)
    OBVIOUS
  <2>2. /\ old = [commit |-> old.commit, text |-> old.text, place |-> old.place, risk |-> old.risk, snapshot |-> old.snapshot]
        /\ old.commit \in Words /\ old.text \in Words /\ old.risk \in Risks /\ old.snapshot \in Words
    BY <1>3, <2>1 DEF Installs
  <2>3. new = [commit |-> old.commit, text |-> old.text, place |-> "library", risk |-> old.risk, snapshot |-> old.snapshot]
    BY <2>1, <2>2
  <2>4. "library" \in Words
    BY HealthAssumption, Zenon
  <2> QED
    BY <2>2, <2>3, <2>4, Zenon DEF Installs
<1>5. disk \in Disks
  BY <1>3, HealthAssumption DEF Disks
<1> HIDE DEF new, disk
<1>6. it \in SUBSET Installs /\ \A x, y \in it : x = y
  BY <1>4
<1> HIDE DEF it
<1> QED
  BY <1>2, <1>3, <1>5, <1>6, InstallsReplaced

LEMMA OneUninstalled ==
  ASSUME facts \in StoredFacts, Uninstalled
  PROVE  facts' \in StoredFacts /\ Changes(TRUE, FALSE)
<1>1. PICK p \in Present(facts) : Mend([facts EXCEPT !.installs[p] = {}])
  BY DEF Uninstalled
<1>2. facts' = TheFacts(facts.catalog, [facts.installs EXCEPT ![p] = {}], facts.skills, facts.events, facts.disk, facts.torn, facts.pending)
      /\ Changes(TRUE, FALSE)
  <2>1. facts' = [facts EXCEPT !.installs[p] = {}] /\ Changes(TRUE, FALSE)
    BY <1>1 DEF Mend, Becomes, Changes
  <2>2. facts = TheFacts(facts.catalog, facts.installs, facts.skills, facts.events, facts.disk, facts.torn, facts.pending)
    BY StoredParts
  <2> QED
    BY <2>1, <2>2 DEF TheFacts
<1>3. facts.disk \in Disks /\ facts.torn \in SUBSET Words /\ p \in RatedPackages
  BY StoredParts DEF Present
<1>4. {} \in SUBSET Installs /\ \A c, d \in {} : c = d
  OBVIOUS
<1> QED
  BY <1>2, <1>3, <1>4, InstallsReplaced

\* The file keeps the newest outcomes: they move one place at most.
Newest(E, limit) == IF Len(E) < limit THEN E ELSE Tail(E)

LEMMA NewestAreKept ==
  ASSUME NEW Outcomes, NEW E \in Seq(Outcomes), NEW limit \in Nat \ {0}, NEW last \in Outcomes
  PROVE  LET kept == Newest(E, limit) IN
         \E k \in {0, 1} :
           /\ Append(kept, last) \in Seq(Outcomes) /\ Len(Append(kept, last)) = Len(E) - k + 1
           /\ Append(kept, last)[Len(E) - k + 1] = last
           /\ \A i \in 1..(Len(E) - k) : Append(kept, last)[i] = E[i + k]
<1> DEFINE kept == Newest(E, limit)
<1>1. CASE Len(E) < limit
  <2>1. kept = E
    BY <1>1 DEF Newest
  <2>2. /\ Append(E, last) \in Seq(Outcomes) /\ Len(Append(E, last)) = Len(E) - 0 + 1
        /\ Append(E, last)[Len(E) - 0 + 1] = last /\ \A i \in 1..(Len(E) - 0) : Append(E, last)[i] = E[i + 0]
    OBVIOUS
  <2> QED
    BY <2>1, <2>2
<1>2. CASE ~(Len(E) < limit)
  <2>1. kept = Tail(E) /\ Len(E) \in Nat /\ Len(E) # 0
    BY <1>2 DEF Newest
  <2>2. E # <<>>
    BY <2>1
  <2>3. kept \in Seq(Outcomes) /\ Len(kept) = Len(E) - 1 /\ \A i \in 1..(Len(E) - 1) : kept[i] = E[i + 1]
    BY <2>1, <2>2
  <2> HIDE DEF kept
  <2>4. /\ Append(kept, last) \in Seq(Outcomes) /\ Len(Append(kept, last)) = Len(kept) + 1
        /\ Append(kept, last)[Len(kept) + 1] = last /\ \A i \in 1..Len(kept) : Append(kept, last)[i] = kept[i]
    BY <2>3
  <2> QED
    BY <2>1, <2>3, <2>4 DEF kept
<1> QED
  BY <1>1, <1>2

\* An agent's own failure earns nothing, and counts.
FailureAppended(g, f) == f.events = Append(Newest(g.events, StoreLimit), [agent |-> Me, result |-> "failure"])

LEMMA FailureCounts ==
  ASSUME NEW g \in StoredFacts, NEW f \in StoredFacts, FailureAppended(g, f)
  PROVE  LowerEvents(g, f)
<1> DEFINE E == g.events
           W == f.events
           Outcomes == [agent : Others \cup {Me}, result : Results]
           last == [agent |-> Me, result |-> "failure"]
<1>1. E \in Seq(Outcomes) /\ W \in Seq(Outcomes) /\ last \in Outcomes /\ last.agent = Me /\ last.result = "failure"
      /\ StoreLimit \in Nat \ {0} /\ W = Append(Newest(E, StoreLimit), last)
  <2>1. E \in Seq(Outcomes) /\ W \in Seq(Outcomes)
    BY StoredIs
  <2>2. last \in Outcomes
    BY DEF Results
  <2>3. W = Append(Newest(E, StoreLimit), last)
    BY DEF FailureAppended
  <2> QED
    BY <2>1, <2>2, <2>3, HealthAssumption
<1> HIDE DEF E, W, Outcomes, last
<1>2. PICK k \in {0, 1} : /\ Len(W) = Len(E) - k + 1 /\ W[Len(E) - k + 1] = last
                          /\ \A i \in 1..(Len(E) - k) : W[i] = E[i + k]
  <2>1. \E k \in {0, 1} :
           /\ Len(Append(Newest(E, StoreLimit), last)) = Len(E) - k + 1
           /\ Append(Newest(E, StoreLimit), last)[Len(E) - k + 1] = last
           /\ \A i \in 1..(Len(E) - k) : Append(Newest(E, StoreLimit), last)[i] = E[i + k]
    BY <1>1, NewestAreKept
  <2> QED
    BY <1>1, <2>1
<1>3. Len(E) \in Nat /\ DOMAIN E = 1..Len(E) /\ Len(W) \in Nat /\ DOMAIN W = 1..Len(W)
  BY <1>1
<1> DEFINE S == MyEvents(f)
           R == MyEvents(g)
           n == Len(W)
           T == S \ {n}
           U == R \ {k}
           h == [i \in T |-> i + k]
           new == [i \in S |-> OutcomeValue[f.events[i].result]]
           old == [i \in R |-> OutcomeValue[g.events[i].result]]
<1>5. /\ S = {i \in 1..n : W[i].agent = Me} /\ R = {i \in 1..Len(E) : E[i].agent = Me} /\ n = Len(E) - k + 1 /\ n \in Nat
      /\ n \in S
  <2>1. S = {i \in 1..n : W[i].agent = Me} /\ R = {i \in 1..Len(E) : E[i].agent = Me}
    BY <1>3 DEF MyEvents, E, W
  <2>2. n \in 1..n /\ W[n].agent = Me
    BY <1>1, <1>2, <1>3
  <2> HIDE DEF S, R, n
  <2>3. n = Len(E) - k + 1 /\ n \in Nat
    BY <1>2, <1>3 DEF n
  <2> QED
    BY <2>1, <2>2, <2>3
<1>6. /\ IsFiniteSet(S) /\ IsFiniteSet(R) /\ new \in [S -> Nat] /\ old \in [R -> Nat]
      /\ Earned(f) = SumFunction(new) /\ Earned(g) = SumFunction(old)
  BY EventsAre DEF Earned
<1>7. new[n] = 0
  <2>1. W[n] = last
    BY <1>2
  <2>2. f.events[n].result = "failure"
    BY <1>1, <2>1 DEF W
  <2>3. new[n] = OutcomeValue[f.events[n].result]
    BY <1>5
  <2>4. OutcomeValue["failure"] = 0
    BY DEF OutcomeValue
  <2> QED
    BY <2>2, <2>3, <2>4
<1>14. \A i \in T : i \in 1..(Len(E) - k) /\ W[i] = E[i + k] /\ W[i].agent = Me
  <2>1. \A i \in T : i \in 1..n /\ i # n /\ W[i].agent = Me
    BY <1>5
  <2>2. n = Len(E) - k + 1 /\ n \in Nat
    BY <1>5
  <2> HIDE DEF T, n
  <2>3. \A i \in T : i \in 1..(Len(E) - k)
    BY <1>3, <2>1, <2>2
  <2> QED
    BY <1>2, <2>1, <2>3
<1> HIDE DEF S, R, n
<1>8. h \in [T -> U] /\ (\A i, j \in T : h[i] = h[j] => i = j) /\ (\A i \in T : new[i] = old[h[i]]) /\ U = {h[i] : i \in T}
  <2>1. ASSUME NEW i \in T PROVE i + k \in U /\ new[i] = old[i + k]
    <3>1. i \in 1..(Len(E) - k) /\ W[i] = E[i + k] /\ W[i].agent = Me
      BY <1>14
    <3>3. i + k \in 1..Len(E) /\ i + k # k
      BY <1>3, <3>1
    <3>2. i + k \in U
      BY <1>5, <3>1, <3>3
    <3> QED
      BY <3>1, <3>2 DEF E, W
  <2>2. ASSUME NEW j \in U PROVE j - k \in T /\ j = (j - k) + k
    <3>1. j \in 1..Len(E) /\ j # k /\ E[j].agent = Me
      BY <1>5
    <3>2. j - k \in 1..(Len(E) - k) /\ j - k # n /\ j = (j - k) + k /\ j - k \in 1..n
      BY <1>3, <1>5, <3>1
    <3>3. W[j - k] = E[j]
      BY <1>2, <3>2
    <3> QED
      BY <1>5, <3>1, <3>2, <3>3
  <2>3. \A i \in T : i \in Int
    BY <1>5
  <2> HIDE DEF T, U, new, old
  <2> QED
    BY <2>1, <2>2, <2>3
<1>9. SumFunction(new) <= SumFunction(old) /\ Cardinality(R) <= Cardinality(S)
  <2>1. IsFiniteSet(S) /\ IsFiniteSet(R) /\ new \in [S -> Nat] /\ old \in [R -> Nat] /\ new[n] = 0 /\ n \in S
    BY <1>5, <1>6, <1>7
  <2>2. T = S \ {n} /\ U = R \ {k}
    OBVIOUS
  <2>3. \A j \in U : \E i \in T : h[i] = j
    BY <1>8
  <2> HIDE DEF h, new, old, T, U
  <2>4. h \in [T -> U] /\ (\A i, j \in T : h[i] = h[j] => i = j) /\ (\A i \in T : new[i] = old[h[i]])
    BY <1>8
  <2>5. T \in SUBSET S /\ U \in SUBSET R /\ R \in SUBSET R /\ S \in SUBSET S
    BY <2>1, <2>2
  <2>6. h \in [T -> R]
    BY <2>4, <2>5
  <2>7. (\A i, j \in T : h[i] = h[j] => i = j) /\ (\A i \in T : new[i] = old[h[i]])
    BY <2>4
  <2>8. U = {h[i] : i \in T}
    <3>1. \A i \in T : h[i] \in U
      BY <2>4
    <3> QED
      BY <2>3, <3>1
  <2>9. Sum(new, S) = new[n] + Sum(new, T)
    BY <2>1, <2>2, <2>5, SumTakesOut
  <2>10. Sum(new, T) = Sum(old, U)
    <3>1. IsFiniteSet(S) /\ IsFiniteSet(R) /\ new \in [S -> Nat] /\ old \in [R -> Nat]
      BY <2>1
    <3>2. ASSUME NEW t \in SUBSET S, NEW c \in [t -> R], \A x, y \in t : c[x] = c[y] => x = y, \A x \in t : new[x] = old[c[x]],
                 NEW v, v = {c[x] : x \in t}
          PROVE  Sum(new, t) = Sum(old, v)
      BY <3>1, <3>2, SumMoves
    <3>3. T \in SUBSET S /\ h \in [T -> R]
      BY <2>5, <2>6
    <3>4. Sum(new, T) = Sum(old, {h[x] : x \in T})
      BY <3>2, <3>3, <2>7
    <3> QED
      BY <3>4, <2>8
  <2>11. Sum(old, U) <= Sum(old, R)
    <3>1. \A i \in U : old[i] <= old[i]
      BY <2>1, <2>5
    <3> QED
      BY <2>1, <2>5, <3>1, SumIsLess
  <2>12. SumFunction(new) <= SumFunction(old)
    <3>1. SumFunction(new) = Sum(new, S) /\ SumFunction(old) = Sum(old, R)
      BY <2>1, SumByElement
    <3>2. Sum(old, U) \in Nat /\ Sum(old, R) \in Nat /\ Sum(new, T) \in Nat /\ Sum(new, S) \in Nat
      BY <2>1, <2>5, SumByElement
    <3> QED
      BY <2>1, <2>9, <2>10, <2>11, <3>1, <3>2
  <2>13. Cardinality(R) <= Cardinality(S)
    <3>1. IsFiniteSet(T) /\ Cardinality(T) = Cardinality(S) - 1 /\ Cardinality(S) \in Nat /\ Cardinality(R) \in Nat
      BY <2>1, <2>2, SizeOfPart, FS_CardinalityType
    <3>2. IsFiniteSet(U) /\ Cardinality(U) >= Cardinality(R) - 1 /\ Cardinality(U) \in Nat
      <4>1. CASE k \in R
        <5>1. IsFiniteSet(U) /\ Cardinality(U) = Cardinality(R) - 1
          BY <2>1, <2>2, <4>1, FS_RemoveElement
        <5> QED
          BY <3>1, <5>1, FS_CardinalityType
      <4>2. CASE k \notin R
        <5>1. R \ {k} = R
          BY <4>2
        <5>2. U = R
          BY <2>2, <5>1, Zenon
        <5> QED
          BY <2>1, <3>1, <5>2
      <4> QED
        BY <4>1, <4>2
    <3>3. Cardinality(T) = Cardinality(U)
      <4>1. \A u \in U : \E i \in T : h[i] = u
        BY <2>3
      <4>2. h \in Bijection(T, U)
        BY <2>4, <4>1 DEF Bijection, Injection, Surjection, IsInjective
      <4>3. ExistsBijection(T, U)
        BY <4>2 DEF ExistsBijection
      <4> QED
        BY <3>1, <4>3, FS_Bijection
    <3> QED
      BY <3>1, <3>2, <3>3
  <2> QED
    BY <2>12, <2>13
<1> QED
  BY <1>6, <1>9 DEF LowerEvents, S, R

LEMMA OneOutcome ==
  ASSUME facts \in StoredFacts, RecordLocalOutcome
  PROVE  /\ facts' \in StoredFacts
         /\ \E mends \in BOOLEAN : Changes(mends, FALSE) /\ (~mends => Lower(facts, facts', FALSE))
<1> DEFINE kept == Newest(facts.events, StoreLimit)
           New(a, result) == WithEvents(Append(kept, [agent |-> a, result |-> result]))
<1>1. PICK a \in Others \cup {Me}, result \in {"success", "activation", "failure"} :
        Becomes([facts EXCEPT !.events = Append(kept, [agent |-> a, result |-> result])], ~(a = Me /\ result = "failure"), FALSE)
  BY DEF RecordLocalOutcome, Newest
<1>2. facts' = New(a, result) /\ Changes(~(a = Me /\ result = "failure"), FALSE)
  BY <1>1 DEF Becomes, Changes, WithEvents
<1>3. Append(kept, [agent |-> a, result |-> result]) \in OutcomeLists
  <2> DEFINE E == facts.events
             Outcomes == [agent : Others \cup {Me}, result : Results]
  <2>1. E \in Seq(Outcomes) /\ [agent |-> a, result |-> result] \in Outcomes /\ StoreLimit \in Nat \ {0}
    BY StoredIs, HealthAssumption DEF Results
  <2>2. kept = IF Len(E) < StoreLimit THEN E ELSE Tail(E)
    BY DEF Newest
  <2> HIDE DEF E, Outcomes, kept
  <2>3. kept \in Seq(Outcomes)
    BY <2>1, <2>2
  <2> QED
    BY <2>1, <2>3 DEF OutcomeLists, Outcomes
<1>4. New(a, result) \in StoredFacts
  BY <1>3, PartsReplaced
<1>5. CASE a = Me /\ result = "failure"
  <2>1. LowerEvents(facts, New(Me, "failure"))
    <3>1. New(Me, "failure").events = Append(kept, [agent |-> Me, result |-> "failure"])
      BY <1>3, <1>5, PartsReplaced
    <3> HIDE DEF New
    <3> QED
      BY <1>4, <1>5, <3>1, FailureCounts DEF FailureAppended
  <2>2. Lower(facts, facts', FALSE)
    BY <1>2, <1>3, <1>5, <2>1, PartsReplaced
  <2> QED
    BY <1>2, <1>4, <1>5, <2>2
<1>6. CASE ~(a = Me /\ result = "failure")
  <2>1. Changes(TRUE, FALSE)
    BY <1>2, <1>6
  <2> QED
    BY <1>2, <1>4, <2>1
<1> QED
  BY <1>5, <1>6

\* What happens to the facts makes them worse, unless it is marked as a mend.
LEMMA FactsChange ==
  ASSUME facts \in StoredFacts, FactsNext
  PROVE  /\ facts' \in StoredFacts
         /\ \E mends, loses \in BOOLEAN : Changes(mends, loses) /\ (~mends => Lower(facts, facts', loses))
<1>1. CASE ManagedFileEdited
  BY <1>1, FileEdited
<1>2. CASE SnapshotTorn
  BY <1>2, SnapshotLost
<1>3. CASE TransactionLeft
  BY <1>3, OneTransactionLeft
<1>4. CASE PackageAges
  BY <1>4, OneAges
<1>5. CASE SourceMoves
  BY <1>5, OneMoves
<1>6. CASE SkillDuplicated
  BY <1>6, OneDuplicated
<1>7. CASE LeavesCatalog
  BY <1>7, OneLeaves
<1>8. CASE RecordLocalOutcome
  BY <1>8, OneOutcome
<1>9. CASE PackageUpdated
  BY <1>9, OneUpdated
<1>10. CASE PackageDisabled
  BY <1>10, OneDisabled
<1>11. CASE Uninstalled
  BY <1>11, OneUninstalled
<1>12. CASE TransactionsRecovered
  BY <1>12, TransactionsDone
<1> QED
  BY <1>1, <1>2, <1>3, <1>4, <1>5, <1>6, <1>7, <1>8, <1>9, <1>10, <1>11, <1>12 DEF FactsNext

-----------------------------------------------------------------------------
(* The collection: what is seen lies between what held when it began and now. *)

\* What was seen lies between the beginning and now, unless something got better.
Sound(begun, seen, mended, lost) ==
  /\ begun \in StoredFacts /\ seen \in StoredFacts /\ mended \in BOOLEAN /\ lost \in BOOLEAN
  /\ ~mended => Lower(begun, seen, lost) /\ Lower(seen, facts, lost)
\* A collection that goes on.
ThePass(pc, begun, seen, left, mended, lost) ==
  [pc |-> pc, begun |-> begun, seen |-> seen, left |-> left, mended |-> mended, lost |-> lost]
Stages == {"stored", "scan", "pending", "drift", "snapshots"}
LeftAt(pc, left) ==
  (pc = "stored" => left \subseteq {"catalog", "installs", "events"}) /\ (pc = "drift" => left \subseteq RatedPackages)
Collecting ==
  /\ pass = ThePass(pass.pc, pass.begun, pass.seen, pass.left, pass.mended, pass.lost)
  /\ pass.pc \in Stages /\ LeftAt(pass.pc, pass.left)
  /\ Sound(pass.begun, pass.seen, pass.mended, pass.lost)
ReportsAreSound == \A r \in report : Sound(r.begun, r.saw, r.mended, r.lost)
HealthInv == facts \in StoredFacts /\ (pass = NoPass \/ Collecting) /\ ReportsAreSound

\* What lies between does so still when the facts have changed.
LEMMA StillSound ==
  ASSUME facts \in StoredFacts, facts' \in StoredFacts, NEW mends \in BOOLEAN, NEW loses \in BOOLEAN,
         ~mends => Lower(facts, facts', loses), NEW b, NEW s, NEW m, NEW l, Sound(b, s, m, l)
  PROVE  Sound(b, s, m \/ mends, l \/ loses)'
<1>1. b \in StoredFacts /\ s \in StoredFacts /\ m \in BOOLEAN /\ l \in BOOLEAN
  BY DEF Sound
<1>2. ASSUME ~(m \/ mends) PROVE Lower(b, s, l \/ loses) /\ Lower(s, facts', l \/ loses)
  <2>1. Lower(b, s, l) /\ Lower(s, facts, l) /\ Lower(facts, facts', loses)
    BY <1>2 DEF Sound
  <2>2. Lower(s, s, loses)
    BY <1>1, LowerIsReflexive
  <2>3. Lower(b, s, l \/ loses)
    BY <1>1, <2>1, <2>2, LowerIsTransitive
  <2>4. Lower(s, facts', l \/ loses)
    BY <1>1, <2>1, LowerIsTransitive
  <2> QED
    BY <2>3, <2>4
<1>3. (m \/ mends) \in BOOLEAN /\ (l \/ loses) \in BOOLEAN
  OBVIOUS
<1> QED
  BY <1>1, <1>2, <1>3 DEF Sound

\* And when some of it is read again.
LEMMA SeenIsSound ==
  ASSUME facts \in StoredFacts, NEW b, NEW s, NEW m, NEW l, Sound(b, s, m, l),
         NEW t \in StoredFacts, Mixed(t, s, facts)
  PROVE  Sound(b, t, m, l)
<1>1. b \in StoredFacts /\ s \in StoredFacts /\ m \in BOOLEAN /\ l \in BOOLEAN
  BY DEF Sound
<1>2. ASSUME ~m PROVE Lower(b, t, l) /\ Lower(t, facts, l)
  <2>1. Lower(b, s, l) /\ Lower(s, facts, l)
    BY <1>2 DEF Sound
  <2>2. Lower(s, t, l) /\ Lower(t, facts, l)
    BY <1>1, <2>1, MixedIsBetween
  <2>3. Lower(b, t, l \/ l)
    BY <1>1, <2>1, <2>2, LowerIsTransitive
  <2>4. (l \/ l) = l
    BY <1>1
  <2>5. Lower(b, t, l)
    BY <2>3, <2>4
  <2> QED
    BY <2>2, <2>5
<1> QED
  BY <1>1, <1>2 DEF Sound

\* Some of what was seen is read again.
LEMMA Mixture ==
  ASSUME NEW s \in StoredFacts, NEW g \in StoredFacts,
         NEW catalog \in {s.catalog, g.catalog}, NEW installs \in {s.installs, g.installs},
         NEW skills \in {s.skills, g.skills}, NEW events \in {s.events, g.events}, NEW disk \in Disks,
         \A p \in RatedPackages : disk[p] \in {s.disk[p], g.disk[p]},
         NEW torn, s.torn \cap g.torn \subseteq torn, torn \subseteq s.torn \cup g.torn,
         NEW pending \in {s.pending, g.pending}
  PROVE  LET t == TheFacts(catalog, installs, skills, events, disk, torn, pending) IN
         t \in StoredFacts /\ Mixed(t, s, g)
<1> DEFINE t == TheFacts(catalog, installs, skills, events, disk, torn, pending)
<1>1. t \in StoredFacts
  <2>1. catalog \in Catalogs /\ installs \in Installations /\ skills \in SkillCounts /\ events \in OutcomeLists
        /\ pending \in Nat
    BY StoredParts
  <2>2. torn \in SUBSET Words
    BY StoredParts
  <2> QED
    BY <2>1, <2>2, StoredWhen
<1>2. /\ t.catalog = catalog /\ t.installs = installs /\ t.skills = skills /\ t.events = events /\ t.disk = disk
      /\ t.torn = torn /\ t.pending = pending
  BY FactsAre
<1> HIDE DEF t
<1>3. Mixed(t, s, g)
  BY <1>2 DEF Mixed
<1> QED
  BY <1>1, <1>3 DEF t

LEMMA CollectingIs ==
  ASSUME Collecting
  PROVE  \E c, b, s, w, m, l : /\ pass = ThePass(c, b, s, w, m, l) /\ c \in Stages /\ LeftAt(c, w) /\ Sound(b, s, m, l)
                               /\ pass.seen = s
BY DEF Collecting

LEMMA CollectingOn ==
  ASSUME NEW c \in Stages, NEW b, NEW s, NEW w, NEW m, NEW l, pass' = ThePass(c, b, s, w, m, l), LeftAt(c, w),
         Sound(b, s, m, l)'
  PROVE  Collecting'
<1>1. /\ pass'.pc = c /\ pass'.begun = b /\ pass'.seen = s /\ pass'.left = w /\ pass'.mended = m /\ pass'.lost = l
  BY DEF ThePass
<1> QED
  BY <1>1 DEF Collecting

\* While a collection goes on, whatever happens to the facts is marked in it.
LEMMA ChangesKeepIt ==
  ASSUME HealthInv, FactsNext
  PROVE  HealthInv'
<1>1. facts \in StoredFacts /\ facts' \in StoredFacts
  BY FactsChange DEF HealthInv
<1>2. PICK mends \in BOOLEAN, loses \in BOOLEAN :
        Changes(mends, loses) /\ (~mends => Lower(facts, facts', loses))
  BY <1>1, FactsChange
<1>3. ReportsAreSound'
  BY <1>2 DEF Changes, ReportsAreSound
<1>4. CASE pass = NoPass
  BY <1>1, <1>2, <1>3, <1>4 DEF Changes, HealthInv
<1>5. CASE pass # NoPass
  <2>1. PICK c, b, s, w, m, l : pass = ThePass(c, b, s, w, m, l) /\ c \in Stages /\ LeftAt(c, w) /\ Sound(b, s, m, l)
    BY <1>5, CollectingIs DEF HealthInv
  <2>2. pass' = [pass EXCEPT !.mended = pass.mended \/ mends, !.lost = pass.lost \/ loses]
    BY <1>2, <1>5 DEF Changes
  <2>3. pass.mended = m /\ pass.lost = l
    BY <2>1 DEF ThePass
  <2>4. pass' = ThePass(c, b, s, w, m \/ mends, l \/ loses)
    <3>1. PICK q : q = pass'
      OBVIOUS
    <3>2. q = [pass EXCEPT !.mended = m \/ mends, !.lost = l \/ loses]
      BY <2>2, <2>3, <3>1
    <3>3. q = ThePass(c, b, s, w, m \/ mends, l \/ loses)
      BY <2>1, <3>2 DEF ThePass
    <3> QED
      BY <3>1, <3>3
  <2>5. Sound(b, s, m \/ mends, l \/ loses)'
    BY <1>1, <1>2, <2>1, StillSound
  <2>6. Collecting'
    BY <2>1, <2>4, <2>5, CollectingOn
  <2> QED
    BY <1>1, <1>3, <2>6 DEF HealthInv
<1> QED
  BY <1>4, <1>5

LEMMA SeenAgain ==
  ASSUME HealthInv, Collecting, NEW pc \in Stages, NEW left, LeftAt(pc, left), NEW t \in StoredFacts,
         Mixed(t, pass.seen, facts), Goes(pc, left, t), facts' = facts, report' = report
  PROVE  HealthInv'
<1>1. PICK c, b, s, w, m, l : pass = ThePass(c, b, s, w, m, l) /\ Sound(b, s, m, l) /\ pass.seen = s
  BY CollectingIs
<1>2. pass' = ThePass(pc, b, t, left, m, l)
  <2>1. pass' = [pass EXCEPT !.pc = pc, !.left = left, !.seen = t]
    BY DEF Goes
  <2>2. PICK q : q = pass'
    OBVIOUS
  <2>3. q = [pass EXCEPT !.pc = pc, !.left = left, !.seen = t]
    BY <2>1, <2>2
  <2>4. q = ThePass(pc, b, t, left, m, l)
    BY <1>1, <2>3 DEF ThePass
  <2> QED
    BY <2>2, <2>4
<1>3. Sound(b, t, m, l)
  BY <1>1, SeenIsSound DEF HealthInv
<1>4. Sound(b, t, m, l)'
  BY <1>3 DEF Sound
<1>5. Collecting'
  BY <1>2, <1>4, CollectingOn
<1>6. ReportsAreSound'
  BY DEF HealthInv, ReportsAreSound, Sound
<1> QED
  BY <1>5, <1>6 DEF HealthInv

\* What was seen is what is stored, of some moments.
LEMMA SeenIsStored ==
  ASSUME HealthInv, Collecting
  PROVE  facts \in StoredFacts /\ pass.seen \in StoredFacts /\ pass.pc \in Stages /\ LeftAt(pass.pc, pass.left)
BY DEF HealthInv, Collecting, Sound

LEMMA CollectingAt ==
  ASSUME HealthInv, pass.pc \in Stages
  PROVE  Collecting
<1>1. pass # NoPass
  BY DEF NoPass, Stages
<1> QED
  BY <1>1 DEF HealthInv

LEMMA OneBegins ==
  ASSUME HealthInv, Begin
  PROVE  HealthInv'
<1>1. facts \in StoredFacts /\ facts' = facts
  BY DEF HealthInv, Begin
<1>2. Lower(facts, facts, FALSE)
  BY <1>1, LowerIsReflexive
<1>3. Sound(facts, facts, FALSE, FALSE)
  BY <1>1, <1>2 DEF Sound
<1>4. PICK b : b = facts
  OBVIOUS
<1>5. Sound(b, b, FALSE, FALSE)'
  BY <1>1, <1>3, <1>4 DEF Sound
<1>6. pass' = ThePass("stored", b, b, {"catalog", "installs", "events"}, FALSE, FALSE)
  BY <1>4 DEF Begin, ThePass
<1>7. "stored" \in Stages /\ LeftAt("stored", {"catalog", "installs", "events"})
  BY DEF Stages, LeftAt
<1>8. Collecting'
  BY <1>5, <1>6, <1>7, CollectingOn
<1>9. report' = {}
  BY DEF Begin
<1> QED
  BY <1>1, <1>8, <1>9 DEF HealthInv, ReportsAreSound

LEMMA OneEnds ==
  ASSUME HealthInv, BuildAgentHealthScore
  PROVE  HealthInv'
<1>1. Collecting
  BY CollectingAt DEF BuildAgentHealthScore, Stages
<1>2. PICK c, b, s, w, m, l : pass = ThePass(c, b, s, w, m, l) /\ Sound(b, s, m, l)
  BY <1>1, CollectingIs
<1>3. report' = {[saw |-> s, begun |-> b, mended |-> m, lost |-> l]} /\ pass' = NoPass /\ facts' = facts
  <2>1. pass.seen = s /\ pass.begun = b /\ pass.mended = m /\ pass.lost = l
    BY <1>2 DEF ThePass
  <2> QED
    BY <2>1 DEF BuildAgentHealthScore
<1>4. Sound(b, s, m, l)'
  BY <1>2, <1>3 DEF Sound
<1>5. ReportsAreSound'
  BY <1>3, <1>4 DEF ReportsAreSound
<1> QED
  BY <1>3, <1>5 DEF HealthInv

\* Every reading mixes what was seen with the facts.
ReadsFrom(t, s, g) ==
  \/ t = [s EXCEPT !.catalog = g.catalog] \/ t = [s EXCEPT !.installs = g.installs] \/ t = [s EXCEPT !.events = g.events]
  \/ t = [s EXCEPT !.skills = g.skills] \/ t = [s EXCEPT !.pending = g.pending]
  \/ \E p \in RatedPackages : t = [s EXCEPT !.disk[p] = g.disk[p]]
  \/ \E x : t = [s EXCEPT !.torn = (@ \ {x}) \cup (g.torn \cap {x})]
  \/ t = s

LEMMA ReadingMixes ==
  ASSUME NEW s \in StoredFacts, NEW g \in StoredFacts, NEW t, ReadsFrom(t, s, g)
  PROVE  t \in StoredFacts /\ Mixed(t, s, g)
<1>1. s = TheFacts(s.catalog, s.installs, s.skills, s.events, s.disk, s.torn, s.pending) /\ s.disk \in Disks
  BY StoredParts
<1>3. ASSUME t = [s EXCEPT !.catalog = g.catalog]
      PROVE  t \in StoredFacts /\ Mixed(t, s, g)
  <2>1. t = TheFacts(g.catalog, s.installs, s.skills, s.events, s.disk, s.torn, s.pending)
    BY <1>1, <1>3 DEF TheFacts
  <2> QED
    BY <1>1, <2>1, Mixture
<1>4. ASSUME t = [s EXCEPT !.installs = g.installs]
      PROVE  t \in StoredFacts /\ Mixed(t, s, g)
  <2>1. t = TheFacts(s.catalog, g.installs, s.skills, s.events, s.disk, s.torn, s.pending)
    BY <1>1, <1>4 DEF TheFacts
  <2> QED
    BY <1>1, <2>1, Mixture
<1>5. ASSUME t = [s EXCEPT !.events = g.events]
      PROVE  t \in StoredFacts /\ Mixed(t, s, g)
  <2>1. t = TheFacts(s.catalog, s.installs, s.skills, g.events, s.disk, s.torn, s.pending)
    BY <1>1, <1>5 DEF TheFacts
  <2> QED
    BY <1>1, <2>1, Mixture
<1>6. ASSUME t = [s EXCEPT !.skills = g.skills]
      PROVE  t \in StoredFacts /\ Mixed(t, s, g)
  <2>1. t = TheFacts(s.catalog, s.installs, g.skills, s.events, s.disk, s.torn, s.pending)
    BY <1>1, <1>6 DEF TheFacts
  <2> QED
    BY <1>1, <2>1, Mixture
<1>7. ASSUME t = [s EXCEPT !.pending = g.pending]
      PROVE  t \in StoredFacts /\ Mixed(t, s, g)
  <2>1. t = TheFacts(s.catalog, s.installs, s.skills, s.events, s.disk, s.torn, g.pending)
    BY <1>1, <1>7 DEF TheFacts
  <2> QED
    BY <1>1, <2>1, Mixture
<1>8. ASSUME NEW p \in RatedPackages, t = [s EXCEPT !.disk[p] = g.disk[p]]
      PROVE  t \in StoredFacts /\ Mixed(t, s, g)
  <2>1. PICK disk : disk = [s.disk EXCEPT ![p] = g.disk[p]]
    OBVIOUS
  <2>2. t = TheFacts(s.catalog, s.installs, s.skills, s.events, disk, s.torn, s.pending)
    <3>1. t = [s EXCEPT !.disk = disk]
      BY <1>8, <2>1
    <3> QED
      BY <1>1, <3>1 DEF TheFacts
  <2>3. disk \in Disks /\ \A q \in RatedPackages : disk[q] \in {s.disk[q], g.disk[q]}
    <3>1. g.disk \in Disks
      BY StoredParts
    <3> QED
      BY <1>1, <2>1, <3>1 DEF Disks
  <2> QED
    BY <2>2, <2>3, Mixture
<1>9. ASSUME NEW x, t = [s EXCEPT !.torn = (@ \ {x}) \cup (g.torn \cap {x})]
      PROVE  t \in StoredFacts /\ Mixed(t, s, g)
  <2>1. PICK torn : torn = (s.torn \ {x}) \cup (g.torn \cap {x})
    OBVIOUS
  <2>2. t = TheFacts(s.catalog, s.installs, s.skills, s.events, s.disk, torn, s.pending)
    <3>1. t = [s EXCEPT !.torn = torn]
      BY <1>9, <2>1
    <3> QED
      BY <1>1, <3>1 DEF TheFacts
  <2>3. s.torn \cap g.torn \subseteq torn /\ torn \subseteq s.torn \cup g.torn
    BY <2>1
  <2> QED
    BY <1>1, <2>2, <2>3, Mixture
<1>10. CASE t = s
  BY <1>1, <1>10, Mixture
<1> QED
  BY <1>3, <1>4, <1>5, <1>6, <1>7, <1>8, <1>9, <1>10 DEF ReadsFrom

\* One reading goes on with the collection.
LEMMA OneReads ==
  ASSUME HealthInv, pass.pc \in Stages, NEW pc \in Stages, NEW left, LeftAt(pc, left), NEW t,
         ReadsFrom(t, pass.seen, facts), Goes(pc, left, t), facts' = facts, report' = report
  PROVE  HealthInv'
<1>1. Collecting
  BY CollectingAt
<1>2. facts \in StoredFacts /\ pass.seen \in StoredFacts
  BY <1>1, SeenIsStored
<1>3. t \in StoredFacts /\ Mixed(t, pass.seen, facts)
  BY <1>2, ReadingMixes
<1> QED
  BY <1>1, <1>3, SeenAgain

\* Every step of the collection keeps what it saw between its beginning and now.
LEMMA CollectorKeepsIt ==
  ASSUME HealthInv, CollectorNext
  PROVE  HealthInv'
<1>1. CASE Begin
  BY <1>1, OneBegins
<1>2. CASE ReadStored
  <2>1. pass.pc = "stored" /\ pass.pc \in Stages
    BY <1>2 DEF ReadStored, Stages
  <2>2. pass.left \subseteq {"catalog", "installs", "events"}
    BY <2>1, CollectingAt, SeenIsStored DEF LeftAt
  <2>3. PICK x \in pass.left : Goes(IF pass.left = {x} THEN "scan" ELSE "stored", pass.left \ {x}, [pass.seen EXCEPT ![x] = facts[x]])
    BY <1>2 DEF ReadStored
  <2>4. PICK t : t = [pass.seen EXCEPT ![x] = facts[x]]
    OBVIOUS
  <2>5. ReadsFrom(t, pass.seen, facts)
    BY <2>2, <2>4 DEF ReadsFrom
  <2>6. PICK pc : pc = IF pass.left = {x} THEN "scan" ELSE "stored"
    OBVIOUS
  <2>7. pc \in Stages /\ LeftAt(pc, pass.left \ {x})
    BY <2>2, <2>6 DEF Stages, LeftAt
  <2> QED
    BY <1>2, <2>1, <2>3, <2>4, <2>5, <2>6, <2>7, OneReads DEF ReadStored
<1>3. CASE ScanInstalledSkills
  <2>1. pass.pc \in Stages /\ "pending" \in Stages /\ LeftAt("pending", {})
    BY <1>3 DEF ScanInstalledSkills, Stages, LeftAt
  <2>2. PICK t : t = [pass.seen EXCEPT !.skills = facts.skills]
    OBVIOUS
  <2>3. ReadsFrom(t, pass.seen, facts)
    BY <2>2 DEF ReadsFrom
  <2> QED
    BY <1>3, <2>1, <2>2, <2>3, OneReads DEF ScanInstalledSkills
<1>4. CASE PendingTransactions
  <2>1. pass.pc \in Stages /\ "drift" \in Stages /\ LeftAt("drift", Present(pass.seen))
    BY <1>4 DEF PendingTransactions, Stages, LeftAt, Present
  <2>2. PICK t : t = [pass.seen EXCEPT !.pending = facts.pending]
    OBVIOUS
  <2>3. ReadsFrom(t, pass.seen, facts)
    BY <2>2 DEF ReadsFrom
  <2> QED
    BY <1>4, <2>1, <2>2, <2>3, OneReads DEF PendingTransactions
<1>5. CASE DriftForAgent
  <2>1. pass.pc = "drift" /\ pass.pc \in Stages /\ "drift" \in Stages
    BY <1>5 DEF DriftForAgent, Stages
  <2>2. pass.left \subseteq RatedPackages
    BY <2>1, CollectingAt, SeenIsStored DEF LeftAt
  <2>3. PICK p \in pass.left : Goes("drift", pass.left \ {p}, [pass.seen EXCEPT !.disk[p] = facts.disk[p]])
    BY <1>5 DEF DriftForAgent
  <2>4. PICK t : t = [pass.seen EXCEPT !.disk[p] = facts.disk[p]]
    OBVIOUS
  <2>5. ReadsFrom(t, pass.seen, facts)
    BY <2>2, <2>4 DEF ReadsFrom
  <2>6. LeftAt("drift", pass.left \ {p})
    BY <2>2 DEF LeftAt
  <2> QED
    BY <1>5, <2>1, <2>3, <2>4, <2>5, <2>6, OneReads DEF DriftForAgent
<1>6. CASE SnapshotEvidence
  <2>1. pass.pc \in Stages /\ "snapshots" \in Stages /\ LeftAt("snapshots", SnapshotsOf(pass.seen))
    BY <1>6 DEF SnapshotEvidence, Stages, LeftAt
  <2>2. ReadsFrom(pass.seen, pass.seen, facts)
    BY DEF ReadsFrom
  <2> QED
    BY <1>6, <2>1, <2>2, OneReads DEF SnapshotEvidence
<1>7. CASE ReadSnapshot
  <2>1. pass.pc \in Stages /\ "snapshots" \in Stages
    BY <1>7 DEF ReadSnapshot, Stages
  <2>2. PICK s \in pass.left :
          Goes("snapshots", pass.left \ {s}, [pass.seen EXCEPT !.torn = (@ \ {s}) \cup (facts.torn \cap {s})])
    BY <1>7 DEF ReadSnapshot
  <2>3. PICK t : t = [pass.seen EXCEPT !.torn = (@ \ {s}) \cup (facts.torn \cap {s})]
    OBVIOUS
  <2>4. ReadsFrom(t, pass.seen, facts)
    BY <2>3 DEF ReadsFrom
  <2>5. LeftAt("snapshots", pass.left \ {s})
    BY DEF LeftAt
  <2> QED
    BY <1>7, <2>1, <2>2, <2>3, <2>4, <2>5, OneReads DEF ReadSnapshot
<1>8. CASE BuildAgentHealthScore
  BY <1>8, OneEnds
<1> QED
  BY <1>1, <1>2, <1>3, <1>4, <1>5, <1>6, <1>7, <1>8 DEF CollectorNext

-----------------------------------------------------------------------------
(* What a report says *)

\* A report so marked stays in range.
LEMMA InvIsEnough ==
  ASSUME HealthInv
  PROVE  ReportsStayInRange
<1> SUFFICES ASSUME NEW r \in report
             PROVE  /\ ~r.mended => \A d \in DOMAIN Cap : Contribution(facts, d) <= Contribution(r.saw, d)
                                                          /\ Contribution(r.saw, d) <= Contribution(r.begun, d)
                    /\ ~r.mended /\ ~r.lost /\ Evidenced(r.begun) # {} =>
                         Rating(facts) <= Rating(r.saw) /\ Rating(r.saw) <= Rating(r.begun)
                    /\ ScoreOf(r.saw) <= 10000 /\ Rating(r.saw) < 5
  BY DEF ReportsStayInRange
<1>1. PICK b, s, m, l : b = r.begun /\ s = r.saw /\ m = r.mended /\ l = r.lost
  OBVIOUS
<1>2. facts \in StoredFacts /\ b \in StoredFacts /\ s \in StoredFacts /\ l \in BOOLEAN
      /\ (~m => Lower(b, s, l) /\ Lower(s, facts, l))
  BY <1>1 DEF HealthInv, ReportsAreSound, Sound
<1>3. DOMAIN Cap = Dimensions
  BY DEF Cap, Dimensions
<1>4. ASSUME ~m, NEW d \in DOMAIN Cap
      PROVE  Contribution(facts, d) <= Contribution(s, d) /\ Contribution(s, d) <= Contribution(b, d)
  BY <1>2, <1>3, <1>4, ContributionsGetLess
<1>5. ASSUME ~m, ~l, Evidenced(b) # {} PROVE Rating(facts) <= Rating(s) /\ Rating(s) <= Rating(b)
  <2>1. Lower(b, s, FALSE) /\ Lower(s, facts, FALSE)
    <3>1. l = FALSE
      BY <1>2, <1>5
    <3> QED
      BY <1>2, <1>5, <3>1
  <2>2. Evidenced(s) # {}
    BY <1>2, <1>5, <2>1, EvidenceStays
  <2> QED
    BY <1>2, <1>5, <2>1, <2>2, RatingsGetLess
<1>6. ScoreOf(s) <= 10000 /\ Rating(s) < 5
  <2>1. Rating(s) \in 1..4
    BY <1>2, NeverExcellent
  <2>2. Rating(s) < 5
    BY <2>1
  <2> QED
    BY <1>2, <2>2, ScoreIsAtMost
<1> QED
  BY <1>1, <1>4, <1>5, <1>6

\* ReportsStayInRange: collectLocalAgentHealthEvidence reads its sources one
\* after the other while other commands work; its report says nothing that was
\* not true at some moment meanwhile.
THEOREM ReportsAreInRange == HealthSpec => []ReportsStayInRange
<1>1. HealthInit => HealthInv
  BY HealthAssumption DEF HealthInit, HealthInv, ReportsAreSound
<1>2. HealthInv /\ [HealthNext]_healthVars => HealthInv'
  <2>1. ASSUME HealthInv, HealthNext PROVE HealthInv'
    BY <2>1, CollectorKeepsIt, ChangesKeepIt DEF HealthNext
  <2>2. ASSUME HealthInv, UNCHANGED healthVars PROVE HealthInv'
    BY <2>2 DEF healthVars, HealthInv, Collecting, ReportsAreSound, Sound
  <2> QED
    BY <2>1, <2>2
<1>3. HealthInv => ReportsStayInRange
  BY InvIsEnough
<1> QED
  BY <1>1, <1>2, <1>3, PTL DEF HealthSpec
=============================================================================
