------------------------------ MODULE Scheduler -----------------------------
(***************************************************************************)
(* The daily read-only jobs (src/core/runtime/scheduler.ts): `loadout      *)
(* schedule` and `unschedule` write or remove a unit file per job and tell *)
(* the system's scheduler about it, command by command, inside one file    *)
(* transaction.  The transaction can restore the files; of the system's    *)
(* own state only the rollback commands know.  One change at a time holds  *)
(* the mutation lock; a process may die, and the next command that takes   *)
(* the lock restores the files from its journal.                           *)
(***************************************************************************)
EXTENDS Naturals, Sequences, FiniteSets, SequencesExt

CONSTANTS
  Jobs,       \* updates and discovery
  Times,      \* when a job may run
  MaxChanges  \* bound: schedule and unschedule commands

ASSUME JobsAssumption == IsFiniteSet(Jobs)

VARIABLES
  platform,   \* darwin, linux or win32
  unit,       \* the unit file of every job: the time it names
  native,     \* what the system's scheduler has loaded
  change,     \* the command that is being applied
  changes,
  stuck       \* a loaded job would not be unloaded, or a process died

jobVars == <<platform, unit, native, change, changes, stuck>>

Off == "off"
Settings == Times \cup {Off}
NoChange == [pc |-> "idle"]

JobTypeOK ==
  /\ platform \in {"darwin", "linux", "win32"} /\ unit \in [Jobs -> Settings] /\ native \in [Jobs -> Settings]
  /\ change.pc \in {"idle", "planned", "write", "commands", "remove", "complete", "rollback", "restore", "journal"}

JobInit ==
  /\ platform \in {"darwin", "linux", "win32"}
  /\ unit = [j \in Jobs |-> Off] /\ native = [j \in Jobs |-> Off]
  /\ change = NoChange /\ changes = 0 /\ stuck = FALSE

-----------------------------------------------------------------------------
(* planNativeScheduler: what is run for one job, and what undoes it. *)
NativeCommand(does, job, allowFailure) == [does |-> does, job |-> job, allowFailure |-> allowFailure]
ApplyCommands(action) == [j \in Jobs |->
  LET unload == NativeCommand("unload", j, TRUE)
      load == NativeCommand("load", j, FALSE)
      reload == NativeCommand("reload", j, FALSE)
  IN IF action = "schedule"
     THEN CASE platform = "darwin" -> <<unload, load>>
            [] platform = "linux" -> <<reload, load>>
            [] OTHER -> <<load>>
     ELSE IF platform = "linux" THEN <<unload, reload>> ELSE <<unload>>]
(* Mutant: nothing undoes the loading of a job. *)
RollbackNothing(action) == [j \in Jobs |-> <<>>]
RollbackCommands(action) ==
  [j \in Jobs |-> IF action = "schedule" THEN <<NativeCommand("unload", j, TRUE)>> ELSE <<>>]

(* Job after job, and as many commands for one as for another. *)
InTurn(commands, jobs) ==
  LET each == Len(commands[jobs[1]]) IN
  [i \in 1..each * Len(jobs) |-> commands[jobs[((i - 1) \div each) + 1]][((i - 1) % each) + 1]]
Undoing(plan) == Reverse(InTurn(RollbackCommands(plan.action), plan.jobs))

PlanChange ==
  /\ change.pc = "idle" /\ changes < MaxChanges /\ changes' = changes + 1
  /\ \E action \in {"schedule", "unschedule"}, time \in Times, jobs \in (SUBSET Jobs) \ {{}} :
       change' = [pc |-> "planned", action |-> action, time |-> time, jobs |-> SetToSeq(jobs),
                  before |-> unit, todo |-> <<>>]
  /\ UNCHANGED <<platform, unit, native, stuck>>

(* The journal names the files; the snapshot is taken under the lock. *)
BeginChange ==
  /\ change.pc = "planned"
  /\ \/ change' = [change EXCEPT !.pc = "write", !.before = unit]
     \/ change' = NoChange
  /\ UNCHANGED <<platform, unit, native, changes, stuck>>

JobsOf(plan) == ToSet(plan.jobs)
(* A file that cannot be written leaves those before it. *)
WriteUnits ==
  /\ change.pc = "write" /\ UNCHANGED <<platform, native, changes, stuck>>
  /\ \/ /\ unit' = [j \in Jobs |-> IF change.action = "schedule" /\ j \in JobsOf(change) THEN change.time ELSE unit[j]]
        /\ change' = [change EXCEPT !.pc = "commands", !.todo = InTurn(ApplyCommands(change.action), change.jobs)]
     \/ /\ change.action = "schedule"
        /\ \E written \in SUBSET JobsOf(change) :
             unit' = [j \in Jobs |-> IF j \in written THEN change.time ELSE unit[j]]
        /\ change' = [change EXCEPT !.pc = "rollback", !.todo = Undoing(change)]

(* A command of the system's scheduler works, or fails and changes nothing. *)
Works(step) ==
  native' = CASE step.does = "load" -> [native EXCEPT ![step.job] = unit[step.job]]
              [] step.does = "unload" -> [native EXCEPT ![step.job] = Off]
              [] OTHER -> native
Refuses(step) ==
  /\ UNCHANGED native
  /\ stuck' = (stuck \/ (step.does = "unload" /\ native[step.job] # Off))

RunCommand ==
  /\ change.pc = "commands" /\ UNCHANGED <<platform, unit, changes>>
  /\ IF change.todo = <<>>
     THEN change' = [change EXCEPT !.pc = "remove"] /\ UNCHANGED <<native, stuck>>
     ELSE LET step == Head(change.todo) IN
          \/ /\ Works(step) /\ UNCHANGED stuck
             /\ change' = [change EXCEPT !.todo = Tail(@)]
          \/ /\ Refuses(step)
             /\ change' = IF step.allowFailure THEN [change EXCEPT !.todo = Tail(@)]
                          ELSE [change EXCEPT !.pc = "rollback",
                                              !.todo = Undoing(change)]

RemoveUnits ==
  /\ change.pc = "remove" /\ change' = [change EXCEPT !.pc = "complete"]
  /\ unit' = [j \in Jobs |-> IF change.action = "unschedule" /\ j \in JobsOf(change) THEN Off ELSE unit[j]]
  /\ UNCHANGED <<platform, native, changes, stuck>>

(* The journal goes, or the completion fails and all is undone. *)
CompleteChange ==
  /\ change.pc = "complete" /\ UNCHANGED <<platform, unit, native, changes, stuck>>
  /\ \/ change' = NoChange
     \/ change' = [change EXCEPT !.pc = "rollback", !.todo = Undoing(change)]

(* Failures of the rollback's own commands are swallowed. *)
RollBackCommand ==
  /\ change.pc = "rollback" /\ UNCHANGED <<platform, unit, changes>>
  /\ IF change.todo = <<>>
     THEN change' = [change EXCEPT !.pc = "restore"] /\ UNCHANGED <<native, stuck>>
     ELSE /\ change' = [change EXCEPT !.todo = Tail(@)]
          /\ \/ Works(Head(change.todo)) /\ UNCHANGED stuck
             \/ Refuses(Head(change.todo))
RestoreUnits ==
  /\ change.pc \in {"restore", "journal"} /\ unit' = change.before /\ change' = NoChange
  /\ UNCHANGED <<platform, native, changes, stuck>>

(* What is left is the journal, which RestoreUnits recovers. *)
ChangeDies ==
  /\ change.pc \notin {"idle", "planned", "journal"} /\ change' = [pc |-> "journal", before |-> change.before]
  /\ stuck' = TRUE /\ UNCHANGED <<platform, unit, native, changes>>

JobNext ==
  \/ PlanChange \/ BeginChange \/ WriteUnits \/ RunCommand \/ RemoveUnits \/ CompleteChange
  \/ RollBackCommand \/ RestoreUnits \/ ChangeDies

JobSpec == JobInit /\ [][JobNext]_jobVars

-----------------------------------------------------------------------------
(* Properties. *)

(* What the system runs daily is what Loadout's file says: after every command, *)
(* failed ones included, a job that is loaded has its unit file and runs at the *)
(* time the file names (applyNativeSchedulerBundle and its rollback).  It holds *)
(* until a process dies between two commands or a loaded job cannot be unloaded *)
(* - failures that the code swallows.                                           *)
JobsMatchUnits ==
  (change.pc = "idle" /\ ~stuck) => \A j \in Jobs : native[j] \in {Off, unit[j]}
=============================================================================
