----------------------------- MODULE DesignRoom -----------------------------
(***************************************************************************)
(* The way from a question to tasks: a bounded discussion of two providers *)
(* (src/core/coordination/discussion.ts), the implementation plan made     *)
(* from its decision (discussion-pipeline.ts), and the handoff log through *)
(* which the agents get and settle its tasks (src/core/delegation).        *)
(*                                                                         *)
(* One thread is modelled, which `discuss start --thread-id` may run       *)
(* again.  The bridge lease lets one process be in the room at a time.     *)
(* Every emit appends one event to the coordination log, unless the kill   *)
(* switch is on or the append fails; compaction cuts the log's head off.   *)
(* Tasks are sent and settled under the lock of the handoff log, whose     *)
(* holder may die between two appends or within one.                       *)
(***************************************************************************)
EXTENDS Naturals, Sequences, FiniteSets, SequencesExt

CONSTANTS
  Decisions,   \* what the synthesis may decide
  Paths,       \* the paths of the project
  Mentions,    \* the paths every decision, with its transcript, mentions
  Proposer, Reviewer,
  Appliers,    \* processes that run `discuss implement`
  Workers,     \* processes that run `handoff --done`
  Rounds,      \* rounds of the discussion
  MaxRuns,     \* bound: discussions of the thread
  MaxFaults,   \* bound: appends that fail, processes that die, compactions
  MaxSwitches, \* bound: times the kill switch is turned or a path changes hands
  MaxTries,    \* bound: completions that are tried
  MaxPlans     \* bound: implementation plans that are made

Agents == {Proposer, Reviewer}
Nobody == "nobody"

ASSUME DesignRoomConstantsOK ==
  /\ Mentions \in [Decisions -> SUBSET Paths]
  /\ Proposer # Reviewer /\ Nobody \notin Agents \cup Appliers
  /\ Rounds \in 1..8 /\ MaxRuns \in Nat /\ MaxFaults \in Nat /\ MaxSwitches \in Nat /\ MaxPlans \in Nat /\ MaxTries \in Nat

VARIABLES
  log,      \* the events of the thread, and the dispatches, in the coordination log
  halted,   \* the kill switch
  owner,    \* who owns every path
  room,     \* the process that runs the discussion
  apply,    \* the processes that implement a decision
  work,     \* the processes that settle a task
  lines,    \* the readable lines of messages.jsonl
  torn,     \* whether the file ends within a line
  corrupt,  \* how many of its lines cannot be read
  holder,   \* who holds the handoff lock
  runs, faults, switches, plans, tries   \* how often the bounded things have happened

vars == <<log, halted, owner, room, apply, work, lines, torn, corrupt, holder, runs, faults, switches, plans, tries>>
counters == <<runs, faults, switches, plans, tries>>

Tasks == [agent : Agents, paths : SUBSET Paths]
Plans == [decision : Decisions, tasks : SUBSET Tasks]
Jobs == Plans \X Agents

Kinds == {"started", "statement", "summary", "error", "failed"}
Events == [kind : Kinds] \cup [kind : {"decision", "closed"}, decision : Decisions]
          \cup [kind : {"dispatched"}, plan : Plans]
Lines == [kind : {"task"}, job : Jobs] \cup [kind : {"done", "status"}, resolves : Nat]

TypeOK ==
  /\ \A i \in DOMAIN log : log[i] \in Events
  /\ \A i \in DOMAIN lines : lines[i] \in Lines
  /\ halted \in BOOLEAN /\ torn \in BOOLEAN /\ corrupt \in Nat /\ owner \in [Paths -> Agents \cup {Nobody}]
  /\ room.pc \in {"out", "gate", "turn", "tell", "summary", "decision", "closing", "reading", "error", "failed"}
  /\ room.stage \in 1..(2 * Rounds + 1)
  /\ \A x \in Appliers : apply[x].pc \in {"idle", "plan", "lock", "sending"}
  /\ \A y \in Workers : work[y].pc \in {"idle", "verifying"}
  /\ holder \in Appliers \cup {Nobody}

Outside == [pc |-> "out", stage |-> 1, decision |-> CHOOSE d \in Decisions : TRUE]
Idle == [pc |-> "idle"]

Init ==
  /\ log = <<>> /\ halted = FALSE /\ owner = [f \in Paths |-> Nobody]
  /\ room = Outside /\ apply = [x \in Appliers |-> Idle] /\ work = [y \in Workers |-> Idle]
  /\ lines = <<>> /\ torn = FALSE /\ corrupt = 0 /\ holder = Nobody
  /\ runs = 0 /\ faults = 0 /\ switches = 0 /\ plans = 0 /\ tries = 0

-----------------------------------------------------------------------------
(* The elements of a sequence at some positions, in their order. *)
RankIn(S, n) == Cardinality({i \in S : i <= n})
Picked(s, S) == [k \in 1..Cardinality(S) |-> s[CHOOSE i \in S : RankIn(S, i) = k]]

-----------------------------------------------------------------------------
(* Reading a thread. *)

HasKind(kind) == {i \in DOMAIN log : log[i].kind = kind}
Endings == HasKind("closed") \cup HasKind("failed")
LastOf(S) == CHOOSE i \in S : \A j \in S : j <= i

(* buildDiscussion: the thread needs its started event; the last ending counts. *)
Readable == HasKind("started") # {}
Status ==
  IF Endings = {} THEN "open"
  ELSE IF log[LastOf(Endings)].kind = "closed" THEN "closed" ELSE "failed"
FinalDecision == log[LastOf(Endings)].decision

-----------------------------------------------------------------------------
(* runDiscussion *)
Synthesis == 2 * Rounds + 1

At(pc) == room' = [room EXCEPT !.pc = pc]
Fails == faults < MaxFaults /\ faults' = faults + 1
FailOnce == Fails /\ UNCHANGED <<runs, switches, plans, tries>>

(* emit: the event is appended, or the kill switch throws past the failure *)
(* record, or the append fails.                                            *)
Emits(event, next, onError) ==
  \/ ~halted /\ log' = Append(log, event) /\ room' = next /\ UNCHANGED counters
  \/ halted /\ room' = Outside /\ UNCHANGED <<log, counters>>
  \/ ~halted /\ room' = onError /\ FailOnce /\ UNCHANGED log
Says(event, next) == Emits(event, next, [room EXCEPT !.pc = "error"])

InRoom(pc) == room.pc = pc /\ UNCHANGED <<halted, owner, apply, work, lines, torn, corrupt, holder>>

StartDiscussion ==
  /\ InRoom("out") /\ ~halted /\ runs < MaxRuns
  /\ log' = Append(log, [kind |-> "started"])
  /\ room' = [Outside EXCEPT !.pc = "gate"] /\ runs' = runs + 1
  /\ UNCHANGED <<faults, switches, plans, tries>>

(* Mutant: a turn waits for the kill switch to be lifted. *)
AskWaits ==
  /\ InRoom("gate") /\ ~halted /\ UNCHANGED <<log, counters>> /\ At("turn")
(* assertCoordinationEnabled, then the provider is asked. *)
Ask ==
  /\ InRoom("gate") /\ UNCHANGED <<log, counters>>
  /\ room' = IF halted THEN Outside ELSE [room EXCEPT !.pc = "turn"]

(* respond, publicResponse and, for the last turn, parseConclusion. *)
Respond ==
  /\ InRoom("turn") /\ UNCHANGED log
  /\ \/ room.stage < Synthesis /\ At("tell") /\ UNCHANGED counters
     \/ room.stage = Synthesis /\ UNCHANGED counters
        /\ \E d \in Decisions : room' = [room EXCEPT !.pc = "summary", !.decision = d]
     \/ At("error") /\ FailOnce

Tell == InRoom("tell") /\
  Says([kind |-> "statement"], [room EXCEPT !.pc = "gate", !.stage = @ + 1])
EmitSummary == InRoom("summary") /\ Says([kind |-> "summary"], [room EXCEPT !.pc = "decision"])

EmitDecision == InRoom("decision") /\
  Says([kind |-> "decision", decision |-> room.decision], [room EXCEPT !.pc = "closing"])
EmitClosed == InRoom("closing") /\
  Says([kind |-> "closed", decision |-> room.decision], [room EXCEPT !.pc = "reading"])

(* The result is read back, which fails when compaction took the thread's start. *)
ReadResult ==
  /\ InRoom("reading") /\ UNCHANGED <<log, counters>>
  /\ room' = IF Readable THEN Outside ELSE [room EXCEPT !.pc = "error"]

(* recordFailure: an error event, then a failed ending. *)
RecordError == InRoom("error") /\ Emits([kind |-> "error"], [room EXCEPT !.pc = "failed"], Outside)
RecordFailed == InRoom("failed") /\ Emits([kind |-> "failed"], Outside, Outside)

Discuss ==
  \/ Ask \/ Respond \/ Tell \/ EmitSummary \/ EmitDecision \/ EmitClosed \/ ReadResult
  \/ RecordError \/ RecordFailed

(* The process in the room dies: the lease it held is recovered by the next. *)
RoomDies ==
  /\ room.pc # "out" /\ room' = Outside /\ FailOnce
  /\ UNCHANGED <<log, halted, owner, apply, work, lines, torn, corrupt, holder>>

(* extractStateCheckpoints: the last event of every decision is kept. *)
InForce(i) == log[i].kind = "decision" /\ \A j \in DOMAIN log : log[j] = log[i] => j <= i
(* compact: a part of the log is dropped, except the decisions still in force. *)
Compact ==
  /\ ~halted /\ FailOnce
  /\ \E n \in DOMAIN log : log' = Picked(log, {i \in DOMAIN log : i > n \/ InForce(i)})
  /\ UNCHANGED <<halted, owner, room, apply, work, lines, torn, corrupt, holder>>

-----------------------------------------------------------------------------
(* The pipeline: a closed discussion becomes one task per agent. *)
Mentioned(d, a) == {f \in Mentions[d] : owner[f] = a}
TasksOf(d) ==
  IF \A f \in Mentions[d] : owner[f] = Nobody
  THEN {[agent |-> a, paths |-> {}] : a \in Agents}
  ELSE {[agent |-> a, paths |-> Mentioned(d, a)] : a \in {owner[f] : f \in Mentions[d]} \ {Nobody}}

InPipeline(x, pc) == apply[x].pc = pc /\ UNCHANGED <<halted, owner, room, work, runs, switches, tries>>
Goes(x, state) == apply' = [apply EXCEPT ![x] = state]

(* buildImplementationPlan reads the discussion, then the ownership. *)
BuildPlan(x) ==
  /\ InPipeline(x, "idle") /\ plans < MaxPlans /\ plans' = plans + 1
  /\ Readable /\ Status = "closed"
  /\ Goes(x, [pc |-> "plan", decision |-> FinalDecision])
  /\ UNCHANGED <<log, lines, torn, corrupt, holder, faults>>

(* executeImplementationPlan refuses paths that nobody owns. *)
ReadOwnership(x) ==
  /\ InPipeline(x, "plan") /\ UNCHANGED <<log, lines, torn, corrupt, holder, faults, plans>>
  /\ LET d == apply[x].decision IN
     Goes(x, IF Mentioned(d, Nobody) # {} THEN Idle
             ELSE [pc |-> "lock", plan |-> [decision |-> d, tasks |-> TasksOf(d)]])

(* A dry run, or a lock that was waited for too long. *)
Drop(x) ==
  /\ InPipeline(x, "lock") /\ Goes(x, Idle)
  /\ UNCHANGED <<log, lines, torn, corrupt, holder, faults, plans>>

Posted == {i \in DOMAIN lines : lines[i].kind = "task"}
(* The marker of the plan, for one agent. *)
AlreadySent(plan, a) == \E i \in Posted : lines[i].job = <<plan, a>>

(* Mutant: the log is read, and written, without the lock. *)
EnterUnlocked(x) ==
  /\ InPipeline(x, "lock")
  /\ LET plan == apply[x].plan
         agents == {task.agent : task \in plan.tasks}
     IN Goes(x, [pc |-> "sending", plan |-> plan, todo |-> {a \in agents : ~AlreadySent(plan, a)}])
  /\ UNCHANGED <<log, lines, torn, corrupt, holder, faults, plans>>

EnterDispatch(x) ==
  /\ InPipeline(x, "lock") /\ holder = Nobody /\ holder' = x
  /\ LET plan == apply[x].plan
         agents == {task.agent : task \in plan.tasks}
     IN Goes(x, [pc |-> "sending", plan |-> plan, todo |-> {a \in agents : ~AlreadySent(plan, a)}])
  /\ UNCHANGED <<log, lines, torn, corrupt, faults, plans>>

(* appendHandoffMessage: a line after a torn one is unreadable with it. *)
AppendLine(line) ==
  /\ torn' = FALSE
  /\ lines' = IF torn THEN lines ELSE Append(lines, line)
  /\ UNCHANGED corrupt
(* The append is cut off, and its process dies. *)
TearLine ==
  /\ torn' = TRUE /\ corrupt' = IF torn THEN corrupt ELSE corrupt + 1
  /\ FailOnce /\ UNCHANGED lines

SendTask(x) ==
  /\ InPipeline(x, "sending") /\ UNCHANGED log
  /\ \E a \in apply[x].todo :
       \/ /\ AppendLine([kind |-> "task", job |-> <<apply[x].plan, a>>])
          /\ Goes(x, [apply[x] EXCEPT !.todo = @ \ {a}])
          /\ UNCHANGED <<holder, faults, plans>>
       \/ TearLine /\ Goes(x, Idle) /\ holder' = Nobody

(* Mutant: the dispatch is recorded whichever way the loop is left. *)
FinishDispatchAnyway(x) ==
  /\ InPipeline(x, "sending")
  /\ Goes(x, Idle) /\ holder' = Nobody /\ UNCHANGED <<lines, torn, corrupt, plans, faults>>
  /\ log' = Append(log, [kind |-> "dispatched", plan |-> apply[x].plan])
(* The dispatch is recorded once; the emit may be refused or fail. *)
FinishDispatch(x) ==
  /\ InPipeline(x, "sending") /\ apply[x].todo = {}
  /\ Goes(x, Idle) /\ holder' = Nobody /\ UNCHANGED <<lines, torn, corrupt, plans>>
  /\ LET event == [kind |-> "dispatched", plan |-> apply[x].plan] IN
     \/ /\ log' = IF halted \/ Contains(log, event) THEN log ELSE Append(log, event)
        /\ UNCHANGED faults
     \/ ~halted /\ ~Contains(log, event) /\ FailOnce /\ UNCHANGED log

(* A bundle cannot be made, or the process dies, between two tasks. *)
DispatchStops(x) ==
  /\ InPipeline(x, "sending") /\ Goes(x, Idle) /\ holder' = Nobody
  /\ FailOnce /\ UNCHANGED <<log, lines, torn, corrupt>>

-----------------------------------------------------------------------------
(* handoff --done: completeHandoff looks at the task, runs its verification *)
(* without the lock, and looks again before it settles the task.            *)
Settled(n) == \E i \in DOMAIN lines : lines[i].kind = "done" /\ lines[i].resolves = n
Pending == {n \in Posted : ~Settled(n)}

AtWork(y, pc) ==
  /\ work[y].pc = pc /\ holder = Nobody
  /\ UNCHANGED <<log, halted, owner, room, apply, holder, runs, switches, plans>>

BeginCompletion(y) ==
  /\ AtWork(y, "idle") /\ tries < MaxTries /\ tries' = tries + 1
  /\ UNCHANGED <<lines, torn, corrupt, faults>>
  /\ \E n \in Pending : work' = [work EXCEPT ![y] = [pc |-> "verifying", task |-> n]]

(* A task that was settled in the meantime is left alone; a verification that *)
(* failed is recorded, and the task stays pending.                            *)
EndCompletion(y) ==
  /\ AtWork(y, "verifying") /\ work' = [work EXCEPT ![y] = Idle]
  /\ \/ Settled(work[y].task) /\ UNCHANGED <<lines, torn, corrupt, faults, tries>>
     \/ /\ ~Settled(work[y].task) /\ UNCHANGED <<faults, tries>>
        /\ \E kind \in {"done", "status"} : AppendLine([kind |-> kind, resolves |-> work[y].task])
     \/ ~Settled(work[y].task) /\ TearLine

-----------------------------------------------------------------------------
(* The kill switch, and claims and releases of the other agents. *)
Switches == switches < MaxSwitches /\ switches' = switches + 1
            /\ UNCHANGED <<log, room, apply, work, lines, torn, corrupt, holder, runs, faults, plans, tries>>
TurnKillSwitch == Switches /\ halted' = ~halted /\ UNCHANGED owner
ChangeOwner == Switches /\ UNCHANGED halted
  /\ \E f \in Paths, a \in Agents \cup {Nobody} : a # owner[f] /\ owner' = [owner EXCEPT ![f] = a]

Next ==
  \/ StartDiscussion \/ Discuss \/ RoomDies \/ Compact
  \/ \E x \in Appliers : BuildPlan(x) \/ ReadOwnership(x) \/ Drop(x) \/ EnterDispatch(x)
                          \/ SendTask(x) \/ FinishDispatch(x) \/ DispatchStops(x)
  \/ \E y \in Workers : BeginCompletion(y) \/ EndCompletion(y)
  \/ TurnKillSwitch \/ ChangeOwner

(* A provider answers or times out, and the process in the room goes on. *)
Spec == Init /\ [][Next]_vars /\ WF_vars(Discuss)

-----------------------------------------------------------------------------
(* Properties. *)

(* A thread that counts as closed, and may be implemented, has its decision in *)
(* the log, whatever failed between the two events (runDiscussion), and after  *)
(* any compaction.                                                            *)
ClosedHasDecision ==
  Status = "closed" => Contains(log, [kind |-> "decision", decision |-> FinalDecision])

(* A plan is recorded as dispatched only when every task of it is in the handoff *)
(* log, or that log reports lines that cannot be read (executeImplementationPlan *)
(* and readMessagesDetailed).                                                    *)
DispatchIsComplete ==
  \A i \in HasKind("dispatched") : \A task \in log[i].plan.tasks :
    corrupt > 0 \/ \E n \in Posted : lines[n].job = <<log[i].plan, task.agent>>

(* Both, and every variable of its type. *)
RoomSound == TypeOK /\ ClosedHasDecision /\ DispatchIsComplete

(* However often a plan is dispatched and a task completed, by whom and through *)
(* which crashes, the handoff log posts a job once and settles it once.         *)
Of(kind) == Picked(lines, {i \in DOMAIN lines : lines[i].kind = kind})
PostedJobs == LET tasks == Of("task") IN [k \in DOMAIN tasks |-> tasks[k].job]
NumberOf(n) == RankIn(Posted, n)
SettledTasks == LET done == Of("done") IN [k \in DOMAIN done |-> NumberOf(done[k].resolves)]
Board == INSTANCE TaskBoard WITH posted <- PostedJobs, settled <- SettledTasks
ImplementsTaskBoard == Board!BoardSpec

(* The room is always left: a discussion ends with its result, with a failure *)
(* record, or because of the kill switch, and gives its lease up (runDiscussion *)
(* and `discuss start`).                                                       *)
RoomIsLeft == room.pc # "out" ~> room.pc = "out"
=============================================================================
