------------------------------ MODULE Sessions ------------------------------
(***************************************************************************)
(* SessionManager (src/core/coordination/session-manager.ts), for one      *)
(* provider session: how a bridge process turns the events its watcher     *)
(* sees into provider turns, what it queues, what it saves, and what a new *)
(* process ("bridge" again, or "send") picks up after it has died.         *)
(*                                                                         *)
(* The manager is one event loop.  A task is one asynchronous call, and a  *)
(* step of a task runs up to its next await; between two steps any other   *)
(* task may run.  The task Main attaches or resumes the session, the       *)
(* others each route one batch of the watcher's.                           *)
(*                                                                         *)
(* An event is its sequence number.  All events are addressed to the       *)
(* session's agent; those of the set Passive spend no turn.                *)
(***************************************************************************)
EXTENDS Integers, FiniteSets, FiniteSetsExt

CONSTANTS
  Routers,      \* the calls of handleEvents that may be under way at a time
  Main,         \* the call of attachSession or resumeSession
  Idle,         \* no task runs a turn
  Untracked,    \* sessions.json does not know the session
  Passive,      \* the events the policy records without a turn
  MaxTurns,     \* maxAutoTurnsPerSession
  MaxEvents,    \* bound: the events that are appended to the log
  MaxDeaths,    \* bound: how often the process dies
  MaxSwitches   \* bound: how often the kill switch is turned on

Events == 0..(MaxEvents - 1)
Tasks == Routers \cup {Main}

ASSUME SessionsConstantsOK ==
  /\ Main \notin Routers /\ Idle \notin Tasks
  /\ Untracked \notin Int
  /\ MaxTurns \in Nat \ {0} /\ MaxEvents \in Nat
  /\ MaxDeaths \in Nat /\ MaxSwitches \in Nat

VARIABLES
  log,       \* the events of the coordination log
  acked,     \* the highest number the agent has acknowledged, or -1
  killed,    \* whether the kill switch is on
  mode,      \* the manager process: "off", "bridge" or "send"
  handed,    \* the highest number the watcher has handed out
  doing,     \* what every task does next
  batch,     \* the events every task carries
  busy,      \* the task whose turn the provider is processing
  turns,     \* autoTurnCounts
  before,    \* the count every task read before its turn
  pending,   \* pendingEvents
  cursor,    \* the session's cursor in memory
  storing,   \* the cursor every task is about to write to sessions.json
  saved,     \* the cursor in sessions.json
  deaths,    \* how often the process has died
  switches,  \* how often the kill switch has been turned on
  delivered, \* history: the events of turns that succeeded
  spent,     \* history: the turns that succeeded in this process
  taken,     \* history: the events taken up for the session in this process
  surfaced,  \* history: the events shown to the user (onPendingEvents) and not kept
  givenUp,   \* history: the events given up because of the kill switch
  past       \* history: the tasks that were past their look at the switch when it came on

world == <<log, acked, killed, switches>>
store == <<cursor, storing, saved>>
history == <<delivered, spent, taken, surfaced, givenUp, past>>
sessionVars == <<world, mode, handed, doing, batch, busy, turns, before, pending, store, deaths, history>>

TaskSteps == {"free", "attach", "snapshot", "route", "gate", "decide", "turn", "save", "store", "lastSave", "lastStore"}

SessionTypeOK ==
  /\ log \in SUBSET Events /\ acked \in Events \cup {-1}
  /\ killed \in BOOLEAN /\ switches \in 0..MaxSwitches /\ deaths \in 0..MaxDeaths
  /\ mode \in {"off", "bridge", "send"}
  /\ handed \in Events \cup {-1}
  /\ doing \in [Tasks -> TaskSteps] /\ batch \in [Tasks -> SUBSET Events]
  /\ busy \in Tasks \cup {Idle}
  /\ turns \in 0..MaxTurns /\ before \in [Tasks -> 0..MaxTurns] /\ spent \in Nat
  /\ pending \in SUBSET Events
  /\ cursor \in Events \cup {-1}
  /\ storing \in [Tasks -> Events \cup {-1}]
  /\ saved \in Events \cup {-1, Untracked}
  /\ delivered \cup taken \cup surfaced \cup givenUp \subseteq log
  /\ past \subseteq Tasks
  /\ \A t \in Tasks : doing[t] = "turn" => busy = t

HighSeq == Max(log \cup {-1})

SessionInit ==
  /\ log = {} /\ acked = -1 /\ killed = FALSE /\ switches = 0
  /\ mode = "off" /\ handed = -1
  /\ doing = [t \in Tasks |-> "free"] /\ batch = [t \in Tasks |-> {}]
  /\ busy = Idle /\ turns = 0 /\ before = [t \in Tasks |-> 0] /\ pending = {}
  /\ cursor = -1 /\ storing = [t \in Tasks |-> -1] /\ saved = Untracked
  /\ deaths = 0
  /\ delivered = {} /\ spent = 0 /\ taken = {} /\ surfaced = {} /\ givenUp = {} /\ past = {}

-----------------------------------------------------------------------------
(* The world outside the manager *)

\* Another agent appends an event, which the kill switch forbids.
Emit ==
  /\ ~killed /\ HighSeq + 1 \in Events
  /\ log' = log \cup {HighSeq + 1}
  /\ UNCHANGED <<acked, killed, switches, mode, handed, doing, batch, busy, turns, before, pending,
                 store, deaths, history>>

\* The agent acknowledges what its last turn told it to acknowledge.
Ack ==
  /\ delivered # {} /\ ~killed
  /\ acked' = Max(delivered \cup {acked})
  /\ UNCHANGED <<log, killed, switches, mode, handed, doing, batch, busy, turns, before, pending,
                 store, deaths, history>>

SwitchOn ==
  /\ ~killed /\ killed' = TRUE
  /\ switches < MaxSwitches /\ switches' = switches + 1
  /\ past' = {t \in Tasks : doing[t] = "decide"}
  /\ UNCHANGED <<log, acked, mode, handed, doing, batch, busy, turns, before, pending,
                 store, deaths, delivered, spent, taken, surfaced, givenUp>>

SwitchOff ==
  /\ killed /\ killed' = FALSE
  /\ past' = {}
  /\ UNCHANGED <<log, acked, switches, mode, handed, doing, batch, busy, turns, before, pending,
                 store, deaths, delivered, spent, taken, surfaced, givenUp>>

-----------------------------------------------------------------------------
(* Tasks *)

Goto(t, to) == doing' = [doing EXCEPT ![t] = to]

\* submitEvents returns: attachSession and resumeSession go on to save.
Return(t) ==
  /\ Goto(t, IF t = Main THEN "lastSave" ELSE "free")
  /\ batch' = [batch EXCEPT ![t] = {}]

\* submitEvents is called with events.
Submit(t, events) ==
  \/ events = {} /\ Return(t)
  \/ events # {} /\ Goto(t, "gate") /\ batch' = [batch EXCEPT ![t] = events]

\* The process ends, and with it everything it had in memory.
End ==
  /\ mode' = "off"
  /\ handed' = -1
  /\ doing' = [t \in Tasks |-> "free"] /\ batch' = [t \in Tasks |-> {}]
  /\ busy' = Idle /\ turns' = 0 /\ before' = [t \in Tasks |-> 0] /\ pending' = {}
  /\ cursor' = -1 /\ storing' = [t \in Tasks |-> -1]
  /\ spent' = 0 /\ taken' = {} /\ surfaced' = {} /\ givenUp' = {}
  /\ past' = {}
  /\ UNCHANGED <<world, saved, delivered>>

\* The process is killed, or a user stops it, at any moment.
Die ==
  /\ mode # "off" /\ deaths < MaxDeaths /\ deaths' = deaths + 1
  /\ End

\* A "send" has nothing left to do.
Exit ==
  /\ mode = "send" /\ \A t \in Tasks : doing[t] = "free"
  /\ End /\ UNCHANGED deaths

\* `coord agents bridge` starts its watcher at the end of the log; `coord agents
\* send`, for a tracked session only, has none.
Start ==
  /\ mode = "off"
  /\ \/ mode' = "bridge" /\ handed' = HighSeq
     \/ saved # Untracked /\ mode' = "send" /\ UNCHANGED handed
  /\ Goto(Main, "attach")
  /\ UNCHANGED <<world, batch, busy, turns, before, pending, store, deaths, history>>

\* attachSession and resumeSession take the session up at its saved cursor.
Attach ==
  /\ doing[Main] = "attach"
  /\ \/ killed /\ End /\ UNCHANGED deaths
     \/ /\ ~killed
        /\ cursor' = IF saved = Untracked THEN -1 ELSE saved
        /\ Goto(Main, "snapshot")
        /\ UNCHANGED <<world, mode, handed, batch, busy, turns, before, pending, storing,
                       saved, deaths, history>>

\* attachSession submits what the agent has not acknowledged, resumeSession what
\* comes after the session's cursor, if it has one.
Snapshot ==
  /\ doing[Main] = "snapshot"
  /\ LET missed == {e \in log : IF mode = "bridge" THEN e > acked
                                                   ELSE cursor >= 0 /\ e > cursor}
     IN  Submit(Main, missed) /\ taken' = taken \cup missed
  /\ UNCHANGED <<world, mode, handed, busy, turns, before, pending, store, deaths,
                 delivered, spent, surfaced, givenUp, past>>

\* checkForUpdates hands out what is new and moves the watcher's cursor.
Watch(t) ==
  /\ mode = "bridge" /\ t # Main /\ doing[t] = "free"
  /\ HighSeq > handed
  /\ batch' = [batch EXCEPT ![t] = {e \in log : e > handed}]
  /\ handed' = HighSeq
  /\ Goto(t, "route")
  /\ UNCHANGED <<world, mode, busy, turns, before, pending, store, deaths, history>>

\* handleEvents: only while the kill switch is off, and to an active session.
Route(t) ==
  /\ doing[t] = "route"
  /\ \/ (killed \/ doing[Main] = "attach") /\ Return(t)
     \/ ~killed /\ doing[Main] # "attach" /\ Goto(t, "gate") /\ UNCHANGED batch
  /\ IF doing[Main] = "attach"
       THEN UNCHANGED <<taken, givenUp>>
       ELSE /\ taken' = taken \cup batch[t]
            /\ givenUp' = IF killed THEN givenUp \cup batch[t] ELSE givenUp
  /\ UNCHANGED <<world, mode, handed, busy, turns, before, pending, store, deaths,
                 delivered, spent, surfaced, past>>

Deliverable(t) == batch[t] \ Passive

\* submitEvents reads the kill switch ...
Gate(t) ==
  /\ doing[t] = "gate"
  /\ \/ killed /\ Return(t) /\ givenUp' = givenUp \cup batch[t]
     \/ ~killed /\ Goto(t, "decide") /\ UNCHANGED <<batch, givenUp>>
  /\ UNCHANGED <<world, mode, handed, busy, turns, before, pending, store, deaths,
                 delivered, spent, taken, surfaced, past>>

\* ... and then decides what to do with the events, up to the beginning of a
\* turn, without another await.
Decide(t) == doing[t] = "decide" /\ past' = past \ {t}

\* Only passive events, or no turn left: the events are reported, no more.
Report(t) ==
  /\ Decide(t)
  /\ Deliverable(t) = {} \/ turns >= MaxTurns
  /\ surfaced' = surfaced \cup batch[t]
  /\ Return(t)
  /\ UNCHANGED <<world, mode, handed, busy, turns, before, pending, store, deaths,
                 delivered, spent, taken, givenUp>>

\* Fault: the events wait, but the ones that waited already are forgotten.
QueueReplacing(t) ==
  /\ Decide(t)
  /\ Deliverable(t) # {} /\ turns < MaxTurns /\ busy # Idle
  /\ pending' = Deliverable(t)
  /\ surfaced' = surfaced \cup (batch[t] \cap Passive)
  /\ Return(t)
  /\ UNCHANGED <<world, mode, handed, busy, turns, before, store, deaths, delivered, spent, taken, givenUp>>

\* The session is busy: the events wait for the turn to succeed.
Queue(t) ==
  /\ Decide(t)
  /\ Deliverable(t) # {} /\ turns < MaxTurns /\ busy # Idle
  /\ pending' = pending \cup Deliverable(t)
  /\ surfaced' = surfaced \cup (batch[t] \cap Passive)
  /\ Return(t)
  /\ UNCHANGED <<world, mode, handed, busy, turns, before, store, deaths, delivered, spent, taken, givenUp>>

BeginTurn(t) ==
  /\ Decide(t)
  /\ Deliverable(t) # {} /\ turns < MaxTurns /\ busy = Idle
  /\ busy' = t /\ before' = [before EXCEPT ![t] = turns]
  /\ surfaced' = surfaced \cup (batch[t] \cap Passive)
  /\ Goto(t, "turn")
  /\ UNCHANGED <<world, mode, handed, batch, turns, pending, store, deaths,
                 delivered, spent, taken, givenUp>>

\* The provider has processed the turn.  The count and the cursor move at once,
\* the save that follows is another step.
TurnSucceeds(t) ==
  /\ doing[t] = "turn"
  /\ busy' = Idle
  /\ turns' = before[t] + 1
  /\ cursor' = Max(Deliverable(t) \cup {cursor})
  /\ delivered' = delivered \cup Deliverable(t)
  /\ spent' = spent + 1
  /\ Goto(t, "save") /\ batch' = [batch EXCEPT ![t] = {}]
  /\ UNCHANGED <<world, mode, handed, before, pending, storing, saved, deaths,
                 taken, surfaced, givenUp, past>>

\* The provider fails or times out: the events are reported, and not kept.
TurnFails(t) ==
  /\ doing[t] = "turn"
  /\ busy' = Idle
  /\ surfaced' = surfaced \cup Deliverable(t)
  /\ Return(t)
  /\ UNCHANGED <<world, mode, handed, turns, before, pending, store, deaths,
                 delivered, spent, taken, givenUp, past>>

\* saveSessions takes the sessions as they are into a temporary file ...
Save(t) ==
  /\ \/ doing[t] = "save" /\ Goto(t, "store")
     \/ doing[t] = "lastSave" /\ Goto(t, "lastStore")
  /\ storing' = [storing EXCEPT ![t] = cursor]
  /\ UNCHANGED <<world, mode, handed, batch, busy, turns, before, pending, cursor, saved,
                 deaths, history>>

\* Fault: what is queued is submitted past the kill switch.
StoreUngated(t) ==
  /\ saved' = storing[t]
  /\ \/ /\ doing[t] = "store" /\ pending # {} /\ busy = Idle /\ turns < MaxTurns
        /\ Goto(t, "turn") /\ batch' = [batch EXCEPT ![t] = pending]
        /\ pending' = {} /\ busy' = t /\ before' = [before EXCEPT ![t] = turns]
     \/ /\ doing[t] = "store" /\ ~(pending # {} /\ busy = Idle /\ turns < MaxTurns)
        /\ Return(t) /\ UNCHANGED <<pending, busy, before>>
     \/ /\ doing[t] = "lastStore" /\ Goto(t, "free")
        /\ UNCHANGED <<batch, pending, busy, before>>
  /\ UNCHANGED <<world, mode, handed, turns, cursor, storing, deaths, history>>

\* ... that it renames; flushPendingEvents then submits what is queued, unless
\* another turn has begun.
Store(t) ==
  /\ saved' = storing[t]
  /\ \/ /\ doing[t] = "store" /\ busy = Idle
        /\ Submit(t, pending) /\ pending' = {}
     \/ doing[t] = "store" /\ busy # Idle /\ Return(t) /\ UNCHANGED pending
     \/ doing[t] = "lastStore" /\ Goto(t, "free") /\ UNCHANGED <<batch, pending>>
  /\ UNCHANGED <<world, mode, handed, busy, turns, before, cursor, storing, deaths, history>>

Step(t) ==
  \/ Watch(t) \/ Route(t) \/ Gate(t) \/ Report(t) \/ Queue(t) \/ BeginTurn(t)
  \/ TurnSucceeds(t) \/ TurnFails(t) \/ Save(t) \/ Store(t)

SessionNext ==
  \/ Emit \/ Ack \/ SwitchOn \/ SwitchOff
  \/ Start \/ Attach \/ Snapshot \/ Exit \/ Die
  \/ \E t \in Tasks : Step(t)

SessionSpec == SessionInit /\ [][SessionNext]_sessionVars

-----------------------------------------------------------------------------
(* Properties *)

\* The provider processes one turn of a session at a time, whichever calls of
\* the manager, queued or not, come to submit one.
OneTurnAtATime == \A t, u \in Tasks : doing[t] = "turn" /\ doing[u] = "turn" => t = u

\* "Automatic delivery stops after 20 turns per session": turns that are counted
\* across awaits are all counted.
TurnsCapped == spent <= MaxTurns

\* "The project kill switch blocks CLI, MCP, daemon, compaction, and provider
\* turns": a turn begins while it is on only if its call had looked at the switch
\* before it came on, whether the events are new or waited for an earlier turn.
NoTurnWhileKilled ==
  [][\A t \in Tasks : doing[t] # "turn" /\ doing'[t] = "turn" => ~killed \/ t \in past]_sessionVars

InFlight == UNION {batch[t] : t \in Tasks}

\* An event taken up for the session is delivered, shown to the user, or given up
\* because of the kill switch, or it is still on its way: no interleaving of
\* turns, queue and flushes loses it.
NothingVanishes ==
  taken \subseteq InFlight \cup pending \cup delivered \cup surfaced \cup givenUp

\* The turns of a session do not overlap and are all counted, and no event that
\* was taken up for it disappears (submitEvents, flushPendingEvents).
SessionSound == SessionTypeOK /\ OneTurnAtATime /\ TurnsCapped /\ NothingVanishes

\* "cursor-based reads so reconnecting agents never miss a message": an event that
\* neither way to reconnect will submit again, because the session's cursor and
\* the agent's acknowledgements are past it, has been delivered.
NeverMissed ==
  (mode = "off" /\ saved # Untracked)
    => \A e \in log \ Passive : (e <= saved /\ e <= acked) => e \in delivered

=============================================================================
