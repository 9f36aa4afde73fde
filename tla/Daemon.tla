------------------------------ MODULE Daemon ------------------------------
(***************************************************************************)
(* The coordination daemon (src/core/coordination/daemon.ts): how it is    *)
(* started against the pid file, the token and the port, how a watcher     *)
(* (watcher.ts) broadcasts new events to its SSE clients while these get   *)
(* the backlog they asked for, and how it is stopped (crash-recovery.ts).  *)
(*                                                                         *)
(* The log is a sequence of events that only grows: whom an event is for   *)
(* is all that matters of it.                                              *)
(***************************************************************************)
EXTENDS Integers, Sequences, FiniteSets

CONSTANTS
  Daemons,      \* processes that run `daemon start`
  Ports,        \* ports they may be given
  Clients,      \* SSE clients
  Audiences,    \* whom an event may be addressed to
  Follows,      \* the audiences whose events a client gets
  Controllers,      \* processes that run `daemon stop`, `kill` or `status`
  MaxEvents,    \* bound: events
  MaxSubscriptions, \* bound: subscriptions
  MaxCalls      \* bound: calls of daemon stop, kill and status

NoDaemon == "nobody"

ASSUME DaemonConstantsOK ==
  /\ Follows \in [Clients -> SUBSET Audiences]
  /\ {NoDaemon, "absent", "empty"} \cap Daemons = {}
  /\ MaxEvents \in Nat /\ MaxSubscriptions \in Nat /\ MaxCalls \in Nat

VARIABLES
  log,       \* the audience of every event
  halted,    \* the kill switch
  pidFile,   \* whom daemon.pid names
  token,     \* daemon.token: absent, created but empty, or by whom it was made
  daemon,    \* the daemon processes
  client,    \* the SSE clients
  caller,    \* the calls of daemon stop, kill and status
  subscriptions, calls

daemonVars == <<log, halted, pidFile, token, daemon, client, caller, subscriptions, calls>>

Numbers == 1..MaxEvents
Starting == {"status", "clean", "token", "create", "watch", "register", "bind"}
Serving == {"record", "serving", "terminating"}

Dead == [pc |-> "dead", port |-> 0, token |-> NoDaemon, cursor |-> 0, watching |-> FALSE, due |-> FALSE, reads |-> {}]
Out == [pc |-> "out", at |-> NoDaemon, since |-> 0, upTo |-> 0, got |-> {}]
Resting == [pc |-> "idle", stops |-> FALSE, found |-> NoDaemon]

DaemonTypeOK ==
  /\ log \in Seq(Audiences) /\ Len(log) <= MaxEvents
  /\ halted \in BOOLEAN /\ pidFile \in Daemons \cup {NoDaemon}
  /\ token \in {"absent", "empty"} \cup Daemons
  /\ daemon \in [Daemons -> [pc : {"new", "dead"} \cup Starting \cup Serving, port : Ports,
                             token : Daemons \cup {NoDaemon}, cursor : 0..MaxEvents,
                             watching : BOOLEAN, due : BOOLEAN, reads : SUBSET (0..MaxEvents)]]
  /\ client \in [Clients -> [pc : {"out", "registered", "backlog", "open"}, at : Daemons \cup {NoDaemon},
                             since : 0..MaxEvents, upTo : 0..MaxEvents, got : SUBSET Numbers]]
  /\ caller \in [Controllers -> [pc : {"idle", "read", "signal", "remove"}, stops : BOOLEAN,
                             found : Daemons \cup {NoDaemon}]]
  /\ \A c \in Clients : IF client[c].pc = "out" THEN client[c] = Out ELSE daemon[client[c].at].pc \in Serving

DaemonInit ==
  /\ log = <<>> /\ halted = FALSE /\ pidFile = NoDaemon /\ token = "absent"
  /\ daemon \in [Daemons -> [pc : {"new"}, port : Ports, token : {NoDaemon}, cursor : {0},
                             watching : {FALSE}, due : {FALSE}, reads : {{}}]]
  /\ client = [c \in Clients |-> Out]
  /\ caller = [k \in Controllers |-> Resting]
  /\ subscriptions = 0 /\ calls = 0

-----------------------------------------------------------------------------
(* startDaemon *)
In(p, pc) == daemon[p].pc = pc
Alive(p) == daemon[p].pc \notin {"new", "dead"}
Goes(p, pc) == daemon' = [daemon EXCEPT ![p].pc = pc]
OnlyStarts == UNCHANGED <<log, halted, client, caller, subscriptions, calls>>

StartDaemon(p) ==
  /\ In(p, "new") /\ ~halted /\ Goes(p, "status")
  /\ OnlyStarts /\ UNCHANGED <<pidFile, token>>

(* getDaemonStatus: a daemon on file that is alive keeps this one out. *)
CheckStatus(p) ==
  /\ In(p, "status") /\ OnlyStarts /\ UNCHANGED <<pidFile, token>>
  /\ Goes(p, IF pidFile = NoDaemon THEN "token" ELSE IF Alive(pidFile) THEN "dead" ELSE "clean")

(* The stale file is removed by its path. *)
CleanStatus(p) ==
  /\ In(p, "clean") /\ pidFile' = NoDaemon /\ Goes(p, "token") /\ OnlyStarts /\ UNCHANGED token

(* ensureDaemonToken: created exclusively, or read; an empty one is an error. *)
EnsureToken(p) ==
  /\ In(p, "token") /\ OnlyStarts /\ UNCHANGED pidFile
  /\ \/ token = "absent" /\ token' = "empty" /\ Goes(p, "create")
     \/ token = "empty" /\ UNCHANGED token /\ Goes(p, "dead")
     \/ token \in Daemons /\ UNCHANGED token
        /\ daemon' = [daemon EXCEPT ![p].pc = "watch", ![p].token = token]
WriteToken(p) ==
  /\ In(p, "create") /\ token' = p /\ OnlyStarts /\ UNCHANGED pidFile
  /\ daemon' = [daemon EXCEPT ![p].pc = "watch", ![p].token = p]

(* watchCoordination starts from the last event; fs.watch comes after. *)
WatchCoordination(p) ==
  /\ In(p, "watch") /\ OnlyStarts /\ UNCHANGED <<pidFile, token>>
  /\ daemon' = [daemon EXCEPT ![p].pc = "register", ![p].cursor = Len(log)]
RegisterWatch(p) ==
  /\ In(p, "register") /\ OnlyStarts /\ UNCHANGED <<pidFile, token>>
  /\ daemon' = [daemon EXCEPT ![p].pc = "bind", ![p].watching = TRUE]

Listens(p) == daemon[p].pc \in Serving
Bind(p) ==
  /\ In(p, "bind") /\ OnlyStarts /\ UNCHANGED <<pidFile, token>>
  /\ Goes(p, IF \E q \in Daemons : Listens(q) /\ daemon[q].port = daemon[p].port THEN "dead" ELSE "record")

WritePidFile(p) ==
  /\ In(p, "record") /\ pidFile' = p /\ Goes(p, "serving") /\ OnlyStarts /\ UNCHANGED token

Starts(p) == CheckStatus(p) \/ CleanStatus(p) \/ EnsureToken(p) \/ WriteToken(p)
             \/ WatchCoordination(p) \/ RegisterWatch(p) \/ Bind(p) \/ WritePidFile(p)

-----------------------------------------------------------------------------
(* How a daemon ends.  Its clients are cut off. *)
Ends(p) ==
  /\ daemon' = [daemon EXCEPT ![p] = [Dead EXCEPT !.port = daemon[p].port]]
  /\ client' = [c \in Clients |-> IF client[c].at = p THEN Out ELSE client[c]]
  /\ UNCHANGED <<log, halted, token, subscriptions, calls>>

DaemonCrash(p) == Alive(p) /\ Ends(p) /\ UNCHANGED <<pidFile, caller>>

(* SIGINT: close() starts to remove the pid file, and the process exits. *)
Close(p) == In(p, "serving") /\ Ends(p) /\ UNCHANGED caller /\ pidFile' \in {pidFile, NoDaemon}
(* SIGTERM, once its handler is there: the pid file is removed first. *)
Terminate(p) == In(p, "terminating") /\ Ends(p) /\ UNCHANGED caller /\ pidFile' = NoDaemon

(* stopDaemon and getDaemonStatus; `daemon kill` turns the switch on first. *)
Calls(k, pc) == caller[k].pc = pc /\ UNCHANGED <<log, token, subscriptions>>
CallDaemon(k) ==
  /\ Calls(k, "idle") /\ calls < MaxCalls /\ calls' = calls + 1
  /\ \E stops \in BOOLEAN : caller' = [caller EXCEPT ![k] = [Resting EXCEPT !.pc = "read", !.stops = stops]]
  /\ halted' \in {halted, TRUE}
  /\ UNCHANGED <<pidFile, daemon, client>>
ReadStatus(k) ==
  /\ Calls(k, "read") /\ UNCHANGED <<halted, pidFile, daemon, client, calls>>
  /\ \/ pidFile = NoDaemon /\ caller' = [caller EXCEPT ![k] = Resting]
     \/ /\ pidFile # NoDaemon
        /\ caller' = [caller EXCEPT ![k].found = pidFile,
             ![k].pc = IF ~Alive(pidFile) THEN "remove" ELSE IF caller[k].stops THEN "signal" ELSE "idle"]
SignalDaemon(k) ==
  LET p == caller[k].found IN
  /\ Calls(k, "signal") /\ UNCHANGED <<pidFile>>
  /\ \/ /\ ~Alive(p) /\ caller' = [caller EXCEPT ![k] = Resting]
        /\ UNCHANGED <<halted, daemon, client, calls>>
     \/ /\ In(p, "serving") /\ caller' = [caller EXCEPT ![k].pc = "remove"]
        /\ Goes(p, "terminating") /\ UNCHANGED <<halted, client, calls>>
     \/ /\ Alive(p) /\ ~In(p, "serving") /\ caller' = [caller EXCEPT ![k].pc = "remove"]
        /\ Ends(p)
RemovePidFile(k) ==
  /\ Calls(k, "remove") /\ pidFile' = NoDaemon /\ caller' = [caller EXCEPT ![k] = Resting]
  /\ UNCHANGED <<halted, daemon, client, calls>>
ResumeCoordination ==
  /\ halted /\ halted' = FALSE
  /\ UNCHANGED <<log, pidFile, token, daemon, client, caller, subscriptions, calls>>

-----------------------------------------------------------------------------
(* Events, and the watcher. *)
OnlyWatches == UNCHANGED <<halted, pidFile, token, caller, subscriptions, calls>>

(* Any writer appends; every registered watch is told, sooner or later. *)
EmitEvent ==
  /\ ~halted /\ Len(log) < MaxEvents
  /\ \E a \in Audiences : log' = Append(log, a)
  /\ daemon' = [p \in Daemons |-> [daemon[p] EXCEPT !.due = daemon[p].watching]]
  /\ OnlyWatches /\ UNCHANGED client

(* Mutant: no check begins while another one is under way. *)
CheckIfIdle(p) ==
  /\ daemon[p].due
  /\ daemon' = [daemon EXCEPT ![p].due = FALSE, ![p].reads = IF @ = {} THEN {Len(log)} ELSE @]
  /\ OnlyWatches /\ UNCHANGED <<log, client>>
(* The timer of scheduleCheck: the log is read. *)
CheckForUpdates(p) ==
  /\ daemon[p].due
  /\ daemon' = [daemon EXCEPT ![p].due = FALSE, ![p].reads = @ \cup {Len(log)}]
  /\ OnlyWatches /\ UNCHANGED <<log, client>>

For(c, numbers) == {n \in numbers : log[n] \in Follows[c]}

(* Mutant: a client counts as registered when its backlog has been sent. *)
BroadcastToOpen(p) ==
  \E top \in daemon[p].reads :
    /\ daemon' = [daemon EXCEPT ![p].reads = @ \ {top}, ![p].cursor = IF top > @ THEN top ELSE @]
    /\ client' = [c \in Clients |->
         IF client[c].at # p \/ client[c].pc # "open" THEN client[c]
         ELSE [client[c] EXCEPT !.got = @ \cup For(c, (daemon[p].cursor + 1)..top)]]
    /\ OnlyWatches /\ UNCHANGED log
(* The read is done: what is after the cursor is broadcast to all clients. *)
BroadcastToClients(p) ==
  \E top \in daemon[p].reads :
    /\ daemon' = [daemon EXCEPT ![p].reads = @ \ {top}, ![p].cursor = IF top > @ THEN top ELSE @]
    /\ client' = [c \in Clients |->
         IF client[c].at # p THEN client[c]
         ELSE [client[c] EXCEPT !.got = @ \cup For(c, (daemon[p].cursor + 1)..top)]]
    /\ OnlyWatches /\ UNCHANGED log

-----------------------------------------------------------------------------
(* GET /api/subscribe *)
OnlyServes == UNCHANGED <<log, halted, pidFile, token, daemon, caller, calls>>
Changes(c, record) == client' = [client EXCEPT ![c] = record]

(* A client is registered first; without a cursor it gets no backlog. *)
Subscribe(c) ==
  /\ client[c].pc = "out" /\ subscriptions < MaxSubscriptions /\ subscriptions' = subscriptions + 1
  /\ OnlyServes
  /\ \E p \in Daemons :
       /\ Listens(p)
       /\ \/ Changes(c, [Out EXCEPT !.pc = "open", !.at = p, !.since = daemon[p].cursor])
          \/ \E cursor \in 0..Len(log) :
               Changes(c, [Out EXCEPT !.pc = "registered", !.at = p, !.since = cursor])

(* readAfterCursor, and then the backlog is sent. *)
ReadBacklog(c) ==
  /\ client[c].pc = "registered" /\ OnlyServes /\ UNCHANGED subscriptions
  /\ Changes(c, [client[c] EXCEPT !.pc = "backlog", !.upTo = Len(log)])
SendBacklog(c) ==
  /\ client[c].pc = "backlog" /\ OnlyServes /\ UNCHANGED subscriptions
  /\ Changes(c, [client[c] EXCEPT !.pc = "open", !.upTo = 0,
                   !.got = @ \cup For(c, (client[c].since + 1)..client[c].upTo)])
Disconnect(c) ==
  /\ client[c].pc # "out" /\ OnlyServes /\ UNCHANGED subscriptions /\ Changes(c, Out)

Watches(p) == CheckForUpdates(p) \/ BroadcastToClients(p)
Serves(c) == ReadBacklog(c) \/ SendBacklog(c)

DaemonNext ==
  \/ \E p \in Daemons : StartDaemon(p) \/ Starts(p) \/ DaemonCrash(p) \/ Close(p) \/ Terminate(p) \/ Watches(p)
  \/ \E k \in Controllers : CallDaemon(k) \/ ReadStatus(k) \/ SignalDaemon(k) \/ RemovePidFile(k)
  \/ ResumeCoordination \/ EmitEvent
  \/ \E c \in Clients : Subscribe(c) \/ Serves(c) \/ Disconnect(c)

(* Timers fire, and reads come back, while the process lives. *)
DaemonFairness ==
  /\ \A p \in Daemons : WF_daemonVars(Watches(p))
  /\ \A c \in Clients : WF_daemonVars(Serves(c))
DaemonSpec == DaemonInit /\ [][DaemonNext]_daemonVars /\ DaemonFairness

-----------------------------------------------------------------------------
(* Properties. *)

(* One daemon per project, even on different ports, as the test of startDaemon *)
(* has it.                                                                     *)
OneDaemon == \A p, q \in Daemons : p # q => ~(Listens(p) /\ Listens(q))

(* All daemons that serve accept the same token, the one on file. *)
TokenAgrees == \A p \in Daemons : Listens(p) => daemon[p].token = token

(* A client that has its backlog has every event for it from where it asked up *)
(* to where the broadcasts are, whichever of the two came first (handleRequest *)
(* and broadcastToClients).                                                    *)
NoGap == \A c \in Clients :
  client[c].pc = "open" =>
    For(c, (client[c].since + 1)..daemon[client[c].at].cursor) \subseteq client[c].got

(* Every daemon that serves accepts the token on file, and a client that has its *)
(* backlog misses nothing that came before (ensureDaemonToken, handleRequest).   *)
DaemonSound == DaemonTypeOK /\ TokenAgrees /\ NoGap

(* An event that is in the log when a watch is notified reaches every client *)
(* that is connected then and stays: also the events that were appended      *)
(* before the watch was registered, and also while the kill switch is on,    *)
(* which the watcher does not look at.                                       *)
Awaits(c, n, p) ==
  client[c].at = p /\ n > client[c].since /\ n \in For(c, DOMAIN log) /\ n \notin client[c].got
EveryEventArrives == \A c \in Clients, n \in Numbers, p \in Daemons :
  (daemon[p].due /\ Awaits(c, n, p)) ~> ~Awaits(c, n, p)

(* What activateKillSwitch says of itself: "Watcher stops broadcasting" while *)
(* the kill switch is active (crash-recovery.ts:137-141).                     *)
QuietWhileKilled ==
  [][\A p \in Daemons : halted /\ BroadcastToClients(p) => UNCHANGED client]_daemonVars
=============================================================================
