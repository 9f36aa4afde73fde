----------------------------- MODULE Handshake ------------------------------
(***************************************************************************)
(* The check of an MCP recipe by a real handshake (verifyMcpRecipeConnection*)
(* in src/core/runtime/mcp-recipes.ts): credentials are resolved, the      *)
(* reviewed server is started, and the first of an answer, an error, its   *)
(* exit, too much output, the user's abort and the timeout decides.        *)
(* Output arrives in chunks of several lines; a line is looked at only     *)
(* when it is complete.                                                    *)
(***************************************************************************)
EXTENDS Naturals, Sequences

CONSTANTS
  Lines,      \* kinds of lines: "answer", "refusal", "notice", "garbage"
  MaxLines,   \* bound: lines the server writes
  OutputLimit \* lines after which the output is too much

VARIABLES
  phase,    \* where the call is
  verdict,  \* how its promise is settled
  server,   \* the child process
  written,  \* what the server has written, line by line
  unread,   \* the part of it that the call has not received
  buffer,   \* complete lines the call has received and not looked at
  received, \* how much it has received, from stdout and stderr
  aborted   \* the abort signal

shakeVars == <<phase, verdict, server, written, unread, buffer, received, aborted>>

ShakeTypeOK ==
  /\ phase \in {"idle", "resolving", "starting", "listening", "over"}
  /\ verdict \in {"none", "connected", "failed"}
  /\ server \in {"none", "running", "told", "gone"}
  /\ written \in Nat /\ unread \in Seq(Lines) /\ buffer \in Seq(Lines) /\ received \in Nat /\ aborted \in BOOLEAN

ShakeInit ==
  /\ phase = "idle" /\ verdict = "none" /\ server = "none" /\ written = 0 /\ unread = <<>>
  /\ buffer = <<>> /\ received = 0 /\ aborted = FALSE

-----------------------------------------------------------------------------
(* The approval, the abort signal, the artifact and the bounds come first. *)
OutsideServer == UNCHANGED <<server, written, unread, buffer, received>>
BeginShake ==
  /\ phase = "idle" /\ OutsideServer /\ UNCHANGED aborted
  /\ \/ phase' = "resolving" /\ UNCHANGED verdict
     \/ phase' = "over" /\ verdict' = "failed"

ResolveCredentials ==
  /\ phase = "resolving" /\ OutsideServer /\ UNCHANGED aborted
  /\ \/ ~aborted /\ phase' = "starting" /\ UNCHANGED verdict
     \/ phase' = "over" /\ verdict' = "failed"

(* The child, its listeners, the timer and the request, in one go. *)
StartServer ==
  /\ phase = "starting" /\ UNCHANGED <<written, unread, buffer, received, aborted>>
  /\ \/ phase' = "listening" /\ server' = "running" /\ UNCHANGED verdict
     \/ phase' = "over" /\ verdict' = "failed" /\ UNCHANGED server

(* Mutant: the server is left alone. *)
SettleOnly(v) ==
  /\ phase' = "over" /\ verdict' = v /\ UNCHANGED server
(* rejectSafely and finish: once, and with the server told to stop. *)
Settle(v) ==
  /\ phase' = "over" /\ verdict' = v
  /\ server' = IF server = "gone" THEN "gone" ELSE "told"

Listening == phase = "listening"
GivesUp == Settle("failed") /\ UNCHANGED <<written, unread, buffer, received, aborted>>

(* What arrives at once: some lines of stdout, or as much of stderr. *)
ReceiveOutput ==
  /\ Listening /\ buffer = <<>> /\ unread # <<>>
  /\ \E n \in 1..Len(unread) :
       /\ unread' = SubSeq(unread, n + 1, Len(unread)) /\ received' = received + n
       /\ IF received + n > OutputLimit THEN Settle("failed") /\ UNCHANGED buffer
          ELSE buffer' = SubSeq(unread, 1, n) /\ UNCHANGED <<phase, verdict, server>>
  /\ UNCHANGED <<written, aborted>>

(* The loop over the lines of a chunk stops at the first that decides. *)
ReadLine ==
  /\ Listening /\ buffer # <<>> /\ UNCHANGED <<written, unread, received, aborted>>
  /\ buffer' = Tail(buffer)
  /\ CASE Head(buffer) = "answer" -> Settle("connected")
       [] Head(buffer) \in {"refusal", "garbage"} -> Settle("failed")
       [] OTHER -> UNCHANGED <<phase, verdict, server>>

(* Between chunks. *)
TimesOut == Listening /\ buffer = <<>> /\ GivesUp
ServerCloses == Listening /\ buffer = <<>> /\ server = "gone" /\ GivesUp
RequestFails == Listening /\ buffer = <<>> /\ GivesUp
Abort ==
  /\ ~aborted /\ phase # "over" /\ buffer = <<>> /\ aborted' = TRUE
  /\ IF Listening THEN Settle("failed") ELSE UNCHANGED <<phase, verdict, server>>
  /\ UNCHANGED <<written, unread, buffer, received>>

(* The server. *)
ServerWrites ==
  /\ server = "running" /\ written < MaxLines /\ written' = written + 1
  /\ \E line \in Lines : unread' = Append(unread, line)
  /\ UNCHANGED <<phase, verdict, server, buffer, received, aborted>>
ServerExits ==
  /\ server \in {"running", "told"} /\ server' = "gone"
  /\ UNCHANGED <<phase, verdict, written, unread, buffer, received, aborted>>

ShakeNext ==
  \/ BeginShake \/ ResolveCredentials \/ StartServer \/ ReceiveOutput \/ ReadLine \/ TimesOut
  \/ ServerCloses \/ RequestFails \/ Abort \/ ServerWrites \/ ServerExits

(* The process goes on; the timer goes off.  Nothing ends the wait for a *)
(* credential: its child is killed after a time, and waited for until it *)
(* closes its output, whatever the signal and the timer say.             *)
ShakeFairness == WF_shakeVars(StartServer \/ ReadLine \/ TimesOut)
ShakeSpec == ShakeInit /\ [][ShakeNext]_shakeVars /\ ShakeFairness

-----------------------------------------------------------------------------
(* Properties. *)

(* Every verification comes to a verdict, whatever the server writes or does   *)
(* not write and whenever the user aborts, and no server is left running that  *)
(* nobody has told to stop; unless it waits for a credential for ever          *)
(* (verifyMcpRecipeConnection, defaultCredentialCommandRunner).                *)
VerificationEnds ==
  [](phase = "resolving" => <>(verdict # "none" /\ server # "running") \/ [](phase = "resolving"))
=============================================================================
