----------------------------- MODULE Credentials -----------------------------
(***************************************************************************)
(* Secrets in the operating system's store (src/core/agents/               *)
(* credentials.ts, and the credentials commands).  Every operation runs    *)
(* one child process, whose output and time are bounded; the store itself  *)
(* is external, and shared by all commands.  A secret is a text with the   *)
(* newlines it ends in; a name is the sequence of its parts between ":".   *)
(***************************************************************************)
EXTENDS Naturals, Sequences, FiniteSets

CONSTANTS
  References,   \* [service, account], both names
  Secrets,      \* what is piped into `credentials set`: [text, size, newlines]
  SecretLimit,  \* DEFAULT_MAX_OUTPUT_BYTES, in what size counts
  WindowsLimit, \* WINDOWS_MAX_SECRET_BYTES, in the same
  Askers, MaxAsks, MaxTroubles \* commands; bounds on calls, by system, and on what goes wrong

ASSUME CredentialAssumption ==
  /\ SecretLimit \in Nat /\ WindowsLimit \in Nat
  /\ References \subseteq [service : {r.service : r \in References}, account : {r.account : r \in References}]
  /\ Secrets \subseteq [text : {s.text : s \in Secrets}, size : Nat, newlines : Nat]

VARIABLES
  backend, \* the operating system
  vault,   \* the store: [target, secret, by], by being the reference it was set under
  ask,     \* what each command waits for: [pc, op, ref, given, failure, past]
  child,   \* its child process: [pc, code, out]
  told,    \* what the last call of each command ended with: {} or {[op, ref, ok, out, given, past, refused]}
  asks, troubles

credentialVars == <<backend, vault, ask, child, told, asks, troubles>>

NoAsk == [pc |-> "idle"]
NoChild == [pc |-> "none"]
CredentialInit ==
  /\ backend \in {"darwin", "linux", "win32"} /\ vault = {}
  /\ ask = [c \in Askers |-> NoAsk] /\ child = [c \in Askers |-> NoChild] /\ told = [c \in Askers |-> {}]
  /\ asks = 0 /\ troubles = 0

Trouble == troubles < MaxTroubles /\ troubles' = troubles + 1

(* One string on Windows; service and account elsewhere. *)
Target(ref) == IF backend = "win32" THEN ref.service \o ref.account ELSE <<ref.service, ref.account>>
Entry(ref) == {e \in vault : e.target = Target(ref)}
Size(secret) == secret.size + secret.newlines
WithoutNewline(secret) == IF secret.newlines > 0 THEN [secret EXCEPT !.newlines = @ - 1] ELSE secret
ValidSecret(secret) ==
  Size(secret) > 0 /\ Size(secret) <= (IF backend = "win32" THEN WindowsLimit ELSE SecretLimit)
NotFound == [darwin |-> 44, linux |-> 1, win32 |-> 3][backend]

-----------------------------------------------------------------------------
(* The calls. *)

Asks(c, op, ref, given) ==
  /\ ask[c].pc = "idle" /\ child[c].pc = "none" /\ asks < MaxAsks[backend] /\ asks' = asks + 1
  /\ ask' = [ask EXCEPT ![c] = [pc |-> "waits", op |-> op, ref |-> ref, given |-> given, failure |-> "none",
                                past |-> {Entry(ref)}, refused |-> FALSE]]
  /\ child' = [child EXCEPT ![c] = [pc |-> "works"]] /\ told' = [told EXCEPT ![c] = {}]
  /\ UNCHANGED <<backend, vault, troubles>>
GetCredential(c) == \E ref \in References : Asks(c, "get", ref, {})
DeleteCredential(c) == \E ref \in References : Asks(c, "delete", ref, {})
(* What is too long, or empty, is refused before there is a child. *)
SetCredential(c) ==
  \E ref \in References, input \in Secrets :
    /\ Size(input) <= SecretLimit /\ ValidSecret(WithoutNewline(input))
    /\ Asks(c, "set", ref, {WithoutNewline(input)})

-----------------------------------------------------------------------------
(* The child process, and the store behind it. *)

Witnessed(entry, target) ==
  ask' = [c \in Askers |-> IF ask[c].pc = "waits" /\ Target(ask[c].ref) = target
                           THEN [ask[c] EXCEPT !.past = @ \cup {entry}] ELSE ask[c]]
Exits(c, code, out) == child' = [child EXCEPT ![c] = [pc |-> "closing", code |-> code, out |-> out]]

(* It may still do so when it has been told to stop. *)
ChildStores(c) ==
  /\ child[c].pc = "works" /\ ask[c].op = "set"
  /\ \E secret \in ask[c].given :
       LET new == [target |-> Target(ask[c].ref), secret |-> secret, by |-> ask[c].ref] IN
       vault' = (vault \ Entry(ask[c].ref)) \cup {new} /\ Witnessed({new}, new.target)
  /\ Exits(c, 0, {}) /\ UNCHANGED <<backend, told, asks, troubles>>
ChildDeletes(c) ==
  /\ child[c].pc = "works" /\ ask[c].op = "delete"
  /\ vault' = vault \ Entry(ask[c].ref) /\ Witnessed({}, Target(ask[c].ref))
  /\ Exits(c, IF Entry(ask[c].ref) = {} THEN NotFound ELSE 0, {})
  /\ UNCHANGED <<backend, told, asks, troubles>>
(* collect: what is too long is not kept, and the child is told to stop. *)
ChildPrints(c) ==
  /\ child[c].pc = "works" /\ ask[c].op = "get" /\ UNCHANGED <<backend, vault, told, asks, troubles>>
  /\ IF Entry(ask[c].ref) = {}
     THEN Exits(c, NotFound, {}) /\ UNCHANGED ask
     ELSE \E e \in Entry(ask[c].ref) :
            LET printed == IF backend = "darwin" THEN [e.secret EXCEPT !.newlines = @ + 1] ELSE e.secret IN
            IF Size(printed) > SecretLimit
            THEN /\ Exits(c, 0, {})
                 /\ ask' = [ask EXCEPT ![c].failure = IF @ = "none" THEN "output" ELSE @]
            ELSE Exits(c, 0, {[e EXCEPT !.secret = printed]}) /\ UNCHANGED ask
(* A store that is locked: secret-tool has one code for whatever went wrong. *)
ChildRefuses(c) ==
  /\ child[c].pc = "works" /\ Trouble /\ Exits(c, 1, {}) /\ ask' = [ask EXCEPT ![c].refused = TRUE]
  /\ UNCHANGED <<backend, vault, told, asks>>
ChildIsKilled(c) ==
  /\ child[c].pc = "works" /\ ask[c].failure # "none" /\ Exits(c, 1, {})
  /\ UNCHANGED <<backend, vault, ask, told, asks, troubles>>

-----------------------------------------------------------------------------
(* defaultCredentialCommandRunner: the call waits for its child to close. *)

TimesOutAsk(c) ==
  /\ ask[c].pc = "waits" /\ Trouble /\ ask' = [ask EXCEPT ![c].failure = "timeout"]
  /\ UNCHANGED <<backend, vault, child, told, asks>>
CannotSpawn(c) ==
  /\ ask[c].pc = "waits" /\ child[c].pc = "works" /\ ask[c].failure = "none" /\ Trouble
  /\ ask' = [ask EXCEPT ![c] = NoAsk] /\ child' = [child EXCEPT ![c] = NoChild]
  /\ UNCHANGED <<backend, vault, told, asks>>
(* get, set and delete, by the exit code; an empty secret is none. *)
ChildCloses(c) ==
  /\ ask[c].pc = "waits" /\ child[c].pc = "closing"
  /\ LET a == ask[c]
         code == child[c].code
         out == {[e EXCEPT !.secret = WithoutNewline(e.secret)] : e \in child[c].out}
         missing == a.op # "set" /\ code = NotFound
     IN told' = [told EXCEPT ![c] =
          IF a.failure # "none" \/ (code # 0 /\ ~missing) THEN {}
          ELSE {[op |-> a.op, ref |-> a.ref, given |-> a.given, past |-> a.past, refused |-> a.refused,
                 found |-> ~missing /\ \A e \in out : Size(e.secret) > 0, out |-> out]}]
  /\ ask' = [ask EXCEPT ![c] = NoAsk] /\ child' = [child EXCEPT ![c] = NoChild]
  /\ UNCHANGED <<backend, vault, asks, troubles>>

CredentialNext ==
  \E c \in Askers :
    \/ GetCredential(c) \/ SetCredential(c) \/ DeleteCredential(c)
    \/ ChildStores(c) \/ ChildDeletes(c) \/ ChildPrints(c) \/ ChildRefuses(c) \/ ChildIsKilled(c)
    \/ TimesOutAsk(c) \/ CannotSpawn(c) \/ ChildCloses(c)
CredentialSpec == CredentialInit /\ [][CredentialNext]_credentialVars

-----------------------------------------------------------------------------
(* Properties. *)

Truthful(t) ==
  LET newline == \E entry \in t.past : \E e \in entry : Size(WithoutNewline(e.secret)) = 0
      absent == {} \in t.past \/ (backend = "linux" /\ t.refused) IN
  /\ t.op = "get" /\ t.found =>
       \A o \in t.out :
         /\ \E entry \in t.past : \E e \in entry : e.by = o.by /\ e.secret.text = o.secret.text
         /\ o.by = t.ref \/ (backend = "win32" /\ \E ref \in References \ {t.ref} : Target(ref) = Target(t.ref))
  /\ t.op = "get" /\ ~t.found => absent \/ newline
  /\ t.op = "set" => \E entry \in t.past : \E e \in entry : e.secret \in t.given
  /\ t.op = "delete" => absent
AllOver == \A c \in Askers : ask[c].pc = "idle" => child[c].pc = "none"

(* What a call says was so while it ran, whatever other commands did: the      *)
(* secret it found had been set for that very reference (but for the newline   *)
(* it ended in, and for names that Windows runs together), what it stored was  *)
(* there, and what it did not find or has deleted was absent, unless it was a  *)
(* mere newline or Linux reported a locked store.  A call that has ended does  *)
(* nothing any more.                                                           *)
CredentialsAgree == (\A c \in Askers : \A t \in told[c] : Truthful(t)) /\ AllOver
=============================================================================
