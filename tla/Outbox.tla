------------------------------- MODULE Outbox --------------------------------
(***************************************************************************)
(* `loadout handoff <agent> <task>` (src/commands/catalog-workflows.ts):   *)
(* the template it may start from, the pickup block it puts into the       *)
(* context files of both agents, the bundle of source files it attaches,   *)
(* and the task it appends (src/core/delegation).  DesignRoom has the log  *)
(* of tasks and what becomes of them; here an append works or fails.       *)
(***************************************************************************)
EXTENDS Integers, Sequences, FiniteSets, SequencesExt

CONSTANTS
  Senders,      \* processes
  Receivers,    \* the agents whose context file is known
  Pages,        \* what a context file may hold first: sequences of its parts
  Texts,        \* what a source file may hold: [bytes, wide, secret]
  Sources,      \* source files
  Requests,     \* the lists of files a user attaches
  TemplateFiles,\* the list of files that the custom template attaches
  MaxFileBytes, MaxTotalBytes, \* limits of the bundle
  Growth,       \* by how much redaction makes a text longer
  MaxSends, MaxAccidents, MaxOtherEdits \* bounds

ASSUME OutboxAssumption ==
  /\ MaxFileBytes \in Nat /\ MaxTotalBytes \in Nat /\ Growth \in Nat
  /\ \A p \in Pages : p \in Seq(ToSet(p))
  /\ Texts \subseteq [bytes : Nat, wide : BOOLEAN, secret : BOOLEAN]
  /\ Requests \subseteq Seq(Sources) /\ TemplateFiles \in Seq(Sources)

VARIABLES
  page,      \* the context files: a sequence of parts
  text,      \* the source files
  template,  \* the custom template: "none", "torn" or "whole"
  bundles,   \* the stored bundles
  tasks,     \* the tasks of the log that carry a bundle
  sender,    \* the commands under way
  orphans,   \* history: the commands that died
  sends, accidents, otherEdits

outboxVars == <<page, text, template, bundles, tasks, sender, orphans, sends, accidents, otherEdits>>
outboxBounds == <<sends, accidents, otherEdits>>

AtDesk == [pc |-> "out"]
OutboxInit ==
  /\ page \in [Receivers -> Pages] /\ text \in [Sources -> Texts] /\ template \in {"none", "whole"}
  /\ bundles = {} /\ tasks = {} /\ sender = [s \in Senders |-> AtDesk] /\ orphans = {}
  /\ sends = 0 /\ accidents = 0 /\ otherEdits = 0

Moves(s, to) == sender' = [sender EXCEPT ![s] = to]

-----------------------------------------------------------------------------
(* Others: users edit files and templates. *)

ByUser == otherEdits < MaxOtherEdits /\ otherEdits' = otherEdits + 1
EditPage(r) ==
  /\ ByUser
  /\ \/ page' = [page EXCEPT ![r] = Append(@, "more")]
     \/ \E i \in DOMAIN page[r] : page' = [page EXCEPT ![r] = RemoveAt(@, i)]
  /\ UNCHANGED <<text, template, bundles, tasks, sender, orphans, sends, accidents>>
EditText(f) ==
  /\ ByUser /\ \E new \in Texts \ {text[f]} : text' = [text EXCEPT ![f] = new]
  /\ UNCHANGED <<page, template, bundles, tasks, sender, orphans, sends, accidents>>
(* saveTemplate writes in place. *)
BeginTemplate ==
  /\ ByUser /\ template' = "torn"
  /\ UNCHANGED <<page, text, bundles, tasks, sender, orphans, sends, accidents>>
EndTemplate ==
  /\ template = "torn" /\ template' = "whole"
  /\ UNCHANGED <<page, text, bundles, tasks, sender, orphans, outboxBounds>>
DeleteTemplate ==
  /\ template # "none" /\ ByUser /\ template' = "none"
  /\ UNCHANGED <<page, text, bundles, tasks, sender, orphans, sends, accidents>>

-----------------------------------------------------------------------------
(* The command.  A template that cannot be read is taken for the built-in one, *)
(* which attaches nothing.                                                     *)

LoadTemplate == IF template = "whole" THEN TemplateFiles ELSE <<>>
(* new Set([...]) *)
OnlyOnce(files) == FoldLeft(LAMBDA seen, f : IF Contains(seen, f) THEN seen ELSE Append(seen, f), <<>>, files)
BeginSend(s) ==
  /\ sender[s].pc = "out" /\ sends < MaxSends /\ sends' = sends + 1
  /\ \E files \in Requests, from \in Receivers, to \in Receivers, templated \in BOOLEAN :
       Moves(s, [pc |-> "tell", id |-> sends, tell |-> <<from, to>>, plan |-> <<>>, read |-> <<>>,
                files |-> IF templated /\ LoadTemplate # <<>> THEN OnlyOnce(files \o LoadTemplate) ELSE files,
                kept |-> <<>>])
  /\ UNCHANGED <<page, text, template, bundles, tasks, orphans, accidents, otherEdits>>

(* planPickup: the first start and the first end marker enclose the block. *)
First(parts, part) == IF Contains(parts, part) THEN SelectInSeq(parts, LAMBDA e : e = part) ELSE 0
Block == <<"start", "current", "end">>
Replacing(parts) == First(parts, "start") > 0 /\ First(parts, "end") > First(parts, "start")
Tells(parts) == ~Replacing(parts)
Planned(parts) ==
  IF Replacing(parts)
  THEN SubSeq(parts, 1, First(parts, "start") - 1) \o Block \o SubSeq(parts, First(parts, "end") + 1, Len(parts))
  ELSE parts \o Block
PlanPickup(s) ==
  /\ sender[s].pc = "tell" /\ sender[s].tell # <<>>
  /\ LET parts == page[Head(sender[s].tell)] IN
     IF Tells(parts)
     THEN Moves(s, [sender[s] EXCEPT !.pc = "apply", !.read = parts, !.plan = Planned(parts)])
     ELSE Moves(s, [sender[s] EXCEPT !.tell = Tail(@)])
  /\ UNCHANGED <<page, text, template, bundles, tasks, orphans, outboxBounds>>
ApplyPickup(s) ==
  /\ sender[s].pc = "apply" /\ page' = [page EXCEPT ![Head(sender[s].tell)] = sender[s].plan]
  /\ Moves(s, [sender[s] EXCEPT !.pc = "tell", !.tell = Tail(@), !.read = <<>>, !.plan = <<>>])
  /\ UNCHANGED <<text, template, bundles, tasks, orphans, outboxBounds>>

(* readBoundedTextFile: at most "room" bytes, cut between characters, redacted, *)
(* and cut again.                                                                *)
CutTo(t, n) == IF t.wide THEN n - (n % 2) ELSE n
Redacted(t, n) == IF t.secret /\ n > 0 THEN n + Growth ELSE n
SmallerOf(m, n) == IF m < n THEN m ELSE n
Capture(t, room) ==
  LET captured == SmallerOf(t.bytes, room)
      redacted == Redacted(t, CutTo(t, captured))
  IN [stored |-> IF redacted > room THEN CutTo(t, room) ELSE redacted, of |-> t,
      isTruncated |-> t.bytes > captured \/ CutTo(t, captured) < captured \/ redacted > room]
StoredBytes(kept) == FoldLeft(LAMBDA sum, k : sum + k.stored, 0, kept)
(* Mutant: every file may use the limit of one file. *)
RoomOfOne(kept) == MaxFileBytes
RoomLeftIn(kept) == SmallerOf(MaxFileBytes, MaxTotalBytes - StoredBytes(kept))

ReadFile(s) ==
  /\ sender[s].pc = "tell" /\ sender[s].tell = <<>> /\ sender[s].files # <<>>
  /\ Moves(s, [sender[s] EXCEPT !.files = Tail(@),
                !.kept = Append(@, Capture(text[Head(sender[s].files)], RoomLeftIn(sender[s].kept)))])
  /\ UNCHANGED <<page, text, template, bundles, tasks, orphans, outboxBounds>>
Reference(id, kept) ==
  [id |-> id, fileCount |-> Len(kept), storedBytes |-> StoredBytes(kept),
   isTruncated |-> \E i \in DOMAIN kept : kept[i].isTruncated]
StoreBundle(s) ==
  /\ sender[s].pc = "tell" /\ sender[s].tell = <<>> /\ sender[s].files = <<>> /\ sender[s].kept # <<>>
  /\ bundles' = bundles \cup {[id |-> sender[s].id, files |-> sender[s].kept]}
  /\ Moves(s, [sender[s] EXCEPT !.pc = "send"])
  /\ UNCHANGED <<page, text, template, tasks, orphans, outboxBounds>>
(* sendHandoff *)
SendHandoff(s) ==
  /\ sender[s].pc = "send"
  /\ tasks' = tasks \cup {Reference(sender[s].id, sender[s].kept)} /\ Moves(s, AtDesk)
  /\ UNCHANGED <<page, text, template, bundles, orphans, outboxBounds>>
SendPlainTask(s) ==
  /\ sender[s].pc = "tell" /\ sender[s].tell = <<>> /\ sender[s].files = <<>> /\ sender[s].kept = <<>>
  /\ Moves(s, AtDesk) /\ UNCHANGED <<page, text, template, bundles, tasks, orphans, outboxBounds>>

Accident == accidents < MaxAccidents /\ accidents' = accidents + 1
SendHandoffFails(s) ==
  /\ sender[s].pc = "send" /\ Accident /\ Moves(s, [sender[s] EXCEPT !.pc = "undo"])
  /\ UNCHANGED <<page, text, template, bundles, tasks, orphans, sends, otherEdits>>
RemoveBundle(s) ==
  /\ sender[s].pc = "undo" /\ bundles' = {b \in bundles : b.id # sender[s].id} /\ Moves(s, AtDesk)
  /\ UNCHANGED <<page, text, template, tasks, orphans, outboxBounds>>
SenderDies(s) ==
  /\ sender[s].pc # "out" /\ Accident /\ Moves(s, AtDesk) /\ orphans' = orphans \cup {sender[s].id}
  /\ UNCHANGED <<page, text, template, bundles, tasks, sends, otherEdits>>

OutboxNext ==
  \/ BeginTemplate \/ EndTemplate \/ DeleteTemplate
  \/ \E r \in Receivers : EditPage(r)
  \/ \E f \in Sources : EditText(f)
  \/ \E s \in Senders : \/ BeginSend(s) \/ PlanPickup(s) \/ ApplyPickup(s) \/ ReadFile(s) \/ StoreBundle(s)
                        \/ SendHandoff(s) \/ SendPlainTask(s) \/ SendHandoffFails(s) \/ RemoveBundle(s) \/ SenderDies(s)

OutboxSpec == OutboxInit /\ [][OutboxNext]_outboxVars

-----------------------------------------------------------------------------
(* Properties. *)

(* readHandoffBundle *)
ReadHandoffBundle(reference) ==
  \E b \in bundles :
    /\ b.id = reference.id /\ reference = Reference(b.id, b.files) /\ StoredBytes(b.files) <= MaxTotalBytes
    /\ \A i \in DOMAIN b.files : b.files[i].stored <= MaxFileBytes
AtWorkOn(id) == \E s \in Senders : sender[s].pc \in {"send", "undo"} /\ sender[s].id = id
OwnParts(parts) == {part \in ToSet(parts) : part \notin ToSet(Block)}

(* Every task that carries a bundle can be worked on with it: the bundle is there, *)
(* is what the task says, and misses nothing it does not own up to; a bundle that   *)
(* no task carries belongs to a sender that is about to send or withdraw it, or     *)
(* died; and the pickup block takes nothing of what its file said when it was read. *)
HandoffsAreWhole ==
  /\ \A t \in tasks : ReadHandoffBundle(t)
  /\ \A b \in bundles : b.id \in {t.id : t \in tasks} \cup orphans \/ AtWorkOn(b.id)
  /\ \A b \in bundles : \A i \in DOMAIN b.files :
       ~b.files[i].isTruncated => b.files[i].stored = Redacted(b.files[i].of, b.files[i].of.bytes)
  /\ \A s \in Senders : sender[s].pc = "apply" => OwnParts(sender[s].read) \subseteq OwnParts(sender[s].plan)
=============================================================================
