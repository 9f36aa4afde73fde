---------------------------- MODULE CoordWriters ----------------------------
(***************************************************************************)
(* The inside of the critical sections that CoordLog takes as one step:    *)
(* the file-system steps of appendLocked and compact, under the lock and   *)
(* the kill switch, with writers that die or run into a full disk halfway. *)
(*                                                                         *)
(* The file is the sequence of its lines: events, and lines no reader can  *)
(* parse.  An append that is cut off leaves a line without its newline,    *)
(* and whatever is appended next ends up on that same line.                *)
(*                                                                         *)
(* The lock is the one of CoordLock as its callers see it: one holder, and *)
(* free again once its holder has returned, failed or died.                *)
(***************************************************************************)
EXTENDS Integers, FiniteSets, Sequences, SequencesExt

CONSTANTS
  Agents,      \* the agents, each calling from one process at a time
  Loadout,     \* the author of compaction summaries
  Paths,       \* the paths an agent may claim
  NoOwner,     \* the owner of a path nobody owns
  NoAgent,     \* nobody holds the lock
  Corrupt,     \* a line that is not an event
  Tears,       \* where an append may be cut off: in the event, before its newline
  MaxSeq,      \* bound: the highest sequence number a behaviour hands out
  MaxFailures  \* bound: writers that die and writes that fail

ASSUME WritersConstantsOK ==
  /\ Loadout \notin Agents /\ NoAgent \notin Agents
  /\ {"task", "compact"} \cap Paths = {}
  /\ Tears \subseteq {"part", "line"}
  /\ MaxSeq \in Nat /\ MaxFailures \in Nat

VARIABLES
  file,      \* the lines of coordination.jsonl
  cut,       \* whether its last line lacks a newline
  tmp,       \* the lines of coordination.jsonl.tmp
  archived,  \* the events of all archives
  kill,      \* whether the file KILL_SWITCH exists
  lock,      \* the holder of the coordination lock
  pc,        \* what every agent's process does next
  call,      \* the operation every agent has called
  seen,      \* the events every agent's call has read from the log
  failures,  \* how many calls have died or failed so far
  accepted,  \* history: the events whose callers were told they are recorded
  logged,    \* history: every event that a reader could have read
  halted     \* history: the agents whose call began after the kill switch came on

fileVars == <<file, cut, tmp, archived, logged>>
vars == <<fileVars, kill, lock, pc, call, seen, failures, accepted, halted>>

\* readCoordLog: the events among the lines, corrupt lines skipped.
EventsOf(lines) == ToSet(lines) \ {Corrupt}

HighSeqOf(S) == CHOOSE n \in {e.seq : e \in S} \cup {-1} : \A e \in S : e.seq <= n

\* The log as one sequence of atomic operations; readers derive its state.
Log == INSTANCE CoordLog WITH
         Inside <- {}, PathLists <- {{p} : p \in Paths}, ClaimModes <- {"exclusive"},
         Names <- {}, Titles <- {}, AckSeqs <- {}, MaxRevision <- 0,
         log <- EventsOf(file), lastSeq <- HighSeqOf(EventsOf(file))

ASSUME CorruptIsNoEvent == Corrupt \notin Log!Event

\* A call emits a task, compacts the log, or claims the path it is.
Calls == {"task", "compact"} \cup Paths

Steps == {"idle", "wait", "check", "read", "append", "chmod", "archive", "tmp", "rename"}

TypeOK ==
  /\ file \in Seq(Log!Event \cup {Corrupt}) /\ tmp \in Seq(Log!Event)
  /\ cut \in BOOLEAN /\ kill \in BOOLEAN
  /\ archived \subseteq Log!Event /\ accepted \subseteq Log!Event /\ logged \subseteq Log!Event
  /\ lock \in Agents \cup {NoAgent}
  /\ pc \in [Agents -> Steps] /\ call \in [Agents -> Calls]
  /\ seen \in [Agents -> SUBSET Log!Event]
  /\ failures \in 0..MaxFailures
  /\ halted \subseteq Agents
  /\ \A a \in Agents : pc[a] \notin {"idle", "wait"} <=> lock = a

Init ==
  /\ file = <<>> /\ cut = FALSE /\ tmp = <<>> /\ archived = {}
  /\ kill = FALSE
  /\ lock = NoAgent
  /\ pc = [a \in Agents |-> "idle"]
  /\ call = [a \in Agents |-> "task"]
  /\ seen = [a \in Agents |-> {}]
  /\ failures = 0
  /\ accepted = {} /\ logged = {} /\ halted = {}

-----------------------------------------------------------------------------
(* The lock and the kill switch *)

\* A call of emit, claimOwnership or compact.
Call(a) ==
  /\ pc[a] = "idle"
  /\ \E c \in Calls : call' = [call EXCEPT ![a] = c]
  /\ pc' = [pc EXCEPT ![a] = "wait"]
  /\ halted' = IF kill THEN halted \cup {a} ELSE halted \ {a}
  /\ UNCHANGED <<fileVars, kill, lock, seen, failures, accepted>>

\* Fault: the lock is taken for free whoever holds it.
AcquireAnyway(a) ==
  /\ pc[a] = "wait"
  /\ lock' = a
  /\ pc' = [pc EXCEPT ![a] = IF call[a] \in Paths THEN "read" ELSE "check"]
  /\ UNCHANGED <<fileVars, kill, call, seen, failures, accepted, halted>>

\* withCoordinationLock.  A claim reads the log before appendLocked checks the
\* kill switch; emit and compact check it first.
Acquire(a) ==
  /\ pc[a] = "wait" /\ lock = NoAgent
  /\ lock' = a
  /\ pc' = [pc EXCEPT ![a] = IF call[a] \in Paths THEN "read" ELSE "check"]
  /\ UNCHANGED <<fileVars, kill, call, seen, failures, accepted, halted>>

\* The operation ends, well or badly, and gives up the lock.
Leave(a) ==
  /\ lock' = NoAgent
  /\ pc' = [pc EXCEPT ![a] = "idle"]
  /\ seen' = [seen EXCEPT ![a] = {}]
  /\ call' = [call EXCEPT ![a] = "task"]

Proceed(a, to) ==
  /\ pc' = [pc EXCEPT ![a] = to]
  /\ UNCHANGED <<lock, call>>

\* Fault: compaction does not look at the kill switch.
CheckEmitOnly(a) ==
  /\ pc[a] = "check"
  /\ \/ kill /\ call[a] # "compact" /\ Leave(a)
     \/ /\ ~(kill /\ call[a] # "compact")
        /\ Proceed(a, IF call[a] \in Paths THEN "append" ELSE "read")
        /\ UNCHANGED seen
  /\ UNCHANGED <<fileVars, kill, failures, accepted, halted>>

\* assertCoordinationEnabled: nothing is written while the switch is on.
Check(a) ==
  /\ pc[a] = "check"
  /\ \/ kill /\ Leave(a)
     \/ /\ ~kill
        /\ Proceed(a, IF call[a] \in Paths THEN "append" ELSE "read")
        /\ UNCHANGED seen
  /\ UNCHANGED <<fileVars, kill, failures, accepted, halted>>

\* A user turns the kill switch on, or off again.
ActivateKillSwitch ==
  /\ ~kill /\ kill' = TRUE
  /\ UNCHANGED <<fileVars, lock, pc, call, seen, failures, accepted, halted>>

DeactivateKillSwitch ==
  /\ kill /\ kill' = FALSE
  /\ halted' = {}
  /\ UNCHANGED <<fileVars, lock, pc, call, seen, failures, accepted>>

\* A write fails, or the process dies; its lock is recovered.
Interrupt(a) ==
  /\ lock = a
  /\ failures < MaxFailures /\ failures' = failures + 1
  /\ Leave(a)
  /\ UNCHANGED <<fileVars, kill, accepted, halted>>

-----------------------------------------------------------------------------
(* Reading and appending *)

\* The events of S that a compaction of what precedes "keepFrom" keeps.
KeptOf(S, keepFrom) ==
  {e \in S : \/ e.seq >= keepFrom
             \/ /\ Log!SameStateKey(e, e)
                /\ ~\E f \in S : Log!SameStateKey(e, f) /\ f.seq > e.seq}

\* A compaction of S has something to remove; maxEvents and maxAgeDays decide
\* where it starts to keep events, so that it always may have nothing to do.
CutPoints(S) == {k \in {e.seq + 1 : e \in S} : KeptOf(S, k) # S}

Read(a) ==
  /\ pc[a] = "read"
  /\ LET events == EventsOf(file)
         owned  == {p \in Paths : \E o \in {Log!OwnerOf(events, p)} :
                                    o # NoOwner /\ o.agent # a}
     IN  \/ call[a] = "compact" /\ Leave(a)
         \/ /\ call[a] = "compact" /\ CutPoints(events) # {}
            /\ Proceed(a, "archive") /\ seen' = [seen EXCEPT ![a] = events]
         \/ /\ call[a] = "task"
            /\ Proceed(a, "append") /\ seen' = [seen EXCEPT ![a] = events]
         \/ call[a] \in owned /\ Leave(a)
         \/ /\ call[a] \in Paths \ owned
            /\ Proceed(a, "check") /\ seen' = [seen EXCEPT ![a] = events]
  /\ UNCHANGED <<fileVars, kill, failures, accepted, halted>>

\* The event a's call appends.
EventOf(a) ==
  LET n == HighSeqOf(seen[a]) + 1
  IN  IF call[a] \in Paths
        THEN [type |-> "ownership", seq |-> n, from |-> a,
              paths |-> {call[a]}, mode |-> "exclusive"]
        ELSE [type |-> "task", seq |-> n, from |-> a]

\* The file once a line, or the part of one, has been written at its end: it
\* spoils a last line that lacks its newline.
Extend(line) ==
  IF cut THEN Append(Front(file), Corrupt) ELSE Append(file, line)

\* The line is written whole.
AppendLine(a) ==
  /\ pc[a] = "append" /\ EventOf(a).seq <= MaxSeq
  /\ file' = Extend(EventOf(a))
  /\ cut' = FALSE
  /\ logged' = logged \cup EventsOf(file')
  /\ Proceed(a, "chmod")
  /\ UNCHANGED <<tmp, archived, kill, seen, failures, accepted, halted>>

\* The disk is full, or the process dies, with the line half written.
TearLine(a) ==
  /\ pc[a] = "append" /\ EventOf(a).seq <= MaxSeq
  /\ failures < MaxFailures /\ failures' = failures + 1
  /\ \E tear \in Tears :
       file' = Extend(IF tear = "part" THEN Corrupt ELSE EventOf(a))
  /\ cut' = TRUE
  /\ logged' = logged \cup EventsOf(file')
  /\ Leave(a)
  /\ UNCHANGED <<tmp, archived, kill, accepted, halted>>

\* The file's mode is set, and the caller is given the event.
Chmod(a) ==
  /\ pc[a] = "chmod"
  /\ accepted' = accepted \cup {EventOf(a)}
  /\ Leave(a)
  /\ UNCHANGED <<fileVars, kill, failures, halted>>

-----------------------------------------------------------------------------
(* Compaction *)

\* "Archival is the durability boundary: never rewrite if it fails."
Archive(a) ==
  /\ pc[a] = "archive"
  /\ archived' = archived \cup EventsOf(file)
  /\ Proceed(a, "tmp")
  /\ UNCHANGED <<file, cut, tmp, logged, kill, seen, failures, accepted, halted>>

\* The events of S, whose numbers differ, in the order of their numbers.
InOrder(S) ==
  CHOOSE s \in [1..Cardinality(S) -> S] : \A i, j \in DOMAIN s : i < j => s[i].seq < s[j].seq

\* The event that stands for the events R that compaction removes.
SummaryOf(R) == [type |-> "status", seq |-> HighSeqOf(R), from |-> Loadout]

\* Fault: the summary is written at the end, after the events that were kept.
WriteTmpSummaryLast(a) ==
  /\ pc[a] = "tmp"
  /\ \E k \in CutPoints(seen[a]) :
       LET kept == KeptOf(seen[a], k)
       IN  tmp' = Append(InOrder(kept), SummaryOf(seen[a] \ kept))
  /\ Proceed(a, "rename")
  /\ UNCHANGED <<file, cut, archived, logged, kill, seen, failures, accepted, halted>>

\* What is kept, and a summary in the place of the last event removed.
WriteTmp(a) ==
  /\ pc[a] = "tmp"
  /\ \E k \in CutPoints(seen[a]) :
       LET kept == KeptOf(seen[a], k)
       IN  tmp' = InOrder(kept \cup {SummaryOf(seen[a] \ kept)})
  /\ Proceed(a, "rename")
  /\ UNCHANGED <<file, cut, archived, logged, kill, seen, failures, accepted, halted>>

RenameTmp(a) ==
  /\ pc[a] = "rename"
  /\ file' = tmp /\ tmp' = <<>> /\ cut' = FALSE
  /\ logged' = logged \cup EventsOf(tmp)
  /\ Leave(a)
  /\ UNCHANGED <<archived, kill, failures, accepted, halted>>

Next ==
  \/ \E a \in Agents :
       \/ Call(a) \/ Acquire(a) \/ Check(a) \/ Read(a) \/ AppendLine(a) \/ TearLine(a)
       \/ Chmod(a) \/ Archive(a) \/ WriteTmp(a) \/ RenameTmp(a) \/ Interrupt(a)
  \/ ActivateKillSwitch \/ DeactivateKillSwitch

Spec == Init /\ [][Next]_vars

-----------------------------------------------------------------------------
(* Properties *)

\* The lines of the file are in the order of their sequence numbers, without
\* a number used twice, whatever writers and compactions were interrupted.
LogOrdered ==
  \A i, j \in DOMAIN file :
    (i < j /\ file[i] # Corrupt /\ file[j] # Corrupt) => file[i].seq < file[j].seq

\* "The JSONL audit log is never deleted": an event that a reader could once
\* read is still in the log, or in an archive.
NothingReadIsLost == logged \subseteq EventsOf(file) \cup archived

\* The log stays in order, whatever dies: its readable lines have rising numbers,
\* and what compaction takes out of it is in the archive (readCoordLog, compact).
WritersSound == TypeOK /\ LogOrdered /\ NothingReadIsLost

\* A call made after the kill switch was turned on changes nothing in the log.
HaltedCallsWriteNothing == [][file' # file => lock \notin halted]_vars

\* The steps of the writers implement the atomic operations of CoordLog: no
\* claim, number or compaction acts on a log that has changed since it was read.
ImplementsLog == Log!Spec

\* "Corrupt JSONL lines are reported rather than hiding valid neighboring
\* events": an event its caller was told is recorded can be read.
AcceptedIsLogged == accepted \subseteq EventsOf(file) \cup archived

=============================================================================
