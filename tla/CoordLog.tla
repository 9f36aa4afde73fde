------------------------------ MODULE CoordLog ------------------------------
(***************************************************************************)
(* The coordination log, .handoff/coordination.jsonl, and every operation  *)
(* that mutates it (src/core/coordination/coordinator.ts and retention.ts).*)
(* One action is one critical section of withCoordinationLock; the steps   *)
(* inside a critical section are the subject of CoordWriters, and the lock *)
(* itself of CoordLock.                                                    *)
(*                                                                         *)
(* The log is the set of its valid events.  The order of the lines is the  *)
(* order of "seq": an append takes the highest seq plus one and compaction *)
(* sorts what it writes.  That no two events share a seq is not assumed:   *)
(* it is the invariant SeqUnique.                                          *)
(***************************************************************************)
EXTENDS Integers, FiniteSets

CONSTANTS
  Agents,      \* the coding agents working on the project
  Loadout,     \* the author of compaction summaries
  Paths,       \* project-relative paths an agent may own
  Inside,      \* pairs <<p, d>>: path p lies below directory d
  PathLists,   \* the sets of paths one request may name
  ClaimModes,  \* the modes a claim may ask for
  Names,       \* contract names
  Titles,      \* decision titles
  AckSeqs,     \* the sequence numbers an acknowledgement may name
  NoOwner,     \* the owner of a path nobody owns
  NoAgent,     \* the author of a decision nobody took
  MaxSeq,      \* bound: the highest sequence number a behaviour hands out
  MaxRevision  \* bound: the highest contract revision a caller may ask for

ASSUME ConstantsOK ==
  /\ Loadout \notin Agents
  /\ PathLists \subseteq SUBSET Paths
  /\ ClaimModes \subseteq {"exclusive", "shared"}
  /\ AckSeqs \subseteq Nat
  /\ NoOwner \notin [agent : Agents, mode : {"exclusive", "shared"}]
  /\ MaxSeq \in Nat
  /\ MaxRevision \in Nat

VARIABLES
  log,     \* the valid events of the working log
  lastSeq  \* history: the highest sequence number ever handed out, or -1

vars == <<log, lastSeq>>

-----------------------------------------------------------------------------
(* Events *)

Modes == {"exclusive", "shared", "release"}

OwnershipEvent ==
  [type : {"ownership"}, seq : Nat, from : Agents, paths : SUBSET Paths, mode : Modes]
ContractEvent ==
  [type : {"contract"}, seq : Nat, from : Agents, name : Names, revision : Nat \ {0}]
DecisionEvent == [type : {"decision"}, seq : Nat, from : Agents, title : Titles]
AckEvent == [type : {"ack"}, seq : Nat, from : Agents, eventSeq : Nat]
\* task, handoff, question, done, error, cancel, update and discussion events:
\* to this module they differ in nothing, "task" stands for all of them.
TaskEvent == [type : {"task"}, seq : Nat, from : Agents]
SummaryEvent == [type : {"status"}, seq : Nat, from : {Loadout}]

Event == OwnershipEvent \cup ContractEvent \cup DecisionEvent
           \cup AckEvent \cup TaskEvent \cup SummaryEvent

TypeOK ==
  /\ log \subseteq Event
  /\ lastSeq \in Nat \cup {-1}

-----------------------------------------------------------------------------
(* What a reader derives from the events S of a log *)

MaxOf(S) == CHOOSE m \in S : \A n \in S : n <= m

\* readCoordLog: "Highest sequence number seen, or -1 if empty."
HighSeq(S) == MaxOf({e.seq : e \in S} \cup {-1})

\* The latest of the events T.
Latest(T) == CHOOSE e \in T : \A f \in T : f.seq <= e.seq

Claims(S, p) ==
  {e \in S : e.type = "ownership" /\ e.mode # "release" /\ p \in e.paths}

\* Fault: a release counts for the claims made after it too.
ReleasedEver(S, c, p) ==
  \E r \in S : /\ r.type = "ownership" /\ r.mode = "release"
               /\ p \in r.paths /\ r.from = c.from

\* c's claim of p was given back: a release takes effect only when it comes
\* from the agent that then owns the path.
Released(S, c, p) ==
  \E r \in S : /\ r.type = "ownership" /\ r.mode = "release"
               /\ p \in r.paths /\ r.from = c.from /\ r.seq > c.seq

\* ownershipFromEvents: a claim overwrites whatever the path held before it, so
\* the last claim decides, unless its own agent has released the path since.
OwnerOf(S, p) ==
  LET c == Latest(Claims(S, p))
  IN  IF Claims(S, p) = {} \/ Released(S, c, p)
        THEN NoOwner
        ELSE [agent |-> c.from, mode |-> c.mode]

Ownership(S) == [p \in Paths |-> OwnerOf(S, p)]

RevisionOf(S, n) ==
  MaxOf({e.revision : e \in {f \in S : f.type = "contract" /\ f.name = n}} \cup {0})

DecisionsOn(S, t) == {e \in S : e.type = "decision" /\ e.title = t}

DecidedBy(S, t) ==
  IF DecisionsOn(S, t) = {} THEN NoAgent ELSE Latest(DecisionsOn(S, t)).from

\* Agent a's cursor, the highest number it has acknowledged, has reached e.
AckedBy(S, a, e) ==
  \E k \in S : k.type = "ack" /\ k.from = a /\ k.eventSeq >= e.seq

\* snapshot: the events agent a is told it has not acknowledged.
UnackedFor(S, a) ==
  {e \in S : e.type # "ack" /\ e.from # a /\ ~AckedBy(S, a, e)}

-----------------------------------------------------------------------------
(* Operations *)

Init == log = {} /\ lastSeq = -1

\* appendLocked: the event e takes the next sequence number.
AppendLocked(e) ==
  /\ HighSeq(log) < MaxSeq
  /\ e.seq = HighSeq(log) + 1
  /\ log' = log \cup {e}
  /\ lastSeq' = e.seq

NextSeq == HighSeq(log) + 1

\* emit of an event nothing is derived from.
EmitTask(a) == AppendLocked([type |-> "task", seq |-> NextSeq, from |-> a])

EmitDecision(a, t) ==
  AppendLocked([type |-> "decision", seq |-> NextSeq, from |-> a, title |-> t])

\* Fault: the watermark check is dropped.
EmitAckUnchecked(a, s) ==
  AppendLocked([type |-> "ack", seq |-> NextSeq, from |-> a, eventSeq |-> s])

\* emit of an acknowledgement: it cannot run ahead of the watermark.
EmitAck(a, s) ==
  /\ s <= HighSeq(log)
  /\ AppendLocked([type |-> "ack", seq |-> NextSeq, from |-> a, eventSeq |-> s])

\* Fault: a claim of a directory is not compared with what lies below it.
PathsOverlapBelow(p, q) == p = q \/ <<p, q>> \in Inside

PathsOverlap(p, q) == p = q \/ <<p, q>> \in Inside \/ <<q, p>> \in Inside

\* The owned paths that stand in the way of a's claim.
Conflicts(a, ps, mode) ==
  {q \in Paths :
     LET held == OwnerOf(log, q)
     IN  /\ held # NoOwner
         /\ held.agent # a
         /\ \E p \in ps : PathsOverlap(p, q)
         /\ ~(held.mode = "shared" /\ mode = "shared")}

ClaimOwnership(a, ps, mode) ==
  /\ Conflicts(a, ps, mode) = {}
  /\ AppendLocked([type |-> "ownership", seq |-> NextSeq, from |-> a,
                   paths |-> ps, mode |-> mode])

ReleaseOwnership(a, ps) ==
  /\ \A p \in ps : LET held == OwnerOf(log, p)
                    IN  held # NoOwner => held.agent = a
  /\ AppendLocked([type |-> "ownership", seq |-> NextSeq, from |-> a,
                   paths |-> ps, mode |-> "release"])

\* A caller names a revision or takes the next one; a stale one is refused.
PublishContract(a, n) ==
  \E r \in 1..MaxRevision \cup {RevisionOf(log, n) + 1} :
    /\ r > RevisionOf(log, n)
    /\ AppendLocked([type |-> "contract", seq |-> NextSeq, from |-> a,
                     name |-> n, revision |-> r])

\* Fault: the key of an ownership event leaves out its paths.
SameStateKeyPathless(e, f) ==
  /\ e.type = f.type
  /\ \/ e.type = "ownership" /\ e.from = f.from
     \/ e.type = "contract" /\ e.name = f.name
     \/ e.type = "decision" /\ e.title = f.title

\* Fault: contracts have no key, so compaction drops them like any event.
SameStateKeyNoContract(e, f) ==
  /\ e.type = f.type
  /\ \/ e.type = "ownership" /\ e.from = f.from /\ e.paths = f.paths
     \/ e.type = "decision" /\ e.title = f.title

\* stateKey: events with the same key replace one another as the current state.
SameStateKey(e, f) ==
  /\ e.type = f.type
  /\ \/ e.type = "ownership" /\ e.from = f.from /\ e.paths = f.paths
     \/ e.type = "contract" /\ e.name = f.name
     \/ e.type = "decision" /\ e.title = f.title

\* extractStateCheckpoints: the removable events that no later event replaces.
StateCheckpoints(removable) ==
  {e \in removable :
     /\ SameStateKey(e, e)
     /\ ~\E f \in log : SameStateKey(e, f) /\ f.seq > e.seq}

\* Fault: the summary is numbered after the last removed event.
CompactSummaryAfter(keepFrom) ==
  LET removable == {e \in log : e.seq < keepFrom}
      remove    == removable \ StateCheckpoints(removable)
  IN  \E last \in remove :
        /\ \A e \in remove : e.seq <= last.seq
        /\ log' = (log \ remove)
                    \cup {[type |-> "status", seq |-> last.seq + 1, from |-> Loadout]}
        /\ UNCHANGED lastSeq

\* compact: the events before "keepFrom" (maxEvents and maxAgeDays decide which)
\* shrink to their state checkpoints and a summary that takes the place of the
\* last event removed.  Nothing happens when there is nothing to remove.
Compact(keepFrom) ==
  LET removable == {e \in log : e.seq < keepFrom}
      remove    == removable \ StateCheckpoints(removable)
  IN  \E last \in remove :
        /\ \A e \in remove : e.seq <= last.seq
        /\ log' = (log \ remove)
                    \cup {[type |-> "status", seq |-> last.seq, from |-> Loadout]}
        /\ UNCHANGED lastSeq

Next ==
  \/ \E a \in Agents :
       \/ EmitTask(a)
       \/ \E t \in Titles : EmitDecision(a, t)
       \/ \E s \in AckSeqs : EmitAck(a, s)
       \/ \E ps \in PathLists :
            \/ \E mode \in ClaimModes : ClaimOwnership(a, ps, mode)
            \/ ReleaseOwnership(a, ps)
       \/ \E n \in Names : PublishContract(a, n)
  \/ \E e \in log : Compact(e.seq + 1)

Spec == Init /\ [][Next]_vars

-----------------------------------------------------------------------------
(* Properties *)

\* Every event of the log has a sequence number of its own: readers order
\* events by it and cursors and acknowledgements name events with it.
SeqUnique == \A e, f \in log : e.seq = f.seq => e = f

\* The watermark a reader computes from the log is the last number handed out.
\* Were it to fall, through a compaction for one, the next event would take a
\* number that watchers and sessions have already moved their cursors past.
WatermarkKept == HighSeq(log) = lastSeq

\* Numbers neither collide nor fall back, through appends and compactions.
NumbersKept == SeqUnique /\ WatermarkKept

\* Two agents never own overlapping paths unless both only share them.
ExclusiveOwnership ==
  LET owner == Ownership(log)
  IN  \A p, q \in Paths :
        (/\ PathsOverlap(p, q)
         /\ owner[p] # NoOwner /\ owner[q] # NoOwner
         /\ owner[p].agent # owner[q].agent)
          => owner[p].mode = "shared" /\ owner[q].mode = "shared"

\* Agents own what they have claimed and nobody else has, in a log of events.
OwnershipSound == TypeOK /\ ExclusiveOwnership

\* An event that has just been accepted is unacknowledged for every agent but
\* its author: no acknowledgement made before it, by a cursor that ran ahead or
\* of a number used twice, already covers it.
NewEventsAreUnacked ==
  [][\A e \in log' \ log, a \in Agents :
       (e.type \notin {"ack", "status"} /\ e.from # a) => e \in UnackedFor(log', a)]_vars

\* Compaction "preserves ownership, contract, and decision state": what readers
\* derive from the log is the same before and after it.
CompactionKeepsOwnership ==
  [][lastSeq' = lastSeq => Ownership(log') = Ownership(log)]_vars

\* The log implements the register of owners, contracts and decisions; every
\* operation is one of the register's, and compaction changes nothing in it.
Reg == INSTANCE Registry WITH
         owner    <- Ownership(log),
         revision <- [n \in Names |-> RevisionOf(log, n)],
         decided  <- [t \in Titles |-> DecidedBy(log, t)]

ImplementsRegistry == Reg!Spec

=============================================================================
