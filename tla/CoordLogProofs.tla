--------------------------- MODULE CoordLogProofs ---------------------------
(***************************************************************************)
(* Proofs about CoordLog, for every project, agent set and bound, and      *)
(* about Outbox, for every project, sender and failure.  Both need what a  *)
(* fold over a sequence comes to, which follows from FoldExists.           *)
(***************************************************************************)
EXTENDS MCCoordLog, Outbox, FiniteSetTheorems, SequenceTheorems, WellFoundedInduction, TLAPS

-----------------------------------------------------------------------------
(* The log. *)

\* The log is empty, or its highest number is the last one handed out.
Watermark ==
  /\ \A e \in log : e.seq <= lastSeq
  /\ IF log = {} THEN lastSeq = -1 ELSE \E e \in log : e.seq = lastSeq

\* An acknowledgement names an event that was there before it.
AcksLookBack == \A k \in log : k.type = "ack" => k.eventSeq < k.seq

ContractsNamed(n) == {c \in log : c.type = "contract" /\ c.name = n}

\* A later revision of a contract has the higher number, and of the contracts
\* of one name there is a latest.
RevisionsRise ==
  \A n \in Names :
    /\ \A c, d \in ContractsNamed(n) : c.seq < d.seq => c.revision < d.revision
    /\ ContractsNamed(n) = {} \/ \E c \in ContractsNamed(n) :
                                   \A d \in ContractsNamed(n) : d.seq <= c.seq

IndInv == TypeOK /\ SeqUnique /\ Watermark /\ AcksLookBack /\ RevisionsRise

LEMMA EventFields ==
  ASSUME NEW e \in Event
  PROVE  e.seq \in Nat
BY DEF Event, OwnershipEvent, ContractEvent, DecisionEvent, AckEvent,
       TaskEvent, SummaryEvent

LEMMA HighSeqIsLast == TypeOK /\ Watermark => HighSeq(log) = lastSeq
<1> SUFFICES ASSUME TypeOK, Watermark PROVE HighSeq(log) = lastSeq
  OBVIOUS
<1> DEFINE N == {e.seq : e \in log} \cup {-1}
<1>1. lastSeq \in N /\ \A n \in N : n <= lastSeq
  BY EventFields DEF TypeOK, Watermark
<1>2. N \subseteq Int
  BY EventFields DEF TypeOK
<1>3. \A m \in N : (\A n \in N : n <= m) => m = lastSeq
  BY <1>1, <1>2
<1> HIDE DEF N
<1>4. MaxOf(N) = lastSeq
  BY <1>1, <1>3 DEF MaxOf
<1>5. QED
  BY <1>4 DEF HighSeq, N

LEMMA ContractFields ==
  ASSUME NEW e \in Event, e.type = "contract"
  PROVE  e.revision \in Nat \ {0}
BY DEF Event, OwnershipEvent, ContractEvent, DecisionEvent, AckEvent,
       TaskEvent, SummaryEvent

\* The revision a reader finds bounds every revision of that contract.
LEMMA RevisionIsHighest ==
  ASSUME TypeOK, SeqUnique, RevisionsRise, NEW n \in Names
  PROVE  /\ RevisionOf(log, n) \in Nat
         /\ \A c \in ContractsNamed(n) : c.revision <= RevisionOf(log, n)
<1> DEFINE R == {e.revision : e \in {f \in log : f.type = "contract" /\ f.name = n}} \cup {0}
<1>1. R = {e.revision : e \in ContractsNamed(n)} \cup {0}
  BY DEF ContractsNamed
<1>2. R \subseteq Nat
  BY ContractFields DEF TypeOK
<1>3. \E m \in R : \A r \in R : r <= m
  <2>1. CASE ContractsNamed(n) = {}
    BY <2>1, <1>1
  <2>2. CASE ContractsNamed(n) # {}
    <3>1. PICK c \in ContractsNamed(n) : \A d \in ContractsNamed(n) : d.seq <= c.seq
      BY <2>2 DEF RevisionsRise
    <3>2. \A d \in ContractsNamed(n) :
            /\ d \in log /\ d.seq \in Nat /\ d.revision \in Nat \ {0}
      BY EventFields, ContractFields DEF ContractsNamed, TypeOK
    <3>3. \A d \in ContractsNamed(n) : d = c \/ d.seq < c.seq
      BY <3>1, <3>2 DEF SeqUnique
    <3>4. \A d \in ContractsNamed(n) : d.revision <= c.revision
      BY <3>2, <3>3 DEF RevisionsRise
    <3>5. c.revision \in R /\ \A r \in R : r <= c.revision
      BY <3>2, <3>4, <1>1
    <3>6. QED
      BY <3>5
  <2>3. QED
    BY <2>1, <2>2
<1> HIDE DEF R
<1>4. MaxOf(R) \in R /\ \A r \in R : r <= MaxOf(R)
  BY <1>3 DEF MaxOf
<1>5. RevisionOf(log, n) = MaxOf(R)
  BY DEF RevisionOf, R
<1>6. QED
  BY <1>1, <1>2, <1>4, <1>5

LEMMA InitInv == Init => IndInv
BY DEF Init, IndInv, TypeOK, SeqUnique, Watermark, AcksLookBack, RevisionsRise,
       ContractsNamed

\* Appending an event that looks back no further than the watermark.
LEMMA AppendInv ==
  ASSUME IndInv, NEW e \in Event, AppendLocked(e),
         e.type = "ack" => e.eventSeq < e.seq,
         e.type = "contract" => e.name \in Names /\ e.revision > RevisionOf(log, e.name)
  PROVE  IndInv'
<1>1. HighSeq(log) = lastSeq
  BY HighSeqIsLast DEF IndInv
<1>2. e.seq = lastSeq + 1 /\ lastSeq' = e.seq /\ log' = log \cup {e}
  BY <1>1 DEF AppendLocked
<1>3. \A f \in log : f.seq \in Nat /\ f.seq <= lastSeq
  BY EventFields DEF IndInv, TypeOK, Watermark
<1>4. e.seq \in Nat
  BY EventFields
<1>5. TypeOK'
  BY <1>2, <1>4 DEF IndInv, TypeOK
<1>6. SeqUnique'
  BY <1>2, <1>3 DEF IndInv, SeqUnique, TypeOK
<1>7. Watermark'
  BY <1>2, <1>3, <1>4 DEF Watermark, IndInv, TypeOK
<1>8. AcksLookBack'
  BY <1>2 DEF AcksLookBack, IndInv
<1>9. RevisionsRise'
  <2> SUFFICES ASSUME NEW n \in Names
               PROVE  /\ \A c, d \in ContractsNamed(n)' : c.seq < d.seq => c.revision < d.revision
                      /\ ContractsNamed(n)' = {} \/ \E c \in ContractsNamed(n)' :
                                   \A d \in ContractsNamed(n)' : d.seq <= c.seq
    BY DEF RevisionsRise
  <2>1. \A c \in ContractsNamed(n) : c \in log /\ c.seq \in Nat /\ c.seq < e.seq
    BY <1>2, <1>3 DEF ContractsNamed, IndInv, TypeOK
  <2>2. CASE e.type = "contract" /\ e.name = n
    <3>1. ContractsNamed(n)' = ContractsNamed(n) \cup {e}
      BY <1>2, <2>2 DEF ContractsNamed
    <3>2. \A c \in ContractsNamed(n) : c.revision < e.revision
      <4>1. RevisionOf(log, n) \in Nat
            /\ \A c \in ContractsNamed(n) : c.revision <= RevisionOf(log, n)
        BY RevisionIsHighest DEF IndInv
      <4>2. \A c \in ContractsNamed(n) : c.revision \in Nat
        BY ContractFields DEF ContractsNamed, IndInv, TypeOK
      <4>3. e.revision \in Nat
        BY ContractFields, <2>2
      <4>4. QED
        BY <4>1, <4>2, <4>3, <2>2
    <3>3. QED
      BY <2>1, <3>1, <3>2, <1>4 DEF RevisionsRise, IndInv
  <2>3. CASE ~(e.type = "contract" /\ e.name = n)
    <3>1. ContractsNamed(n)' = ContractsNamed(n)
      BY <1>2, <2>3 DEF ContractsNamed
    <3>2. QED
      BY <3>1 DEF RevisionsRise, IndInv
  <2>4. QED
    BY <2>2, <2>3
<1>10. QED
  BY <1>5, <1>6, <1>7, <1>8, <1>9 DEF IndInv

LEMMA CompactInv ==
  ASSUME IndInv, NEW keepFrom \in Int, Compact(keepFrom)
  PROVE  IndInv'
<1> DEFINE removable == {e \in log : e.seq < keepFrom}
           remove    == removable \ StateCheckpoints(removable)
           summary(n) == [type |-> "status", seq |-> n, from |-> Loadout]
<1>1. PICK last \in remove :
        /\ \A e \in remove : e.seq <= last.seq
        /\ log' = (log \ remove) \cup {summary(last.seq)}
        /\ lastSeq' = lastSeq
  BY DEF Compact
<1>2. last \in log /\ remove \subseteq log
  OBVIOUS
<1> HIDE DEF remove
<1>3. \A f \in log : f.seq \in Nat /\ f.seq <= lastSeq
  BY EventFields DEF IndInv, TypeOK, Watermark
<1>4. summary(last.seq) \in Event /\ summary(last.seq).seq = last.seq
      /\ summary(last.seq).type = "status"
  BY <1>2, <1>3 DEF Event, SummaryEvent
<1> HIDE DEF summary
<1>5. TypeOK'
  BY <1>1, <1>4 DEF IndInv, TypeOK
<1>6. \A e \in log \ remove : e.seq # last.seq
  BY <1>1, <1>2 DEF IndInv, SeqUnique
<1>7. SeqUnique'
  BY <1>1, <1>4, <1>6 DEF IndInv, SeqUnique
<1>8. Watermark'
  <2>1. PICK top \in log : top.seq = lastSeq
    BY <1>2 DEF IndInv, Watermark
  <2>2. \E e \in log' : e.seq = lastSeq
    <3>1. CASE top \in remove
      BY <3>1, <2>1, <1>1, <1>2, <1>3, <1>4 DEF IndInv, TypeOK
    <3>2. CASE top \notin remove
      BY <3>2, <2>1, <1>1
    <3>3. QED
      BY <3>1, <3>2
  <2>3. \A e \in log' : e.seq <= lastSeq
    BY <1>1, <1>2, <1>3, <1>4
  <2>4. QED
    BY <2>2, <2>3, <1>1 DEF Watermark
<1>9. AcksLookBack'
  BY <1>1, <1>4 DEF AcksLookBack, IndInv
<1>10. RevisionsRise'
  <2> SUFFICES ASSUME NEW n \in Names
               PROVE  /\ \A c, d \in ContractsNamed(n)' : c.seq < d.seq => c.revision < d.revision
                      /\ ContractsNamed(n)' = {} \/ \E c \in ContractsNamed(n)' :
                                   \A d \in ContractsNamed(n)' : d.seq <= c.seq
    BY DEF RevisionsRise
  <2>1. ContractsNamed(n)' \subseteq ContractsNamed(n)
    BY <1>1, <1>4 DEF ContractsNamed
  <2>2. ASSUME NEW c \in ContractsNamed(n), \A d \in ContractsNamed(n) : d.seq <= c.seq
        PROVE  c \in ContractsNamed(n)'
    <3>1. c \in log /\ c.type = "contract" /\ c.name = n
      BY DEF ContractsNamed
    <3>2. c \notin remove
      <4>1. \A f \in log : SameStateKey(c, f) => f \in ContractsNamed(n)
        BY <3>1 DEF SameStateKey, ContractsNamed
      <4>2. \A f \in log : SameStateKey(c, f) => ~(f.seq > c.seq)
        BY <4>1, <2>2, <3>1, <1>3
      <4>3. QED
        BY <3>1, <4>2 DEF remove, StateCheckpoints, SameStateKey
    <3>3. QED
      BY <3>1, <3>2, <1>1 DEF ContractsNamed
  <2>3. QED
    BY <2>1, <2>2 DEF RevisionsRise, IndInv
<1>11. QED
  BY <1>5, <1>7, <1>8, <1>9, <1>10 DEF IndInv

\* What an operation appends: an event; an acknowledgement of what is there, a
\* contract with a new revision.
Appends ==
  \E e \in Event :
    /\ AppendLocked(e)
    /\ e.type = "ack" => e.eventSeq < e.seq
    /\ e.type = "contract" => e.name \in Names /\ e.revision > RevisionOf(log, e.name)

LEMMA NextAppendsOrCompacts ==
  ASSUME ConstantsOK, IndInv, Next
  PROVE  Appends \/ \E keepFrom \in Int : Compact(keepFrom)
<1>1. HighSeq(log) = lastSeq /\ lastSeq \in Nat \cup {-1} /\ NextSeq \in Nat
  BY HighSeqIsLast DEF IndInv, TypeOK, NextSeq
<1>2. ASSUME NEW a \in Agents, EmitTask(a) PROVE Appends
  <2> DEFINE e == [type |-> "task", seq |-> NextSeq, from |-> a]
  <2>1. e \in Event
    BY <1>1 DEF Event, TaskEvent
  <2>2. QED
    BY <2>1, <1>2 DEF EmitTask, Appends
<1>3. ASSUME NEW a \in Agents, NEW t \in Titles, EmitDecision(a, t) PROVE Appends
  <2> DEFINE e == [type |-> "decision", seq |-> NextSeq, from |-> a, title |-> t]
  <2>1. e \in Event
    BY <1>1 DEF Event, DecisionEvent
  <2>2. QED
    BY <2>1, <1>3 DEF EmitDecision, Appends
<1>4. ASSUME NEW a \in Agents, NEW s \in AckSeqs, EmitAck(a, s) PROVE Appends
  <2> DEFINE e == [type |-> "ack", seq |-> NextSeq, from |-> a, eventSeq |-> s]
  <2>1. e \in Event
    BY <1>1 DEF Event, AckEvent, ConstantsOK
  <2>2. s < NextSeq
    BY <1>1, <1>4 DEF EmitAck, NextSeq, ConstantsOK
  <2>3. QED
    BY <2>1, <2>2, <1>4 DEF EmitAck, Appends
<1>5. ASSUME NEW a \in Agents, NEW ps \in PathLists, NEW mode \in ClaimModes,
             ClaimOwnership(a, ps, mode)
      PROVE Appends
  <2> DEFINE e == [type |-> "ownership", seq |-> NextSeq, from |-> a,
                   paths |-> ps, mode |-> mode]
  <2>1. e \in Event
    BY <1>1 DEF Event, OwnershipEvent, Modes, ConstantsOK
  <2>2. QED
    BY <2>1, <1>5 DEF ClaimOwnership, Appends
<1>6. ASSUME NEW a \in Agents, NEW ps \in PathLists, ReleaseOwnership(a, ps)
      PROVE Appends
  <2> DEFINE e == [type |-> "ownership", seq |-> NextSeq, from |-> a,
                   paths |-> ps, mode |-> "release"]
  <2>1. e \in Event
    BY <1>1 DEF Event, OwnershipEvent, Modes, ConstantsOK
  <2>2. QED
    BY <2>1, <1>6 DEF ReleaseOwnership, Appends
<1>7. ASSUME NEW a \in Agents, NEW n \in Names, PublishContract(a, n)
      PROVE Appends
  <2>1. PICK r \in 1..MaxRevision \cup {RevisionOf(log, n) + 1} :
          /\ r > RevisionOf(log, n)
          /\ AppendLocked([type |-> "contract", seq |-> NextSeq, from |-> a,
                           name |-> n, revision |-> r])
    BY <1>7 DEF PublishContract
  <2>2. r \in Nat \ {0}
    BY <2>1, RevisionIsHighest DEF IndInv, ConstantsOK
  <2> DEFINE e == [type |-> "contract", seq |-> NextSeq, from |-> a,
                   name |-> n, revision |-> r]
  <2>3. e \in Event
    BY <1>1, <2>2 DEF Event, ContractEvent
  <2>4. QED
    BY <2>1, <2>3 DEF Appends
<1>8. ASSUME NEW e \in log, Compact(e.seq + 1)
      PROVE  \E keepFrom \in Int : Compact(keepFrom)
  BY <1>8, EventFields DEF IndInv, TypeOK
<1>9. QED
  BY <1>2, <1>3, <1>4, <1>5, <1>6, <1>7, <1>8 DEF Next

LEMMA StepInv == ConstantsOK /\ IndInv /\ [Next]_vars => IndInv'
<1> SUFFICES ASSUME ConstantsOK, IndInv, [Next]_vars PROVE IndInv'
  OBVIOUS
<1>1. CASE Next
  BY <1>1, NextAppendsOrCompacts, AppendInv, CompactInv DEF Appends
<1>2. CASE UNCHANGED vars
  BY <1>2 DEF vars, IndInv, TypeOK, SeqUnique, Watermark, AcksLookBack,
             RevisionsRise, ContractsNamed
<1>3. QED
  BY <1>1, <1>2

LEMMA Inductive == Spec => []IndInv
BY InitInv, StepInv, ConstantsOK, PTL DEF Spec

\* The log holds well-formed events only.
THEOREM TypeCorrect == Spec => []TypeOK
BY Inductive, PTL DEF IndInv

\* No two events of the log ever share a sequence number, whatever the agents do
\* and however often the log is compacted, and the watermark derived from the log
\* is always the last number handed out: compaction lowers it for no reader.
THEOREM NumbersNeverFallBack == Spec => []NumbersKept
<1>1. IndInv => NumbersKept
  BY HighSeqIsLast DEF IndInv, NumbersKept, WatermarkKept
<1>2. QED
  BY <1>1, Inductive, PTL

\* An event that has just been accepted is news to every agent but its author:
\* no earlier acknowledgement covers it.
THEOREM NewEventsUnacked == Spec => NewEventsAreUnacked
<1> DEFINE News == \A e \in log' \ log, a \in Agents :
                     (e.type \notin {"ack", "status"} /\ e.from # a)
                       => e \in UnackedFor(log', a)
<1>1. ASSUME ConstantsOK, IndInv, Next PROVE News
  <2>1. CASE Appends
    <3>1. PICK x \in Event : AppendLocked(x)
      BY <2>1 DEF Appends
    <3>2. log' = log \cup {x} /\ x.seq = lastSeq + 1
      BY <3>1, <1>1, HighSeqIsLast DEF AppendLocked, IndInv
    <3>3. \A k \in log : k.type = "ack" => k.eventSeq < k.seq /\ k.seq <= lastSeq
      BY <1>1 DEF IndInv, AcksLookBack, Watermark
    <3>4. ASSUME NEW a \in Agents, x.type # "ack" PROVE ~AckedBy(log', a, x)
      <4>1. \A k \in log : k.type = "ack" => k.eventSeq \in Nat /\ k.seq \in Nat
        BY <1>1 DEF IndInv, TypeOK, Event, OwnershipEvent, ContractEvent,
                    DecisionEvent, AckEvent, TaskEvent, SummaryEvent
      <4>2. lastSeq \in Int
        BY <1>1 DEF IndInv, TypeOK
      <4>3. QED
        BY <3>2, <3>3, <3>4, <4>1, <4>2 DEF AckedBy
    <3>5. QED
      BY <3>2, <3>4 DEF UnackedFor
  <2>2. CASE \E keepFrom \in Int : Compact(keepFrom)
    <3>1. \A e \in log' \ log : e.type = "status"
      BY <2>2 DEF Compact
    <3>2. QED
      BY <3>1
  <2>3. QED
    BY <2>1, <2>2, <1>1, NextAppendsOrCompacts
<1>2. ConstantsOK /\ IndInv /\ [Next]_vars => [News]_vars
  BY <1>1
<1>3. QED
  BY <1>2, Inductive, ConstantsOK, PTL DEF Spec, NewEventsAreUnacked

-----------------------------------------------------------------------------
(* The latest of some events *)

\* Events with numbers of their own, none above a bound.
Ordered(S) ==
  /\ S \subseteq Event
  /\ \A e, f \in S : e.seq = f.seq => e = f
  /\ \E n \in Int : \A e \in S : e.seq <= n

LEMMA LogIsOrdered == IndInv => Ordered(log)
BY DEF IndInv, TypeOK, SeqUnique, Watermark, Ordered

LEMMA LatestIs ==
  ASSUME NEW S, Ordered(S), NEW T \in SUBSET S, NEW e \in T, \A f \in T : f.seq <= e.seq
  PROVE  Latest(T) = e
<1>1. \A f \in T : f \in S /\ f.seq \in Nat
  BY EventFields DEF Ordered
<1>2. ASSUME NEW g \in T, \A f \in T : f.seq <= g.seq PROVE g = e
  <2>1. g.seq = e.seq
    BY <1>1, <1>2
  <2> QED
    BY <1>1, <2>1 DEF Ordered
<1> QED
  BY <1>2 DEF Latest

\* Since their numbers are bounded, some events have a latest one.
LEMMA LatestExists ==
  ASSUME NEW S, Ordered(S), NEW T \in SUBSET S, T # {}
  PROVE  Latest(T) \in T /\ \A f \in T : f.seq <= Latest(T).seq
<1>0. PICK top \in Int : \A e \in S : e.seq <= top
  BY DEF Ordered
<1> DEFINE R == {ss \in Nat \X Nat : ss[1] < ss[2]}
           D == {top - e.seq : e \in T}
<1>1. \A f \in T : f.seq \in Nat /\ f.seq <= top
  BY <1>0, EventFields DEF Ordered
<1>2. D \subseteq Nat /\ D # {}
  BY <1>1
<1>3. OpToRel(<, Nat) = R
  BY DEF OpToRel
<1>4. ASSUME NEW k \in Nat, NEW m \in Nat, <<k, m>> \notin R PROVE m <= k
  BY <1>4
<1> HIDE DEF R, D
<1>5. PICK m \in D : \A k \in D : ~(<<k, m>> \in R)
  BY <1>2, <1>3, NatLessThanWellFounded, WFMin
<1>6. ASSUME NEW k \in D PROVE m <= k
  <2>1. k \in Nat /\ m \in Nat /\ <<k, m>> \notin R
    BY <1>2, <1>5
  <2> QED
    BY <1>4, <2>1
<1>7. PICK e \in T : m = top - e.seq
  BY DEF D
<1>8. ASSUME NEW f \in T PROVE f.seq <= e.seq
  <2>1. m <= top - f.seq
    BY <1>6 DEF D
  <2> QED
    BY <1>1, <1>7, <2>1
<1>9. Latest(T) = e
  BY <1>8, LatestIs
<1> QED
  BY <1>8, <1>9

-----------------------------------------------------------------------------
(* Ownership, in a project whose agents make exclusive claims *)

Words(S, p) == {e \in S : e.type = "ownership" /\ p \in e.paths}

\* The claims of p that are the last word of their agent about it.
Holding(S, p) ==
  {w \in Claims(S, p) : \A e \in Words(S, p) : e.from = w.from => e.seq <= w.seq}

\* An agent whose last word about a path is a claim has claimed it last of all.
ClaimedLast(S, p) == \A w \in Holding(S, p), c \in Claims(S, p) : c.seq <= w.seq

HolderClaimedLast == \A p \in Paths : ClaimedLast(log, p)

OwnerInv == IndInv /\ HolderClaimedLast

LEMMA OwnershipFields ==
  ASSUME NEW e \in Event, e.type = "ownership"
  PROVE  e.from \in Agents /\ e.mode \in Modes
BY DEF Event, OwnershipEvent, ContractEvent, DecisionEvent, AckEvent, TaskEvent, SummaryEvent

\* An owner is not the absence of one.
LEMMA OwnersAreNot ==
  ASSUME ConstantsOK, NEW c \in Event, c.type = "ownership", c.mode # "release"
  PROVE  [agent |-> c.from, mode |-> c.mode] # NoOwner
BY OwnershipFields DEF ConstantsOK, Modes

\* The path belongs to the agent whose last word about it is a claim, and to
\* nobody when there is none.
LEMMA OwnerHolds ==
  ASSUME NEW S, Ordered(S), NEW p, ClaimedLast(S, p)
  PROVE  /\ \A w \in Holding(S, p) : OwnerOf(S, p) = [agent |-> w.from, mode |-> w.mode]
         /\ Holding(S, p) = {} => OwnerOf(S, p) = NoOwner
<1> DEFINE c == Latest(Claims(S, p))
<1>0. \A e \in S : e.seq \in Nat
  BY EventFields DEF Ordered
<1>1. Claims(S, p) \subseteq Words(S, p) /\ Words(S, p) \subseteq S
  BY DEF Claims, Words
<1>2. ASSUME NEW w \in Holding(S, p) PROVE OwnerOf(S, p) = [agent |-> w.from, mode |-> w.mode]
  <2>1. w \in Claims(S, p) /\ \A d \in Claims(S, p) : d.seq <= w.seq
    BY DEF ClaimedLast, Holding
  <2>2. c = w
    BY <1>1, <2>1, LatestIs
  <2>3. ~Released(S, w, p)
    BY <1>0, <1>1, <2>1 DEF Released, Holding, Words
  <2> QED
    BY <2>1, <2>2, <2>3 DEF OwnerOf
<1>3. ASSUME Holding(S, p) = {} PROVE OwnerOf(S, p) = NoOwner
  <2>1. CASE Claims(S, p) = {}
    BY <2>1 DEF OwnerOf
  <2>2. CASE Claims(S, p) # {}
    <3>1. c \in Claims(S, p) /\ \A d \in Claims(S, p) : d.seq <= c.seq
      BY <1>1, <2>2, LatestExists
    <3>2. PICK e \in Words(S, p) : e.from = c.from /\ ~(e.seq <= c.seq)
      BY <1>3, <3>1 DEF Holding
    <3>3. e.mode = "release" /\ e.seq > c.seq
      BY <1>0, <1>1, <3>1, <3>2 DEF Claims, Words
    <3>4. Released(S, c, p)
      BY <3>2, <3>3 DEF Released, Words
    <3> QED
      BY <3>4 DEF OwnerOf
  <2> QED
    BY <2>1, <2>2
<1> QED
  BY <1>2, <1>3

\* What an event that is appended to the log changes about the owner of p:
\* a claim of p takes it, a release gives it up when its agent has it, and
\* any other event leaves it.
LEMMA AppendOwner ==
  ASSUME ConstantsOK, IndInv, NEW e, AppendLocked(e), NEW p \in Paths
  PROVE  OwnerOf(log', p) =
           IF ~(e.type = "ownership" /\ p \in e.paths) THEN OwnerOf(log, p)
           ELSE IF e.mode # "release" THEN [agent |-> e.from, mode |-> e.mode]
           ELSE IF OwnerOf(log, p) # NoOwner /\ OwnerOf(log, p).agent # e.from THEN OwnerOf(log, p)
           ELSE NoOwner
<1> DEFINE c == Latest(Claims(log, p))
<1>1. /\ TypeOK /\ SeqUnique /\ e.seq \in Nat /\ log' = log \cup {e}
      /\ \A f \in log : f.seq \in Nat /\ f.seq < e.seq
  BY HighSeqIsLast, EventFields DEF AppendLocked, IndInv, TypeOK, Watermark
<1>2. CASE e.type = "ownership" /\ p \in e.paths /\ e.mode # "release"
  <2>1. Claims(log', p) = Claims(log, p) \cup {e}
    BY <1>1, <1>2 DEF Claims
  <2>2. \A f \in Claims(log', p) : f.seq <= e.seq
    BY <1>1, <2>1 DEF Claims
  <2>3. \A g \in Claims(log', p) : (\A f \in Claims(log', p) : f.seq <= g.seq) => g = e
    BY <1>1, <2>1 DEF Claims
  <2>4. Latest(Claims(log', p)) = e
    BY <2>1, <2>2, <2>3 DEF Latest
  <2>5. ~Released(log', e, p)
    BY <1>1 DEF Released
  <2> QED
    BY <1>2, <2>1, <2>4, <2>5 DEF OwnerOf
<1>3. CASE ~(e.type = "ownership" /\ p \in e.paths /\ e.mode # "release")
  <2>1. Claims(log', p) = Claims(log, p)
    BY <1>1, <1>3 DEF Claims
  <2>2. CASE Claims(log, p) = {}
    BY <1>3, <2>1, <2>2 DEF OwnerOf
  <2>3. CASE Claims(log, p) # {}
    <3>1. c \in Claims(log, p)
      BY <2>3, LatestExists, LogIsOrdered DEF Claims
    <3>2. Released(log', c, p) <=> \/ Released(log, c, p)
                                   \/ e.type = "ownership" /\ p \in e.paths /\ e.mode = "release" /\ e.from = c.from
      BY <1>1, <3>1 DEF Released, Claims
    <3>3. [agent |-> c.from, mode |-> c.mode] # NoOwner
      BY <1>1, <3>1, OwnersAreNot DEF Claims, TypeOK
    <3>4. OwnerOf(log, p) = IF Released(log, c, p) THEN NoOwner ELSE [agent |-> c.from, mode |-> c.mode]
      BY <2>3 DEF OwnerOf
    <3>5. OwnerOf(log', p) = IF Released(log', c, p) THEN NoOwner ELSE [agent |-> c.from, mode |-> c.mode]
      BY <2>1, <2>3 DEF OwnerOf
    <3> QED
      BY <1>3, <3>2, <3>3, <3>4, <3>5
  <2> QED
    BY <2>2, <2>3
<1> QED
  BY <1>2, <1>3

\* Compaction removes nobody's last word: an event that a later one replaces is
\* followed by a word of the same agent about the same paths.
LEMMA CompactKeepsLastWords ==
  ASSUME ConstantsOK, IndInv, NEW keepFrom \in Int, Compact(keepFrom), NEW p \in Paths
  PROVE  /\ Words(log', p) \subseteq Words(log, p)
         /\ Holding(log', p) = Holding(log, p)
<1> DEFINE removable == {e \in log : e.seq < keepFrom}
           remove    == removable \ StateCheckpoints(removable)
           summary(n) == [type |-> "status", seq |-> n, from |-> Loadout]
<1>1. PICK last \in remove : log' = (log \ remove) \cup {summary(last.seq)}
  BY DEF Compact
<1>2. Words(log', p) = Words(log, p) \ remove
  BY <1>1 DEF Words
<1>3. Claims(log', p) = Claims(log, p) \ remove
  BY <1>1 DEF Claims
<1>4. \A e \in log : e.seq \in Nat
  BY EventFields DEF IndInv, TypeOK
<1>5. ASSUME NEW e \in Words(log, p), \A f \in Words(log, p) : f.from = e.from => f.seq <= e.seq
      PROVE  e \notin remove
  <2>1. \A f \in log : SameStateKey(e, f) => f \in Words(log, p) /\ f.from = e.from
    BY DEF SameStateKey, Words
  <2>2. \A f \in log : SameStateKey(e, f) => ~(f.seq > e.seq)
    BY <1>4, <1>5, <2>1 DEF Words
  <2> QED
    BY <2>2 DEF StateCheckpoints, SameStateKey, Words
<1>6. Holding(log, p) \subseteq Holding(log', p)
  <2> SUFFICES ASSUME NEW w \in Holding(log, p) PROVE w \in Holding(log', p)
    OBVIOUS
  <2>1. w \in Claims(log, p) /\ w \in Words(log, p)
    BY DEF Holding, Claims, Words
  <2>2. w \notin remove
    BY <1>5, <2>1 DEF Holding
  <2> QED
    BY <1>2, <1>3, <2>1, <2>2 DEF Holding
<1>7. Holding(log', p) \subseteq Holding(log, p)
  <2> SUFFICES ASSUME NEW w \in Holding(log', p) PROVE w \in Holding(log, p)
    OBVIOUS
  <2> DEFINE T == {e \in Words(log, p) : e.from = w.from}
             t == Latest(T)
  <2>1. w \in Claims(log, p) /\ w \in T
    BY <1>3 DEF Holding, Claims, Words
  <2>2. t \in T /\ \A f \in T : f.seq <= t.seq
    BY <2>1, LatestExists, LogIsOrdered DEF Words
  <2>3. t \in Words(log', p)
    BY <1>2, <1>5, <2>2
  <2>4. t.seq <= w.seq
    BY <2>2, <2>3 DEF Holding
  <2>5. \A f \in T : f.seq <= w.seq
    BY <1>4, <2>1, <2>2, <2>4 DEF Words
  <2> QED
    BY <2>1, <2>5 DEF Holding
<1> QED
  BY <1>2, <1>6, <1>7

\* ... so that it keeps the owner of every path.
LEMMA CompactOwner ==
  ASSUME ConstantsOK, OwnerInv, NEW keepFrom \in Int, Compact(keepFrom)
  PROVE  /\ OwnerInv'
         /\ \A p \in Paths : OwnerOf(log', p) = OwnerOf(log, p)
<1>1. IndInv'
  BY CompactInv DEF OwnerInv
<1>2. ASSUME NEW p \in Paths PROVE Claims(log', p) \subseteq Claims(log, p) /\ Holding(log', p) = Holding(log, p)
  <2>1. Words(log', p) \subseteq Words(log, p) /\ Holding(log', p) = Holding(log, p)
    BY CompactKeepsLastWords DEF OwnerInv
  <2> QED
    BY <2>1 DEF Words, Claims
<1>3. \A p \in Paths : ClaimedLast(log, p) /\ ClaimedLast(log', p)
  BY <1>2 DEF ClaimedLast, HolderClaimedLast, OwnerInv
<1>4. OwnerInv'
  BY <1>1, <1>3 DEF OwnerInv, HolderClaimedLast
<1>5. Ordered(log) /\ Ordered(log')
  BY <1>1, LogIsOrdered DEF OwnerInv, IndInv, TypeOK, SeqUnique, Watermark, Ordered
<1>6. ASSUME NEW p \in Paths PROVE OwnerOf(log', p) = OwnerOf(log, p)
  BY <1>2, <1>3, <1>5, OwnerHolds
<1> QED
  BY <1>4, <1>6

\* An exclusive claim is accepted only of paths that nobody else owns, and a
\* release gives up only what its agent owns.
LEMMA ClaimKeepsInv ==
  ASSUME ConstantsOK, OwnerInv, NEW a \in Agents, NEW ps \in PathLists, ClaimOwnership(a, ps, "exclusive")
  PROVE  HolderClaimedLast'
<1> DEFINE e == [type |-> "ownership", seq |-> NextSeq, from |-> a, paths |-> ps, mode |-> "exclusive"]
<1>1. Conflicts(a, ps, "exclusive") = {} /\ AppendLocked(e)
  BY DEF ClaimOwnership
<1>2. /\ log' = log \cup {e} /\ e.seq = lastSeq + 1 /\ lastSeq \in Int
      /\ \A f \in log : f.seq \in Nat /\ f.seq < e.seq
  BY <1>1, HighSeqIsLast, EventFields DEF AppendLocked, NextSeq, OwnerInv, IndInv, TypeOK, Watermark
<1>3. ASSUME NEW p \in Paths PROVE ClaimedLast(log', p)
  <2>1. CASE p \in ps
    <3>1. ASSUME NEW w \in Holding(log, p) PROVE w.from = a
      <4>1. OwnerOf(log, p) = [agent |-> w.from, mode |-> w.mode] /\ w \in log /\ w.type = "ownership" /\ w.mode # "release"
        BY LogIsOrdered, OwnerHolds DEF OwnerInv, HolderClaimedLast, Holding, Claims
      <4>2. OwnerOf(log, p) # NoOwner
        BY <4>1, OwnersAreNot DEF OwnerInv, IndInv, TypeOK
      <4> QED
        BY <1>1, <2>1, <4>1, <4>2 DEF Conflicts, PathsOverlap
    <3>2. ASSUME NEW w \in Holding(log', p) PROVE w = e
      <4>1. w \in log => w \in Holding(log, p)
        BY <1>2 DEF Holding, Claims, Words
      <4>2. e \in Words(log', p) /\ e.from = a
        BY <1>2, <2>1 DEF Words
      <4>3. ASSUME w \in log, w.from = a PROVE FALSE
        <5>1. e.seq <= w.seq
          BY <4>2, <4>3 DEF Holding
        <5>2. w.seq \in Int /\ e.seq \in Int /\ w.seq < e.seq
          BY <1>2, <4>3
        <5> QED
          BY <5>1, <5>2
      <4> QED
        BY <1>2, <3>1, <4>1, <4>3 DEF Holding, Claims
    <3>3. \A c \in Claims(log', p) : c.seq <= e.seq
      BY <1>2 DEF Claims
    <3> QED
      BY <3>2, <3>3 DEF ClaimedLast
  <2>2. CASE p \notin ps
    <3>1. Claims(log', p) = Claims(log, p) /\ Words(log', p) = Words(log, p)
      BY <1>2, <2>2 DEF Claims, Words
    <3> QED
      BY <3>1 DEF OwnerInv, HolderClaimedLast, ClaimedLast, Holding
  <2> QED
    BY <2>1, <2>2
<1> QED
  BY <1>3 DEF HolderClaimedLast

\* Any other event makes nobody a holder.
LEMMA OtherKeepsInv ==
  ASSUME OwnerInv, NEW e, AppendLocked(e), e.type # "ownership" \/ e.mode = "release"
  PROVE  HolderClaimedLast'
<1>1. log' = log \cup {e}
  BY DEF AppendLocked
<1>2. ASSUME NEW p \in Paths PROVE ClaimedLast(log', p)
  <2>1. Claims(log', p) = Claims(log, p) /\ Words(log, p) \subseteq Words(log', p)
    BY <1>1 DEF Claims, Words
  <2>2. Holding(log', p) \subseteq Holding(log, p)
    BY <2>1 DEF Holding
  <2> QED
    BY <2>1, <2>2 DEF OwnerInv, HolderClaimedLast, ClaimedLast
<1> QED
  BY <1>2 DEF HolderClaimedLast

\* What a step appends or compacts keeps the owners in order.
LEMMA OwnerInvStep ==
  ASSUME ConstantsOK, "shared" \notin ClaimModes, OwnerInv, [Next]_vars
  PROVE  OwnerInv'
<1>1. IndInv'
  BY StepInv DEF OwnerInv
<1>2. CASE UNCHANGED vars
  BY <1>1, <1>2 DEF vars, OwnerInv, HolderClaimedLast
<1>3. ASSUME NEW a \in Agents, NEW ps \in PathLists, NEW mode \in ClaimModes, ClaimOwnership(a, ps, mode)
      PROVE  OwnerInv'
  <2>1. mode = "exclusive"
    BY DEF ConstantsOK
  <2> QED
    BY <1>1, <1>3, <2>1, ClaimKeepsInv DEF OwnerInv
<1>4. ASSUME NEW e, AppendLocked(e), e.type # "ownership" \/ e.mode = "release" PROVE OwnerInv'
  BY <1>1, <1>4, OtherKeepsInv DEF OwnerInv
<1>5. ASSUME NEW e \in log, Compact(e.seq + 1) PROVE OwnerInv'
  BY <1>5, CompactOwner, EventFields DEF OwnerInv, IndInv, TypeOK
<1>6. ASSUME NEW a \in Agents PROVE /\ EmitTask(a) => OwnerInv'
                                    /\ \A t \in Titles : EmitDecision(a, t) => OwnerInv'
                                    /\ \A k \in AckSeqs : EmitAck(a, k) => OwnerInv'
                                    /\ \A ps \in PathLists : ReleaseOwnership(a, ps) => OwnerInv'
                                    /\ \A n \in Names : PublishContract(a, n) => OwnerInv'
  BY <1>4 DEF EmitTask, EmitDecision, EmitAck, ReleaseOwnership, PublishContract
<1> QED
  BY <1>2, <1>3, <1>5, <1>6 DEF Next

LEMMA OwnerInductive ==
  ASSUME "shared" \notin ClaimModes
  PROVE  Spec => []OwnerInv
<1>1. Init => OwnerInv
  BY InitInv DEF Init, OwnerInv, HolderClaimedLast, ClaimedLast, Holding, Claims
<1>2. OwnerInv /\ [Next]_vars => OwnerInv'
  BY OwnerInvStep, ConstantsOK
<1> QED
  BY <1>1, <1>2, PTL DEF Spec

-----------------------------------------------------------------------------
(* The register of owners, contracts and decisions *)

\* Compaction changes no owner.
LEMMA CompactOwnership ==
  ASSUME ConstantsOK, OwnerInv, NEW e \in log, Compact(e.seq + 1)
  PROVE  Ownership(log') = Ownership(log)
<1>1. e.seq + 1 \in Int
  BY EventFields DEF OwnerInv, IndInv, TypeOK
<1> QED
  BY <1>1, CompactOwner DEF Ownership

\* What an event that is not about ownership leaves: every owner.
LEMMA OtherOwnership ==
  ASSUME ConstantsOK, IndInv, NEW e, AppendLocked(e), e.type # "ownership"
  PROVE  Ownership(log') = Ownership(log)
BY AppendOwner DEF Ownership

\* A claim that is accepted is the grant of the register ...
LEMMA ClaimIsGrant ==
  ASSUME ConstantsOK, IndInv, NEW a \in Agents, NEW ps \in PathLists, NEW mode \in ClaimModes,
         ClaimOwnership(a, ps, mode)
  PROVE  /\ Reg!MayClaim(Ownership(log), a, ps, mode)
         /\ Ownership(log') = [p \in Paths |-> IF p \in ps THEN [agent |-> a, mode |-> mode] ELSE Ownership(log)[p]]
<1> DEFINE e == [type |-> "ownership", seq |-> NextSeq, from |-> a, paths |-> ps, mode |-> mode]
<1>1. Conflicts(a, ps, mode) = {} /\ AppendLocked(e) /\ ps \subseteq Paths /\ mode # "release"
  BY DEF ClaimOwnership, ConstantsOK
<1>2. Reg!MayClaim(Ownership(log), a, ps, mode)
  BY <1>1 DEF Reg!MayClaim, Reg!Overlap, Conflicts, PathsOverlap, Ownership
<1>3. ASSUME NEW p \in Paths
      PROVE  OwnerOf(log', p) = IF p \in ps THEN [agent |-> a, mode |-> mode] ELSE OwnerOf(log, p)
  BY <1>1, AppendOwner
<1> QED
  BY <1>2, <1>3 DEF Ownership

\* ... and a release its yield.
LEMMA ReleaseIsYield ==
  ASSUME ConstantsOK, IndInv, NEW a \in Agents, NEW ps \in PathLists, ReleaseOwnership(a, ps)
  PROVE  /\ \A p \in ps : Ownership(log)[p] # NoOwner => Ownership(log)[p].agent = a
         /\ Ownership(log') = [p \in Paths |-> IF p \in ps THEN NoOwner ELSE Ownership(log)[p]]
<1> DEFINE e == [type |-> "ownership", seq |-> NextSeq, from |-> a, paths |-> ps, mode |-> "release"]
<1>1. AppendLocked(e) /\ ps \subseteq Paths /\ \A p \in ps : OwnerOf(log, p) # NoOwner => OwnerOf(log, p).agent = a
  BY DEF ReleaseOwnership, ConstantsOK
<1>2. ASSUME NEW p \in Paths
      PROVE  OwnerOf(log', p) = IF p \in ps THEN NoOwner ELSE OwnerOf(log, p)
  BY <1>1, AppendOwner
<1> QED
  BY <1>1, <1>2 DEF Ownership

\* Claims that do not conflict keep owners of overlapping paths apart.
LEMMA GrantExcludes ==
  ASSUME ConstantsOK, ExclusiveOwnership, NEW a \in Agents, NEW ps \in SUBSET Paths, NEW mode \in {"exclusive", "shared"},
         Reg!MayClaim(Ownership(log), a, ps, mode),
         Ownership(log') = [p \in Paths |-> IF p \in ps THEN [agent |-> a, mode |-> mode] ELSE Ownership(log)[p]]
  PROVE  ExclusiveOwnership'
<1> SUFFICES ASSUME NEW p \in Paths, NEW q \in Paths, PathsOverlap(p, q),
                    Ownership(log')[p] # NoOwner, Ownership(log')[q] # NoOwner,
                    Ownership(log')[p].agent # Ownership(log')[q].agent
             PROVE  Ownership(log')[p].mode = "shared" /\ Ownership(log')[q].mode = "shared"
  BY DEF ExclusiveOwnership, PathsOverlap
<1>1. CASE p \notin ps /\ q \notin ps
  BY <1>1 DEF ExclusiveOwnership
<1>2. CASE p \in ps /\ q \notin ps
  BY <1>2 DEF Reg!MayClaim, Reg!Overlap, PathsOverlap
<1>3. CASE p \notin ps /\ q \in ps
  BY <1>3 DEF Reg!MayClaim, Reg!Overlap, PathsOverlap
<1>4. CASE p \in ps /\ q \in ps
  BY <1>4
<1> QED
  BY <1>1, <1>2, <1>3, <1>4

LEMMA ExclusiveStep ==
  ASSUME ConstantsOK, "shared" \notin ClaimModes, OwnerInv, ExclusiveOwnership, [Next]_vars
  PROVE  ExclusiveOwnership'
<1>1. ASSUME Ownership(log') = Ownership(log) PROVE ExclusiveOwnership'
  BY <1>1 DEF ExclusiveOwnership, PathsOverlap
<1>2. CASE UNCHANGED vars
  BY <1>1, <1>2 DEF vars
<1>3. ASSUME NEW a \in Agents, NEW ps \in PathLists, NEW mode \in ClaimModes, ClaimOwnership(a, ps, mode)
      PROVE  ExclusiveOwnership'
  <2>1. ps \in SUBSET Paths /\ mode \in {"exclusive", "shared"}
    BY DEF ConstantsOK
  <2> QED
    BY <1>3, <2>1, ClaimIsGrant, GrantExcludes DEF OwnerInv
<1>4. ASSUME NEW a \in Agents, NEW ps \in PathLists, ReleaseOwnership(a, ps) PROVE ExclusiveOwnership'
  <2>1. Ownership(log') = [p \in Paths |-> IF p \in ps THEN NoOwner ELSE Ownership(log)[p]]
    BY <1>4, ReleaseIsYield DEF OwnerInv
  <2> QED
    BY <2>1 DEF ExclusiveOwnership, PathsOverlap
<1>5. ASSUME NEW e, AppendLocked(e), e.type # "ownership" PROVE ExclusiveOwnership'
  BY <1>1, <1>5, OtherOwnership DEF OwnerInv
<1>6. ASSUME NEW e \in log, Compact(e.seq + 1) PROVE ExclusiveOwnership'
  BY <1>1, <1>6, CompactOwnership
<1>7. ASSUME NEW a \in Agents PROVE /\ EmitTask(a) => ExclusiveOwnership'
                                    /\ \A t \in Titles : EmitDecision(a, t) => ExclusiveOwnership'
                                    /\ \A k \in AckSeqs : EmitAck(a, k) => ExclusiveOwnership'
                                    /\ \A n \in Names : PublishContract(a, n) => ExclusiveOwnership'
  BY <1>5 DEF EmitTask, EmitDecision, EmitAck, PublishContract
<1> QED
  BY <1>2, <1>3, <1>4, <1>6, <1>7 DEF Next

\* Two agents never own overlapping paths, whatever is claimed, released and
\* compacted, when every claim is exclusive (claimOwnership, stateKey).
THEOREM OwnershipIsExclusive ==
  ASSUME "shared" \notin ClaimModes
  PROVE  Spec => []OwnershipSound
<1>1. Init => ExclusiveOwnership
  BY DEF Init, ExclusiveOwnership, Ownership, OwnerOf, Claims
<1>2. OwnerInv /\ ExclusiveOwnership /\ [Next]_vars => ExclusiveOwnership'
  BY ExclusiveStep, ConstantsOK
<1>3. OwnerInv /\ ExclusiveOwnership => OwnershipSound
  BY DEF OwnerInv, IndInv, OwnershipSound
<1>4. Spec => []OwnerInv
  BY OwnerInductive, PTL
<1> QED
  BY <1>1, <1>2, <1>3, <1>4, PTL DEF Spec

\* Compaction preserves who owns what, also when it removes a claim or a release
\* that a later event has replaced (extractStateCheckpoints).
THEOREM CompactionKeepsOwners ==
  ASSUME "shared" \notin ClaimModes
  PROVE  Spec => CompactionKeepsOwnership
<1> DEFINE A == lastSeq' = lastSeq => Ownership(log') = Ownership(log)
<1>1. OwnerInv /\ [Next]_vars => [A]_vars
  <2> SUFFICES ASSUME OwnerInv, Next, lastSeq' = lastSeq PROVE Ownership(log') = Ownership(log)
    BY DEF vars
  <2>1. ASSUME NEW e, AppendLocked(e) PROVE FALSE
    BY <2>1, HighSeqIsLast DEF AppendLocked, OwnerInv, IndInv, TypeOK
  <2>2. \E e \in log : Compact(e.seq + 1)
    BY <2>1 DEF Next, EmitTask, EmitDecision, EmitAck, ClaimOwnership, ReleaseOwnership, PublishContract
  <2> QED
    BY <2>2, CompactOwnership, ConstantsOK
<1>2. Spec => []OwnerInv
  BY OwnerInductive, PTL
<1> QED
  BY <1>1, <1>2, PTL DEF Spec, CompactionKeepsOwnership

-----------------------------------------------------------------------------
(* Contracts and decisions *)

\* The revision a reader finds is the highest of the contract's, or 0.
LEMMA RevisionOfHighest ==
  ASSUME NEW S, S \subseteq Event, NEW n
  PROVE  /\ \A c \in S : /\ c.type = "contract" /\ c.name = n
                         /\ \A d \in S : d.type = "contract" /\ d.name = n => d.revision <= c.revision
                         => RevisionOf(S, n) = c.revision
         /\ (\A d \in S : ~(d.type = "contract" /\ d.name = n)) => RevisionOf(S, n) = 0
<1> DEFINE N == {e.revision : e \in {f \in S : f.type = "contract" /\ f.name = n}} \cup {0}
<1>1. N \subseteq Nat
  BY ContractFields
<1>2. ASSUME NEW m \in N, \A k \in N : k <= m PROVE MaxOf(N) = m
  BY <1>1, <1>2 DEF MaxOf
<1>3. ASSUME NEW c \in S, c.type = "contract", c.name = n,
             \A d \in S : d.type = "contract" /\ d.name = n => d.revision <= c.revision
      PROVE  RevisionOf(S, n) = c.revision
  <2>1. c.revision \in N /\ \A k \in N : k <= c.revision
    BY <1>1, <1>3
  <2>2. MaxOf(N) = c.revision
    BY <1>2, <2>1
  <2> QED
    BY <2>2 DEF RevisionOf
<1>4. ASSUME \A d \in S : ~(d.type = "contract" /\ d.name = n) PROVE RevisionOf(S, n) = 0
  <2>1. N = {0}
    BY <1>4
  <2>2. MaxOf(N) = 0
    BY <1>2, <2>1
  <2> QED
    BY <2>2 DEF RevisionOf
<1> QED
  BY <1>3, <1>4

\* An event changes the revision of the contract it publishes and no other.
LEMMA AppendRevision ==
  ASSUME IndInv, NEW e, AppendLocked(e), NEW n \in Names,
         e \in Event, e.type = "contract" => e.revision > RevisionOf(log, e.name)
  PROVE  RevisionOf(log', n) =
           IF e.type = "contract" /\ e.name = n THEN e.revision ELSE RevisionOf(log, n)
<1>1. log' = log \cup {e} /\ log \subseteq Event
  BY DEF AppendLocked, IndInv, TypeOK
<1>2. CASE e.type = "contract" /\ e.name = n
  <2>1. /\ RevisionOf(log, n) \in Nat
        /\ \A d \in log : d.type = "contract" /\ d.name = n => d.revision <= RevisionOf(log, n)
    BY RevisionIsHighest DEF ContractsNamed, IndInv
  <2>2. \A d \in log' : d.type = "contract" => d.revision \in Nat
    BY <1>1, ContractFields
  <2>3. \A d \in log' : d.type = "contract" /\ d.name = n => d.revision <= e.revision
    BY <1>1, <1>2, <2>1, <2>2
  <2> QED
    BY SMTT(60), <1>1, <1>2, <2>3, RevisionOfHighest
<1>3. CASE ~(e.type = "contract" /\ e.name = n)
  <2>1. {f \in log' : f.type = "contract" /\ f.name = n} = {f \in log : f.type = "contract" /\ f.name = n}
    BY <1>1, <1>3
  <2> QED
    BY <1>3, <2>1 DEF RevisionOf
<1> QED
  BY <1>2, <1>3

\* A decision makes its author the one who decided under its title.
LEMMA AppendDecision ==
  ASSUME IndInv, NEW e, AppendLocked(e), NEW t \in Titles
  PROVE  DecidedBy(log', t) = IF e.type = "decision" /\ e.title = t THEN e.from ELSE DecidedBy(log, t)
<1>1. /\ e.seq \in Nat /\ log' = log \cup {e}
      /\ \A f \in log : f.seq \in Nat /\ f.seq < e.seq
  BY HighSeqIsLast, EventFields DEF AppendLocked, IndInv, TypeOK, Watermark
<1>2. CASE e.type = "decision" /\ e.title = t
  <2>1. DecisionsOn(log', t) = DecisionsOn(log, t) \cup {e}
    BY <1>1, <1>2 DEF DecisionsOn
  <2>2. \A f \in DecisionsOn(log', t) : f.seq <= e.seq
    BY <1>1, <2>1 DEF DecisionsOn
  <2>3. \A g \in DecisionsOn(log', t) : (\A f \in DecisionsOn(log', t) : f.seq <= g.seq) => g = e
    BY <1>1, <2>1 DEF DecisionsOn
  <2>4. Latest(DecisionsOn(log', t)) = e
    BY <2>1, <2>2, <2>3 DEF Latest
  <2> QED
    BY <1>2, <2>1, <2>4 DEF DecidedBy
<1>3. CASE ~(e.type = "decision" /\ e.title = t)
  <2>1. DecisionsOn(log', t) = DecisionsOn(log, t)
    BY <1>1, <1>3 DEF DecisionsOn
  <2> QED
    BY <1>3, <2>1 DEF DecidedBy
<1> QED
  BY <1>2, <1>3

\* Compaction keeps the latest contract and the latest decision of each name.
LEMMA CompactKeepsLatest ==
  ASSUME IndInv, NEW k \in Int, Compact(k), NEW e \in log,
         SameStateKey(e, e), \A f \in log : SameStateKey(e, f) => f.seq <= e.seq
  PROVE  e \in log'
<1> DEFINE removable == {f \in log : f.seq < k}
           remove    == removable \ StateCheckpoints(removable)
<1>1. e \notin remove
  <2>1. \A f \in log : f.seq \in Nat
    BY EventFields DEF IndInv, TypeOK
  <2>2. \A f \in log : SameStateKey(e, f) => ~(f.seq > e.seq)
    BY <2>1
  <2> QED
    BY <2>2 DEF StateCheckpoints
<1> QED
  BY <1>1 DEF Compact

LEMMA CompactRevision ==
  ASSUME IndInv, NEW k \in Int, Compact(k), NEW n \in Names
  PROVE  RevisionOf(log', n) = RevisionOf(log, n)
<1>1. /\ log \subseteq Event /\ log' \subseteq Event
      /\ \A d \in log' : d.type = "contract" => d \in log
  BY CompactInv DEF IndInv, TypeOK, Compact
<1>2. CASE ContractsNamed(n) = {}
  BY <1>1, <1>2, RevisionOfHighest DEF ContractsNamed
<1>3. CASE ContractsNamed(n) # {}
  <2>1. PICK c \in ContractsNamed(n) : \A d \in ContractsNamed(n) : d.seq <= c.seq
    BY <1>3 DEF IndInv, RevisionsRise
  <2>2. c \in log /\ c.type = "contract" /\ c.name = n
    BY DEF ContractsNamed
  <2>3. c \in log'
    BY <2>1, <2>2, CompactKeepsLatest DEF SameStateKey, ContractsNamed
  <2>4. ASSUME NEW d \in ContractsNamed(n) PROVE d.revision <= c.revision
    <3>1. d \in log /\ d.seq \in Nat /\ c.seq \in Nat /\ d.revision \in Nat /\ c.revision \in Nat
      BY <1>1, <2>2, EventFields, ContractFields DEF ContractsNamed
    <3>2. d = c \/ d.seq < c.seq
      BY <2>1, <2>2, <3>1 DEF IndInv, SeqUnique
    <3> QED
      BY <3>1, <3>2 DEF IndInv, RevisionsRise
  <2>5. RevisionOf(log, n) = c.revision
    BY <1>1, <2>2, <2>4, RevisionOfHighest DEF ContractsNamed
  <2>6. RevisionOf(log', n) = c.revision
    BY <1>1, <2>2, <2>3, <2>4, RevisionOfHighest DEF ContractsNamed
  <2> QED
    BY <2>5, <2>6
<1> QED
  BY <1>2, <1>3

LEMMA CompactDecision ==
  ASSUME IndInv, NEW k \in Int, Compact(k), NEW t \in Titles
  PROVE  DecidedBy(log', t) = DecidedBy(log, t)
<1>1. DecisionsOn(log', t) \subseteq DecisionsOn(log, t) /\ DecisionsOn(log, t) \subseteq log
  BY DEF Compact, DecisionsOn
<1>2. CASE DecisionsOn(log, t) = {}
  BY <1>1, <1>2 DEF DecidedBy
<1>3. CASE DecisionsOn(log, t) # {}
  <2> DEFINE c == Latest(DecisionsOn(log, t))
  <2>1. c \in DecisionsOn(log, t) /\ \A f \in DecisionsOn(log, t) : f.seq <= c.seq
    BY <1>1, <1>3, LatestExists, LogIsOrdered
  <2> HIDE DEF c
  <2>2. c \in log'
    BY <2>1, CompactKeepsLatest DEF SameStateKey, DecisionsOn
  <2>3. c \in DecisionsOn(log', t) /\ \A f \in DecisionsOn(log', t) : f.seq <= c.seq
    BY <1>1, <2>1, <2>2 DEF DecisionsOn
  <2>4. Latest(DecisionsOn(log', t)) = c
    BY <1>1, <2>3, LatestIs, LogIsOrdered
  <2> QED
    BY <1>3, <2>3, <2>4 DEF DecidedBy, c
<1> QED
  BY <1>2, <1>3

-----------------------------------------------------------------------------
(* The log implements the register *)

Revisions(S) == [n \in Names |-> RevisionOf(S, n)]
Decisions(S) == [t \in Titles |-> DecidedBy(S, t)]

\* An accepted operation is a step of the register; an event the register does
\* not know of, and a compaction, leave it as it is.
LEMMA RegisterStep ==
  ASSUME ConstantsOK, "shared" \notin ClaimModes, OwnerInv, [Next]_vars
  PROVE  [Reg!Next]_(Reg!rvars)
<1> USE DEF Revisions, Decisions
<1>0. IndInv
  BY DEF OwnerInv
<1>1. \A n \in Names : RevisionOf(log, n) \in Nat
  BY <1>0, RevisionIsHighest DEF IndInv
<1>2. ASSUME Ownership(log') = Ownership(log), Revisions(log') = Revisions(log), Decisions(log') = Decisions(log)
      PROVE  UNCHANGED Reg!rvars
  BY <1>2 DEF Reg!rvars
<1>3. CASE UNCHANGED vars
  BY <1>2, <1>3 DEF vars
<1>4. ASSUME NEW e \in Event, AppendLocked(e), e.type # "contract" PROVE Revisions(log') = Revisions(log)
  BY <1>0, <1>4, AppendRevision
<1>5. ASSUME NEW e, AppendLocked(e), e.type # "decision" PROVE Decisions(log') = Decisions(log)
  BY <1>0, <1>5, AppendDecision
<1>6. ASSUME NEW e, AppendLocked(e), e.type # "ownership" PROVE Ownership(log') = Ownership(log)
  BY <1>0, <1>6, OtherOwnership
<1>7. NextSeq \in Nat
  BY <1>0, HighSeqIsLast DEF IndInv, TypeOK, NextSeq
<1>8. ASSUME NEW a \in Agents, EmitTask(a) PROVE UNCHANGED Reg!rvars
  <2> DEFINE e == [type |-> "task", seq |-> NextSeq, from |-> a]
  <2>1. e \in Event /\ AppendLocked(e)
    BY <1>7, <1>8 DEF Event, TaskEvent, EmitTask
  <2> QED
    BY <1>2, <1>4, <1>5, <1>6, <2>1
<1>9. ASSUME NEW a \in Agents, NEW s \in AckSeqs, EmitAck(a, s) PROVE UNCHANGED Reg!rvars
  <2> DEFINE e == [type |-> "ack", seq |-> NextSeq, from |-> a, eventSeq |-> s]
  <2>1. e \in Event /\ AppendLocked(e)
    BY <1>7, <1>9 DEF Event, AckEvent, EmitAck, ConstantsOK
  <2> QED
    BY <1>2, <1>4, <1>5, <1>6, <2>1
<1>10. ASSUME NEW a \in Agents, NEW t \in Titles, EmitDecision(a, t) PROVE Reg!Next
  <2> DEFINE e == [type |-> "decision", seq |-> NextSeq, from |-> a, title |-> t]
  <2>1. e \in Event /\ AppendLocked(e)
    BY <1>7, <1>10 DEF Event, DecisionEvent, EmitDecision
  <2>2. Ownership(log') = Ownership(log) /\ Revisions(log') = Revisions(log)
    BY <1>4, <1>6, <2>1
  <2>3. \A u \in Titles : DecidedBy(log', u) = IF t = u THEN a ELSE DecidedBy(log, u)
    BY <1>0, <2>1, AppendDecision
  <2>4. Decisions(log') = [Decisions(log) EXCEPT ![t] = a]
    BY <2>3
  <2>5. Reg!Decide(a, t)
    BY <2>2, <2>4 DEF Reg!Decide
  <2> QED
    BY <2>5 DEF Reg!Next
<1>11. ASSUME NEW a \in Agents, NEW n \in Names, PublishContract(a, n) PROVE Reg!Next
  <2>1. PICK r \in 1..MaxRevision \cup {RevisionOf(log, n) + 1} :
          /\ r > RevisionOf(log, n)
          /\ AppendLocked([type |-> "contract", seq |-> NextSeq, from |-> a,
                           name |-> n, revision |-> r])
    BY <1>11 DEF PublishContract
  <2> DEFINE e == [type |-> "contract", seq |-> NextSeq, from |-> a, name |-> n, revision |-> r]
  <2>2. e \in Event
    <3>1. r \in Nat \ {0}
      BY <1>1, <2>1 DEF ConstantsOK
    <3> QED
      BY <1>7, <3>1 DEF Event, ContractEvent
  <2>3. Ownership(log') = Ownership(log) /\ Decisions(log') = Decisions(log)
    BY <1>5, <1>6, <2>1
  <2>4. \A m \in Names : RevisionOf(log', m) = IF n = m THEN r ELSE RevisionOf(log, m)
    BY <1>0, <2>1, <2>2, AppendRevision
  <2>5. Revisions(log')[n] > Revisions(log)[n] /\ Revisions(log') = [Revisions(log) EXCEPT ![n] = Revisions(log')[n]]
    BY <2>1, <2>4
  <2>6. Reg!Publish(n)
    BY <2>3, <2>5 DEF Reg!Publish
  <2> QED
    BY <2>6 DEF Reg!Next
<1>12. ASSUME NEW a \in Agents, NEW ps \in PathLists, NEW mode \in ClaimModes, ClaimOwnership(a, ps, mode)
       PROVE  Reg!Next
  <2> DEFINE e == [type |-> "ownership", seq |-> NextSeq, from |-> a, paths |-> ps, mode |-> mode]
  <2>1. e \in Event /\ AppendLocked(e)
    BY <1>7, <1>12 DEF Event, OwnershipEvent, Modes, ConstantsOK, ClaimOwnership
  <2>2. Revisions(log') = Revisions(log) /\ Decisions(log') = Decisions(log)
    BY <1>4, <1>5, <2>1
  <2>3. Reg!Grant(a, ps, mode)
    BY <1>0, <1>12, <2>2, ClaimIsGrant DEF Reg!Grant
  <2> QED
    BY <2>3 DEF Reg!Next, ConstantsOK
<1>13. ASSUME NEW a \in Agents, NEW ps \in PathLists, ReleaseOwnership(a, ps) PROVE Reg!Next
  <2> DEFINE e == [type |-> "ownership", seq |-> NextSeq, from |-> a, paths |-> ps, mode |-> "release"]
  <2>1. e \in Event /\ AppendLocked(e)
    BY <1>7, <1>13 DEF Event, OwnershipEvent, Modes, ConstantsOK, ReleaseOwnership
  <2>2. Revisions(log') = Revisions(log) /\ Decisions(log') = Decisions(log)
    BY <1>4, <1>5, <2>1
  <2>3. Reg!Yield(a, ps)
    BY <1>0, <1>13, <2>2, ReleaseIsYield DEF Reg!Yield
  <2> QED
    BY <2>3 DEF Reg!Next, ConstantsOK
<1>14. ASSUME NEW e \in log, Compact(e.seq + 1) PROVE UNCHANGED Reg!rvars
  <2>1. e.seq + 1 \in Int
    BY <1>0, EventFields DEF IndInv, TypeOK
  <2>2. Revisions(log') = Revisions(log) /\ Decisions(log') = Decisions(log)
    BY <1>0, <1>14, <2>1, CompactRevision, CompactDecision
  <2> QED
    BY <1>2, <1>14, <2>2, CompactOwnership
<1> QED
  BY <1>3, <1>8, <1>9, <1>10, <1>11, <1>12, <1>13, <1>14 DEF Next

\* When every claim is exclusive, the log, its appends and its compactions
\* implement the register of owners, contracts and decisions.
THEOREM LogImplementsRegistry ==
  ASSUME "shared" \notin ClaimModes
  PROVE  Spec => ImplementsRegistry
<1>1. Init => Reg!Init
  <2> SUFFICES ASSUME Init PROVE Reg!Init
    OBVIOUS
  <2>1. log = {}
    BY DEF Init
  <2>2. \A n \in Names : RevisionOf(log, n) = 0
    BY <2>1, RevisionOfHighest
  <2>3. \A t \in Titles : DecidedBy(log, t) = NoAgent
    BY <2>1 DEF DecidedBy, DecisionsOn
  <2>4. \A p \in Paths : OwnerOf(log, p) = NoOwner
    BY <2>1 DEF OwnerOf, Claims
  <2> QED
    BY <2>2, <2>3, <2>4 DEF Reg!Init, Ownership
<1>2. OwnerInv /\ [Next]_vars => [Reg!Next]_(Reg!rvars)
  BY RegisterStep, ConstantsOK
<1>3. Spec => []OwnerInv
  BY OwnerInductive, PTL
<1> QED
  BY <1>1, <1>2, <1>3, PTL DEF Spec, ImplementsRegistry, Reg!Spec

-----------------------------------------------------------------------------
(* Induction over numbers, and what folds go through. *)

\* A set that holds 0, and with every number the next, holds them all.  (The numbers
\* up to one that it lacks would have as many successors, among themselves, less 0.)
LEMMA InductionOnNat ==
  ASSUME NEW S, 0 \in S, \A n \in Nat : n \in S => n + 1 \in S
  PROVE  \A n \in Nat : n \in S
<1> SUFFICES ASSUME NEW n \in Nat, n \notin S PROVE FALSE
  OBVIOUS
<1> DEFINE T == {k \in 0..n : k \in S}
<1> DEFINE f == [k \in T |-> k + 1]
<1>1. IsFiniteSet(T)
  <2>1. IsFiniteSet(0..n)
    BY FS_Interval
  <2> QED
    BY <2>1, FS_Subset
<1>2. 0 \in T
  OBVIOUS
<1>3. f \in [T -> T \ {0}]
  <2> SUFFICES ASSUME NEW k \in T PROVE k + 1 \in T \ {0}
    OBVIOUS
  <2>1. k # n
    OBVIOUS
  <2> QED
    BY <2>1
<1>4. IsFiniteSet(T \ {0}) /\ Cardinality(T \ {0}) = Cardinality(T) - 1
  BY <1>1, <1>2, FS_RemoveElement
<1>5. Cardinality(T) \in Nat /\ Cardinality(T \ {0}) \in Nat
  BY <1>1, <1>4, FS_CardinalityType
<1>6. PICK x \in T, y \in T : x # y /\ f[x] = f[y]
  <2> HIDE DEF f, T
  <2>1. Cardinality(T \ {0}) < Cardinality(T)
    BY <1>4, <1>5
  <2> QED
    BY <1>1, <1>3, <1>4, <2>1, FS_PigeonHole
<1>7. f[x] = x + 1 /\ f[y] = y + 1
  OBVIOUS
<1> QED
  BY <1>6, <1>7

\* A nonempty set of numbers up to n has a maximum.
LEMMA Highest ==
  ASSUME NEW n \in Nat, NEW s \in SUBSET (1..n), s # {}
  PROVE  Max(s) \in s /\ \A y \in s : Max(s) >= y
<1> DEFINE S == {k \in Nat : \A t \in SUBSET (1..k) : t # {} => \E x \in t : \A y \in t : x >= y}
<1>1. 0 \in S
  <2>1. 1..0 = {}
    OBVIOUS
  <2>2. \A t \in SUBSET (1..0) : t = {}
    BY <2>1, Zenon
  <2> QED
    BY <2>2
<1>2. ASSUME NEW k \in Nat, k \in S PROVE k + 1 \in S
  <2> SUFFICES ASSUME NEW t \in SUBSET (1..(k + 1)), t # {} PROVE \E x \in t : \A y \in t : x >= y
    OBVIOUS
  <2>1. CASE k + 1 \in t
    BY <2>1
  <2>2. CASE k + 1 \notin t
    <3>1. t \in SUBSET (1..k)
      BY <2>2
    <3> QED
      BY <3>1, <1>2
  <2> QED
    BY <2>1, <2>2
<1>3. n \in S
  <2> HIDE DEF S
  <2> QED
    BY <1>1, <1>2, InductionOnNat
<1>4. \E x \in s : \A y \in s : x >= y
  BY <1>3
<1> QED
  BY <1>4 DEF Max

\* What a fold goes through: the value for the numbers up to k is that for the
\* numbers up to k - 1, and one step.
Folding(g, n, base, h) ==
  \A s \in SUBSET (1..n) : g[s] = IF s = {} THEN base ELSE h[<<Max(s), g[s \ {Max(s)}]>>]
LEMMA FoldExists ==
  ASSUME NEW n \in Nat, NEW X, NEW base \in X, NEW h \in [(1..n) \X X -> X]
  PROVE  \E g \in [SUBSET (1..n) -> X] : Folding(g, n, base, h)
<1> DEFINE Unfolds(g, k) == \A s \in SUBSET (1..k) : g[s] = IF s = {} THEN base ELSE h[<<Max(s), g[s \ {Max(s)}]>>]
<1> DEFINE Folds(k) == \E g \in [SUBSET (1..k) -> X] : Unfolds(g, k)
<1> DEFINE S == {k \in Nat : k <= n => Folds(k)}
<1>1. 0 \in S
  <2> DEFINE g == [s \in SUBSET (1..0) |-> base]
  <2>1. \A s \in SUBSET (1..0) : s = {}
    OBVIOUS
  <2>2. g \in [SUBSET (1..0) -> X] /\ Unfolds(g, 0)
    BY <2>1
  <2> HIDE DEF g, Unfolds
  <2> QED
    BY <2>2
<1>2. ASSUME NEW k \in Nat, k \in S PROVE k + 1 \in S
  <2> HIDE DEF Folds
  <2> SUFFICES ASSUME k + 1 <= n PROVE Folds(k + 1)
    OBVIOUS
  <2>0. Folds(k)
    BY <1>2
  <2> HIDE DEF S
  <2> USE DEF Folds
  <2>1. PICK g \in [SUBSET (1..k) -> X] : Unfolds(g, k)
    BY <2>0
  <2> DEFINE new == [s \in SUBSET (1..(k + 1)) |-> IF k + 1 \in s THEN h[<<k + 1, g[s \ {k + 1}]>>] ELSE g[s]]
  <2>2. ASSUME NEW s \in SUBSET (1..(k + 1)), k + 1 \in s
        PROVE  /\ s \ {k + 1} \in SUBSET (1..k) /\ Max(s) = k + 1 /\ s # {}
               /\ new[s] = h[<<k + 1, g[s \ {k + 1}]>>] /\ new[s \ {k + 1}] = g[s \ {k + 1}]
    <3>1. Max(s) \in s /\ Max(s) >= k + 1
      <4>1. s \in SUBSET (1..(k + 1)) /\ s # {} /\ k + 1 \in Nat
        BY <2>2
      <4>2. Max(s) \in s /\ \A y \in s : Max(s) >= y
        BY <4>1, Highest
      <4> QED
        BY <2>2, <4>2
    <3>2. s \ {k + 1} \in SUBSET (1..k)
      OBVIOUS
    <3>3. new[s] = h[<<k + 1, g[s \ {k + 1}]>>]
      BY <2>2
    <3>4. s \ {k + 1} \in SUBSET (1..(k + 1)) /\ k + 1 \notin s \ {k + 1}
      OBVIOUS
    <3>5. new[s \ {k + 1}] = g[s \ {k + 1}]
      <4> DEFINE t == s \ {k + 1}
      <4>1. t \in SUBSET (1..(k + 1)) /\ k + 1 \notin t
        BY <3>4
      <4> HIDE DEF t
      <4>2. new[t] = g[t]
        BY <4>1
      <4> QED
        BY <4>2 DEF t
    <3> HIDE DEF new, Folds, S
    <3>6. Max(s) = k + 1
      <4>1. \A x \in s : x \in 1..(k + 1)
        OBVIOUS
      <4>2. Max(s) \in 1..(k + 1)
        BY <3>1, <4>1
      <4>3. ASSUME NEW m \in 1..(k + 1), m >= k + 1 PROVE m = k + 1
        BY <4>3
      <4> QED
        BY <3>1, <4>2, <4>3
    <3> QED
      BY <2>2, <3>2, <3>3, <3>5, <3>6
  <2>3. ASSUME NEW s \in SUBSET (1..(k + 1)), k + 1 \notin s
        PROVE  /\ s \in SUBSET (1..k) /\ new[s] = g[s]
               /\ s # {} => s \ {Max(s)} \in SUBSET (1..k) /\ new[s \ {Max(s)}] = g[s \ {Max(s)}]
    <3>1. s \in SUBSET (1..k)
      BY <2>3
    <3>2. \A t \in SUBSET (1..k) : t \in SUBSET (1..(k + 1)) /\ k + 1 \notin t
      OBVIOUS
    <3>3. \A t \in SUBSET (1..k) : new[t] = g[t]
      BY <3>2
    <3> HIDE DEF new
    <3> QED
      BY <3>1, <3>3
  <2>4. new \in [SUBSET (1..(k + 1)) -> X]
    <3> SUFFICES ASSUME NEW s \in SUBSET (1..(k + 1)) PROVE new[s] \in X
      OBVIOUS
    <3>1. CASE k + 1 \in s
      <4>1. g[s \ {k + 1}] \in X /\ k + 1 \in 1..n
        BY <3>1, <2>2
      <4> QED
        BY <3>1, <4>1, <2>2
    <3>2. CASE k + 1 \notin s
      BY <3>2, <2>3
    <3> QED
      BY <3>1, <3>2
  <2>5. Unfolds(new, k + 1)
    <3> SUFFICES ASSUME NEW s \in SUBSET (1..(k + 1))
                 PROVE  new[s] = IF s = {} THEN base ELSE h[<<Max(s), new[s \ {Max(s)}]>>]
      OBVIOUS
    <3> HIDE DEF new
    <3>1. CASE k + 1 \in s
      BY <3>1, <2>2
    <3>2. CASE k + 1 \notin s
      BY <3>2, <2>1, <2>3
    <3> QED
      BY <3>1, <3>2
  <2> HIDE DEF new, Unfolds
  <2> QED
    BY <2>4, <2>5
<1>3. n \in S
  <2> HIDE DEF S, Folds, Unfolds
  <2> QED
    BY <1>1, <1>2, InductionOnNat
<1>4. Folds(n)
  <2> HIDE DEF Folds
  <2> QED
    BY <1>3
<1> QED
  BY <1>4 DEF Folding

\* The prefixes of a fold.
LEMMA PrefixMax ==
  ASSUME NEW n \in Nat, NEW k \in 1..n
  PROVE  /\ 1..k \in SUBSET (1..n) /\ 1..k # {} /\ Max(1..k) = k /\ (1..k) \ {k} = 1..(k - 1)
<1>1. 1..k \in SUBSET (1..n) /\ 1..k # {} /\ k \in 1..k
  OBVIOUS
<1>2. Max(1..k) \in 1..k /\ Max(1..k) >= k
  BY <1>1, Highest
<1> QED
  BY <1>1, <1>2

-----------------------------------------------------------------------------
(* The replay of the log. *)

\* What the first n lines come to.
Replayed(base, n) == FoldLeft(ApplyLine, base, [i \in 1..n |-> i - 1])
\* r goes through the values of a replay.
Replays(r, base, n) ==
  /\ r[0] = base
  /\ \A k \in 1..n : r[k] = ApplyLine(r[k - 1], k - 1)
  /\ Replayed(base, n) = r[n]
LEMMA ReplayOf ==
  ASSUME NEW n \in Nat, NEW X, NEW base \in X, \A o \in X, i \in 0..n : ApplyLine(o, i) \in X
  PROVE  \E r \in [0..n -> X] : Replays(r, base, n)
<1> DEFINE seq == [i \in 1..n |-> i - 1]
<1> DEFINE h == [x \in (1..n) \X X |-> ApplyLine(x[2], seq[x[1]])]
<1>1. h \in [(1..n) \X X -> X]
  <2> SUFFICES ASSUME NEW i \in 1..n, NEW o \in X PROVE ApplyLine(o, seq[i]) \in X
    OBVIOUS
  <2> QED
    OBVIOUS
<1>2. PICK g \in [SUBSET (1..n) -> X] : Folding(g, n, base, h)
  <2> HIDE DEF h
  <2> QED
    BY <1>1, FoldExists
<1>3. \A s \in SUBSET (1..n) : s # {} => Max(s) \in 1..n /\ s \ {Max(s)} \in SUBSET (1..n)
  BY Highest
<1> DEFINE Defines(iter) ==
      iter = [s \in SUBSET (1..n) |-> IF s = {} THEN base ELSE ApplyLine(iter[s \ {Max(s)}], seq[Max(s)])]
<1>4. Defines(g)
  <2> HIDE DEF seq
  <2> SUFFICES ASSUME NEW s \in SUBSET (1..n), s # {}
               PROVE  g[s] = ApplyLine(g[s \ {Max(s)}], seq[Max(s)])
    BY <1>2 DEF Folding
  <2>1. <<Max(s), g[s \ {Max(s)}]>> \in (1..n) \X X
    BY <1>3
  <2> QED
    BY <1>2, <2>1 DEF Folding
<1> DEFINE iter == CHOOSE it : Defines(it)
<1>5. Defines(iter)
  <2> HIDE DEF Defines
  <2> QED
    BY <1>4
<1>6. DOMAIN seq = 1..n
  OBVIOUS
<1>7. Replayed(base, n) = iter[1..n]
  BY <1>6, Zenon DEF FoldLeft, MapThenFoldSet, Replayed
<1> DEFINE r == [k \in 0..n |-> iter[1..k]]
<1>8. \A k \in 0..n : 1..k \in SUBSET (1..n)
  OBVIOUS
<1>9. \A s \in SUBSET (1..n) :
        /\ iter[s] = IF s = {} THEN base ELSE ApplyLine(iter[s \ {Max(s)}], seq[Max(s)])
        /\ s # {} => seq[Max(s)] = Max(s) - 1
  <2> HIDE DEF iter
  <2>1. \A s \in SUBSET (1..n) : s # {} => seq[Max(s)] = Max(s) - 1
    BY <1>3
  <2> HIDE DEF seq
  <2> QED
    BY <1>5, <2>1
<1> HIDE DEF iter, seq, h
<1>10. ASSUME NEW k \in 1..n
       PROVE  iter[1..k] = ApplyLine(iter[1..(k - 1)], k - 1)
  <2>1. 1..k \in SUBSET (1..n) /\ 1..k # {} /\ Max(1..k) = k /\ (1..k) \ {k} = 1..(k - 1)
    BY PrefixMax
  <2> QED
    BY <1>9, <2>1
<1>11. iter[1..0] = base
  <2>1. 1..0 = {} /\ {} \in SUBSET (1..n)
    OBVIOUS
  <2> QED
    BY <1>9, <2>1
<1>12. \A k \in 0..n : iter[1..k] \in X
  <2> DEFINE S == {k \in Nat : k <= n => iter[1..k] \in X}
  <2>1. 0 \in S
    BY <1>11
  <2>2. ASSUME NEW k \in Nat, k \in S PROVE k + 1 \in S
    <3> SUFFICES ASSUME k + 1 <= n PROVE iter[1..(k + 1)] \in X
      OBVIOUS
    <3>1. iter[1..(k + 1)] = ApplyLine(iter[1..k], k)
      <4>1. k + 1 \in 1..n /\ (k + 1) - 1 = k
        OBVIOUS
      <4> QED
        BY <1>10, <4>1
    <3> QED
      BY <2>2, <3>1
  <2> HIDE DEF S
  <2>3. \A k \in Nat : k \in S
    BY <2>1, <2>2, InductionOnNat
  <2> QED
    BY <2>3 DEF S
<1>13. /\ r \in [0..n -> X] /\ r[0] = base
       /\ \A k \in 1..n : r[k] = ApplyLine(r[k - 1], k - 1)
       /\ r[n] = iter[1..n]
  <2>1. \A k \in 0..n : r[k] = iter[1..k]
    OBVIOUS
  <2>2. \A k \in 1..n : k \in 0..n /\ k - 1 \in 0..n
    OBVIOUS
  <2> QED
    BY <1>10, <1>11, <1>12, <2>1, <2>2
<1> HIDE DEF r
<1> QED
  BY <1>7, <1>13 DEF Replays



LEMMA ExtendOwner ==
  ASSUME ConstantsOK, NEW S, Ordered(S), NEW e \in Event, \A f \in S : f.seq < e.seq, NEW p \in Paths
  PROVE  OwnerOf(S \cup {e}, p) =
           IF ~(e.type = "ownership" /\ p \in e.paths) THEN OwnerOf(S, p)
           ELSE IF e.mode # "release" THEN [agent |-> e.from, mode |-> e.mode]
           ELSE IF OwnerOf(S, p) # NoOwner /\ OwnerOf(S, p).agent # e.from THEN OwnerOf(S, p)
           ELSE NoOwner
<1> DEFINE T == S \cup {e}
<1> DEFINE c == Latest(Claims(S, p))
<1>1. e.seq \in Nat /\ \A f \in S : f.seq \in Nat /\ f \in Event
  BY EventFields DEF Ordered
<1>2. CASE e.type = "ownership" /\ p \in e.paths /\ e.mode # "release"
  <2>1. Claims(T, p) = Claims(S, p) \cup {e}
    BY <1>1, <1>2 DEF Claims
  <2>2. \A f \in Claims(T, p) : f.seq <= e.seq
    BY <1>1, <2>1 DEF Claims
  <2>3. \A g \in Claims(T, p) : (\A f \in Claims(T, p) : f.seq <= g.seq) => g = e
    BY <1>1, <2>1 DEF Claims
  <2>4. Latest(Claims(T, p)) = e
    BY <2>1, <2>2, <2>3 DEF Latest
  <2>5. ~Released(T, e, p)
    BY <1>1 DEF Released
  <2> QED
    BY <1>2, <2>1, <2>4, <2>5 DEF OwnerOf
<1>3. CASE ~(e.type = "ownership" /\ p \in e.paths /\ e.mode # "release")
  <2>1. Claims(T, p) = Claims(S, p)
    BY <1>1, <1>3 DEF Claims
  <2>2. CASE Claims(S, p) = {}
    BY <1>3, <2>1, <2>2 DEF OwnerOf
  <2>3. CASE Claims(S, p) # {}
    <3>1. c \in Claims(S, p)
      BY <2>3, LatestExists DEF Claims
    <3>2. Released(T, c, p) <=> \/ Released(S, c, p)
                                \/ e.type = "ownership" /\ p \in e.paths /\ e.mode = "release" /\ e.from = c.from
      BY <1>1, <3>1 DEF Released, Claims
    <3>3. [agent |-> c.from, mode |-> c.mode] # NoOwner
      BY <1>1, <3>1, OwnersAreNot DEF Claims
    <3>4. OwnerOf(S, p) = IF Released(S, c, p) THEN NoOwner ELSE [agent |-> c.from, mode |-> c.mode]
      BY <2>3 DEF OwnerOf
    <3>5. OwnerOf(T, p) = IF Released(T, c, p) THEN NoOwner ELSE [agent |-> c.from, mode |-> c.mode]
      BY <2>1, <2>3 DEF OwnerOf
    <3> HIDE DEF c, T
    <3> QED
      BY <1>3, <3>2, <3>3, <3>4, <3>5 DEF T
  <2> QED
    BY <2>2, <2>3
<1> QED
  BY <1>2, <1>3

\* A view of a log that ends before line n.
Before(S, n) == {e \in S : e.seq < n}
Holders == [agent : Agents, mode : Modes \ {"release"}] \cup {NoOwner}

LEMMA ApplyTyped ==
  ASSUME TypeOK, NEW owner \in [Paths -> Holders], NEW n \in Nat
  PROVE  ApplyLine(owner, n) \in [Paths -> Holders]
<1>1. CASE \E e \in log : e.seq = n
  <2> DEFINE e == CHOOSE e \in log : e.seq = n
  <2>1. e \in Event
    BY <1>1 DEF TypeOK
  <2>2. e.type = "ownership" => e.from \in Agents /\ e.mode \in Modes
    BY <2>1, OwnershipFields
  <2>3. ApplyLine(owner, n) = ApplyEvent(owner, e)
    BY <1>1 DEF ApplyLine
  <2> HIDE DEF e
  <2>4. \A p \in Paths : ApplyEvent(owner, e)[p] \in Holders
    BY <2>2 DEF ApplyEvent, Holders
  <2> QED
    BY <2>3, <2>4 DEF ApplyEvent
<1>2. CASE ~\E e \in log : e.seq = n
  BY <1>2 DEF ApplyLine
<1> QED
  BY <1>1, <1>2

LEMMA LineByLine ==
  ASSUME ConstantsOK, TypeOK, SeqUnique, NEW n \in Nat
  PROVE  ApplyLine(Ownership(Before(log, n)), n) = Ownership(Before(log, n + 1))
<1>1. \A e \in log : e \in Event /\ e.seq \in Nat
  BY EventFields DEF TypeOK
<1>2. Ordered(Before(log, n))
  BY <1>1 DEF Ordered, Before, SeqUnique
<1>3. CASE ~\E e \in log : e.seq = n
  <2>1. Before(log, n + 1) = Before(log, n)
    BY <1>1, <1>3 DEF Before
  <2> QED
    BY <1>3, <2>1 DEF ApplyLine
<1>4. CASE \E e \in log : e.seq = n
  <2>1. PICK e \in log : e.seq = n
    BY <1>4
  <2>2. (CHOOSE f \in log : f.seq = n) = e
    BY <2>1 DEF SeqUnique
  <2>3. Before(log, n + 1) = Before(log, n) \cup {e}
    BY <1>1, <2>1 DEF Before, SeqUnique
  <2>4. \A f \in Before(log, n) : f.seq < e.seq
    BY <2>1 DEF Before
  <2>5. ApplyLine(Ownership(Before(log, n)), n) = ApplyEvent(Ownership(Before(log, n)), e)
    BY <2>1, <2>2 DEF ApplyLine
  <2>6. ASSUME NEW p \in Paths
        PROVE  ApplyEvent(Ownership(Before(log, n)), e)[p] = OwnerOf(Before(log, n + 1), p)
    <3>1. OwnerOf(Before(log, n + 1), p) =
           IF ~(e.type = "ownership" /\ p \in e.paths) THEN OwnerOf(Before(log, n), p)
           ELSE IF e.mode # "release" THEN [agent |-> e.from, mode |-> e.mode]
           ELSE IF OwnerOf(Before(log, n), p) # NoOwner /\ OwnerOf(Before(log, n), p).agent # e.from
                THEN OwnerOf(Before(log, n), p)
           ELSE NoOwner
      BY <1>1, <1>2, <2>3, <2>4, ExtendOwner
    <3>2. Ownership(Before(log, n))[p] = OwnerOf(Before(log, n), p)
      BY DEF Ownership
    <3> QED
      BY <3>1, <3>2 DEF ApplyEvent
  <2> QED
    BY <2>5, <2>6 DEF ApplyEvent, Ownership
<1> QED
  BY <1>3, <1>4

LEMMA ReplayIs ==
  ASSUME ConstantsOK, TypeOK, SeqUnique, \A e \in log : e.seq <= MaxSeq
  PROVE  OwnershipIsReplayed
<1> DEFINE N == MaxSeq + 1
<1>1. N \in Nat
  BY DEF ConstantsOK
<1> DEFINE X == [Paths -> Holders]
<1>2. NoOwners \in X
  BY DEF NoOwners, Holders
<1>3. \A owner \in X, i \in 0..N : ApplyLine(owner, i) \in X
  BY <1>1, ApplyTyped
<1> HIDE DEF N, X
<1>4. PICK r \in [0..N -> X] : Replays(r, NoOwners, N)
  BY <1>1, <1>2, <1>3, ReplayOf
<1> DEFINE S == {k \in Nat : k <= N => r[k] = Ownership(Before(log, k))}
<1>5. 0 \in S
  <2>1. \A e \in log : e.seq \in Nat
    BY EventFields DEF TypeOK
  <2>2. Before(log, 0) = {}
    BY <2>1 DEF Before
  <2>3. \A p \in Paths : OwnerOf({}, p) = NoOwner
    BY DEF OwnerOf, Claims
  <2>4. Ownership({}) = NoOwners
    BY <2>3 DEF Ownership, NoOwners
  <2> QED
    BY <1>4, <2>2, <2>4 DEF Replays
<1>6. ASSUME NEW k \in Nat, k \in S PROVE k + 1 \in S
  <2> SUFFICES ASSUME k + 1 <= N PROVE r[k + 1] = Ownership(Before(log, k + 1))
    OBVIOUS
  <2>1. r[k] = Ownership(Before(log, k))
    BY <1>1, <1>6
  <2>2. k + 1 \in 1..N /\ (k + 1) - 1 = k
    BY <1>1
  <2>3. r[k + 1] = ApplyLine(r[k], k)
    BY <1>4, <2>2 DEF Replays
  <2> QED
    BY <2>1, <2>3, LineByLine
<1>7. N \in S
  <2> HIDE DEF S
  <2> QED
    BY <1>1, <1>5, <1>6, InductionOnNat
<1>8. Before(log, N) = log
  <2>1. \A e \in log : e.seq \in Nat
    BY EventFields DEF TypeOK
  <2> QED
    BY <1>1, <2>1 DEF Before, N, ConstantsOK
<1>9. Ownership(log) = r[N]
  BY <1>7, <1>8
<1> QED
  BY <1>4, <1>9, Zenon DEF Replays, OwnershipIsReplayed, ReplayOwnership, Replayed, N

\* No number beyond the bound is given.
Numbered == lastSeq <= MaxSeq
LEMMA NumberedStep == ASSUME ConstantsOK, IndInv, Numbered, [Next]_vars PROVE Numbered'
<1>1. CASE UNCHANGED vars
  BY <1>1 DEF Numbered, vars
<1>2. CASE \E e : AppendLocked(e)
  BY <1>2, HighSeqIsLast DEF AppendLocked, Numbered, IndInv, TypeOK, ConstantsOK
<1>3. CASE \E keepFrom \in Int : Compact(keepFrom)
  BY <1>3 DEF Compact, Numbered
<1> QED
  BY <1>1, <1>2, <1>3, NextAppendsOrCompacts DEF Appends

\* What a reader finds by taking the last claim of each path is what the replay of
\* ownershipFromEvents, event by event, comes to (coordinator.ts).
THEOREM ReplayFindsOwners == Spec => []OwnershipIsReplayed
<1>1. Init => Numbered
  BY ConstantsOK DEF Init, Numbered, ConstantsOK
<1>2. IndInv /\ Numbered => OwnershipIsReplayed
  <2> SUFFICES ASSUME IndInv, Numbered PROVE OwnershipIsReplayed
    OBVIOUS
  <2>1. \A e \in log : e.seq \in Nat /\ e.seq <= lastSeq
    BY EventFields DEF IndInv, TypeOK, Watermark
  <2>2. \A e \in log : e.seq <= MaxSeq
    BY <2>1, ConstantsOK DEF Numbered, ConstantsOK, IndInv, TypeOK
  <2> QED
    BY <2>2, ReplayIs, ConstantsOK DEF IndInv
<1>3. ASSUME IndInv, Numbered, [Next]_vars PROVE Numbered'
  BY <1>3, NumberedStep, ConstantsOK
<1> QED
  BY <1>1, <1>2, <1>3, Inductive, PTL DEF Spec

-----------------------------------------------------------------------------
(* The outbox: the sum of the bundled files. *)

Kept == [stored : Nat, of : Texts, isTruncated : BOOLEAN]

\* total goes through the sums of the first bundled files.
Sums(total, kept) ==
  /\ total[0] = 0
  /\ \A k \in 1..Len(kept) : total[k] = total[k - 1] + kept[k].stored
  /\ StoredBytes(kept) = total[Len(kept)]

LEMMA SumExists ==
  ASSUME NEW kept \in Seq(Kept)
  PROVE  \E total \in [0..Len(kept) -> Nat] : Sums(total, kept)
<1> DEFINE n == Len(kept)
<1> DEFINE h == [x \in (1..n) \X Nat |-> x[2] + kept[x[1]].stored]
<1>0. n \in Nat /\ DOMAIN kept = 1..n /\ \A i \in 1..n : kept[i].stored \in Nat
  <2>1. \A k \in Kept : k.stored \in Nat
    BY DEF Kept
  <2>2. \A i \in 1..n : kept[i] \in Kept
    OBVIOUS
  <2> QED
    BY <2>1, <2>2
<1> HIDE DEF n
<1>1. h \in [(1..n) \X Nat -> Nat]
  BY <1>0
<1>2. PICK g \in [SUBSET (1..n) -> Nat] : Folding(g, n, 0, h)
  <2> HIDE DEF h
  <2> QED
    BY <1>0, <1>1, FoldExists
<1>3. \A s \in SUBSET (1..n) : s # {} => Max(s) \in 1..n /\ s \ {Max(s)} \in SUBSET (1..n)
  BY <1>0, Highest
<1> DEFINE Defines(iter) ==
      iter = [s \in SUBSET (1..n) |-> IF s = {} THEN 0 ELSE iter[s \ {Max(s)}] + kept[Max(s)].stored]
<1>4. Defines(g)
  <2> SUFFICES ASSUME NEW s \in SUBSET (1..n), s # {}
               PROVE  g[s] = g[s \ {Max(s)}] + kept[Max(s)].stored
    BY <1>2 DEF Folding
  <2>1. <<Max(s), g[s \ {Max(s)}]>> \in (1..n) \X Nat
    BY <1>3
  <2> QED
    BY <1>2, <2>1 DEF Folding
<1> DEFINE iter == CHOOSE it : Defines(it)
<1>5. Defines(iter)
  <2> HIDE DEF Defines
  <2> QED
    BY <1>4
<1>7. StoredBytes(kept) = iter[1..n]
  BY <1>0, Zenon DEF FoldLeft, MapThenFoldSet, StoredBytes
<1> DEFINE r == [k \in 0..n |-> iter[1..k]]
<1>9. \A s \in SUBSET (1..n) : iter[s] = IF s = {} THEN 0 ELSE iter[s \ {Max(s)}] + kept[Max(s)].stored
  <2> HIDE DEF iter
  <2> QED
    BY <1>5
<1> HIDE DEF iter, h
<1>10. ASSUME NEW k \in 1..n PROVE iter[1..k] = iter[1..(k - 1)] + kept[k].stored
  <2>1. 1..k \in SUBSET (1..n) /\ 1..k # {} /\ Max(1..k) = k /\ (1..k) \ {k} = 1..(k - 1)
    BY <1>0, PrefixMax
  <2> QED
    BY <1>9, <2>1
<1>11. iter[1..0] = 0
  <2>1. 1..0 = {} /\ {} \in SUBSET (1..n)
    OBVIOUS
  <2> QED
    BY <1>9, <2>1
<1>12. \A k \in 0..n : iter[1..k] \in Nat
  <2> DEFINE S == {k \in Nat : k <= n => iter[1..k] \in Nat}
  <2>1. 0 \in S
    BY <1>11
  <2>2. ASSUME NEW k \in Nat, k \in S PROVE k + 1 \in S
    <3> SUFFICES ASSUME k + 1 <= n PROVE iter[1..(k + 1)] \in Nat
      OBVIOUS
    <3>1. k + 1 \in 1..n /\ (k + 1) - 1 = k
      BY <1>0
    <3>2. iter[1..(k + 1)] = iter[1..k] + kept[k + 1].stored
      BY <1>10, <3>1
    <3>3. iter[1..k] \in Nat
      BY <1>0, <2>2
    <3> QED
      BY <1>0, <3>1, <3>2, <3>3
  <2> HIDE DEF S
  <2>3. \A k \in Nat : k \in S
    BY <2>1, <2>2, InductionOnNat
  <2> QED
    BY <2>3 DEF S
<1>13. /\ r \in [0..n -> Nat] /\ r[0] = 0
       /\ \A k \in 1..n : r[k] = r[k - 1] + kept[k].stored
       /\ r[n] = iter[1..n]
  <2>1. \A k \in 0..n : r[k] = iter[1..k]
    OBVIOUS
  <2>2. \A k \in 1..n : k \in 0..n /\ k - 1 \in 0..n
    BY <1>0
  <2> QED
    BY <1>0, <1>10, <1>11, <1>12, <2>1, <2>2
<1> HIDE DEF r
<1> QED
  BY <1>7, <1>13 DEF Sums, n

\* One more file adds what is stored of it.
LEMMA SumOfMore ==
  ASSUME NEW kept \in Seq(Kept), NEW k \in Kept
  PROVE  /\ StoredBytes(kept) \in Nat
         /\ StoredBytes(Append(kept, k)) = StoredBytes(kept) + k.stored
<1> DEFINE more == Append(kept, k)
           n == Len(kept)
<1>1. /\ more \in Seq(Kept) /\ n \in Nat /\ Len(more) = n + 1 /\ more[n + 1] = k
      /\ \A i \in 1..n : more[i] = kept[i]
  OBVIOUS
<1>2. PICK total \in [0..n -> Nat] : Sums(total, kept)
  BY SumExists
<1>3. PICK other \in [0..(n + 1) -> Nat] : Sums(other, more)
  BY <1>1, SumExists
<1> HIDE DEF more, n
<1> DEFINE S == {j \in Nat : j <= n => other[j] = total[j]}
<1>4. 0 \in S
  BY <1>1, <1>2, <1>3 DEF Sums
<1>5. ASSUME NEW j \in Nat, j \in S PROVE j + 1 \in S
  <2> SUFFICES ASSUME j + 1 <= n PROVE other[j + 1] = total[j + 1]
    OBVIOUS
  <2>1. j + 1 \in 1..n /\ j + 1 \in 1..(n + 1) /\ (j + 1) - 1 = j /\ other[j] = total[j]
    BY <1>1, <1>5
  <2>2. total[j + 1] = total[j] + kept[j + 1].stored
    BY <1>2, <2>1 DEF Sums, n
  <2>3. other[j + 1] = other[j] + more[j + 1].stored
    BY <1>1, <1>3, <2>1 DEF Sums
  <2> QED
    BY <1>1, <2>1, <2>2, <2>3
<1>6. other[n] = total[n]
  <2> HIDE DEF S
  <2>1. n \in S
    BY <1>1, <1>4, <1>5, InductionOnNat
  <2> QED
    BY <1>1, <2>1 DEF S
<1>7. StoredBytes(kept) = total[n]
  BY <1>2 DEF Sums, n
<1>8. StoredBytes(more) = other[n + 1] /\ other[n + 1] = other[n] + k.stored
  <2>1. n + 1 \in 1..(n + 1) /\ (n + 1) - 1 = n
    BY <1>1
  <2> QED
    BY <1>1, <1>3, <2>1 DEF Sums
<1> QED
  BY <1>1, <1>2, <1>6, <1>7, <1>8 DEF more

LEMMA SumOfNone == StoredBytes(<<>>) = 0
<1>1. <<>> \in Seq(Kept) /\ Len(<<>>) = 0
  OBVIOUS
<1>2. PICK total \in [0..0 -> Nat] : Sums(total, <<>>)
  BY <1>1, SumExists
<1> QED
  BY <1>1, <1>2 DEF Sums

\* What is kept once of files is a list of them.
LEMMA OnlyOnceIs == ASSUME NEW files \in Seq(Sources) PROVE OnlyOnce(files) \in Seq(Sources)
<1> DEFINE n == Len(files)
           Add(seen, f) == IF Contains(seen, f) THEN seen ELSE Append(seen, f)
<1> DEFINE h == [x \in (1..n) \X Seq(Sources) |-> Add(x[2], files[x[1]])]
<1>0. n \in Nat /\ DOMAIN files = 1..n /\ \A i \in 1..n : files[i] \in Sources
  OBVIOUS
<1>1. \A i \in 1..n, seen \in Seq(Sources) : Add(seen, files[i]) \in Seq(Sources)
  BY <1>0
<1>2. <<>> \in Seq(Sources)
  OBVIOUS
<1> HIDE DEF n, Add
<1>3. h \in [(1..n) \X Seq(Sources) -> Seq(Sources)]
  BY <1>1
<1>4. PICK g \in [SUBSET (1..n) -> Seq(Sources)] : Folding(g, n, <<>>, h)
  <2> HIDE DEF h
  <2> QED
    BY <1>0, <1>2, <1>3, FoldExists
<1>5. \A s \in SUBSET (1..n) : s # {} => Max(s) \in 1..n /\ s \ {Max(s)} \in SUBSET (1..n)
  BY <1>0, Highest
<1> DEFINE Defines(iter) ==
      iter = [s \in SUBSET (1..n) |-> IF s = {} THEN <<>> ELSE Add(iter[s \ {Max(s)}], files[Max(s)])]
<1>6. Defines(g)
  <2> SUFFICES ASSUME NEW s \in SUBSET (1..n), s # {}
               PROVE  g[s] = Add(g[s \ {Max(s)}], files[Max(s)])
    BY <1>4 DEF Folding
  <2>1. <<Max(s), g[s \ {Max(s)}]>> \in (1..n) \X Seq(Sources)
    BY <1>5
  <2> QED
    BY <1>4, <2>1 DEF Folding
<1> DEFINE iter == CHOOSE it : Defines(it)
<1>7. Defines(iter)
  <2> HIDE DEF Defines
  <2> QED
    BY <1>6
<1>8. OnlyOnce(files) = iter[1..n]
  BY <1>0, Zenon DEF FoldLeft, MapThenFoldSet, OnlyOnce, Add
<1>9. \A s \in SUBSET (1..n) : iter[s] = IF s = {} THEN <<>> ELSE Add(iter[s \ {Max(s)}], files[Max(s)])
  <2> HIDE DEF iter
  <2> QED
    BY <1>7
<1> HIDE DEF iter, h
<1> DEFINE S == {k \in Nat : k <= n => iter[1..k] \in Seq(Sources)}
<1>10. 0 \in S
  <2>1. 1..0 = {} /\ {} \in SUBSET (1..n)
    OBVIOUS
  <2> QED
    BY <1>2, <1>9, <2>1
<1>11. ASSUME NEW k \in Nat, k \in S PROVE k + 1 \in S
  <2> SUFFICES ASSUME k + 1 <= n PROVE iter[1..(k + 1)] \in Seq(Sources)
    OBVIOUS
  <2>1. k + 1 \in 1..n /\ (k + 1) - 1 = k /\ iter[1..k] \in Seq(Sources)
    BY <1>0, <1>11
  <2>2. /\ 1..(k + 1) \in SUBSET (1..n) /\ 1..(k + 1) # {} /\ Max(1..(k + 1)) = k + 1
        /\ (1..(k + 1)) \ {k + 1} = 1..k
    BY <1>0, <2>1, PrefixMax
  <2>3. iter[1..(k + 1)] = Add(iter[1..k], files[k + 1])
    BY <1>9, <2>2
  <2> QED
    BY <1>1, <2>1, <2>3
<1>12. n \in S
  <2> HIDE DEF S
  <2> QED
    BY <1>0, <1>10, <1>11, InductionOnNat
<1> QED
  BY <1>0, <1>8, <1>12



-----------------------------------------------------------------------------
(* The outbox: its inductive invariant. *)

\* The parts that a context file may come to hold.
Parts == (UNION {ToSet(p) : p \in Pages}) \cup {"more", "start", "current", "end"}
Exact(k) == ~k.isTruncated => k.stored = Redacted(k.of, k.of.bytes)
WellKept(kept) ==
  /\ kept \in Seq(Kept) /\ StoredBytes(kept) <= MaxTotalBytes
  /\ \A i \in 1..Len(kept) : kept[i].stored <= MaxFileBytes /\ Exact(kept[i])

Parcels ==
  [pc : {"tell", "apply", "send", "undo"}, id : Nat, tell : Seq(Receivers), plan : Seq(Parts), read : Seq(Parts),
   files : Seq(Sources), kept : Seq(Kept)]
AtWork(s) == sender[s] # AtDesk
ParcelSound(r) ==
  /\ WellKept(r.kept) /\ r.id < sends
  /\ r.pc = "apply" => r.tell # <<>> /\ r.plan = r.read \o Block
  /\ r.pc = "send" => [id |-> r.id, files |-> r.kept] \in bundles
  /\ \A t \in tasks : t.id # r.id
BundlesSound ==
  /\ \A b \in bundles : b.id < sends /\ WellKept(b.files)
  /\ \A b \in bundles : b.id \in {t.id : t \in tasks} \cup orphans \/ AtWorkOn(b.id)
TasksSound == \A t \in tasks : t.id < sends /\ \E b \in bundles : b.id = t.id /\ t = Reference(b.id, b.files)

OutboxInv ==
  /\ page \in [Receivers -> Seq(Parts)] /\ text \in [Sources -> Texts] /\ sends \in Nat
  /\ sender \in [Senders -> {AtDesk} \cup Parcels]
  /\ \A s \in Senders : AtWork(s) => ParcelSound(sender[s])
  /\ \A s, q \in Senders : AtWork(s) /\ AtWork(q) /\ sender[s].id = sender[q].id => s = q
  /\ BundlesSound /\ TasksSound
  /\ \A t \in tasks : t.id \in Nat
  /\ \A b \in bundles : b.id \in Nat

LEMMA BlockIs == Block \in Seq(Parts)
<1>1. "start" \in Parts /\ "current" \in Parts /\ "end" \in Parts
  BY DEF Parts
<1> QED
  BY <1>1 DEF Block

LEMMA OutboxWhole == OutboxInv => HandoffsAreWhole
<1> SUFFICES ASSUME OutboxInv PROVE HandoffsAreWhole
  OBVIOUS
<1>1. \A t \in tasks : ReadHandoffBundle(t)
  <2> SUFFICES ASSUME NEW t \in tasks PROVE ReadHandoffBundle(t)
    OBVIOUS
  <2>1. PICK b \in bundles : b.id = t.id /\ t = Reference(b.id, b.files)
    BY DEF OutboxInv, TasksSound
  <2>2. WellKept(b.files)
    BY DEF OutboxInv, BundlesSound
  <2>3. StoredBytes(b.files) <= MaxTotalBytes /\ \A i \in DOMAIN b.files : b.files[i].stored <= MaxFileBytes
    BY <2>2 DEF WellKept
  <2> HIDE DEF OutboxInv
  <2> QED
    BY <2>1, <2>3 DEF ReadHandoffBundle
<1>2. \A b \in bundles : \A i \in DOMAIN b.files :
       ~b.files[i].isTruncated => b.files[i].stored = Redacted(b.files[i].of, b.files[i].of.bytes)
  <2> SUFFICES ASSUME NEW b \in bundles, NEW i \in DOMAIN b.files PROVE Exact(b.files[i])
    BY DEF Exact
  <2>1. WellKept(b.files)
    BY DEF OutboxInv, BundlesSound
  <2> QED
    BY <2>1 DEF WellKept
<1>3. ASSUME NEW s \in Senders, sender[s].pc = "apply" PROVE OwnParts(sender[s].read) \subseteq OwnParts(sender[s].plan)
  <2> DEFINE r == sender[s]
             read == r.read
  <2>1. AtWork(s)
    BY <1>3 DEF AtDesk, AtWork
  <2>2. r \in Parcels /\ r.plan = read \o Block
    BY <1>3, <2>1 DEF OutboxInv, ParcelSound, AtWork
  <2> HIDE DEF r
  <2>3. read \in Seq(Parts) /\ Block \in Seq(Parts)
    <3>1. \A p \in Parcels : p.read \in Seq(Parts)
      BY DEF Parcels
    <3> QED
      BY <2>2, <3>1, BlockIs
  <2> HIDE DEF read
  <2>4. \A i \in DOMAIN read : i \in DOMAIN (read \o Block) /\ (read \o Block)[i] = read[i]
    BY <2>3
  <2>5. ToSet(read) \subseteq ToSet(read \o Block)
    BY <2>4 DEF ToSet
  <2> QED
    BY <2>2, <2>5 DEF OwnParts, read, r
<1> QED
  BY <1>1, <1>2, <1>3 DEF HandoffsAreWhole, OutboxInv, BundlesSound

LEMMA OutboxBegins == OutboxInit => OutboxInv
<1>1. \A p \in Pages : p \in Seq(Parts)
  <2> SUFFICES ASSUME NEW p \in Pages PROVE p \in Seq(Parts)
    OBVIOUS
  <2>1. p \in Seq(ToSet(p)) /\ ToSet(p) \subseteq Parts
    BY OutboxAssumption DEF Parts
  <2> QED
    BY <2>1
<1> QED
  BY <1>1 DEF OutboxInit, OutboxInv, AtDesk, AtWork, BundlesSound, TasksSound

LEMMA Captures ==
  ASSUME NEW t \in Texts, NEW room \in Nat
  PROVE  /\ Capture(t, room) \in Kept /\ Capture(t, room).stored <= room /\ Exact(Capture(t, room))
<1> DEFINE captured == SmallerOf(t.bytes, room)
           whole == CutTo(t, captured)
           redacted == Redacted(t, whole)
<1>1. t.bytes \in Nat /\ t.wide \in BOOLEAN /\ Growth \in Nat
  BY OutboxAssumption
<1>2. \A n \in Nat : CutTo(t, n) \in Nat /\ CutTo(t, n) <= n /\ Redacted(t, n) \in Nat
  <2> SUFFICES ASSUME NEW n \in Nat PROVE CutTo(t, n) \in Nat /\ CutTo(t, n) <= n /\ Redacted(t, n) \in Nat
    OBVIOUS
  <2>1. n % 2 \in 0..1 /\ n % 2 <= n
    OBVIOUS
  <2> QED
    BY <1>1, <2>1 DEF CutTo, Redacted
<1>3. captured \in Nat /\ captured <= room /\ captured <= t.bytes
  BY <1>1 DEF SmallerOf
<1> DEFINE k == Capture(t, room)
<1>4. /\ k = [stored |-> IF redacted > room THEN CutTo(t, room) ELSE redacted, of |-> t,
               isTruncated |-> t.bytes > captured \/ whole < captured \/ redacted > room]
  BY DEF Capture
<1> HIDE DEF k, captured
<1>5. whole \in Nat /\ whole <= captured /\ redacted \in Nat
  BY <1>2, <1>3
<1> HIDE DEF whole
<1>6. ASSUME ~k.isTruncated PROVE k.stored = Redacted(t, t.bytes)
  <2>1. ~(t.bytes > captured \/ whole < captured \/ redacted > room)
    BY <1>4, <1>6
  <2>2. t.bytes = captured /\ whole = captured
    BY <1>1, <1>3, <1>5, <2>1
  <2>3. redacted = Redacted(t, t.bytes)
    BY <2>2
  <2> HIDE DEF redacted
  <2> QED
    BY <1>4, <2>1, <2>3
<1> HIDE DEF redacted
<1>7. k.stored \in Nat /\ k.stored <= room /\ k.of = t /\ k.isTruncated \in BOOLEAN
  BY <1>2, <1>4, <1>5
<1>8. k \in Kept
  BY <1>4, <1>7 DEF Kept
<1> QED
  BY <1>6, <1>7, <1>8 DEF k, Exact

LEMMA KeepsMore ==
  ASSUME NEW kept, WellKept(kept), NEW t \in Texts
  PROVE  WellKept(Append(kept, Capture(t, RoomLeftIn(kept))))
<1> DEFINE room == RoomLeftIn(kept)
           k == Capture(t, room)
<1>1. kept \in Seq(Kept) /\ StoredBytes(kept) \in Nat /\ StoredBytes(kept) <= MaxTotalBytes
  <2>1. \E x : x \in Kept
    BY Captures DEF Kept
  <2> QED
    BY <2>1, SumOfMore DEF WellKept
<1>2. room \in Nat /\ room <= MaxFileBytes /\ room <= MaxTotalBytes - StoredBytes(kept)
  BY <1>1, OutboxAssumption DEF RoomLeftIn, SmallerOf
<1> HIDE DEF room
<1>3. k \in Kept /\ k.stored <= room /\ Exact(k)
  BY <1>2, Captures
<1> HIDE DEF k
<1>4. k.stored \in Nat /\ k.stored <= MaxFileBytes /\ StoredBytes(Append(kept, k)) = StoredBytes(kept) + k.stored
  <2>1. \A other \in Kept : other.stored \in Nat
    BY DEF Kept
  <2>2. k.stored \in Nat /\ MaxFileBytes \in Nat
    BY <1>3, <2>1, OutboxAssumption
  <2>3. k.stored <= MaxFileBytes
    BY <1>2, <1>3, <2>2
  <2> QED
    BY <1>1, <1>3, <2>2, <2>3, SumOfMore
<1>5. StoredBytes(Append(kept, k)) <= MaxTotalBytes
  BY <1>1, <1>2, <1>3, <1>4, OutboxAssumption
<1>6. Append(kept, k) \in Seq(Kept) /\ \A i \in 1..Len(Append(kept, k)) : Append(kept, k)[i] = k \/ (i \in 1..Len(kept) /\ Append(kept, k)[i] = kept[i])
  BY <1>1, <1>3
<1>7. \A i \in 1..Len(Append(kept, k)) : Append(kept, k)[i].stored <= MaxFileBytes /\ Exact(Append(kept, k)[i])
  BY <1>3, <1>4, <1>6 DEF WellKept
<1> QED
  BY <1>5, <1>6, <1>7 DEF WellKept, k, room

\* A command goes on with what it carries.
LEMMA ParcelGoesOn ==
  ASSUME OutboxInv, NEW s \in Senders, AtWork(s), NEW r \in Parcels, Moves(s, r), r.id = sender[s].id,
         WellKept(r.kept), r.pc = "apply" => r.tell # <<>> /\ r.plan = r.read \o Block,
         r.pc = "send" => [id |-> r.id, files |-> r.kept] \in bundles',
         sender[s].pc \in {"send", "undo"} => r.pc \in {"send", "undo"},
         bundles \subseteq bundles',
         \A b \in bundles' \ bundles : b.id = r.id /\ WellKept(b.files) /\ r.pc \in {"send", "undo"},
         page' \in [Receivers -> Seq(Parts)], UNCHANGED <<text, tasks, orphans, sends>>
  PROVE  OutboxInv'
<1>1. /\ sender \in [Senders -> {AtDesk} \cup Parcels] /\ sender' = [sender EXCEPT ![s] = r]
      /\ sender[s] \in Parcels /\ ParcelSound(sender[s]) /\ sends \in Nat /\ r.id \in Nat
  BY DEF OutboxInv, Moves, AtWork, Parcels
<1>2. /\ sender' \in [Senders -> {AtDesk} \cup Parcels] /\ sender'[s] = r
      /\ \A q \in Senders : q # s => sender'[q] = sender[q]
  BY <1>1
<1>3. \A q \in Senders : AtWork(q)' => AtWork(q) /\ sender'[q].id = sender[q].id
  BY <1>2 DEF AtWork
<1>4. ASSUME NEW q \in Senders, AtWork(q)' PROVE ParcelSound(sender[q])'
  <2>1. CASE q = s
    BY <1>1, <1>2, <2>1 DEF ParcelSound
  <2>2. CASE q # s
    <3>1. ParcelSound(sender[q]) /\ sender'[q] = sender[q]
      BY <1>2, <1>3, <1>4, <2>2 DEF OutboxInv
    <3> QED
      BY <3>1 DEF ParcelSound
  <2> QED
    BY <2>1, <2>2
<1>5. \A p, q \in Senders : AtWork(p)' /\ AtWork(q)' /\ sender'[p].id = sender'[q].id => p = q
  BY <1>3 DEF OutboxInv
<1>6. \A id : AtWorkOn(id) => AtWorkOn(id)'
  BY <1>2 DEF AtWorkOn
<1>7. \A b \in bundles' : b.id \in Nat /\ b.id < sends' /\ WellKept(b.files)
  BY <1>1 DEF OutboxInv, BundlesSound, ParcelSound
<1>8. \A b \in bundles' : b.id \in {t.id : t \in tasks'} \cup orphans' \/ AtWorkOn(b.id)'
  BY <1>2, <1>6 DEF OutboxInv, BundlesSound, AtWorkOn
<1>9. TasksSound'
  BY DEF OutboxInv, TasksSound
<1> QED
  BY <1>2, <1>4, <1>5, <1>7, <1>8, <1>9 DEF OutboxInv, BundlesSound

\* A command ends: its bundle is carried by a task, withdrawn or left behind.
LEMMA ParcelLeaves ==
  ASSUME OutboxInv, NEW s \in Senders, AtWork(s), Moves(s, AtDesk), NEW id, id = sender[s].id,
         bundles' \subseteq bundles, \A b \in bundles \ bundles' : b.id = id,
         tasks \subseteq tasks', \A t \in tasks' \ tasks : t.id = id,
         \A b \in bundles' : b.id = id => b.id \in {t.id : t \in tasks'} \cup orphans' \/ sender[s].pc \notin {"send", "undo"},
         \A t \in tasks' \ tasks : \E b \in bundles' : b.id = t.id /\ t = Reference(b.id, b.files),
         orphans \subseteq orphans', UNCHANGED <<page, text, sends>>
  PROVE  OutboxInv'
<1>1. /\ sender \in [Senders -> {AtDesk} \cup Parcels] /\ sender' = [sender EXCEPT ![s] = AtDesk]
      /\ sender[s] \in Parcels /\ ParcelSound(sender[s]) /\ sends \in Nat /\ id \in Nat /\ id < sends
  BY DEF OutboxInv, Moves, AtWork, Parcels, ParcelSound
<1>2. /\ sender' \in [Senders -> {AtDesk} \cup Parcels] /\ sender'[s] = AtDesk
      /\ \A q \in Senders : q # s => sender'[q] = sender[q]
  BY <1>1
<1>3. \A q \in Senders : AtWork(q)' => q # s /\ AtWork(q) /\ sender'[q] = sender[q]
  BY <1>2 DEF AtWork
<1>4. ASSUME NEW q \in Senders, AtWork(q)' PROVE ParcelSound(sender[q])'
  <2> DEFINE r == sender[q]
             bundle == [id |-> r.id, files |-> r.kept]
  <2>1. r.id # id /\ ParcelSound(r) /\ sender'[q] = r
    BY <1>3, <1>4 DEF OutboxInv
  <2>2. bundle.id = r.id
    OBVIOUS
  <2>3. r.pc = "send" => bundle \in bundles'
    BY <2>1, <2>2 DEF ParcelSound
  <2>4. \A t \in tasks' : t.id # r.id
    BY <2>1 DEF ParcelSound
  <2>5. WellKept(r.kept) /\ r.id < sends' /\ (r.pc = "apply" => r.tell # <<>> /\ r.plan = r.read \o Block)
    BY <2>1 DEF ParcelSound
  <2> HIDE DEF r
  <2> QED
    BY <2>1, <2>3, <2>4, <2>5 DEF ParcelSound
<1>5. \A p, q \in Senders : AtWork(p)' /\ AtWork(q)' /\ sender'[p].id = sender'[q].id => p = q
  BY <1>3 DEF OutboxInv
<1>6. \A t \in tasks : t.id # id
  BY <1>1 DEF ParcelSound
<1>7. ASSUME NEW b \in bundles'
      PROVE  b.id \in {t.id : t \in tasks'} \cup orphans' \/ AtWorkOn(b.id)'
  <2>1. b.id \in {t.id : t \in tasks} \cup orphans \/ AtWorkOn(b.id)
    BY DEF OutboxInv, BundlesSound
  <2>2. CASE AtWorkOn(b.id)
    <3>1. PICK q \in Senders : sender[q].pc \in {"send", "undo"} /\ sender[q].id = b.id
      BY <2>2 DEF AtWorkOn
    <3> QED
      BY <1>2, <3>1 DEF AtWorkOn
  <2> QED
    BY <2>1, <2>2
<1>8. \A b \in bundles' : b.id \in Nat /\ b.id < sends' /\ WellKept(b.files)
  BY DEF OutboxInv, BundlesSound
<1>9. ASSUME NEW t \in tasks'
      PROVE  t.id \in Nat /\ t.id < sends' /\ \E b \in bundles' : b.id = t.id /\ t = Reference(b.id, b.files)
  <2>1. CASE t \in tasks
    BY <1>6, <2>1 DEF OutboxInv, TasksSound
  <2>2. CASE t \notin tasks
    BY <1>1, <2>2
  <2> QED
    BY <2>1, <2>2
<1> QED
  BY <1>2, <1>4, <1>5, <1>7, <1>8, <1>9 DEF OutboxInv, BundlesSound, TasksSound

LEMMA ParcelAtWork ==
  ASSUME OutboxInv, NEW s \in Senders, sender[s].pc # "out"
  PROVE  AtWork(s) /\ sender[s] \in Parcels /\ ParcelSound(sender[s])
BY DEF OutboxInv, AtWork, AtDesk

LEMMA EditsKeep ==
  ASSUME OutboxInv,
         \/ BeginTemplate \/ EndTemplate \/ DeleteTemplate
         \/ \E r \in Receivers : EditPage(r)
         \/ \E f \in Sources : EditText(f)
  PROVE  OutboxInv'
<1>1. page' \in [Receivers -> Seq(Parts)]
  <2>1. ASSUME NEW r \in Receivers, EditPage(r) PROVE page' \in [Receivers -> Seq(Parts)]
    <3>1. page \in [Receivers -> Seq(Parts)] /\ page[r] \in Seq(Parts)
      BY DEF OutboxInv
    <3>2. Append(page[r], "more") \in Seq(Parts) /\ \A i \in DOMAIN page[r] : RemoveAt(page[r], i) \in Seq(Parts)
      <4> DEFINE p == page[r]
      <4>1. p \in Seq(Parts)
        BY <3>1
      <4> HIDE DEF p
      <4>2. ASSUME NEW i \in DOMAIN p PROVE RemoveAt(p, i) \in Seq(Parts)
        <5> DEFINE q == SubSeq(p, 1, i - 1)
                   t == SubSeq(p, i + 1, Len(p))
        <5>1. q \in Seq(Parts)
          BY <4>1
        <5>2. t \in Seq(Parts)
          BY <4>1
        <5>3. RemoveAt(p, i) = q \o t
          BY DEF RemoveAt
        <5> HIDE DEF q, t
        <5> QED
          BY <5>1, <5>2, <5>3
      <4>3. "more" \in Parts
        BY DEF Parts
      <4> QED
        BY <4>1, <4>2, <4>3 DEF p
    <3> QED
      BY <2>1, <3>1, <3>2 DEF EditPage
  <2> QED
    BY <2>1 DEF OutboxInv, BeginTemplate, EndTemplate, DeleteTemplate, EditText
<1>2. text' \in [Sources -> Texts]
  BY DEF OutboxInv, BeginTemplate, EndTemplate, DeleteTemplate, EditText, EditPage
<1>3. UNCHANGED <<bundles, tasks, sender, orphans, sends>>
  BY DEF BeginTemplate, EndTemplate, DeleteTemplate, EditText, EditPage, outboxBounds
<1> QED
  BY <1>1, <1>2, <1>3 DEF OutboxInv, BundlesSound, TasksSound, ParcelSound, AtWork, AtWorkOn

LEMMA BeginKeeps == ASSUME OutboxInv, NEW s \in Senders, BeginSend(s) PROVE OutboxInv'
<1>1. PICK files \in Requests, from \in Receivers, to \in Receivers, templated \in BOOLEAN :
        Moves(s, [pc |-> "tell", id |-> sends, tell |-> <<from, to>>, plan |-> <<>>, read |-> <<>>,
                  files |-> IF templated /\ LoadTemplate # <<>> THEN OnlyOnce(files \o LoadTemplate) ELSE files,
                  kept |-> <<>>])
  BY DEF BeginSend
<1> DEFINE all == IF templated /\ LoadTemplate # <<>> THEN OnlyOnce(files \o LoadTemplate) ELSE files
           r == [pc |-> "tell", id |-> sends, tell |-> <<from, to>>, plan |-> <<>>, read |-> <<>>,
                 files |-> all, kept |-> <<>>]
<1>2. all \in Seq(Sources)
  <2>1. files \in Seq(Sources) /\ LoadTemplate \in Seq(Sources)
    BY OutboxAssumption DEF LoadTemplate
  <2>2. files \o LoadTemplate \in Seq(Sources)
    BY <2>1
  <2> HIDE DEF all
  <2> QED
    BY <2>1, <2>2, OnlyOnceIs DEF all
<1> HIDE DEF all
<1>3. /\ sender' = [sender EXCEPT ![s] = r] /\ sends' = sends + 1 /\ sends \in Nat
      /\ UNCHANGED <<page, text, bundles, tasks, orphans>>
  BY <1>1 DEF BeginSend, OutboxInv, Moves, all
<1>4. r \in Parcels /\ r.id = sends /\ r.pc = "tell" /\ r.kept = <<>>
  BY <1>2, <1>3 DEF Parcels
<1> HIDE DEF r
<1>5. WellKept(<<>>)
  BY SumOfNone, OutboxAssumption DEF WellKept
<1>6. sender[s].pc = "out" /\ sender[s] = AtDesk
  BY DEF BeginSend, OutboxInv, Parcels, AtDesk
<1>7. /\ sender' \in [Senders -> {AtDesk} \cup Parcels] /\ sender'[s] = r
      /\ \A q \in Senders : q # s => sender'[q] = sender[q]
  BY <1>3, <1>4 DEF OutboxInv
<1>8. \A b \in bundles : b.id \in Nat /\ b.id < sends
  BY DEF OutboxInv, BundlesSound
<1>9. \A t \in tasks : t.id \in Nat /\ t.id < sends
  BY DEF OutboxInv, TasksSound
<1>10. \A q \in Senders : q # s /\ AtWork(q)' => AtWork(q) /\ sender[q].id \in Nat /\ sender[q].id < sends
  <2>1. \A p \in Parcels : p.id \in Nat
    BY DEF Parcels
  <2> QED
    BY <1>7, <2>1 DEF OutboxInv, AtWork, ParcelSound
<1>11. ASSUME NEW q \in Senders, AtWork(q)' PROVE ParcelSound(sender[q])'
  <2>1. CASE q = s
    BY <1>3, <1>4, <1>5, <1>7, <1>9, <2>1 DEF ParcelSound
  <2>2. CASE q # s
    BY <1>3, <1>7, <1>10, <1>11, <2>2 DEF ParcelSound, OutboxInv
  <2> QED
    BY <2>1, <2>2
<1>12. \A p, q \in Senders : AtWork(p)' /\ AtWork(q)' /\ sender'[p].id = sender'[q].id => p = q
  <2>1. \A q \in Senders : q # s /\ AtWork(q)' => sender'[q].id # sender'[s].id
    BY <1>3, <1>4, <1>7, <1>10
  <2> QED
    BY <1>7, <1>10, <2>1 DEF OutboxInv
<1>13. \A id : AtWorkOn(id) => AtWorkOn(id)'
  BY <1>6, <1>7 DEF AtWorkOn
<1>14. BundlesSound' /\ TasksSound'
  <2>1. \A b \in bundles : b.id < sends'
    BY <1>3, <1>8
  <2>2. \A t \in tasks : t.id < sends'
    BY <1>3, <1>9
  <2> QED
    BY <1>3, <1>13, <2>1, <2>2 DEF OutboxInv, BundlesSound, TasksSound
<1> QED
  BY <1>3, <1>7, <1>11, <1>12, <1>14 DEF OutboxInv

LEMMA PickupsKeep ==
  ASSUME OutboxInv, NEW s \in Senders, PlanPickup(s) \/ ApplyPickup(s)
  PROVE  OutboxInv'
<1> DEFINE r == sender[s]
<1>1. AtWork(s) /\ r \in Parcels /\ ParcelSound(r)
  BY ParcelAtWork DEF PlanPickup, ApplyPickup
<1>2. /\ r.tell \in Seq(Receivers) /\ r.plan \in Seq(Parts) /\ r.read \in Seq(Parts) /\ WellKept(r.kept)
      /\ page \in [Receivers -> Seq(Parts)] /\ (r.pc = "apply" => r.tell # <<>>)
  BY <1>1 DEF Parcels, ParcelSound, OutboxInv
<1>3. CASE PlanPickup(s)
  <2> DEFINE parts == page[Head(r.tell)]
  <2>0. r.pc = "tell" /\ r.tell # <<>> /\ UNCHANGED <<page, text, bundles, tasks, orphans, sends>>
    BY <1>3 DEF PlanPickup, outboxBounds
  <2>1. Head(r.tell) \in Receivers /\ Tail(r.tell) \in Seq(Receivers) /\ parts \in Seq(Parts)
    BY <1>2, <2>0
  <2>2. CASE Tells(parts)
    <3> DEFINE n == [r EXCEPT !.pc = "apply", !.read = parts, !.plan = Planned(parts)]
    <3>1. Planned(parts) = parts \o Block /\ Block \in Seq(Parts)
      <4> HIDE DEF parts
      <4> QED
        BY <2>2, BlockIs DEF Tells, Planned
    <3>2. parts \o Block \in Seq(Parts)
      BY <2>1, <3>1
    <3>3. Moves(s, n)
      BY <1>3, <2>2 DEF PlanPickup
    <3> HIDE DEF parts
    <3>4. n \in Parcels /\ n.id = r.id /\ n.kept = r.kept /\ n.tell = r.tell /\ n.pc = "apply" /\ n.read = parts /\ n.plan = parts \o Block
      BY <1>1, <2>1, <3>1, <3>2 DEF Parcels
    <3> HIDE DEF n
    <3> QED
      BY <1>1, <1>2, <2>0, <3>3, <3>4, ParcelGoesOn
  <2>3. CASE ~Tells(parts)
    <3> DEFINE n == [r EXCEPT !.tell = Tail(@)]
    <3>1. Moves(s, n)
      BY <1>3, <2>3 DEF PlanPickup
    <3>2. n \in Parcels /\ n.id = r.id /\ n.kept = r.kept /\ n.pc = "tell"
      BY <1>1, <2>0, <2>1 DEF Parcels
    <3> HIDE DEF n
    <3> QED
      BY <1>1, <1>2, <2>0, <3>1, <3>2, ParcelGoesOn
  <2> QED
    BY <2>2, <2>3
<1>4. CASE ApplyPickup(s)
  <2> DEFINE n == [r EXCEPT !.pc = "tell", !.tell = Tail(@), !.read = <<>>, !.plan = <<>>]
  <2>1. /\ r.pc = "apply" /\ Moves(s, n) /\ page' = [page EXCEPT ![Head(r.tell)] = r.plan]
        /\ UNCHANGED <<text, bundles, tasks, orphans, sends>>
    BY <1>4 DEF ApplyPickup, outboxBounds
  <2>2. Tail(r.tell) \in Seq(Receivers)
    BY <1>2, <2>1
  <2>3. n \in Parcels /\ n.id = r.id /\ n.kept = r.kept /\ n.pc = "tell"
    <3> DEFINE tail == Tail(r.tell)
               m == [r EXCEPT !.pc = "tell", !.tell = tail]
    <3>1. m \in Parcels /\ m.id = r.id /\ m.kept = r.kept /\ m.pc = "tell"
      <4> HIDE DEF tail
      <4>1. tail \in Seq(Receivers)
        BY <2>2 DEF tail
      <4> HIDE DEF r
      <4> QED
        BY <1>1, <4>1 DEF Parcels
    <3>2. n = [m EXCEPT !.read = <<>>, !.plan = <<>>]
      BY <1>1 DEF Parcels
    <3>3. <<>> \in Seq(Parts)
      OBVIOUS
    <3> HIDE DEF m, n
    <3> QED
      BY <3>1, <3>2, <3>3 DEF Parcels
  <2>4. page' \in [Receivers -> Seq(Parts)]
    BY <1>2, <2>1
  <2> HIDE DEF n
  <2> QED
    BY <1>1, <1>2, <2>1, <2>3, <2>4, ParcelGoesOn
<1> QED
  BY <1>3, <1>4

LEMMA ReadKeeps == ASSUME OutboxInv, NEW s \in Senders, ReadFile(s) PROVE OutboxInv'
<1> DEFINE r == sender[s]
           more == Append(r.kept, Capture(text[Head(r.files)], RoomLeftIn(r.kept)))
           n == [r EXCEPT !.files = Tail(@), !.kept = more]
<1>1. AtWork(s) /\ r \in Parcels /\ ParcelSound(r)
  BY ParcelAtWork DEF ReadFile
<1>2. r.pc = "tell" /\ r.files # <<>> /\ Moves(s, n) /\ UNCHANGED <<page, text, bundles, tasks, orphans, sends>>
  BY DEF ReadFile, outboxBounds
<1>3. r.files \in Seq(Sources) /\ WellKept(r.kept) /\ text \in [Sources -> Texts] /\ page \in [Receivers -> Seq(Parts)]
  BY <1>1 DEF Parcels, ParcelSound, OutboxInv
<1>4. Tail(r.files) \in Seq(Sources) /\ text[Head(r.files)] \in Texts
  BY <1>2, <1>3
<1>5. WellKept(more)
  BY <1>3, <1>4, KeepsMore
<1> HIDE DEF more
<1>6. more \in Seq(Kept)
  BY <1>5 DEF WellKept
<1>7. n \in Parcels /\ n.id = r.id /\ n.kept = more /\ n.pc = "tell"
  BY <1>1, <1>2, <1>4, <1>6 DEF Parcels
<1> HIDE DEF n
<1> QED
  BY <1>1, <1>2, <1>3, <1>5, <1>7, ParcelGoesOn

LEMMA BundleKeeps ==
  ASSUME OutboxInv, NEW s \in Senders, StoreBundle(s) \/ SendHandoffFails(s)
  PROVE  OutboxInv'
<1> DEFINE r == sender[s]
           bundle == [id |-> r.id, files |-> r.kept]
<1>1. AtWork(s) /\ r \in Parcels /\ ParcelSound(r)
  BY ParcelAtWork DEF StoreBundle, SendHandoffFails
<1>2. WellKept(r.kept) /\ page \in [Receivers -> Seq(Parts)]
  BY <1>1 DEF ParcelSound, OutboxInv
<1>3. CASE StoreBundle(s)
  <2> DEFINE n == [r EXCEPT !.pc = "send"]
  <2>1. /\ r.pc = "tell" /\ Moves(s, n) /\ bundles' = bundles \cup {bundle}
        /\ UNCHANGED <<page, text, tasks, orphans, sends>>
    BY <1>3 DEF StoreBundle, outboxBounds
  <2>2. n \in Parcels /\ n.id = r.id /\ n.kept = r.kept /\ n.pc = "send"
    BY <1>1 DEF Parcels
  <2>3. \A b \in bundles' \ bundles : b.id = r.id /\ b.files = r.kept
    BY <2>1
  <2> HIDE DEF n
  <2> QED
    BY <1>1, <1>2, <2>1, <2>2, <2>3, ParcelGoesOn
<1>4. CASE SendHandoffFails(s)
  <2> DEFINE n == [r EXCEPT !.pc = "undo"]
  <2>1. r.pc = "send" /\ Moves(s, n) /\ UNCHANGED <<page, text, bundles, tasks, orphans, sends>>
    BY <1>4 DEF SendHandoffFails
  <2>2. n \in Parcels /\ n.id = r.id /\ n.kept = r.kept /\ n.pc = "undo"
    BY <1>1 DEF Parcels
  <2> HIDE DEF n
  <2> QED
    BY <1>1, <1>2, <2>1, <2>2, ParcelGoesOn
<1> QED
  BY <1>3, <1>4

LEMMA EndsKeep ==
  ASSUME OutboxInv, NEW s \in Senders,
         SendHandoff(s) \/ SendPlainTask(s) \/ RemoveBundle(s) \/ SenderDies(s)
  PROVE  OutboxInv'
<1> DEFINE r == sender[s]
           t == Reference(r.id, r.kept)
<1>1. AtWork(s) /\ r \in Parcels /\ ParcelSound(r)
  BY ParcelAtWork DEF SendHandoff, SendPlainTask, RemoveBundle, SenderDies
<1>2. t.id = r.id
  BY DEF Reference
<1>3. CASE SendHandoff(s)
  <2>1. /\ r.pc = "send" /\ tasks' = tasks \cup {t} /\ Moves(s, AtDesk)
        /\ UNCHANGED <<page, text, bundles, orphans, sends>>
    BY <1>3 DEF SendHandoff, outboxBounds
  <2>2. [id |-> r.id, files |-> r.kept] \in bundles'
    BY <1>1, <2>1 DEF ParcelSound
  <2>3. \E b \in bundles' : b.id = t.id /\ t = Reference(b.id, b.files)
    BY <1>2, <2>2
  <2> HIDE DEF t
  <2>4. t \in tasks' /\ \A other \in tasks' \ tasks : other = t
    BY <2>1
  <2>5. \A b \in bundles' : b.id = r.id => b.id \in {other.id : other \in tasks'} \cup orphans'
    BY <1>2, <2>4
  <2> QED
    BY <1>1, <1>2, <2>1, <2>3, <2>4, <2>5, ParcelLeaves
<1>4. CASE SendPlainTask(s)
  <2>1. /\ r.pc = "tell" /\ Moves(s, AtDesk) /\ UNCHANGED <<page, text, bundles, tasks, orphans, sends>>
    BY <1>4 DEF SendPlainTask, outboxBounds
  <2> QED
    BY <1>1, <2>1, ParcelLeaves
<1>5. CASE RemoveBundle(s)
  <2>1. /\ Moves(s, AtDesk) /\ bundles' = {b \in bundles : b.id # r.id}
        /\ UNCHANGED <<page, text, tasks, orphans, sends>>
    BY <1>5 DEF RemoveBundle, outboxBounds
  <2>2. bundles' \subseteq bundles /\ (\A b \in bundles \ bundles' : b.id = r.id) /\ \A b \in bundles' : b.id # r.id
    BY <2>1
  <2> QED
    BY <1>1, <2>1, <2>2, ParcelLeaves
<1>6. CASE SenderDies(s)
  <2>1. /\ Moves(s, AtDesk) /\ orphans' = orphans \cup {r.id} /\ UNCHANGED <<page, text, bundles, tasks, sends>>
    BY <1>6 DEF SenderDies
  <2> QED
    BY <1>1, <2>1, ParcelLeaves
<1> QED
  BY <1>3, <1>4, <1>5, <1>6

\* Every task that carries a bundle can be worked on with it, and no bundle that nobody
\* carries is left but by a command that died (sendHandoff, readHandoffBundle).
THEOREM HandoffsStayWhole == OutboxSpec => []HandoffsAreWhole
<1>1. ASSUME OutboxInv, [OutboxNext]_outboxVars PROVE OutboxInv'
  <2>1. CASE UNCHANGED outboxVars
    BY <1>1, <2>1 DEF outboxVars, OutboxInv, BundlesSound, TasksSound, ParcelSound, AtWork, AtWorkOn
  <2>2. CASE OutboxNext
    BY <1>1, <2>2, EditsKeep, BeginKeeps, PickupsKeep, ReadKeeps, BundleKeeps, EndsKeep DEF OutboxNext
  <2> QED
    BY <1>1, <2>1, <2>2
<1> QED
  BY <1>1, OutboxBegins, OutboxWhole, PTL DEF OutboxSpec
=============================================================================
