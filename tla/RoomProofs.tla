----------------------------- MODULE RoomProofs ------------------------------
(* Proofs about DesignRoom, that it implements TaskBoard, and about Boundaries. *)
EXTENDS DesignRoom, Boundaries, Integers, FiniteSetTheorems, TLAPS

-----------------------------------------------------------------------------
(* The elements of a sequence at some positions. *)

LEMMA RankIs ==
  ASSUME NEW n \in Nat, NEW S \in SUBSET (1..n)
  PROVE  /\ IsFiniteSet(S) /\ Cardinality(S) \in Nat
         /\ \A i \in S : RankIn(S, i) \in 1..Cardinality(S)
         /\ \A i, j \in S : i < j => RankIn(S, i) < RankIn(S, j)
         /\ \A k \in 1..Cardinality(S) : \E i \in S : RankIn(S, i) = k
<1> DEFINE UpTo(i) == {j \in S : j <= i}
           c == Cardinality(S)
<1>1. IsFiniteSet(S) /\ c \in Nat
  <2>1. IsFiniteSet(1..n)
    BY FS_Interval
  <2> QED
    BY <2>1, FS_Subset, FS_CardinalityType
<1>2. \A i \in S : /\ IsFiniteSet(UpTo(i)) /\ Cardinality(UpTo(i)) \in Nat /\ Cardinality(UpTo(i)) <= c
                   /\ Cardinality(UpTo(i)) # 0
  <2> SUFFICES ASSUME NEW i \in S
               PROVE  /\ IsFiniteSet(UpTo(i)) /\ Cardinality(UpTo(i)) \in Nat /\ Cardinality(UpTo(i)) <= c
                      /\ Cardinality(UpTo(i)) # 0
    OBVIOUS
  <2>1. UpTo(i) \in SUBSET S /\ UpTo(i) # {}
    OBVIOUS
  <2> HIDE DEF UpTo
  <2>2. IsFiniteSet(UpTo(i)) /\ Cardinality(UpTo(i)) <= c
    BY <1>1, <2>1, FS_Subset
  <2> QED
    BY <2>1, <2>2, FS_CardinalityType, FS_EmptySet
<1>3. \A i, j \in S : i < j => Cardinality(UpTo(i)) < Cardinality(UpTo(j))
  <2> SUFFICES ASSUME NEW i \in S, NEW j \in S, i < j PROVE Cardinality(UpTo(i)) < Cardinality(UpTo(j))
    OBVIOUS
  <2>1. UpTo(i) \in SUBSET UpTo(j) /\ j \in UpTo(j) /\ j \notin UpTo(i)
    <3>1. \A k \in S : k \in 1..n
      OBVIOUS
    <3>2. \A k \in S : k <= i => k <= j
      BY <3>1
    <3>3. ~(j <= i) /\ j <= j
      BY <3>1
    <3> QED
      BY <3>2, <3>3
  <2> HIDE DEF UpTo
  <2>2. Cardinality(UpTo(i)) <= Cardinality(UpTo(j)) /\ Cardinality(UpTo(i)) # Cardinality(UpTo(j))
    BY <1>2, <2>1, FS_Subset
  <2> QED
    BY <1>2, <2>2
<1>4. \A i \in S : RankIn(S, i) = Cardinality(UpTo(i))
  BY DEF RankIn
<1> HIDE DEF UpTo
<1> DEFINE rank == [i \in S |-> RankIn(S, i)]
<1>5. \A i \in S : RankIn(S, i) \in 1..c
  BY <1>1, <1>2, <1>4
<1>6. rank \in Injection(S, 1..c)
  <2>1. \A i, j \in S : rank[i] = rank[j] => i = j
    <3> SUFFICES ASSUME NEW i \in S, NEW j \in S, i # j PROVE rank[i] # rank[j]
      OBVIOUS
    <3>1. i < j \/ j < i
      <4>1. i \in Int /\ j \in Int
        OBVIOUS
      <4> QED
        BY <4>1
    <3>2. Cardinality(UpTo(i)) \in Int /\ Cardinality(UpTo(j)) \in Int
      BY <1>2
    <3> QED
      BY <1>3, <1>4, <3>1, <3>2
  <2>2. rank \in [S -> 1..c]
    BY <1>5
  <2> HIDE DEF rank
  <2> QED
    BY <2>1, <2>2 DEF Injection, IsInjective
<1>7. IsFiniteSet(1..c) /\ Cardinality(1..c) = c
  BY <1>1, FS_Interval
<1>8. rank \in Surjection(S, 1..c)
  BY <1>6, <1>7, FS_Injection
<1>9. \A k \in 1..c : \E i \in S : rank[i] = k
  BY <1>8 DEF Surjection
<1> QED
  BY <1>1, <1>3, <1>4, <1>5, <1>9

\* A set of positions that is not empty has a last one.
LEMMA LastPosition ==
  ASSUME NEW n \in Nat, NEW S \in SUBSET (1..n), S # {}
  PROVE  \E i \in S : \A j \in S : j <= i
<1>1. IsFiniteSet(S) /\ Cardinality(S) \in Nat /\ Cardinality(S) # 0
  BY RankIs, FS_EmptySet
<1>2. PICK i \in S : RankIn(S, i) = Cardinality(S)
  <2>1. Cardinality(S) \in 1..Cardinality(S)
    BY <1>1
  <2> QED
    BY <2>1, RankIs
<1>3. \A j \in S : RankIn(S, j) \in 1..Cardinality(S) /\ (i < j => RankIn(S, i) < RankIn(S, j))
  BY RankIs
<1>4. \A j \in S : ~(i < j)
  BY <1>1, <1>2, <1>3
<1>5. \A j \in S : j \in Int
  OBVIOUS
<1> QED
  BY <1>4, <1>5

LEMMA PickedIs ==
  ASSUME NEW T, NEW s \in Seq(T), NEW S \in SUBSET DOMAIN s
  PROVE  /\ Picked(s, S) \in Seq(T) /\ Len(Picked(s, S)) = Cardinality(S) /\ Cardinality(S) \in Nat
         /\ \A i \in S : RankIn(S, i) \in DOMAIN Picked(s, S) /\ Picked(s, S)[RankIn(S, i)] = s[i]
         /\ \A k \in DOMAIN Picked(s, S) : \E i \in S : RankIn(S, i) = k /\ Picked(s, S)[k] = s[i]
<1> DEFINE c == Cardinality(S)
           At2(k) == CHOOSE i \in S : RankIn(S, i) = k
<1>1. Len(s) \in Nat /\ S \in SUBSET (1..Len(s))
  OBVIOUS
<1>2. /\ c \in Nat
      /\ \A i \in S : RankIn(S, i) \in 1..c
      /\ \A i, j \in S : i < j => RankIn(S, i) < RankIn(S, j)
      /\ \A k \in 1..c : \E i \in S : RankIn(S, i) = k
  BY <1>1, RankIs
<1>3. \A i, j \in S : RankIn(S, i) = RankIn(S, j) => i = j
  <2> SUFFICES ASSUME NEW i \in S, NEW j \in S, RankIn(S, i) = RankIn(S, j) PROVE i = j
    OBVIOUS
  <2>1. ~(i < j) /\ ~(j < i)
    BY <1>2
  <2> QED
    BY <1>1, <2>1
<1>4. \A k \in 1..c : At2(k) \in S /\ RankIn(S, At2(k)) = k
  BY <1>2
<1>5. \A i \in S : At2(RankIn(S, i)) = i
  BY <1>2, <1>3
<1>6. Picked(s, S) = [k \in 1..c |-> s[At2(k)]]
  BY DEF Picked
<1> HIDE DEF At2, c
<1>7. \A k \in 1..c : Picked(s, S)[k] = s[At2(k)]
  BY <1>6
<1>8. Picked(s, S) \in [1..c -> T]
  BY <1>1, <1>4, <1>6
<1>9. Picked(s, S) \in Seq(T) /\ Len(Picked(s, S)) = c /\ DOMAIN Picked(s, S) = 1..c
  BY <1>2, <1>8
<1>10. \A i \in S : RankIn(S, i) \in 1..c /\ Picked(s, S)[RankIn(S, i)] = s[i]
  BY <1>2, <1>5, <1>7
<1>11. \A k \in 1..c : \E i \in S : RankIn(S, i) = k /\ Picked(s, S)[k] = s[i]
  BY <1>4, <1>7
<1> QED
  BY <1>2, <1>9, <1>10, <1>11 DEF c

\* One more element is at the end of those picked, or is not among them.
LEMMA PickedMore ==
  ASSUME NEW T, NEW s \in Seq(T), NEW e \in T, NEW S \in SUBSET DOMAIN s
  PROVE  /\ Picked(Append(s, e), S) = Picked(s, S)
         /\ Picked(Append(s, e), S \cup {Len(s) + 1}) = Append(Picked(s, S), e)
         /\ \A i \in DOMAIN s : RankIn(S \cup {Len(s) + 1}, i) = RankIn(S, i)
<1> DEFINE t == Append(s, e)
           n == Len(s)
           c == Cardinality(S)
           U == S \cup {n + 1}
<1>1. /\ n \in Nat /\ S \in SUBSET (1..n) /\ t \in Seq(T) /\ Len(t) = n + 1 /\ DOMAIN t = 1..(n + 1)
      /\ t[n + 1] = e /\ (\A i \in 1..n : t[i] = s[i]) /\ DOMAIN s = 1..n
  OBVIOUS
<1> HIDE DEF t, n
<1>2. IsFiniteSet(S) /\ c \in Nat /\ IsFiniteSet(U) /\ Cardinality(U) = c + 1
  <2>1. n + 1 \notin S
    BY <1>1
  <2> QED
    BY <1>1, <2>1, RankIs, FS_AddElement
<1>3. \A i \in 1..n : RankIn(U, i) = RankIn(S, i)
  <2> SUFFICES ASSUME NEW i \in 1..n PROVE {j \in U : j <= i} = {j \in S : j <= i}
    BY DEF RankIn
  <2> QED
    BY <1>1
<1>4. RankIn(U, n + 1) = c + 1
  <2>1. {j \in U : j <= n + 1} = U
    BY <1>1
  <2> QED
    BY <1>2, <2>1 DEF RankIn
<1>5. Picked(t, S) = Picked(s, S)
  <2>1. /\ Picked(t, S) \in Seq(T) /\ Len(Picked(t, S)) = c /\ Picked(s, S) \in Seq(T) /\ Len(Picked(s, S)) = c
        /\ \A k \in DOMAIN Picked(t, S) : \E i \in S : RankIn(S, i) = k /\ Picked(t, S)[k] = t[i]
        /\ \A i \in S : RankIn(S, i) \in DOMAIN Picked(s, S) /\ Picked(s, S)[RankIn(S, i)] = s[i]
    <3>1. S \in SUBSET DOMAIN s /\ S \in SUBSET DOMAIN t
      BY <1>1
    <3> QED
      BY <1>1, <3>1, PickedIs
  <2>2. \A k \in DOMAIN Picked(t, S) : Picked(t, S)[k] = Picked(s, S)[k]
    BY <1>1, <2>1
  <2> QED
    BY <2>1, <2>2
<1>6. Picked(t, U) = Append(Picked(s, S), e)
  <2> DEFINE p == Picked(t, U)
             q == Picked(s, S)
  <2>1. /\ p \in Seq(T) /\ Len(p) = c + 1 /\ q \in Seq(T) /\ Len(q) = c
        /\ \A k \in DOMAIN p : \E i \in U : RankIn(U, i) = k /\ p[k] = t[i]
        /\ \A i \in S : RankIn(S, i) \in DOMAIN q /\ q[RankIn(S, i)] = s[i]
    <3>1. S \in SUBSET DOMAIN s /\ U \in SUBSET DOMAIN t
      BY <1>1
    <3> HIDE DEF U
    <3> QED
      BY <1>1, <1>2, <3>1, PickedIs
  <2>2. ASSUME NEW k \in 1..(c + 1) PROVE p[k] = Append(q, e)[k]
    <3>0. k \in DOMAIN p
      BY <1>2, <2>1
    <3>1. PICK i \in U : RankIn(U, i) = k /\ p[k] = t[i]
      BY <2>1, <3>0
    <3>2. CASE i = n + 1
      <4>1. k = c + 1 /\ p[k] = e
        BY <1>1, <1>4, <3>1, <3>2
      <4> HIDE DEF q, p
      <4> QED
        BY <1>2, <2>1, <4>1
    <3>3. CASE i \in S
      <4>1. i \in 1..n /\ RankIn(S, i) = k /\ k \in DOMAIN q /\ q[k] = s[i] /\ p[k] = s[i]
        BY <1>1, <1>3, <2>1, <3>1, <3>3
      <4> HIDE DEF q, p
      <4> QED
        BY <1>2, <2>1, <4>1
    <3> QED
      BY <3>2, <3>3
  <2> HIDE DEF p, q
  <2>3. p \in Seq(T) /\ Append(q, e) \in Seq(T) /\ Len(Append(q, e)) = c + 1
    BY <2>1
  <2>4. p = Append(q, e)
    BY <1>2, <2>1, <2>2, <2>3
  <2> QED
    BY <2>4 DEF p, q
<1> QED
  BY <1>1, <1>3, <1>5, <1>6 DEF t, n

-----------------------------------------------------------------------------
(* The inductive invariant. *)

RoomSteps == {"out", "gate", "turn", "tell", "summary", "decision", "closing", "reading", "error", "failed"}
Rooms == [pc : RoomSteps, stage : 1..Synthesis, decision : Decisions \cup {Outside.decision}]
Applies ==
  [pc : {"idle"}] \cup [pc : {"plan"}, decision : Decisions] \cup [pc : {"lock"}, plan : Plans]
  \cup [pc : {"sending"}, plan : Plans, todo : SUBSET Agents]
Works == [pc : {"idle"}] \cup [pc : {"verifying"}, task : Nat]

ThreadTypes == log \in Seq(Events) /\ room \in Rooms
BoardTypes == lines \in Seq(Lines) /\ torn \in BOOLEAN /\ corrupt \in Nat /\ holder \in Appliers \cup {Nobody}
ActorTypes ==
  /\ halted \in BOOLEAN /\ owner \in [Paths -> Agents \cup {Nobody}]
  /\ apply \in [Appliers -> Applies] /\ work \in [Workers -> Works]
RoomTypes == ThreadTypes /\ BoardTypes /\ ActorTypes
\* A statement is told before the last turn only, and the last turn has decided.
RoomWalks ==
  /\ room.pc = "tell" => room.stage < Synthesis
  /\ room.pc \in {"summary", "decision", "closing"} => room.decision \in Decisions

Decided(d) == \E i \in DOMAIN log : log[i] = [kind |-> "decision", decision |-> d]
ThreadInv ==
  /\ \A i \in DOMAIN log : log[i].kind = "closed" => Decided(log[i].decision)
  /\ room.pc = "closing" => Decided(room.decision)

\* The tasks of a plan that are not to be sent any more are in the handoff log.
Whole(plan, todo) ==
  \A task \in plan.tasks : corrupt > 0 \/ task.agent \in todo \/ AlreadySent(plan, task.agent)
DispatchInv ==
  /\ torn => corrupt > 0
  /\ \A i \in DOMAIN log : log[i].kind = "dispatched" => Whole(log[i].plan, {})
  /\ \A x \in Appliers : apply[x].pc = "sending" =>
       /\ holder = x /\ Whole(apply[x].plan, apply[x].todo)
       /\ \A a \in apply[x].todo : ~AlreadySent(apply[x].plan, a)

\* What is settled, or about to be, was posted.
TasksInv ==
  /\ \A i \in DOMAIN lines : lines[i].kind = "done" => lines[i].resolves \in Posted
  /\ \A y \in Workers : work[y].pc = "verifying" => work[y].task \in Posted

RoomInv == RoomTypes /\ RoomWalks /\ ThreadInv /\ DispatchInv /\ TasksInv

LEMMA LastEnding == ASSUME RoomTypes, Endings # {} PROVE LastOf(Endings) \in Endings
<1>1. Len(log) \in Nat /\ Endings \in SUBSET (1..Len(log))
  BY DEF Endings, HasKind, RoomTypes, ThreadTypes
<1>2. \E i \in Endings : \A j \in Endings : j <= i
  BY <1>1, LastPosition
<1> QED
  BY <1>2 DEF LastOf

LEMMA EventKinds ==
  ASSUME NEW e \in Events
  PROVE  /\ e.kind \in {"decision", "closed"} => e.decision \in Decisions
         /\ e.kind = "dispatched" => e.plan \in Plans
         /\ e.kind = "decision" => e = [kind |-> "decision", decision |-> e.decision]
BY DEF Events, Kinds

LEMMA LineKinds ==
  ASSUME NEW line \in Lines
  PROVE  line.kind = "task" => line.job \in Jobs
BY DEF Lines

LEMMA ClosedDecides ==
  ASSUME RoomTypes, ThreadInv, Status = "closed"
  PROVE  FinalDecision \in Decisions /\ Decided(FinalDecision)
<1>1. Endings # {} /\ log[LastOf(Endings)].kind = "closed"
  BY DEF Status
<1>2. LastOf(Endings) \in DOMAIN log
  BY <1>1, LastEnding DEF Endings, HasKind
<1>3. log[LastOf(Endings)] \in Events
  BY <1>2 DEF RoomTypes, ThreadTypes
<1> QED
  BY <1>1, <1>2, <1>3, EventKinds DEF ThreadInv, FinalDecision

LEMMA RoomInvSound == RoomInv => RoomSound
<1> SUFFICES ASSUME RoomInv PROVE RoomSound
  OBVIOUS
<1>1. TypeOK
  <2>1. room.pc \in RoomSteps /\ room.stage \in 1..(2 * Rounds + 1)
    BY DEF RoomInv, RoomTypes, ThreadTypes, Rooms, Synthesis
  <2>2. \A x \in Appliers : apply[x].pc \in {"idle", "plan", "lock", "sending"}
    BY DEF RoomInv, RoomTypes, ActorTypes, Applies
  <2>3. \A y \in Workers : work[y].pc \in {"idle", "verifying"}
    BY DEF RoomInv, RoomTypes, ActorTypes, Works
  <2>4. /\ \A i \in DOMAIN log : log[i] \in Events
        /\ \A i \in DOMAIN lines : lines[i] \in Lines
    BY DEF RoomInv, RoomTypes, ThreadTypes, BoardTypes
  <2> QED
    BY <2>1, <2>2, <2>3, <2>4 DEF RoomInv, RoomTypes, BoardTypes, ActorTypes, TypeOK, RoomSteps
<1>2. ClosedHasDecision
  <2> SUFFICES ASSUME Status = "closed" PROVE Contains(log, [kind |-> "decision", decision |-> FinalDecision])
    BY DEF ClosedHasDecision
  <2>1. Decided(FinalDecision) /\ log \in Seq(Events)
    BY ClosedDecides DEF RoomInv, RoomTypes, ThreadTypes
  <2> QED
    BY <2>1 DEF Decided, Contains
<1>3. DispatchIsComplete
  BY DEF DispatchIsComplete, RoomInv, DispatchInv, Whole, AlreadySent, HasKind
<1> QED
  BY <1>1, <1>2, <1>3 DEF RoomSound

LEMMA RoomBegins == Init => RoomInv
<1> SUFFICES ASSUME Init PROVE RoomInv
  OBVIOUS
<1>1. Outside \in Rooms /\ Outside.pc = "out"
  BY DesignRoomConstantsOK DEF Outside, Rooms, RoomSteps, Synthesis
<1>2. Idle \in Applies /\ Idle \in Works /\ Idle.pc = "idle"
  BY DEF Idle, Applies, Works
<1>3. RoomTypes
  <2>1. ThreadTypes
    <3>1. log = <<>> /\ room \in Rooms
      BY <1>1 DEF Init
    <3>2. \A T : <<>> \in Seq(T)
      OBVIOUS
    <3> HIDE DEF Events
    <3> QED
      BY <3>1, <3>2, Zenon DEF ThreadTypes
  <2>2. BoardTypes
    <3>1. torn \in BOOLEAN
      BY DEF Init
    <3>2. lines \in Seq(Lines) /\ corrupt \in Nat /\ holder \in Appliers \cup {Nobody}
      <4>1. lines = <<>> /\ corrupt = 0 /\ holder = Nobody
        BY DEF Init
      <4> QED
        BY <4>1
    <3> QED
      BY <3>1, <3>2 DEF BoardTypes
  <2>3. apply \in [Appliers -> Applies] /\ work \in [Workers -> Works]
    <3> HIDE DEF Idle
    <3> QED
      BY <1>2 DEF Init
  <2>4. ActorTypes
    BY <2>3 DEF Init, ActorTypes
  <2> QED
    BY <2>1, <2>2, <2>4 DEF RoomTypes
<1> QED
  BY <1>1, <1>2, <1>3 DEF Init, RoomInv, RoomWalks, ThreadInv, DispatchInv, TasksInv

-----------------------------------------------------------------------------
(* The discussion. *)

LEMMA LogGrows ==
  ASSUME RoomTypes, NEW e \in Events, log' = Append(log, e)
  PROVE  /\ log' \in Seq(Events)
         /\ \A d : Decided(d) => Decided(d)'
         /\ e.kind = "decision" => Decided(e.decision)'
         /\ \A i \in DOMAIN log' : (i \in DOMAIN log /\ log'[i] = log[i]) \/ log'[i] = e
<1>1. /\ log \in Seq(Events) /\ log' \in Seq(Events) /\ DOMAIN log \subseteq DOMAIN log'
      /\ \A i \in DOMAIN log : log'[i] = log[i]
      /\ Len(log) + 1 \in DOMAIN log' /\ log'[Len(log) + 1] = e
  BY DEF RoomTypes, ThreadTypes
<1>2. \A d : Decided(d) => Decided(d)'
  BY <1>1 DEF Decided
<1>3. e.kind = "decision" => Decided(e.decision)'
  BY <1>1, EventKinds DEF Decided
<1>4. \A i \in DOMAIN log' : (i \in DOMAIN log /\ log'[i] = log[i]) \/ log'[i] = e
  BY DEF RoomTypes, ThreadTypes
<1> QED
  BY <1>1, <1>2, <1>3, <1>4

LEMMA RoomMoves ==
  ASSUME RoomInv, UNCHANGED <<halted, owner, apply, work, lines, torn, corrupt, holder>>,
         room' \in Rooms, RoomWalks',
         \/ log' = log
         \/ \E e \in Events : log' = Append(log, e) /\ e.kind # "dispatched" /\ (e.kind = "closed" => Decided(e.decision)),
         (room.pc = "closing" => Decided(room.decision))'
  PROVE  RoomInv'
<1>1. /\ log' \in Seq(Events)
      /\ \A d : Decided(d) => Decided(d)'
      /\ \A i \in DOMAIN log' : \/ i \in DOMAIN log /\ log'[i] = log[i]
                                \/ log'[i].kind # "dispatched" /\ (log'[i].kind = "closed" => Decided(log'[i].decision))
  <2>1. CASE log' = log
    BY <2>1 DEF RoomInv, RoomTypes, ThreadTypes, Decided
  <2>2. CASE \E e \in Events : log' = Append(log, e) /\ e.kind # "dispatched" /\ (e.kind = "closed" => Decided(e.decision))
    BY <2>2, LogGrows DEF RoomInv
  <2> QED
    BY <2>1, <2>2
<1>2. RoomTypes'
  <2>1. ThreadTypes'
    BY <1>1 DEF ThreadTypes
  <2>2. BoardTypes'
    BY DEF RoomInv, RoomTypes, BoardTypes
  <2>3. ActorTypes'
    BY DEF RoomInv, RoomTypes, ActorTypes
  <2> QED
    BY <2>1, <2>2, <2>3 DEF RoomTypes
<1>3. ThreadInv'
  <2>1. (\A i \in DOMAIN log : log[i].kind = "closed" => Decided(log[i].decision))'
    <3> SUFFICES ASSUME NEW i \in DOMAIN log', log'[i].kind = "closed" PROVE Decided(log[i].decision)'
      OBVIOUS
    <3>1. Decided(log'[i].decision)
      BY <1>1 DEF RoomInv, ThreadInv
    <3> QED
      BY <1>1, <3>1
  <2> QED
    BY <2>1 DEF ThreadInv
<1>4. \A plan, todo : Whole(plan, todo)' <=> Whole(plan, todo)
  BY DEF Whole, AlreadySent, Posted
<1>5. \A plan, a : AlreadySent(plan, a)' <=> AlreadySent(plan, a)
  BY DEF AlreadySent, Posted
<1>6. DispatchInv'
  BY <1>1, <1>4, <1>5 DEF RoomInv, DispatchInv
<1>7. TasksInv'
  BY DEF RoomInv, TasksInv, Posted
<1> QED
  BY <1>2, <1>3, <1>6, <1>7 DEF RoomInv

LEMMA EmitMoves ==
  ASSUME RoomInv, NEW event \in Events, NEW next \in Rooms, NEW onError \in Rooms, Emits(event, next, onError),
         UNCHANGED <<halted, owner, apply, work, lines, torn, corrupt, holder>>,
         event.kind # "dispatched", event.kind = "closed" => Decided(event.decision),
         next.pc = "tell" => next.stage < Synthesis,
         next.pc \in {"summary", "decision", "closing"} => next.decision \in Decisions,
         next.pc = "closing" => event = [kind |-> "decision", decision |-> next.decision],
         onError.pc \in {"error", "out"}
  PROVE  RoomInv'
<1>1. Outside \in Rooms /\ Outside.pc = "out"
  BY DesignRoomConstantsOK DEF Outside, Rooms, RoomSteps, Synthesis
<1>2. CASE log' = Append(log, event) /\ room' = next
  <2>1. RoomWalks'
    BY <1>2 DEF RoomWalks, Synthesis
  <2>2. (room.pc = "closing" => Decided(room.decision))'
    <3> SUFFICES ASSUME next.pc = "closing" PROVE Decided(room.decision)'
      BY <1>2
    <3>1. event.kind = "decision" /\ event.decision = next.decision
      OBVIOUS
    <3>2. Decided(event.decision)'
      BY <1>2, <3>1, LogGrows DEF RoomInv
    <3> QED
      BY <1>2, <3>1, <3>2 DEF Decided
  <2> QED
    BY <1>2, <2>1, <2>2, RoomMoves
<1>3. CASE log' = log /\ (room' = Outside \/ room' = onError)
  <2>1. room' \in Rooms /\ room'.pc \in {"error", "out"}
    BY <1>1, <1>3
  <2>2. RoomWalks'
    BY <2>1 DEF RoomWalks
  <2> QED
    BY <1>3, <2>1, <2>2, RoomMoves
<1> QED
  BY <1>2, <1>3 DEF Emits

LEMMA DiscussionKeeps == ASSUME RoomInv, StartDiscussion \/ Discuss \/ RoomDies PROVE RoomInv'
<1>1. Outside \in Rooms /\ Outside.pc = "out" /\ Synthesis \in Nat /\ Outside.stage = 1
  BY DesignRoomConstantsOK DEF Outside, Rooms, RoomSteps, Synthesis
<1>2. room \in Rooms /\ RoomWalks
  BY DEF RoomInv, RoomTypes, ThreadTypes
<1>3. \A pc \in RoomSteps : /\ [room EXCEPT !.pc = pc] \in Rooms /\ [room EXCEPT !.pc = pc].pc = pc
                            /\ [room EXCEPT !.pc = pc].stage = room.stage
                            /\ [room EXCEPT !.pc = pc].decision = room.decision
  BY <1>2 DEF Rooms
<1>4. UNCHANGED <<halted, owner, apply, work, lines, torn, corrupt, holder>>
  BY DEF StartDiscussion, RoomDies, Discuss, Ask, Respond, Tell, EmitSummary, EmitDecision, EmitClosed, ReadResult,
         RecordError, RecordFailed, InRoom
<1>5. /\ {[kind |-> k] : k \in Kinds} \subseteq Events
      /\ \A d \in Decisions : /\ [kind |-> "decision", decision |-> d] \in Events
                              /\ [kind |-> "closed", decision |-> d] \in Events
  BY DEF Events
<1>6. "error" \in RoomSteps /\ "gate" \in RoomSteps /\ "turn" \in RoomSteps /\ "tell" \in RoomSteps
      /\ "decision" \in RoomSteps /\ "closing" \in RoomSteps /\ "reading" \in RoomSteps /\ "failed" \in RoomSteps
      /\ "summary" \in RoomSteps
  BY DEF RoomSteps
<1>7. CASE StartDiscussion
  <2> DEFINE n == [Outside EXCEPT !.pc = "gate"]
             e == [kind |-> "started"]
  <2>1. n \in Rooms /\ n.pc = "gate"
    BY <1>1, <1>6 DEF Rooms
  <2>2. e \in Events /\ e.kind = "started"
    BY <1>5 DEF Kinds
  <2>3. log' = Append(log, e) /\ room' = n
    BY <1>7 DEF StartDiscussion
  <2> HIDE DEF n, e
  <2>4. RoomWalks'
    BY <2>1, <2>3 DEF RoomWalks
  <2> QED
    BY <1>4, <2>1, <2>2, <2>3, <2>4, RoomMoves
<1>8. CASE RoomDies \/ ReadResult \/ Ask
  <2>1. /\ log' = log
        /\ room' = Outside \/ room' = [room EXCEPT !.pc = "error"] \/ room' = [room EXCEPT !.pc = "turn"]
    <3> HIDE DEF Outside
    <3>1. CASE RoomDies
      BY <3>1 DEF RoomDies
    <3>2. CASE ReadResult
      BY <3>2 DEF ReadResult, At
    <3>3. CASE Ask
      BY <3>3 DEF Ask
    <3> QED
      BY <1>8, <3>1, <3>2, <3>3
  <2>2. room' \in Rooms /\ room'.pc \in {"out", "error", "turn"}
    <3>1. CASE room' = Outside
      BY <1>1, <3>1
    <3>2. CASE room' = [room EXCEPT !.pc = "error"]
      BY <1>3, <1>6, <3>2
    <3>3. CASE room' = [room EXCEPT !.pc = "turn"]
      BY <1>3, <1>6, <3>3
    <3> QED
      BY <2>1, <3>1, <3>2, <3>3
  <2>3. RoomWalks'
    BY <2>2 DEF RoomWalks
  <2> QED
    BY <1>4, <2>1, <2>2, <2>3, RoomMoves
<1>9. CASE Respond
  <2>1. log' = log /\ room.pc = "turn"
    BY <1>9 DEF Respond, InRoom
  <2>2. /\ room' \in Rooms /\ room'.pc \in {"tell", "summary", "error"}
        /\ room'.pc = "tell" => room'.stage < Synthesis
        /\ room'.pc = "summary" => room'.decision \in Decisions
    <3>1. CASE room.stage < Synthesis /\ At("tell")
      BY <1>3, <1>6, <3>1 DEF At
    <3>2. CASE \E d \in Decisions : room' = [room EXCEPT !.pc = "summary", !.decision = d]
      BY <1>2, <1>6, <3>2 DEF Rooms
    <3>3. CASE At("error")
      BY <1>3, <1>6, <3>3 DEF At
    <3> QED
      BY <1>9, <3>1, <3>2, <3>3 DEF Respond
  <2>3. RoomWalks'
    BY <2>2 DEF RoomWalks, Synthesis
  <2> QED
    BY <1>4, <2>1, <2>2, <2>3, RoomMoves
<1>10. CASE Tell
  <2> DEFINE n == [room EXCEPT !.pc = "gate", !.stage = @ + 1]
  <2>1. room.pc = "tell" /\ room.stage < Synthesis /\ room.stage \in 1..Synthesis
    BY <1>2, <1>10 DEF Tell, InRoom, RoomWalks, Rooms
  <2>2. room.stage + 1 \in 1..Synthesis
    BY <1>1, <2>1
  <2>3. n \in Rooms /\ n.pc = "gate"
    BY <1>2, <1>6, <2>2 DEF Rooms
  <2>4. Emits([kind |-> "statement"], n, [room EXCEPT !.pc = "error"]) /\ [kind |-> "statement"] \in Events
    BY <1>5, <1>10 DEF Tell, Says, Kinds
  <2> HIDE DEF n
  <2> QED
    BY <1>3, <1>4, <1>6, <2>3, <2>4, EmitMoves
<1>11. CASE EmitSummary
  <2> DEFINE n == [room EXCEPT !.pc = "decision"]
  <2>1. Emits([kind |-> "summary"], n, [room EXCEPT !.pc = "error"]) /\ [kind |-> "summary"] \in Events
    BY <1>5, <1>11 DEF EmitSummary, Says, Kinds
  <2>2. n \in Rooms /\ n.pc = "decision" /\ n.decision \in Decisions
    BY <1>2, <1>3, <1>6, <1>11 DEF EmitSummary, InRoom, RoomWalks
  <2> HIDE DEF n
  <2> QED
    BY <1>3, <1>4, <1>6, <2>1, <2>2, EmitMoves
<1>12. CASE EmitDecision
  <2> DEFINE n == [room EXCEPT !.pc = "closing"]
             e == [kind |-> "decision", decision |-> room.decision]
  <2>1. n \in Rooms /\ n.pc = "closing" /\ n.decision = room.decision /\ room.decision \in Decisions
    BY <1>2, <1>3, <1>6, <1>12 DEF EmitDecision, InRoom, RoomWalks
  <2>2. Emits(e, n, [room EXCEPT !.pc = "error"]) /\ e \in Events /\ e.kind = "decision"
    BY <1>5, <1>12, <2>1 DEF EmitDecision, Says
  <2>3. e = [kind |-> "decision", decision |-> n.decision]
    BY <2>1
  <2> HIDE DEF n, e
  <2> QED
    BY <1>3, <1>4, <1>6, <2>1, <2>2, <2>3, EmitMoves
<1>13. CASE EmitClosed
  <2> DEFINE n == [room EXCEPT !.pc = "reading"]
             e == [kind |-> "closed", decision |-> room.decision]
  <2>1. n \in Rooms /\ n.pc = "reading" /\ room.decision \in Decisions /\ Decided(room.decision)
    BY <1>2, <1>3, <1>6, <1>13 DEF EmitClosed, InRoom, RoomWalks, RoomInv, ThreadInv
  <2>2. Emits(e, n, [room EXCEPT !.pc = "error"]) /\ e \in Events /\ e.kind = "closed" /\ e.decision = room.decision
    BY <1>5, <1>13, <2>1 DEF EmitClosed, Says
  <2> HIDE DEF n, e
  <2> QED
    BY <1>3, <1>4, <1>6, <2>1, <2>2, EmitMoves
<1>14. CASE RecordError
  <2>1. Emits([kind |-> "error"], [room EXCEPT !.pc = "failed"], Outside) /\ [kind |-> "error"] \in Events
    BY <1>5, <1>14 DEF RecordError, Kinds
  <2> QED
    BY <1>1, <1>3, <1>4, <1>6, <2>1, EmitMoves
<1>15. CASE RecordFailed
  <2>1. Emits([kind |-> "failed"], Outside, Outside) /\ [kind |-> "failed"] \in Events
    BY <1>5, <1>15 DEF RecordFailed, Kinds
  <2> QED
    BY <1>1, <1>4, <2>1, EmitMoves
<1> QED
  BY <1>7, <1>8, <1>9, <1>10, <1>11, <1>12, <1>13, <1>14, <1>15 DEF Discuss

\* A compaction takes no decision away.
LEMMA CompactKeeps == ASSUME RoomInv, Compact PROVE RoomInv'
<1>1. PICK n \in DOMAIN log : log' = Picked(log, {i \in DOMAIN log : i > n \/ InForce(i)})
  BY DEF Compact
<1> DEFINE S == {i \in DOMAIN log : i > n \/ InForce(i)}
<1>2. log \in Seq(Events) /\ S \in SUBSET DOMAIN log /\ Len(log) \in Nat /\ DOMAIN log = 1..Len(log)
  BY DEF RoomInv, RoomTypes, ThreadTypes
<1>3. /\ log' \in Seq(Events)
      /\ \A i \in S : RankIn(S, i) \in DOMAIN log' /\ log'[RankIn(S, i)] = log[i]
      /\ \A k \in DOMAIN log' : \E i \in S : log'[k] = log[i]
  <2> HIDE DEF S
  <2> QED
    BY <1>1, <1>2, PickedIs DEF S
<1>4. ASSUME NEW d, Decided(d) PROVE Decided(d)'
  <2> DEFINE e == [kind |-> "decision", decision |-> d]
             P == {i \in DOMAIN log : log[i] = e}
  <2>1. P # {} /\ P \in SUBSET (1..Len(log))
    BY <1>2, <1>4 DEF Decided
  <2>2. PICK i \in P : \A j \in P : j <= i
    <3> HIDE DEF P
    <3> QED
      BY <1>2, <2>1, LastPosition
  <2>3. InForce(i) /\ i \in DOMAIN log /\ log[i] = e
    BY <2>2 DEF InForce
  <2>4. i \in S
    BY <2>3
  <2> HIDE DEF S, P
  <2> QED
    BY <1>3, <2>3, <2>4 DEF Decided
<1>5. UNCHANGED <<halted, owner, room, apply, work, lines, torn, corrupt, holder>>
  BY DEF Compact
<1>6. RoomTypes' /\ RoomWalks'
  BY <1>3, <1>5 DEF RoomInv, RoomTypes, ThreadTypes, BoardTypes, ActorTypes, RoomWalks
<1> HIDE DEF S
<1>7. ThreadInv'
  BY <1>2, <1>3, <1>4, <1>5 DEF RoomInv, ThreadInv
<1>8. \A plan, todo : Whole(plan, todo)' <=> Whole(plan, todo)
  BY <1>5 DEF Whole, AlreadySent, Posted
<1>9. \A plan, a : AlreadySent(plan, a)' <=> AlreadySent(plan, a)
  BY <1>5 DEF AlreadySent, Posted
<1>10. DispatchInv'
  BY <1>2, <1>3, <1>5, <1>8, <1>9 DEF RoomInv, DispatchInv
<1>11. TasksInv'
  BY <1>5 DEF RoomInv, TasksInv, Posted
<1> QED
  BY <1>6, <1>7, <1>10, <1>11 DEF RoomInv

-----------------------------------------------------------------------------
(* The pipeline and the completions. *)

LEMMA ThreadStands ==
  ASSUME RoomInv, UNCHANGED room,
         log' = log \/ \E e \in Events : log' = Append(log, e) /\ e.kind = "dispatched"
  PROVE  ThreadTypes' /\ RoomWalks' /\ ThreadInv'
<1>1. /\ log' \in Seq(Events)
      /\ \A d : Decided(d) => Decided(d)'
      /\ \A i \in DOMAIN log' : (i \in DOMAIN log /\ log'[i] = log[i]) \/ log'[i].kind = "dispatched"
  <2>1. CASE log' = log
    BY <2>1 DEF RoomInv, RoomTypes, ThreadTypes, Decided
  <2>2. CASE \E e \in Events : log' = Append(log, e) /\ e.kind = "dispatched"
    BY <2>2, LogGrows DEF RoomInv
  <2> QED
    BY <2>1, <2>2
<1>2. (\A i \in DOMAIN log : log[i].kind = "closed" => Decided(log[i].decision))'
  <2> SUFFICES ASSUME NEW i \in DOMAIN log', log'[i].kind = "closed" PROVE Decided(log[i].decision)'
    OBVIOUS
  <2>1. Decided(log'[i].decision)
    BY <1>1 DEF RoomInv, ThreadInv
  <2> QED
    BY <1>1, <2>1
<1>3. (room.pc = "closing" => Decided(room.decision))'
  <2> SUFFICES ASSUME room'.pc = "closing" PROVE Decided(room.decision)'
    OBVIOUS
  <2>1. Decided(room'.decision)
    BY DEF RoomInv, ThreadInv
  <2> QED
    BY <1>1, <2>1
<1> QED
  BY <1>1, <1>2, <1>3 DEF RoomInv, RoomTypes, ThreadTypes, RoomWalks, ThreadInv

\* A line joins those that can be read, or is lost with the torn one before it.
LEMMA LinesGrow ==
  ASSUME RoomInv, NEW line \in Lines, AppendLine(line)
  PROVE  /\ lines' \in Seq(Lines) /\ ~torn' /\ torn' \in BOOLEAN /\ corrupt' = corrupt
         /\ torn => lines' = lines
         /\ ~torn => lines' = Append(lines, line) /\ Len(lines) + 1 \in DOMAIN lines' /\ lines'[Len(lines) + 1] = line
         /\ \A i \in DOMAIN lines : i \in DOMAIN lines' /\ lines'[i] = lines[i]
         /\ \A i \in DOMAIN lines' : (i \in DOMAIN lines /\ lines'[i] = lines[i]) \/ lines'[i] = line
         /\ \A i \in Posted : i \in Posted'
         /\ \A plan, a : AlreadySent(plan, a) => AlreadySent(plan, a)'
         /\ \A plan, todo : Whole(plan, todo) => Whole(plan, todo)'
<1>1. lines \in Seq(Lines) /\ corrupt \in Nat /\ torn \in BOOLEAN
  BY DEF RoomInv, RoomTypes, BoardTypes
<1>2. /\ lines' \in Seq(Lines) /\ ~torn' /\ torn' \in BOOLEAN /\ corrupt' = corrupt
      /\ torn => lines' = lines
      /\ ~torn => lines' = Append(lines, line) /\ Len(lines) + 1 \in DOMAIN lines' /\ lines'[Len(lines) + 1] = line
      /\ \A i \in DOMAIN lines : i \in DOMAIN lines' /\ lines'[i] = lines[i]
      /\ \A i \in DOMAIN lines' : (i \in DOMAIN lines /\ lines'[i] = lines[i]) \/ lines'[i] = line
  <2>1. CASE torn
    <3>1. lines' = lines /\ torn' = FALSE /\ corrupt' = corrupt
      BY <2>1, Zenon DEF AppendLine
    <3> QED
      BY <1>1, <2>1, <3>1
  <2>2. CASE ~torn
    <3>1. lines' = Append(lines, line) /\ torn' = FALSE /\ corrupt' = corrupt
      BY <2>2, Zenon DEF AppendLine
    <3>2. /\ lines' \in Seq(Lines)
          /\ Len(lines) + 1 \in DOMAIN lines' /\ lines'[Len(lines) + 1] = line
          /\ \A i \in DOMAIN lines : i \in DOMAIN lines' /\ lines'[i] = lines[i]
          /\ \A i \in DOMAIN lines' : (i \in DOMAIN lines /\ lines'[i] = lines[i]) \/ lines'[i] = line
      <4>1. lines \in Seq(Lines) /\ lines' = Append(lines, line)
        BY <1>1, <3>1
      <4> QED
        BY <4>1
    <3>3. ~torn' /\ torn' \in BOOLEAN
      BY <3>1, Zenon
    <3> QED
      BY <2>2, <3>1, <3>2, <3>3, Zenon
  <2> QED
    BY <2>1, <2>2
<1>3. \A i \in Posted : i \in Posted'
  BY <1>2 DEF Posted
<1>4. \A plan, a : AlreadySent(plan, a) => AlreadySent(plan, a)'
  BY <1>2, <1>3 DEF AlreadySent, Posted
<1>5. \A plan, todo : Whole(plan, todo) => Whole(plan, todo)'
  BY <1>2, <1>4 DEF Whole
<1> QED
  BY <1>2, <1>3, <1>4, <1>5

LEMMA LineTears ==
  ASSUME RoomInv, TearLine
  PROVE  lines' = lines /\ torn' = TRUE /\ corrupt' \in Nat /\ corrupt' > 0
<1>1. corrupt \in Nat /\ torn \in BOOLEAN /\ (torn => corrupt > 0)
  BY DEF RoomInv, RoomTypes, BoardTypes, DispatchInv
<1> QED
  BY <1>1 DEF TearLine

LEMMA OneSends ==
  ASSUME RoomInv, NEW x \in Appliers, apply[x].pc = "sending" \/ holder = Nobody
  PROVE  \A z \in Appliers : apply[z].pc = "sending" => z = x /\ holder = x
BY DesignRoomConstantsOK DEF RoomInv, DispatchInv

\* A process goes to a step at which it sends nothing.
LEMMA ApplierRests ==
  ASSUME RoomInv, NEW x \in Appliers, NEW st \in Applies, st.pc # "sending", Goes(x, st),
         UNCHANGED <<halted, owner, room, work, log, lines>>, torn' \in BOOLEAN, corrupt' \in Nat,
         (torn' = torn /\ corrupt' = corrupt) \/ corrupt' > 0,
         holder' = holder \/ (holder' = Nobody /\ apply[x].pc = "sending")
  PROVE  RoomInv'
<1>1. ThreadTypes' /\ RoomWalks' /\ ThreadInv'
  BY ThreadStands
<1>2. apply \in [Appliers -> Applies]
  BY DEF RoomInv, RoomTypes, ActorTypes
<1>3. apply' \in [Appliers -> Applies] /\ apply'[x] = st /\ \A z \in Appliers : z # x => apply'[z] = apply[z]
  BY <1>2 DEF Goes
<1>4. RoomTypes'
  BY <1>1, <1>3 DEF RoomInv, RoomTypes, BoardTypes, ActorTypes
<1>5. \A plan, todo : Whole(plan, todo) => Whole(plan, todo)'
  BY DEF Whole, AlreadySent, Posted
<1>6. \A plan, a : AlreadySent(plan, a)' <=> AlreadySent(plan, a)
  BY DEF AlreadySent, Posted
<1>7. torn' => corrupt' > 0
  BY DEF RoomInv, DispatchInv
<1>8. \A z \in Appliers : apply'[z].pc = "sending" => apply'[z] = apply[z] /\ holder' = holder
  BY <1>3, OneSends
<1>9. DispatchInv'
  <2>1. \A z \in Appliers : apply'[z].pc = "sending" =>
           /\ holder' = z /\ Whole(apply'[z].plan, apply'[z].todo)
           /\ \A a \in apply'[z].todo : ~AlreadySent(apply'[z].plan, a)
    BY <1>8 DEF RoomInv, DispatchInv
  <2>2. (\A z \in Appliers : apply[z].pc = "sending" =>
           /\ holder = z /\ Whole(apply[z].plan, apply[z].todo)
           /\ \A a \in apply[z].todo : ~AlreadySent(apply[z].plan, a))'
    BY <1>5, <1>6, <2>1
  <2>3. (\A i \in DOMAIN log : log[i].kind = "dispatched" => Whole(log[i].plan, {}))'
    BY <1>5 DEF RoomInv, DispatchInv
  <2> QED
    BY <1>7, <2>2, <2>3 DEF DispatchInv
<1>10. TasksInv'
  BY DEF RoomInv, TasksInv, Posted
<1> QED
  BY <1>1, <1>4, <1>9, <1>10 DEF RoomInv

LEMMA PlanKinds ==
  ASSUME NEW plan \in Plans
  PROVE  plan.tasks \subseteq Tasks /\ \A task \in plan.tasks : task.agent \in Agents
BY DEF Plans, Tasks

LEMMA AppliesKinds ==
  ASSUME NEW st \in Applies
  PROVE  /\ st.pc = "plan" => st.decision \in Decisions
         /\ st.pc = "lock" => st.plan \in Plans
         /\ st.pc = "sending" => st = [pc |-> "sending", plan |-> st.plan, todo |-> st.todo]
                                 /\ st.plan \in Plans /\ st.todo \subseteq Agents
BY DEF Applies

LEMMA TasksOfPlan ==
  ASSUME RoomTypes, NEW d \in Decisions, Mentioned(d, Nobody) = {}
  PROVE  [decision |-> d, tasks |-> TasksOf(d)] \in Plans
<1>1. owner \in [Paths -> Agents \cup {Nobody}] /\ Mentions[d] \subseteq Paths
  BY DesignRoomConstantsOK DEF RoomTypes, ActorTypes
<1>2. TasksOf(d) \subseteq Tasks
  BY <1>1 DEF TasksOf, Tasks, Mentioned
<1> QED
  BY <1>2 DEF Plans

LEMMA PlanningKeeps ==
  ASSUME RoomInv, NEW x \in Appliers, BuildPlan(x) \/ ReadOwnership(x) \/ Drop(x) \/ DispatchStops(x)
  PROVE  RoomInv'
<1>1. /\ Idle \in Applies /\ Idle.pc = "idle"
      /\ \A d \in Decisions : [pc |-> "plan", decision |-> d] \in Applies
      /\ \A plan \in Plans : [pc |-> "lock", plan |-> plan] \in Applies
  BY DEF Idle, Applies
<1>2. apply[x] \in Applies /\ torn \in BOOLEAN /\ corrupt \in Nat
  BY DEF RoomInv, RoomTypes, ActorTypes, BoardTypes
<1>3. CASE BuildPlan(x)
  <2>1. FinalDecision \in Decisions
    BY <1>3, ClosedDecides DEF BuildPlan, RoomInv
  <2> DEFINE st == [pc |-> "plan", decision |-> FinalDecision]
  <2>2. st \in Applies /\ st.pc = "plan"
    BY <1>1, <2>1
  <2>3. Goes(x, st) /\ UNCHANGED <<halted, owner, room, work, log, lines, torn, corrupt, holder>>
    BY <1>3 DEF BuildPlan, InPipeline
  <2> HIDE DEF st
  <2> QED
    BY <1>2, <2>2, <2>3, ApplierRests
<1>4. CASE ReadOwnership(x)
  <2> DEFINE d == apply[x].decision
             st == IF Mentioned(d, Nobody) # {} THEN Idle
                   ELSE [pc |-> "lock", plan |-> [decision |-> d, tasks |-> TasksOf(d)]]
  <2>1. d \in Decisions
    BY <1>2, <1>4, AppliesKinds DEF ReadOwnership, InPipeline
  <2>2. st \in Applies /\ st.pc # "sending"
    <3>1. CASE Mentioned(d, Nobody) # {}
      <4>1. st = Idle
        BY <3>1
      <4> HIDE DEF st, Idle
      <4> QED
        BY <1>1, <4>1
    <3>2. CASE Mentioned(d, Nobody) = {}
      <4> DEFINE plan == [decision |-> d, tasks |-> TasksOf(d)]
      <4>1. st = [pc |-> "lock", plan |-> plan] /\ plan \in Plans
        BY <2>1, <3>2, TasksOfPlan DEF RoomInv
      <4> HIDE DEF st, plan
      <4> QED
        BY <1>1, <4>1
    <3> QED
      BY <3>1, <3>2
  <2>3. Goes(x, st) /\ UNCHANGED <<halted, owner, room, work, log, lines, torn, corrupt, holder>>
    BY <1>4 DEF ReadOwnership, InPipeline
  <2> HIDE DEF st
  <2> QED
    BY <1>2, <2>2, <2>3, ApplierRests
<1>5. CASE Drop(x) \/ DispatchStops(x)
  <2>1. /\ Goes(x, Idle) /\ UNCHANGED <<halted, owner, room, work, log, lines, torn, corrupt>>
        /\ holder' = holder \/ (holder' = Nobody /\ apply[x].pc = "sending")
    BY <1>5 DEF Drop, DispatchStops, InPipeline
  <2> HIDE DEF Idle
  <2> QED
    BY <1>1, <1>2, <2>1, ApplierRests
<1> QED
  BY <1>3, <1>4, <1>5

LEMMA EnterKeeps == ASSUME RoomInv, NEW x \in Appliers, EnterDispatch(x) PROVE RoomInv'
<1> DEFINE plan == apply[x].plan
           todo == {a \in {task.agent : task \in plan.tasks} : ~AlreadySent(plan, a)}
           st == [pc |-> "sending", plan |-> plan, todo |-> todo]
<1>1. /\ apply \in [Appliers -> Applies] /\ holder = Nobody /\ holder' = x /\ apply' = [apply EXCEPT ![x] = st]
      /\ UNCHANGED <<halted, owner, room, work, log, lines, torn, corrupt>> /\ apply[x].pc = "lock"
  BY DEF EnterDispatch, InPipeline, Goes, RoomInv, RoomTypes, ActorTypes
<1>2. plan \in Plans
  BY <1>1, AppliesKinds
<1>3. todo \subseteq Agents /\ Whole(plan, todo) /\ \A a \in todo : ~AlreadySent(plan, a)
  BY <1>2, PlanKinds DEF Whole
<1> HIDE DEF todo, plan
<1>4. st \in Applies
  BY <1>2, <1>3 DEF Applies
<1>5. apply' \in [Appliers -> Applies] /\ apply'[x] = st /\ \A z \in Appliers : z # x => apply'[z] = apply[z]
  BY <1>1, <1>4
<1>6. ThreadTypes' /\ RoomWalks' /\ ThreadInv'
  BY <1>1, ThreadStands
<1>7. RoomTypes'
  BY <1>1, <1>5, <1>6 DEF RoomInv, RoomTypes, BoardTypes, ActorTypes
<1>8. \A p, t : Whole(p, t)' <=> Whole(p, t)
  BY <1>1 DEF Whole, AlreadySent, Posted
<1>9. \A p, a : AlreadySent(p, a)' <=> AlreadySent(p, a)
  BY <1>1 DEF AlreadySent, Posted
<1>10. \A z \in Appliers : z # x => apply[z].pc # "sending"
  BY <1>1, OneSends
<1>11. DispatchInv'
  <2>1. \A z \in Appliers : apply'[z].pc = "sending" =>
           /\ holder' = z /\ Whole(apply'[z].plan, apply'[z].todo)
           /\ \A a \in apply'[z].todo : ~AlreadySent(apply'[z].plan, a)
    BY <1>1, <1>3, <1>5, <1>10
  <2>2. (\A z \in Appliers : apply[z].pc = "sending" =>
           /\ holder = z /\ Whole(apply[z].plan, apply[z].todo)
           /\ \A a \in apply[z].todo : ~AlreadySent(apply[z].plan, a))'
    BY <1>8, <1>9, <2>1
  <2>3. (\A i \in DOMAIN log : log[i].kind = "dispatched" => Whole(log[i].plan, {}))'
    BY <1>1, <1>8 DEF RoomInv, DispatchInv
  <2> QED
    BY <1>1, <2>2, <2>3 DEF RoomInv, DispatchInv
<1>12. TasksInv'
  BY <1>1 DEF RoomInv, TasksInv, Posted
<1> QED
  BY <1>6, <1>7, <1>11, <1>12 DEF RoomInv

LEMMA SendKeeps == ASSUME RoomInv, NEW x \in Appliers, SendTask(x) PROVE RoomInv'
<1>1. /\ apply \in [Appliers -> Applies] /\ apply[x].pc = "sending" /\ holder = x
      /\ Whole(apply[x].plan, apply[x].todo) /\ \A a \in apply[x].todo : ~AlreadySent(apply[x].plan, a)
      /\ UNCHANGED <<log, halted, owner, room, work>>
  BY DEF SendTask, InPipeline, RoomInv, RoomTypes, ActorTypes, DispatchInv
<1>2. apply[x].plan \in Plans /\ apply[x].todo \subseteq Agents
  BY <1>1, AppliesKinds
<1>3. CASE TearLine /\ Goes(x, Idle) /\ holder' = Nobody
  <2>1. Idle \in Applies /\ Idle.pc = "idle"
    BY DEF Idle, Applies
  <2>2. lines' = lines /\ torn' \in BOOLEAN /\ corrupt' \in Nat /\ corrupt' > 0
    BY <1>3, LineTears
  <2> HIDE DEF Idle
  <2> QED
    BY <1>1, <1>3, <2>1, <2>2, ApplierRests
<1>4. ASSUME NEW a \in apply[x].todo, AppendLine([kind |-> "task", job |-> <<apply[x].plan, a>>]),
             Goes(x, [apply[x] EXCEPT !.todo = @ \ {a}]), holder' = holder
      PROVE  RoomInv'
  <2>0. PICK plan, todo : plan = apply[x].plan /\ todo = apply[x].todo \ {a}
    OBVIOUS
  <2> DEFINE line == [kind |-> "task", job |-> <<plan, a>>]
             st == [pc |-> "sending", plan |-> plan, todo |-> todo]
  <2>1. line \in Lines /\ line.kind = "task" /\ line.job = <<plan, a>>
    BY <1>2, <2>0 DEF Lines, Jobs
  <2>2. st \in Applies /\ [apply[x] EXCEPT !.todo = @ \ {a}] = st
    <3>1. apply[x] = [pc |-> "sending", plan |-> plan, todo |-> apply[x].todo]
      BY <1>1, <2>0, AppliesKinds
    <3> QED
      BY <1>2, <2>0, <3>1 DEF Applies
  <2>3. st.pc = "sending" /\ st.plan = plan /\ st.todo = todo
    OBVIOUS
  <2>4. todo \subseteq apply[x].todo /\ a \notin todo /\ plan = apply[x].plan /\ AppendLine(line)
        /\ apply' = [apply EXCEPT ![x] = st] /\ \A b \in apply[x].todo : b \in todo \/ b = a
    BY <1>4, <2>0, <2>2 DEF Goes
  <2> HIDE DEF line, st
  <2>5. /\ lines' \in Seq(Lines) /\ ~torn' /\ torn' \in BOOLEAN /\ corrupt' = corrupt
        /\ torn => lines' = lines
        /\ ~torn => lines' = Append(lines, line) /\ Len(lines) + 1 \in DOMAIN lines' /\ lines'[Len(lines) + 1] = line
        /\ \A i \in DOMAIN lines : i \in DOMAIN lines' /\ lines'[i] = lines[i]
        /\ \A i \in DOMAIN lines' : (i \in DOMAIN lines /\ lines'[i] = lines[i]) \/ lines'[i] = line
        /\ \A i \in Posted : i \in Posted'
        /\ \A p, t : Whole(p, t) => Whole(p, t)'
    BY <2>1, <2>4, LinesGrow
  <2>6. apply' \in [Appliers -> Applies] /\ apply'[x] = st /\ \A z \in Appliers : z # x => apply'[z] = apply[z]
    BY <1>1, <2>2, <2>4
  <2>7. ThreadTypes' /\ RoomWalks' /\ ThreadInv'
    BY <1>1, ThreadStands
  <2>8. RoomTypes'
    <3>1. BoardTypes'
      BY <1>4, <2>5 DEF RoomInv, RoomTypes, BoardTypes
    <3>2. ActorTypes'
      BY <1>1, <2>6 DEF RoomInv, RoomTypes, ActorTypes
    <3> QED
      BY <2>7, <3>1, <3>2 DEF RoomTypes
  <2>9. \A b : AlreadySent(plan, b)' => AlreadySent(plan, b) \/ b = a
    <3> SUFFICES ASSUME NEW b, AlreadySent(plan, b)', ~AlreadySent(plan, b) PROVE b = a
      OBVIOUS
    <3>1. PICK i \in DOMAIN lines' : lines'[i].kind = "task" /\ lines'[i].job = <<plan, b>>
      BY DEF AlreadySent, Posted
    <3>2. lines'[i] = line
      BY <2>5, <3>1 DEF AlreadySent, Posted
    <3> QED
      BY <2>1, <3>1, <3>2
  <2>10. Whole(plan, todo)'
    <3>1. CASE torn
      <4>1. corrupt' > 0
        BY <2>5, <3>1 DEF RoomInv, DispatchInv
      <4> QED
        BY <4>1 DEF Whole
    <3>2. CASE ~torn
      <4>1. AlreadySent(plan, a)'
        BY <2>1, <2>5, <3>2 DEF AlreadySent, Posted
      <4>2. \A t : t = apply[x].todo => Whole(plan, t)'
        BY <1>1, <2>4, <2>5
      <4> QED
        BY <2>4, <4>1, <4>2 DEF Whole
    <3> QED
      BY <3>1, <3>2
  <2>11. \A b \in todo : ~AlreadySent(plan, b)'
    BY <1>1, <2>4, <2>9
  <2>12. DispatchInv'
    <3>1. \A z \in Appliers : apply'[z].pc = "sending" => z = x
      BY <1>1, <2>6, OneSends
    <3>2. /\ holder' = x /\ Whole(apply[x].plan, apply[x].todo)'
          /\ (\A b \in apply[x].todo : ~AlreadySent(apply[x].plan, b))'
      BY <1>1, <1>4, <2>3, <2>6, <2>10, <2>11
    <3>3. (\A z \in Appliers : apply[z].pc = "sending" =>
             /\ holder = z /\ Whole(apply[z].plan, apply[z].todo)
             /\ \A b \in apply[z].todo : ~AlreadySent(apply[z].plan, b))'
      BY <3>1, <3>2
    <3>4. (\A i \in DOMAIN log : log[i].kind = "dispatched" => Whole(log[i].plan, {}))'
      BY <1>1, <2>5 DEF RoomInv, DispatchInv
    <3> QED
      BY <2>5, <3>3, <3>4 DEF DispatchInv
  <2>13. TasksInv'
    <3>1. \A i \in DOMAIN lines' : lines'[i].kind = "done" => lines'[i].resolves \in Posted'
      BY <2>1, <2>5 DEF RoomInv, TasksInv
    <3> QED
      BY <1>1, <2>5, <3>1 DEF RoomInv, TasksInv
  <2> QED
    BY <2>7, <2>8, <2>12, <2>13 DEF RoomInv
<1> QED
  BY <1>3, <1>4 DEF SendTask

\* The dispatch that is recorded has nothing left to send.
LEMMA FinishKeeps == ASSUME RoomInv, NEW x \in Appliers, FinishDispatch(x) PROVE RoomInv'
<1> DEFINE e == [kind |-> "dispatched", plan |-> apply[x].plan]
<1>1. /\ apply \in [Appliers -> Applies] /\ apply[x].pc = "sending" /\ apply[x].todo = {}
      /\ UNCHANGED <<halted, owner, room, work, lines, torn, corrupt>> /\ Goes(x, Idle) /\ holder' = Nobody
      /\ log' = log \/ log' = Append(log, e)
  BY DEF FinishDispatch, InPipeline, RoomInv, RoomTypes, ActorTypes
<1>2. apply[x].plan \in Plans /\ torn \in BOOLEAN /\ corrupt \in Nat
  BY <1>1, AppliesKinds DEF RoomInv, RoomTypes, BoardTypes
<1>3. e \in Events /\ e.kind = "dispatched" /\ e.plan = apply[x].plan
  BY <1>2 DEF Events
<1> HIDE DEF e
<1>4. Idle \in Applies /\ Idle.pc = "idle"
  BY DEF Idle, Applies
<1>5. CASE log' = log
  <2> HIDE DEF Idle
  <2> QED
    BY <1>1, <1>2, <1>4, <1>5, ApplierRests
<1>6. CASE log' = Append(log, e)
  <2>1. ThreadTypes' /\ RoomWalks' /\ ThreadInv'
    BY <1>1, <1>3, <1>6, ThreadStands
  <2>2. apply' \in [Appliers -> Applies] /\ apply'[x].pc = "idle" /\ \A z \in Appliers : z # x => apply'[z] = apply[z]
    <3> HIDE DEF Idle
    <3> QED
      BY <1>1, <1>4 DEF Goes
  <2>3. RoomTypes'
    BY <1>1, <2>1, <2>2 DEF RoomInv, RoomTypes, BoardTypes, ActorTypes
  <2>4. \A p, t : Whole(p, t)' <=> Whole(p, t)
    BY <1>1 DEF Whole, AlreadySent, Posted
  <2>5. \A z \in Appliers : apply'[z].pc # "sending"
    BY <1>1, <2>2, OneSends
  <2>6. Whole(e.plan, {})
    BY <1>1, <1>3 DEF RoomInv, DispatchInv
  <2>7. \A i \in DOMAIN log' : (i \in DOMAIN log /\ log'[i] = log[i]) \/ log'[i] = e
    BY <1>3, <1>6, LogGrows DEF RoomInv
  <2>8. (\A i \in DOMAIN log : log[i].kind = "dispatched" => Whole(log[i].plan, {}))'
    BY <2>4, <2>6, <2>7 DEF RoomInv, DispatchInv
  <2>9. DispatchInv'
    BY <1>1, <2>5, <2>8 DEF RoomInv, DispatchInv
  <2>10. TasksInv'
    BY <1>1 DEF RoomInv, TasksInv, Posted
  <2> QED
    BY <2>1, <2>3, <2>9, <2>10 DEF RoomInv
<1> QED
  BY <1>1, <1>5, <1>6

LEMMA CompletionKeeps ==
  ASSUME RoomInv, NEW y \in Workers, BeginCompletion(y) \/ EndCompletion(y) PROVE RoomInv'
<1>1. /\ UNCHANGED <<log, halted, owner, room, apply, holder>> /\ holder = Nobody
      /\ lines \in Seq(Lines) /\ work \in [Workers -> Works] /\ Posted \subseteq Nat
  BY DEF BeginCompletion, EndCompletion, AtWork, RoomInv, RoomTypes, BoardTypes, ActorTypes, Posted
<1>2. ThreadTypes' /\ RoomWalks' /\ ThreadInv'
  BY <1>1, ThreadStands
<1>3. \A z \in Appliers : apply[z].pc # "sending"
  BY <1>1, DesignRoomConstantsOK DEF RoomInv, DispatchInv
<1>4. CASE BeginCompletion(y)
  <2>1. /\ UNCHANGED <<lines, torn, corrupt>>
        /\ \E n \in Posted : work' = [work EXCEPT ![y] = [pc |-> "verifying", task |-> n]]
    BY <1>4 DEF BeginCompletion, Pending
  <2>2. \A n \in Nat : [pc |-> "verifying", task |-> n] \in Works
    BY DEF Works
  <2>3. work' \in [Workers -> Works] /\ \A u \in Workers : work'[u].pc = "verifying" => work'[u].task \in Posted
    BY <1>1, <2>1, <2>2 DEF RoomInv, TasksInv
  <2>4. RoomTypes'
    BY <1>1, <1>2, <2>1, <2>3 DEF RoomInv, RoomTypes, BoardTypes, ActorTypes
  <2>5. \A p, t : Whole(p, t)' <=> Whole(p, t)
    BY <2>1 DEF Whole, AlreadySent, Posted
  <2>6. (\A i \in DOMAIN log : log[i].kind = "dispatched" => Whole(log[i].plan, {}))'
    BY <1>1, <2>5 DEF RoomInv, DispatchInv
  <2>7. DispatchInv'
    BY <1>1, <1>3, <2>1, <2>6 DEF RoomInv, DispatchInv
  <2>8. Posted' = Posted
    BY <2>1 DEF Posted
  <2>9. TasksInv'
    BY <2>1, <2>3, <2>8 DEF RoomInv, TasksInv
  <2> QED
    BY <1>2, <2>4, <2>7, <2>9 DEF RoomInv
<1>5. CASE EndCompletion(y)
  <2>1. work' \in [Workers -> Works] /\ \A u \in Workers : work'[u].pc = "verifying" => work'[u] = work[u]
    <3>1. Idle \in Works /\ Idle.pc = "idle" /\ work' = [work EXCEPT ![y] = Idle]
      BY <1>5 DEF EndCompletion, Idle, Works
    <3> HIDE DEF Idle
    <3> QED
      BY <1>1, <3>1
  <2>2. ASSUME lines' \in Seq(Lines), torn' \in BOOLEAN, corrupt' \in Nat, torn' => corrupt' > 0,
               \A p, t : Whole(p, t) => Whole(p, t)', \A n \in Posted : n \in Posted',
               \A i \in DOMAIN lines' : \/ i \in DOMAIN lines /\ lines'[i] = lines[i]
                                        \/ lines'[i].kind = "done" => lines'[i].resolves \in Posted
        PROVE  RoomInv'
    <3>1. RoomTypes'
      BY <1>1, <1>2, <2>1, <2>2 DEF RoomInv, RoomTypes, BoardTypes, ActorTypes
    <3>2. (\A i \in DOMAIN log : log[i].kind = "dispatched" => Whole(log[i].plan, {}))'
      BY <1>1, <2>2 DEF RoomInv, DispatchInv
    <3>3. DispatchInv'
      BY <1>1, <1>3, <2>2, <3>2 DEF DispatchInv
    <3>4. TasksInv'
      BY <2>1, <2>2 DEF RoomInv, TasksInv
    <3> QED
      BY <1>2, <3>1, <3>3, <3>4 DEF RoomInv
  <2>3. CASE UNCHANGED <<lines, torn, corrupt>>
    <3>1. lines' \in Seq(Lines) /\ torn' \in BOOLEAN /\ corrupt' \in Nat /\ (torn' => corrupt' > 0)
      BY <2>3 DEF RoomInv, RoomTypes, BoardTypes, DispatchInv
    <3>2. /\ \A p, t : Whole(p, t) => Whole(p, t)'
          /\ \A n \in Posted : n \in Posted'
      BY <2>3 DEF Whole, AlreadySent, Posted
    <3> QED
      BY <2>2, <2>3, <3>1, <3>2
  <2>4. CASE TearLine
    <3>1. lines' = lines /\ torn' = TRUE /\ corrupt' \in Nat /\ corrupt' > 0
      BY <2>4, LineTears
    <3>2. /\ \A p, t : Whole(p, t) => Whole(p, t)'
          /\ \A n \in Posted : n \in Posted'
      BY <3>1 DEF Whole, AlreadySent, Posted
    <3> QED
      BY <1>1, <2>2, <3>1, <3>2
  <2>5. ASSUME NEW kind \in {"done", "status"}, AppendLine([kind |-> kind, resolves |-> work[y].task]) PROVE RoomInv'
    <3> DEFINE line == [kind |-> kind, resolves |-> work[y].task]
    <3>1. work[y].task \in Posted
      BY <1>5 DEF EndCompletion, AtWork, RoomInv, TasksInv
    <3>2. line \in Lines /\ line.resolves \in Posted
      BY <1>1, <3>1 DEF Lines
    <3>3. AppendLine(line)
      BY <2>5
    <3> HIDE DEF line
    <3>4. /\ lines' \in Seq(Lines) /\ ~torn' /\ torn' \in BOOLEAN /\ corrupt' = corrupt
          /\ \A i \in DOMAIN lines' : (i \in DOMAIN lines /\ lines'[i] = lines[i]) \/ lines'[i] = line
          /\ \A i \in Posted : i \in Posted'
          /\ \A p, t : Whole(p, t) => Whole(p, t)'
      BY <3>2, <3>3, LinesGrow
    <3>5. corrupt' \in Nat
      BY <3>4 DEF RoomInv, RoomTypes, BoardTypes
    <3> QED
      BY <2>2, <3>2, <3>4, <3>5
  <2> QED
    BY <1>5, <2>3, <2>4, <2>5 DEF EndCompletion
<1> QED
  BY <1>4, <1>5

LEMMA SwitchKeeps == ASSUME RoomInv, TurnKillSwitch \/ ChangeOwner \/ UNCHANGED vars PROVE RoomInv'
<1>1. UNCHANGED <<log, room, apply, work, lines, torn, corrupt, holder>>
  BY DEF TurnKillSwitch, ChangeOwner, Switches, vars
<1>2. halted' \in BOOLEAN /\ owner' \in [Paths -> Agents \cup {Nobody}]
  <2>1. halted \in BOOLEAN /\ owner \in [Paths -> Agents \cup {Nobody}]
    BY DEF RoomInv, RoomTypes, ActorTypes
  <2>2. CASE TurnKillSwitch
    BY <2>1, <2>2 DEF TurnKillSwitch
  <2>3. CASE ChangeOwner
    BY <2>1, <2>3 DEF ChangeOwner
  <2>4. CASE UNCHANGED vars
    BY <2>1, <2>4 DEF vars
  <2> QED
    BY <2>2, <2>3, <2>4
<1>3. ThreadTypes' /\ RoomWalks' /\ ThreadInv'
  BY <1>1, ThreadStands
<1>4. RoomTypes'
  BY <1>1, <1>2, <1>3 DEF RoomInv, RoomTypes, BoardTypes, ActorTypes
<1>5. \A p, t : Whole(p, t)' <=> Whole(p, t)
  BY <1>1 DEF Whole, AlreadySent, Posted
<1>6. \A p, a : AlreadySent(p, a)' <=> AlreadySent(p, a)
  BY <1>1 DEF AlreadySent, Posted
<1>7. DispatchInv'
  BY <1>1, <1>5, <1>6 DEF RoomInv, DispatchInv
<1>8. TasksInv'
  BY <1>1 DEF RoomInv, TasksInv, Posted
<1> QED
  BY <1>3, <1>4, <1>7, <1>8 DEF RoomInv

LEMMA RoomKeeps == RoomInv /\ [Next]_vars => RoomInv'
BY DiscussionKeeps, CompactKeeps, PlanningKeeps, EnterKeeps, SendKeeps, FinishKeeps, CompletionKeeps, SwitchKeeps DEF Next

THEOREM RoomIsSound == Spec => []RoomSound
<1>1. Spec => []RoomInv
  BY RoomBegins, RoomKeeps, PTL DEF Spec
<1> QED
  BY <1>1, RoomInvSound, PTL

-----------------------------------------------------------------------------
(* The handoff log is a task board. *)

Positions(kind) == {i \in DOMAIN lines : lines[i].kind = kind}

LEMMA OfIs ==
  ASSUME RoomInv, NEW kind
  PROVE  /\ Of(kind) \in Seq(Lines)
         /\ \A k \in DOMAIN Of(kind) : \E i \in Positions(kind) : RankIn(Positions(kind), i) = k /\ Of(kind)[k] = lines[i]
         /\ \A i \in Positions(kind) : RankIn(Positions(kind), i) \in DOMAIN Of(kind)
<1>1. lines \in Seq(Lines) /\ Positions(kind) \in SUBSET DOMAIN lines
  BY DEF RoomInv, RoomTypes, BoardTypes, Positions
<1>2. Of(kind) = Picked(lines, Positions(kind))
  BY DEF Of, Positions
<1> QED
  BY <1>1, <1>2, PickedIs

LEMMA OfMore ==
  ASSUME RoomInv, NEW line \in Lines, lines' = Append(lines, line), NEW kind
  PROVE  /\ kind # line.kind => Of(kind)' = Of(kind) /\ Positions(kind)' = Positions(kind)
         /\ kind = line.kind => Of(kind)' = Append(Of(kind), line)
         /\ \A i \in Positions(kind) : RankIn(Positions(kind)', i) = RankIn(Positions(kind), i)
<1> DEFINE S == Positions(kind)
<1>1. lines \in Seq(Lines) /\ S \in SUBSET DOMAIN lines
  BY DEF RoomInv, RoomTypes, BoardTypes, Positions
<1>2. Of(kind) = Picked(lines, S) /\ Of(kind)' = Picked(lines', S')
  BY DEF Of, Positions
<1>3. /\ DOMAIN lines' = DOMAIN lines \cup {Len(lines) + 1} /\ Len(lines) + 1 \notin DOMAIN lines
      /\ lines'[Len(lines) + 1] = line /\ \A i \in DOMAIN lines : lines'[i] = lines[i]
  BY <1>1
<1>4. S' = IF kind = line.kind THEN S \cup {Len(lines) + 1} ELSE S
  BY <1>3 DEF Positions
<1>5. /\ Picked(Append(lines, line), S) = Picked(lines, S)
      /\ Picked(Append(lines, line), S \cup {Len(lines) + 1}) = Append(Picked(lines, S), line)
      /\ \A i \in DOMAIN lines : RankIn(S \cup {Len(lines) + 1}, i) = RankIn(S, i)
  <2> HIDE DEF S
  <2> QED
    BY <1>1, PickedMore, ZenonT(60)
<1> QED
  <2> HIDE DEF S
  <2>1. CASE kind = line.kind
    BY <1>1, <1>2, <1>4, <1>5, <2>1 DEF S
  <2>2. CASE kind # line.kind
    BY <1>2, <1>4, <1>5, <2>2 DEF S
  <2> QED
    BY <2>1, <2>2

LEMMA PostedPositions == Posted = Positions("task") /\ Posted' = Positions("task")'
BY DEF Posted, Positions

\* What is settled was posted, and its number is one of the jobs'.
LEMMA NumbersAre ==
  ASSUME RoomInv
  PROVE  /\ PostedJobs \in Seq(Jobs) /\ SettledTasks \in Seq(Nat)
         /\ \A k \in DOMAIN PostedJobs : \E i \in Posted : PostedJobs[k] = lines[i].job
         /\ \A n \in Posted : NumberOf(n) \in DOMAIN PostedJobs
         /\ \A n, m \in Posted : NumberOf(n) = NumberOf(m) => n = m
         /\ \A k \in DOMAIN SettledTasks : \E n \in Posted : SettledTasks[k] = NumberOf(n) /\ Settled(n)
<1>1. lines \in Seq(Lines) /\ Posted \in SUBSET (1..Len(lines)) /\ Len(lines) \in Nat
  BY DEF RoomInv, RoomTypes, BoardTypes, Posted
<1>2. /\ \A i \in Posted : RankIn(Posted, i) \in 1..Cardinality(Posted)
      /\ \A i, j \in Posted : i < j => RankIn(Posted, i) < RankIn(Posted, j)
      /\ Cardinality(Posted) \in Nat
  BY <1>1, RankIs
<1> DEFINE tasks == Of("task")
           done == Of("done")
<1>3. /\ tasks \in Seq(Lines)
      /\ \A k \in DOMAIN tasks : \E i \in Posted : tasks[k] = lines[i]
      /\ \A i \in Posted : RankIn(Posted, i) \in DOMAIN tasks
  BY OfIs, PostedPositions
<1>4. done \in Seq(Lines) /\ \A k \in DOMAIN done : \E i \in Positions("done") : done[k] = lines[i]
  BY OfIs
<1>5. PostedJobs = [k \in DOMAIN tasks |-> tasks[k].job] /\ SettledTasks = [k \in DOMAIN done |-> NumberOf(done[k].resolves)]
  BY DEF PostedJobs, SettledTasks
<1> HIDE DEF tasks, done
<1>6. \A n \in Posted : NumberOf(n) \in Nat /\ NumberOf(n) \in DOMAIN PostedJobs
  BY <1>2, <1>3, <1>5 DEF NumberOf
<1>7. \A n, m \in Posted : NumberOf(n) = NumberOf(m) => n = m
  <2> SUFFICES ASSUME NEW n \in Posted, NEW m \in Posted, NumberOf(n) = NumberOf(m) PROVE n = m
    OBVIOUS
  <2>1. ~(n < m) /\ ~(m < n)
    BY <1>2 DEF NumberOf
  <2> QED
    BY <1>1, <2>1
<1>8. \A i \in Posted : lines[i].job \in Jobs
  BY <1>1, LineKinds DEF Posted
<1>9. PostedJobs \in Seq(Jobs) /\ \A k \in DOMAIN PostedJobs : \E i \in Posted : PostedJobs[k] = lines[i].job
  <2>1. \A k \in DOMAIN tasks : \E i \in Posted : tasks[k].job = lines[i].job /\ tasks[k].job \in Jobs
    BY <1>3, <1>8
  <2> QED
    BY <1>3, <1>5, <2>1
<1>10. \A k \in DOMAIN done : done[k].resolves \in Posted /\ Settled(done[k].resolves)
  BY <1>4 DEF Positions, Settled, RoomInv, TasksInv
<1>11. SettledTasks \in Seq(Nat) /\ \A k \in DOMAIN SettledTasks : \E n \in Posted : SettledTasks[k] = NumberOf(n) /\ Settled(n)
  BY <1>4, <1>5, <1>6, <1>10
<1> QED
  BY <1>6, <1>7, <1>9, <1>11

LEMMA BoardStands == lines' = lines => UNCHANGED <<PostedJobs, SettledTasks>>
BY DEF PostedJobs, SettledTasks, Of, NumberOf, Posted

\* One more line is one more job, one more that is settled, or neither.
LEMMA BoardMore ==
  ASSUME RoomInv, NEW line \in Lines, lines' = Append(lines, line)
  PROVE  /\ line.kind = "task" => PostedJobs' = Append(PostedJobs, line.job) /\ SettledTasks' = SettledTasks
         /\ line.kind = "done" => PostedJobs' = PostedJobs /\ SettledTasks' = Append(SettledTasks, NumberOf(line.resolves))
         /\ line.kind = "status" => UNCHANGED <<PostedJobs, SettledTasks>>
<1> DEFINE tasks == Of("task")
           done == Of("done")
<1>1. tasks \in Seq(Lines) /\ done \in Seq(Lines)
  BY OfIs
<1>2. /\ PostedJobs = [k \in DOMAIN tasks |-> tasks[k].job] /\ PostedJobs' = [k \in DOMAIN tasks' |-> tasks'[k].job]
      /\ SettledTasks = [k \in DOMAIN done |-> NumberOf(done[k].resolves)]
      /\ SettledTasks' = [k \in DOMAIN done' |-> RankIn(Posted', done'[k].resolves)]
  BY DEF PostedJobs, SettledTasks, NumberOf
<1>3. /\ line.kind # "task" => tasks' = tasks /\ Posted' = Posted
      /\ line.kind = "task" => tasks' = Append(tasks, line)
      /\ \A i \in Posted : RankIn(Posted', i) = RankIn(Posted, i)
      /\ line.kind # "done" => done' = done
      /\ line.kind = "done" => done' = Append(done, line)
  <2>1. \A kind : /\ kind # line.kind => Of(kind)' = Of(kind) /\ Positions(kind)' = Positions(kind)
                  /\ kind = line.kind => Of(kind)' = Append(Of(kind), line)
                  /\ \A i \in Positions(kind) : RankIn(Positions(kind)', i) = RankIn(Positions(kind), i)
    BY OfMore
  <2> QED
    BY <2>1, PostedPositions
<1>4. \A k \in DOMAIN done : done[k].resolves \in Posted
  <2>1. \A k \in DOMAIN done : \E i \in Positions("done") : done[k] = lines[i]
    BY OfIs
  <2> QED
    BY <2>1 DEF Positions, RoomInv, TasksInv
<1> HIDE DEF tasks, done
<1>5. \A k \in DOMAIN done : RankIn(Posted', done[k].resolves) = NumberOf(done[k].resolves)
  BY <1>3, <1>4 DEF NumberOf
<1>6. done' = done => SettledTasks' = SettledTasks
  BY <1>2, <1>5
<1>7. tasks' = tasks => PostedJobs' = PostedJobs
  BY <1>2
<1>8. ASSUME line.kind = "task" PROVE PostedJobs' = Append(PostedJobs, line.job)
  BY <1>1, <1>2, <1>3, <1>8
<1>9. ASSUME line.kind = "done" PROVE SettledTasks' = Append(SettledTasks, NumberOf(line.resolves))
  <2>1. done' = Append(done, line) /\ Posted' = Posted
    BY <1>3, <1>9
  <2> QED
    BY <1>1, <1>2, <2>1 DEF NumberOf
<1> QED
  BY <1>3, <1>6, <1>7, <1>8, <1>9

LEMMA BoardBegins == Init => Board!BoardInit
<1> SUFFICES ASSUME Init PROVE Board!BoardInit
  OBVIOUS
<1>1. \A kind : {i \in DOMAIN lines : lines[i].kind = kind} = {}
  BY DEF Init
<1>2. \A s : Picked(s, {}) = <<>>
  BY FS_EmptySet DEF Picked
<1>3. \A kind : Of(kind) = <<>>
  BY <1>1, <1>2 DEF Of
<1> QED
  BY <1>3 DEF Board!BoardInit, PostedJobs, SettledTasks

LEMMA BoardSteps == ASSUME RoomInv, [Next]_vars PROVE [Board!Post \/ Board!Settle]_<<PostedJobs, SettledTasks>>
<1>1. CASE lines' = lines
  BY <1>1, BoardStands
<1>2. ASSUME NEW x \in Appliers, SendTask(x), lines' # lines PROVE Board!Post
  <2>1. PICK a \in apply[x].todo : AppendLine([kind |-> "task", job |-> <<apply[x].plan, a>>])
    BY <1>2 DEF SendTask, TearLine
  <2> DEFINE line == [kind |-> "task", job |-> <<apply[x].plan, a>>]
  <2>2. apply \in [Appliers -> Applies] /\ apply[x].pc = "sending" /\ ~AlreadySent(apply[x].plan, a)
    BY <1>2 DEF SendTask, InPipeline, RoomInv, RoomTypes, ActorTypes, DispatchInv
  <2>3. line \in Lines /\ line.job \in Jobs /\ line.kind = "task" /\ line.job = <<apply[x].plan, a>>
    BY <2>2, AppliesKinds DEF Lines, Jobs
  <2>4. lines' = Append(lines, line)
    BY <1>2, <2>1 DEF AppendLine
  <2> HIDE DEF line
  <2>5. PostedJobs' = Append(PostedJobs, line.job) /\ SettledTasks' = SettledTasks
    BY <2>3, <2>4, BoardMore
  <2>6. ~Contains(PostedJobs, line.job)
    <3>1. \A k \in DOMAIN PostedJobs : PostedJobs[k] # line.job
      BY <2>2, <2>3, NumbersAre DEF AlreadySent
    <3>2. PostedJobs \in Seq(Jobs)
      BY NumbersAre
    <3> QED
      BY <3>1, <3>2 DEF Contains
  <2>7. /\ PostedJobs' # <<>> /\ Front(PostedJobs') = PostedJobs /\ Last(PostedJobs') = line.job
    <3>1. PostedJobs \in Seq(Jobs)
      BY NumbersAre
    <3> QED
      BY <2>3, <2>5, <3>1 DEF Front, Last
  <2> QED
    BY <2>3, <2>5, <2>6, <2>7 DEF Board!Post, Board!Front, Board!Last, Board!Contains, Front, Last, Contains
<1>3. ASSUME NEW y \in Workers, EndCompletion(y), ~UNCHANGED <<PostedJobs, SettledTasks>> PROVE Board!Settle
  <2>1. lines' # lines
    BY <1>3, BoardStands
  <2>2. /\ ~Settled(work[y].task) /\ work[y].task \in Posted
        /\ \E kind \in {"done", "status"} : AppendLine([kind |-> kind, resolves |-> work[y].task])
    BY <1>3, <2>1 DEF EndCompletion, TearLine, AtWork, RoomInv, TasksInv
  <2>3. PICK kind \in {"done", "status"} : AppendLine([kind |-> kind, resolves |-> work[y].task])
    BY <2>2
  <2> DEFINE line == [kind |-> kind, resolves |-> work[y].task]
  <2>4. work[y].task \in Nat
    BY <2>2 DEF RoomInv, RoomTypes, BoardTypes, Posted
  <2>5. line \in Lines /\ line.kind = kind /\ line.resolves = work[y].task
    BY <2>4 DEF Lines
  <2>6. lines' = Append(lines, line)
    BY <2>1, <2>3 DEF AppendLine
  <2> HIDE DEF line
  <2>7. kind = "done" /\ PostedJobs' = PostedJobs /\ SettledTasks' = Append(SettledTasks, NumberOf(work[y].task))
    BY <1>3, <2>5, <2>6, BoardMore
  <2>8. NumberOf(work[y].task) \in DOMAIN PostedJobs
    BY <2>2, NumbersAre
  <2>9. ~Contains(SettledTasks, NumberOf(work[y].task))
    <3>1. \A k \in DOMAIN SettledTasks : SettledTasks[k] # NumberOf(work[y].task)
      BY <2>2, NumbersAre
    <3>2. SettledTasks \in Seq(Nat)
      BY NumbersAre
    <3> QED
      BY <3>1, <3>2 DEF Contains
  <2> QED
    BY <2>7, <2>8, <2>9 DEF Board!Settle, Board!Contains, Contains
<1>4. lines' = lines \/ (\E x \in Appliers : SendTask(x)) \/ (\E y \in Workers : EndCompletion(y))
  BY DEF Next, vars, StartDiscussion, Discuss, Ask, Respond, Tell, EmitSummary, EmitDecision, EmitClosed, ReadResult,
         RecordError, RecordFailed, InRoom, RoomDies, Compact, BuildPlan, ReadOwnership, Drop, EnterDispatch,
         FinishDispatch, DispatchStops, BeginCompletion, TurnKillSwitch, ChangeOwner, Switches
<1> QED
  BY <1>1, <1>2, <1>3, <1>4

THEOREM RoomImplementsTaskBoard == Spec => ImplementsTaskBoard
<1>1. Spec => []RoomInv
  BY RoomBegins, RoomKeeps, PTL DEF Spec
<1> QED
  BY <1>1, BoardBegins, BoardSteps, PTL DEF Spec, ImplementsTaskBoard, Board!BoardSpec

-----------------------------------------------------------------------------
(* Boundaries: reports stay true. *)

ContractNames == {ContractName[f] : f \in Files}
Texts == Declarations \cup {"hand", "redacted"}
Contracts == [revision : Nat, body : Files \X Texts]
SetupJobs == [suggests : SUBSET (Owners \X Places), left : SUBSET (Owners \X SUBSET Places), clean : BOOLEAN]
DetectJobs ==
  [pc : {"contracts", "scan", "publish"}, owners : [Places -> SUBSET Claims], known : [ContractNames -> SUBSET Contracts],
   seen : [Files -> Declarations], left : SUBSET Files, clean : BOOLEAN]
AtMostOne(S) == \A x, y \in S : x = y

ShelfTypes ==
  /\ claims \in [Places -> SUBSET Claims] /\ source \in [Files -> Declarations]
  /\ contracts \in [ContractNames -> SUBSET Contracts] /\ \A n \in ContractNames : AtMostOne(contracts[n])
JobTypes ==
  /\ setup \in [Commands -> SUBSET SetupJobs] /\ detect \in [Commands -> SUBSET DetectJobs]
  /\ \A p \in Commands : AtMostOne(setup[p]) /\ AtMostOne(detect[p])

\* What a setup suggests is held already, or is still to be claimed.
SetupSound(job) ==
  job.clean => \A s \in job.suggests : Holds(s[1], s[2]) \/ \E w \in job.left : w[1] = s[1] /\ s[2] \in w[2]

\* The file's contract is current, but for the exceptions of ReportsHold.
Current(f) ==
  SharesName(f) \/ source[f] = "secret" \/ \E c \in contracts[ContractName[f]] : c.body = <<f, source[f]>>
\* What a detection has read is so, and what it knows of is current.
DetectSound(job) ==
  job.clean =>
    /\ job.owners = claims /\ job.seen = source /\ job.left \subseteq Crossed(claims)
    /\ job.pc = "scan" => \A f \in Crossed(claims) :
         (\E c \in job.known[ContractName[f]] : c.body = <<f, source[f]>>) => Current(f)
    /\ job.pc = "publish" => \A f \in Crossed(claims) : f \in job.left \/ Current(f)

BoundaryInv ==
  /\ ShelfTypes /\ JobTypes
  /\ \A p \in Commands : (\A job \in setup[p] : SetupSound(job)) /\ (\A job \in detect[p] : DetectSound(job))

LEMMA BoundaryBegins == BoundaryInit => BoundaryInv
<1> SUFFICES ASSUME BoundaryInit PROVE BoundaryInv
  OBVIOUS
<1>1. ShelfTypes
  BY BoundariesAssumption DEF BoundaryInit, ShelfTypes, ContractNames, Declarations, AtMostOne
<1>2. JobTypes
  BY DEF BoundaryInit, JobTypes, AtMostOne
<1> QED
  BY <1>1, <1>2 DEF BoundaryInit, BoundaryInv

\* What the preview calls safe, in normal form, overlaps no claim of another agent
\* but on the root.
LEMMA BoundaryInvSound == BoundaryInv => ReportsHold
<1> SUFFICES ASSUME BoundaryInv PROVE ReportsHold
  OBVIOUS
<1>1. \A p \in Commands : \A job \in setup[p] :
        job.clean /\ job.left = {} => \A s \in job.suggests : Holds(s[1], s[2])
  BY DEF BoundaryInv, SetupSound
<1>2. \A p \in Commands : \A job \in detect[p] :
        job.pc = "publish" /\ job.clean /\ job.left = {} => \A f \in Crossed(claims) : Current(f)
  BY DEF BoundaryInv, DetectSound
<1>3. ASSUME NEW a \in Owners, NEW s \in Requests, PreviewSafe(a, s), NormalizeClaimPath(s) = {s},
             ~HoldsRoot(a), s # Root
      PROVE  Claimable(a, s)
  <2>1. MayClaim(a, {s}, "exclusive")
    BY <1>3, Zenon DEF MayClaim, PathsMeet, PreviewSafe, PreviewMeets, HoldsRoot
  <2> QED
    BY <1>3, <2>1 DEF Claimable
<1> QED
  BY <1>1, <1>2, <1>3 DEF ReportsHold, Current

LEMMA Spoiled ==
  ASSUME BoundaryInv
  PROVE  /\ Spoil(setup) \in [Commands -> SUBSET SetupJobs] /\ Spoil(detect) \in [Commands -> SUBSET DetectJobs]
         /\ \A p \in Commands : AtMostOne(Spoil(setup)[p]) /\ AtMostOne(Spoil(detect)[p])
         /\ \A p \in Commands : /\ \A job \in Spoil(setup)[p] : ~job.clean
                                /\ \A job \in Spoil(detect)[p] : ~job.clean
<1>1. \A job \in SetupJobs : [job EXCEPT !.clean = FALSE] \in SetupJobs /\ ~[job EXCEPT !.clean = FALSE].clean
  BY DEF SetupJobs
<1>2. \A job \in DetectJobs : [job EXCEPT !.clean = FALSE] \in DetectJobs /\ ~[job EXCEPT !.clean = FALSE].clean
  BY DEF DetectJobs
<1>3. \A p \in Commands : Spoil(setup)[p] = {[j EXCEPT !.clean = FALSE] : j \in setup[p]}
                          /\ Spoil(detect)[p] = {[j EXCEPT !.clean = FALSE] : j \in detect[p]}
  BY DEF Spoil
<1>4. \A p \in Commands : setup[p] \subseteq SetupJobs /\ detect[p] \subseteq DetectJobs
                          /\ AtMostOne(setup[p]) /\ AtMostOne(detect[p])
  BY DEF BoundaryInv, JobTypes
<1>5. \A p \in Commands :
        /\ Spoil(setup)[p] \subseteq SetupJobs /\ AtMostOne(Spoil(setup)[p]) /\ \A job \in Spoil(setup)[p] : ~job.clean
        /\ Spoil(detect)[p] \subseteq DetectJobs /\ AtMostOne(Spoil(detect)[p]) /\ \A job \in Spoil(detect)[p] : ~job.clean
  <2> SUFFICES ASSUME NEW p \in Commands
               PROVE  /\ Spoil(setup)[p] \subseteq SetupJobs /\ AtMostOne(Spoil(setup)[p])
                      /\ \A job \in Spoil(setup)[p] : ~job.clean
                      /\ Spoil(detect)[p] \subseteq DetectJobs /\ AtMostOne(Spoil(detect)[p])
                      /\ \A job \in Spoil(detect)[p] : ~job.clean
    OBVIOUS
  <2> DEFINE old(j) == [j EXCEPT !.clean = FALSE]
  <2>1. Spoil(setup)[p] = {old(j) : j \in setup[p]} /\ Spoil(detect)[p] = {old(j) : j \in detect[p]}
    BY <1>3
  <2>2. /\ \A j \in setup[p] : old(j) \in SetupJobs /\ ~old(j).clean
        /\ \A j \in detect[p] : old(j) \in DetectJobs /\ ~old(j).clean
    BY <1>1, <1>2, <1>4
  <2> HIDE DEF old
  <2>3. AtMostOne(Spoil(setup)[p]) /\ AtMostOne(Spoil(detect)[p])
    BY <1>4, <2>1 DEF AtMostOne
  <2> QED
    BY <2>1, <2>2, <2>3
<1>6. Spoil(setup) \in [Commands -> SUBSET SetupJobs] /\ Spoil(detect) \in [Commands -> SUBSET DetectJobs]
  <2>1. Spoil(setup) = [p \in Commands |-> Spoil(setup)[p]] /\ Spoil(detect) = [p \in Commands |-> Spoil(detect)[p]]
    BY DEF Spoil
  <2> QED
    BY <1>5, <2>1
<1>7. \A p \in Commands : AtMostOne(Spoil(setup)[p]) /\ AtMostOne(Spoil(detect)[p])
  BY <1>5, Zenon
<1>8. \A p \in Commands : /\ \A job \in Spoil(setup)[p] : ~job.clean
                          /\ \A job \in Spoil(detect)[p] : ~job.clean
  BY <1>5, Zenon
<1> QED
  BY <1>6, <1>7, <1>8

\* Whatever somebody changes by hand makes what was read of it old.
LEMMA OthersKeep ==
  ASSUME BoundaryInv, ShelfTypes', detect' = Spoil(detect), setup' = Spoil(setup) \/ UNCHANGED <<setup, claims>>
  PROVE  BoundaryInv'
<1>1. JobTypes'
  <2>1. CASE setup' = Spoil(setup)
    BY <2>1, Spoiled DEF JobTypes
  <2>2. CASE setup' = setup
    BY <2>2, Spoiled DEF BoundaryInv, JobTypes
  <2> QED
    BY <2>1, <2>2
<1>2. \A p \in Commands : \A job \in detect'[p] : ~job.clean
  BY Spoiled
<1>3. (\A p \in Commands : \A job \in detect[p] : DetectSound(job))'
  BY <1>2 DEF DetectSound
<1>4. (\A p \in Commands : \A job \in setup[p] : SetupSound(job))'
  <2>1. CASE setup' = Spoil(setup)
    <3>1. \A p \in Commands : \A job \in setup'[p] : ~job.clean
      BY <2>1, Spoiled
    <3> QED
      BY <3>1 DEF SetupSound
  <2>2. CASE UNCHANGED <<setup, claims>>
    BY <2>2 DEF BoundaryInv, SetupSound, Holds
  <2> QED
    BY <2>1, <2>2
<1> QED
  BY <1>1, <1>3, <1>4 DEF BoundaryInv

LEMMA ByHandKeeps ==
  ASSUME BoundaryInv, NEW a \in Owners,
         \/ \E d \in Places : Release(a, d)
         \/ \E s \in Requests, mode \in {"exclusive", "shared"} : ClaimByHand(a, s, mode)
  PROVE  BoundaryInv'
<1>1. ShelfTypes'
  <2>1. claims' \in [Places -> SUBSET Claims]
    <3>1. claims \in [Places -> SUBSET Claims]
      BY DEF BoundaryInv, ShelfTypes
    <3>2. ASSUME NEW d \in Places, Release(a, d) PROVE claims' \in [Places -> SUBSET Claims]
      BY <3>1, <3>2 DEF Release
    <3>3. ASSUME NEW s \in Requests, NEW mode \in {"exclusive", "shared"}, ClaimByHand(a, s, mode)
          PROVE  claims' \in [Places -> SUBSET Claims]
      <4>1. PICK d : claims' = Claimed(a, {d}, mode)
        BY <3>3 DEF ClaimByHand
      <4>2. [agent |-> a, mode |-> mode] \in Claims
        BY DEF Claims
      <4> QED
        BY <3>1, <4>1, <4>2 DEF Claimed
    <3> QED
      BY <3>2, <3>3
  <2>2. UNCHANGED <<contracts, source>>
    BY DEF Release, ClaimByHand
  <2> QED
    BY <2>1, <2>2 DEF BoundaryInv, ShelfTypes
<1>2. detect' = Spoil(detect) /\ setup' = Spoil(setup)
  BY DEF Release, ClaimByHand
<1> QED
  BY <1>1, <1>2, OthersKeep

LEMMA RevisionIs ==
  ASSUME ShelfTypes, NEW n \in ContractNames
  PROVE  Revision(n) \in Nat
<1>1. contracts[n] \subseteq Contracts
  BY DEF ShelfTypes
<1>2. CASE contracts[n] = {}
  BY <1>2 DEF Revision
<1>3. CASE contracts[n] # {}
  <2>1. (CHOOSE c \in contracts[n] : TRUE) \in contracts[n]
    BY <1>3
  <2> QED
    BY <1>1, <1>3, <2>1 DEF Revision, Contracts
<1> QED
  BY <1>2, <1>3

LEMMA PublishTypes ==
  ASSUME ShelfTypes, NEW f \in Files, NEW revision \in Nat, NEW body \in Files \X Texts,
         Publish(ContractName[f], revision, body), UNCHANGED <<claims, source>>
  PROVE  ShelfTypes'
<1> DEFINE c == [revision |-> revision, body |-> body]
           n == ContractName[f]
<1>1. c \in Contracts /\ n \in ContractNames
  BY DEF Contracts, ContractNames
<1>2. contracts' = [contracts EXCEPT ![n] = {c}] \/ contracts' = contracts
  BY DEF Publish
<1> HIDE DEF c, n
<1>3. contracts' \in [ContractNames -> SUBSET Contracts] /\ \A m \in ContractNames : AtMostOne(contracts'[m])
  BY <1>1, <1>2 DEF ShelfTypes, AtMostOne
<1> QED
  BY <1>3 DEF ShelfTypes

LEMMA EditsOfFilesKeep ==
  ASSUME BoundaryInv, NEW f \in Files, EditSource(f) \/ \E revision \in {1, 3} : PublishByHand(f, revision)
  PROVE  BoundaryInv'
<1>1. detect' = Spoil(detect) /\ UNCHANGED <<setup, claims>>
  BY DEF EditSource, PublishByHand
<1>2. CASE EditSource(f)
  <2>1. source' \in [Files -> Declarations] /\ UNCHANGED <<claims, contracts>>
    BY <1>2 DEF EditSource, BoundaryInv, ShelfTypes
  <2>2. ShelfTypes'
    BY <2>1 DEF BoundaryInv, ShelfTypes
  <2> QED
    BY <1>1, <2>2, OthersKeep
<1>3. ASSUME NEW revision \in {1, 3}, PublishByHand(f, revision) PROVE BoundaryInv'
  <2>1. <<f, "hand">> \in Files \X Texts /\ revision \in Nat
    BY DEF Texts
  <2>2. Publish(ContractName[f], revision, <<f, "hand">>) /\ UNCHANGED <<claims, source>>
    BY <1>3 DEF PublishByHand
  <2>3. ShelfTypes'
    BY <2>1, <2>2, PublishTypes DEF BoundaryInv
  <2> QED
    BY <1>1, <2>3, OthersKeep
<1> QED
  BY <1>2, <1>3

\* What a detection has read is as true as it was, while nothing that it is about changes.
LEMMA NothingGetsOld ==
  ASSUME NEW job, DetectSound(job), UNCHANGED <<claims, contracts, source>> PROVE DetectSound(job)'
<1>1. \A f \in Files : Current(f)' <=> Current(f)
  BY DEF Current, SharesName
<1>2. Crossed(claims) \subseteq Files
  BY DEF Crossed
<1> QED
  BY <1>1, <1>2 DEF DetectSound

-----------------------------------------------------------------------------
(* Setting ownership up. *)

LEMMA SetupSteps ==
  ASSUME BoundaryInv, NEW p \in Commands, NEW job \in SetupJobs, SetupSound(job),
         setup' = [setup EXCEPT ![p] = {job}] \/ setup' = [setup EXCEPT ![p] = {}],
         UNCHANGED <<claims, contracts, source, detect>>
  PROVE  BoundaryInv'
<1>1. setup \in [Commands -> SUBSET SetupJobs]
  BY DEF BoundaryInv, JobTypes
<1>2. setup' \in [Commands -> SUBSET SetupJobs] /\ setup'[p] \subseteq {job}
      /\ \A q \in Commands : q # p => setup'[q] = setup[q]
  BY <1>1
<1>3. ShelfTypes'
  BY DEF BoundaryInv, ShelfTypes
<1>4. JobTypes'
  BY <1>2 DEF BoundaryInv, JobTypes, AtMostOne
<1>5. \A q \in Commands : \A j \in setup'[q] : j = job \/ j \in setup[q]
  BY <1>2
<1>6. (\A q \in Commands : \A j \in setup[q] : SetupSound(j))'
  BY <1>5 DEF BoundaryInv, SetupSound, Holds
<1>7. (\A q \in Commands : \A j \in detect[q] : DetectSound(j))'
  BY NothingGetsOld DEF BoundaryInv
<1> QED
  BY <1>3, <1>4, <1>6, <1>7 DEF BoundaryInv

LEMMA BeginsKeeps ==
  ASSUME BoundaryInv, NEW p \in Commands, NEW suggests \in SUBSET (Owners \X Places),
         NEW left \in SUBSET (Owners \X SUBSET Places), Begins(p, suggests, left),
         \A s \in suggests : Holds(s[1], s[2]) \/ \E w \in left : w[1] = s[1] /\ s[2] \in w[2],
         UNCHANGED <<claims, contracts, source, detect>>
  PROVE  BoundaryInv'
<1> DEFINE todo == {w \in left : w[2] # {}}
           job == [suggests |-> suggests, left |-> todo, clean |-> TRUE]
<1>1. job \in SetupJobs /\ setup' = [setup EXCEPT ![p] = {job}]
  BY DEF SetupJobs, Begins
<1>2. SetupSound(job)
  BY DEF SetupSound
<1> HIDE DEF job
<1> QED
  BY <1>1, <1>2, SetupSteps

LEMMA SetupsBegin ==
  ASSUME BoundaryInv, NEW p \in Commands, QuickStart(p) \/ ApplyGitOwnership(p)
  PROVE  BoundaryInv'
<1>1. CASE QuickStart(p)
  <2>1. PICK split \in Splits, a \in Owners, b \in Owners :
          Begins(p, UNION {{<<w[1], d>> : d \in w[2]} : w \in {<<a, CollapsePaths(split[1])>>, <<b, CollapsePaths(split[2])>>}},
                 {<<a, CollapsePaths(split[1])>>, <<b, CollapsePaths(split[2])>>})
    BY <1>1 DEF QuickStart
  <2> DEFINE left == {<<a, CollapsePaths(split[1])>>, <<b, CollapsePaths(split[2])>>}
             suggests == UNION {{<<w[1], d>> : d \in w[2]} : w \in left}
  <2>2. left \in SUBSET (Owners \X SUBSET Places)
    BY BoundariesAssumption DEF CollapsePaths
  <2>3. Begins(p, suggests, left)
    BY <2>1
  <2> HIDE DEF left
  <2>4. \A s \in suggests : \E w \in left : s = <<w[1], s[2]>> /\ s[2] \in w[2]
    OBVIOUS
  <2>5. suggests \in SUBSET (Owners \X Places)
    BY <2>2
  <2>6. \A s \in suggests : \E w \in left : w[1] = s[1] /\ s[2] \in w[2]
    BY <2>2, <2>4
  <2>7. UNCHANGED <<claims, contracts, source, detect>>
    BY <1>1 DEF QuickStart
  <2> HIDE DEF suggests
  <2> QED
    BY <2>2, <2>3, <2>5, <2>6, <2>7, BeginsKeeps
<1>2. CASE ApplyGitOwnership(p)
  <2>1. PICK h \in Histories :
          Begins(p, Suggestions(h),
                 {<<a, {d \in DOMAIN h : <<a, d>> \in Suggestions(h) /\ ~Holds(a, d)}>> : a \in Owners})
    BY <1>2 DEF ApplyGitOwnership
  <2> DEFINE todo(a) == {d \in DOMAIN h : <<a, d>> \in Suggestions(h) /\ ~Holds(a, d)}
             left == {<<a, todo(a)>> : a \in Owners}
  <2>2. DOMAIN h \subseteq Places /\ Suggestions(h) \subseteq Owners \X DOMAIN h
    BY BoundariesAssumption DEF Suggestions
  <2>3. left \in SUBSET (Owners \X SUBSET Places)
    <3>1. \A a \in Owners : todo(a) \in SUBSET Places
      BY <2>2
    <3> HIDE DEF todo
    <3> QED
      BY <3>1
  <2>4. \A s \in Suggestions(h) : s[1] \in Owners /\ s[2] \in DOMAIN h /\ s = <<s[1], s[2]>>
    BY <2>2
  <2>5. ASSUME NEW s \in Suggestions(h) PROVE Holds(s[1], s[2]) \/ \E w \in left : w[1] = s[1] /\ s[2] \in w[2]
    <3> SUFFICES ASSUME ~Holds(s[1], s[2]) PROVE \E w \in left : w[1] = s[1] /\ s[2] \in w[2]
      OBVIOUS
    <3>1. s[2] \in todo(s[1]) /\ <<s[1], todo(s[1])>> \in left
      BY <2>4
    <3> HIDE DEF todo, left
    <3> QED
      BY <3>1
  <2>6. Begins(p, Suggestions(h), left) /\ Suggestions(h) \in SUBSET (Owners \X Places)
    BY <2>1, <2>2
  <2>7. UNCHANGED <<claims, contracts, source, detect>>
    BY <1>2 DEF ApplyGitOwnership
  <2> HIDE DEF left
  <2> QED
    BY <2>3, <2>5, <2>6, <2>7, BeginsKeeps
<1> QED
  BY <1>1, <1>2

LEMMA ClaimKeeps == ASSUME BoundaryInv, NEW p \in Commands, ClaimNext(p) \/ EndSetup(p) PROVE BoundaryInv'
<1>1. setup \in [Commands -> SUBSET SetupJobs] /\ AtMostOne(setup[p]) /\ setup[p] \subseteq SetupJobs
  BY DEF BoundaryInv, JobTypes
<1>2. PICK job \in setup[p] : TRUE
  BY DEF ClaimNext, EndSetup
<1>3. setup[p] = {job} /\ job \in SetupJobs /\ SetupSound(job)
  BY <1>1, <1>2 DEF AtMostOne, BoundaryInv
<1>4. CASE setup' = [setup EXCEPT ![p] = {}] /\ UNCHANGED <<claims, contracts, source, detect>>
  BY <1>3, <1>4, SetupSteps
<1>5. ASSUME NEW w \in job.left, MayClaim(w[1], w[2], "exclusive"), claims' = Claimed(w[1], w[2], "exclusive"),
             detect' = Spoil(detect), setup' = [Spoil(setup) EXCEPT ![p] = {[job EXCEPT !.left = @ \ {w}]}],
             UNCHANGED <<contracts, source>>
      PROVE  BoundaryInv'
  <2> DEFINE rest == [job EXCEPT !.left = @ \ {w}]
  <2>1. w[1] \in Owners /\ w[2] \subseteq Places
    BY <1>3 DEF SetupJobs
  <2>2. rest \in SetupJobs /\ rest.clean = job.clean /\ rest.left = job.left \ {w} /\ rest.suggests = job.suggests
    BY <1>3 DEF SetupJobs
  <2> HIDE DEF rest
  <2>3. claims \in [Places -> SUBSET Claims]
    BY DEF BoundaryInv, ShelfTypes
  <2>4. /\ claims' \in [Places -> SUBSET Claims]
        /\ \A d \in Places : claims'[d] = IF d \in w[2] THEN {[agent |-> w[1], mode |-> "exclusive"]} ELSE claims[d]
    <3>1. [agent |-> w[1], mode |-> "exclusive"] \in Claims
      BY <2>1 DEF Claims
    <3> QED
      BY <1>5, <2>3, <3>1 DEF Claimed
  <2>5. ShelfTypes'
    BY <1>5, <2>4 DEF BoundaryInv, ShelfTypes
  <2>6. setup' = [Spoil(setup) EXCEPT ![p] = {rest}]
    BY <1>5 DEF rest
  <2>7. setup' \in [Commands -> SUBSET SetupJobs] /\ setup'[p] = {rest}
        /\ \A q \in Commands : q # p => setup'[q] = Spoil(setup)[q]
    BY <2>2, <2>6, Spoiled
  <2>8. JobTypes'
    <3>1. \A q \in Commands : AtMostOne(setup'[q])
      BY <2>7, Spoiled DEF AtMostOne
    <3> QED
      BY <1>5, <2>7, <3>1, Spoiled DEF JobTypes
  <2>9. ASSUME NEW a, NEW d, Holds(a, d) PROVE Holds(a, d)'
    <3>1. PICK e \in Places : (d = e \/ <<d, e>> \in Below) /\ \E c \in claims[e] : c.agent = a
      BY <2>9 DEF Holds
    <3>2. CASE e \in w[2]
      <4>1. PICK k \in claims[e] : k.agent = a
        BY <3>1
      <4>3. k.agent = w[1]
        <5>1. PathsMeet(e, e) => k.agent = w[1] \/ (k.mode = "shared" /\ "exclusive" = "shared")
          BY <1>5, <3>2, Zenon DEF MayClaim
        <5> QED
          BY <5>1 DEF PathsMeet
      <4>4. claims'[e] = {[agent |-> w[1], mode |-> "exclusive"]}
        BY <2>4, <3>2
      <4>2. \E c \in claims'[e] : c.agent = a
        BY <4>1, <4>3, <4>4
      <4> QED
        BY <3>1, <4>2 DEF Holds
    <3>3. CASE e \notin w[2]
      BY <2>4, <3>1, <3>3 DEF Holds
    <3> QED
      BY <3>2, <3>3
  <2>10. \A d \in w[2] : Holds(w[1], d)'
    <3> SUFFICES ASSUME NEW d \in w[2] PROVE Holds(w[1], d)'
      OBVIOUS
    <3>1. d \in Places /\ claims'[d] = {[agent |-> w[1], mode |-> "exclusive"]}
      BY <2>1, <2>4
    <3>2. \E c \in claims'[d] : c.agent = w[1]
      BY <3>1
    <3> QED
      BY <3>1, <3>2 DEF Holds
  <2>11. SetupSound(rest)'
    <3> SUFFICES ASSUME job.clean, NEW s \in job.suggests
                 PROVE  Holds(s[1], s[2])' \/ \E v \in job.left \ {w} : v[1] = s[1] /\ s[2] \in v[2]
      BY <2>2 DEF SetupSound
    <3>1. Holds(s[1], s[2]) \/ \E v \in job.left : v[1] = s[1] /\ s[2] \in v[2]
      BY <1>3 DEF SetupSound
    <3> QED
      BY <2>9, <2>10, <3>1
  <2>12. (\A q \in Commands : \A j \in setup[q] : SetupSound(j))'
    <3>1. \A q \in Commands : \A j \in setup'[q] : (q = p /\ j = rest) \/ ~j.clean
      BY <2>7, Spoiled
    <3> QED
      BY <2>11, <3>1 DEF SetupSound
  <2>13. (\A q \in Commands : \A j \in detect[q] : DetectSound(j))'
    <3>1. \A q \in Commands : \A j \in detect'[q] : ~j.clean
      BY <1>5, Spoiled
    <3> QED
      BY <3>1 DEF DetectSound
  <2> QED
    BY <2>5, <2>8, <2>12, <2>13 DEF BoundaryInv
<1>6. CASE ClaimNext(p)
  <2>1. PICK j \in setup[p], w \in UNION {k.left : k \in setup[p]} :
          /\ IF MayClaim(w[1], w[2], "exclusive")
             THEN /\ claims' = Claimed(w[1], w[2], "exclusive") /\ detect' = Spoil(detect)
                  /\ setup' = [Spoil(setup) EXCEPT ![p] = {[j EXCEPT !.left = @ \ {w}]}]
             ELSE setup' = [setup EXCEPT ![p] = {}] /\ UNCHANGED <<claims, detect>>
          /\ UNCHANGED <<contracts, source, steps>>
    BY <1>6 DEF ClaimNext
  <2>2. j = job /\ w \in job.left
    BY <1>3, <2>1
  <2>3. CASE MayClaim(w[1], w[2], "exclusive")
    BY <1>5, <2>1, <2>2, <2>3
  <2>4. CASE ~MayClaim(w[1], w[2], "exclusive")
    BY <1>4, <2>1, <2>4
  <2> QED
    BY <2>3, <2>4
<1>7. CASE EndSetup(p)
  BY <1>4, <1>7 DEF EndSetup
<1> QED
  BY <1>6, <1>7
-----------------------------------------------------------------------------
(* Detecting contracts. *)

LEMMA DetectSteps ==
  ASSUME BoundaryInv, NEW p \in Commands, NEW job \in DetectJobs, DetectSound(job),
         detect' = [detect EXCEPT ![p] = {job}] \/ detect' = [detect EXCEPT ![p] = {}],
         UNCHANGED <<claims, contracts, source, setup>>
  PROVE  BoundaryInv'
<1>1. detect' \in [Commands -> SUBSET DetectJobs] /\ detect'[p] \subseteq {job}
      /\ \A q \in Commands : q # p => detect'[q] = detect[q]
  BY DEF BoundaryInv, JobTypes
<1>2. ShelfTypes'
  BY DEF BoundaryInv, ShelfTypes
<1>3. JobTypes'
  BY <1>1 DEF BoundaryInv, JobTypes, AtMostOne
<1>4. \A q \in Commands : \A j \in detect'[q] : j = job \/ j \in detect[q]
  BY <1>1
<1>5. (\A q \in Commands : \A j \in detect[q] : DetectSound(j))'
  <2>1. \A q \in Commands : \A j \in detect'[q] : DetectSound(j)
    BY <1>4 DEF BoundaryInv
  <2> QED
    BY <2>1, NothingGetsOld
<1>6. (\A q \in Commands : \A j \in setup[q] : SetupSound(j))'
  BY DEF BoundaryInv, SetupSound, Holds
<1> QED
  BY <1>2, <1>3, <1>5, <1>6 DEF BoundaryInv

LEMMA DetectionReads ==
  ASSUME BoundaryInv, NEW p \in Commands,
         GetOwnership(p) \/ GetContracts(p) \/ ScanExports(p) \/ Candidates(p) \/ EndDetect(p)
  PROVE  BoundaryInv'
<1>1. UNCHANGED <<claims, contracts, source, setup>>
  BY DEF GetOwnership, GetContracts, ScanExports, Candidates, EndDetect
<1>2. ShelfTypes /\ \A job \in detect[p] : job \in DetectJobs /\ DetectSound(job)
  BY DEF BoundaryInv, JobTypes
<1>3. \A owners : Crossed(owners) \in SUBSET Files
  BY DEF Crossed
<1>4. CASE GetOwnership(p)
  <2> DEFINE job == [pc |-> "contracts", owners |-> claims, known |-> contracts,
                     seen |-> source, left |-> {}, clean |-> TRUE]
  <2>1. job \in DetectJobs
    BY <1>2 DEF ShelfTypes, DetectJobs
  <2>2. DetectSound(job)
    BY DEF DetectSound
  <2>3. detect' = [detect EXCEPT ![p] = {job}]
    BY <1>4 DEF GetOwnership
  <2> HIDE DEF job
  <2> QED
    BY <1>1, <2>1, <2>2, <2>3, DetectSteps
<1>5. CASE GetContracts(p)
  <2>1. PICK old \in detect[p] : detect' = [detect EXCEPT ![p] =
          {[old EXCEPT !.pc = "scan", !.known = contracts, !.left = Crossed(old.owners)]}]
    BY <1>5 DEF GetContracts
  <2> DEFINE job == [old EXCEPT !.pc = "scan", !.known = contracts, !.left = Crossed(old.owners)]
  <2>2. /\ job \in DetectJobs /\ job.pc = "scan" /\ job.known = contracts /\ job.left = Crossed(old.owners)
        /\ job.clean = old.clean /\ job.owners = old.owners /\ job.seen = old.seen
    BY <1>2, <1>3 DEF ShelfTypes, DetectJobs
  <2>3. detect' = [detect EXCEPT ![p] = {job}]
    BY <2>1
  <2> HIDE DEF job
  <2>4. DetectSound(old)
    BY <1>2
  <2>5. DetectSound(job)
    BY <2>2, <2>4 DEF DetectSound, Current
  <2> QED
    BY <1>1, <2>2, <2>3, <2>5, DetectSteps
<1>6. CASE ScanExports(p)
  <2>1. AtMostOne(detect[p])
    BY DEF BoundaryInv, JobTypes
  <2>2. PICK old \in detect[p] : \E f \in UNION {j.left : j \in detect[p]} :
          old.pc = "scan" /\ detect' = [detect EXCEPT ![p] = {[old EXCEPT !.seen[f] = source[f], !.left = @ \ {f}]}]
    BY <1>6 DEF ScanExports
  <2>3. PICK f \in old.left :
          old.pc = "scan" /\ detect' = [detect EXCEPT ![p] = {[old EXCEPT !.seen[f] = source[f], !.left = @ \ {f}]}]
    BY <2>1, <2>2 DEF AtMostOne
  <2> DEFINE seen == [old.seen EXCEPT ![f] = source[f]]
             job == [old EXCEPT !.seen[f] = source[f], !.left = @ \ {f}]
  <2>4. old \in DetectJobs /\ DetectSound(old) /\ f \in Files
    BY <1>2, <2>3 DEF DetectJobs
  <2>5. seen \in [Files -> Declarations] /\ (old.seen = source => seen = source)
    BY <1>2, <2>4 DEF ShelfTypes, DetectJobs
  <2>6. job = [old EXCEPT !.seen = seen, !.left = @ \ {f}]
    BY <2>4 DEF DetectJobs
  <2> HIDE DEF seen
  <2>7. /\ job \in DetectJobs /\ job.pc = old.pc /\ job.known = old.known /\ job.left = old.left \ {f}
        /\ job.clean = old.clean /\ job.owners = old.owners /\ job.seen = seen
    BY <2>4, <2>5, <2>6 DEF DetectJobs
  <2>8. detect' = [detect EXCEPT ![p] = {job}]
    BY <2>3
  <2> HIDE DEF job
  <2>9. DetectSound(job)
    BY <2>3, <2>4, <2>5, <2>7 DEF DetectSound
  <2> QED
    BY <1>1, <2>7, <2>8, <2>9, DetectSteps
<1>7. CASE Candidates(p)
  <2>1. PICK old \in detect[p] :
          /\ old.pc = "scan"
          /\ \/ detect' = [detect EXCEPT ![p] = {}]
             \/ detect' = [detect EXCEPT ![p] = {[old EXCEPT !.pc = "publish", !.left = Uncovered(old)]}]
    BY <1>7 DEF Candidates
  <2> DEFINE job == [old EXCEPT !.pc = "publish", !.left = Uncovered(old)]
  <2>2. old \in DetectJobs /\ DetectSound(old)
    BY <1>2
  <2>3. Uncovered(old) \in SUBSET Files
    BY <1>3 DEF Uncovered
  <2>4. /\ job \in DetectJobs /\ job.pc = "publish" /\ job.left = Uncovered(old)
        /\ job.clean = old.clean /\ job.owners = old.owners /\ job.seen = old.seen
    BY <2>2, <2>3 DEF DetectJobs
  <2>5. detect' = [detect EXCEPT ![p] = {job}] \/ detect' = [detect EXCEPT ![p] = {}]
    BY <2>1
  <2> HIDE DEF job
  <2>6. DetectSound(job)
    <3> SUFFICES ASSUME job.clean PROVE DetectSound(job)
      BY DEF DetectSound
    <3>1. /\ old.owners = claims /\ old.seen = source
          /\ \A f \in Crossed(claims) :
               (\E c \in old.known[ContractName[f]] : c.body = <<f, source[f]>>) => Current(f)
      BY <2>1, <2>2, <2>4 DEF DetectSound
    <3>2. Uncovered(old) = {f \in Crossed(claims) : \A c \in old.known[ContractName[f]] : c.body # <<f, source[f]>>}
      BY <3>1 DEF Uncovered
    <3>3. \A f \in Crossed(claims) : f \in Uncovered(old) \/ Current(f)
      BY <3>1, <3>2
    <3>4. Uncovered(old) \subseteq Crossed(claims)
      BY <3>2
    <3> QED
      BY <2>4, <3>1, <3>3, <3>4 DEF DetectSound
  <2> QED
    BY <1>1, <2>4, <2>5, <2>6, DetectSteps
<1>8. CASE EndDetect(p)
  <2>1. PICK old \in detect[p] : detect' = [detect EXCEPT ![p] = {}]
    BY <1>8 DEF EndDetect
  <2> QED
    BY <1>1, <1>2, <2>1, DetectSteps
<1> QED
  BY <1>4, <1>5, <1>6, <1>7, <1>8

\* A text that is current, of a file that is still imported, makes no report old.
LEMMA PublishIsCurrent ==
  ASSUME ShelfTypes, NEW f \in Crossed(claims), NEW revision,
         contracts' = [contracts EXCEPT ![ContractName[f]] =
                         {[revision |-> revision, body |-> Stored(f, source[f])]}],
         UNCHANGED <<claims, source>>
  PROVE  Current(f)' /\ \A g \in Crossed(claims) : Current(g) => Current(g)'
<1> DEFINE n == ContractName[f]
<1>1. f \in Files /\ Crossed(claims) \subseteq Files /\ n \in ContractNames
  BY DEF Crossed, ContractNames
<1>2. contracts'[n] = {[revision |-> revision, body |-> Stored(f, source[f])]}
      /\ \A m \in ContractNames : m # n => contracts'[m] = contracts[m]
  BY <1>1 DEF ShelfTypes
<1>3. Current(f)'
  <2>1. CASE source[f] = "secret"
    BY <2>1 DEF Current
  <2>2. CASE source[f] # "secret"
    <3>1. Stored(f, source[f]) = <<f, source[f]>>
      BY <2>2 DEF Stored
    <3> DEFINE c == [revision |-> revision, body |-> <<f, source[f]>>]
    <3>2. contracts'[n] = {c} /\ c.body = <<f, source[f]>>
      BY <1>2, <3>1
    <3> HIDE DEF c
    <3>3. \E k \in contracts'[n] : k.body = <<f, source[f]>>
      BY <3>2
    <3> QED
      BY <3>3 DEF Current
  <2> QED
    BY <2>1, <2>2
<1>4. ASSUME NEW g \in Crossed(claims), Current(g) PROVE Current(g)'
  <2>1. SharesName(g)' <=> SharesName(g)
    BY DEF SharesName
  <2>2. CASE g = f
    BY <1>3, <2>2
  <2>3. CASE g # f /\ ContractName[g] = n
    BY <2>1, <2>3 DEF Current, SharesName
  <2>4. CASE ContractName[g] # n
    <3>1. contracts'[ContractName[g]] = contracts[ContractName[g]]
      BY <1>1, <1>2, <2>4 DEF ContractNames
    <3> QED
      BY <1>4, <2>1, <3>1 DEF Current
  <2> QED
    BY <2>2, <2>3, <2>4
<1> QED
  BY <1>3, <1>4

LEMMA PublishKeeps == ASSUME BoundaryInv, NEW p \in Commands, PublishContract(p) PROVE BoundaryInv'
<1>1. ShelfTypes /\ setup \in [Commands -> SUBSET SetupJobs] /\ detect \in [Commands -> SUBSET DetectJobs]
      /\ AtMostOne(detect[p]) /\ \A job \in detect[p] : job \in DetectJobs /\ DetectSound(job)
  BY DEF BoundaryInv, JobTypes
<1>2. PICK job \in detect[p] : \E f \in UNION {j.left : j \in detect[p]} :
        /\ job.pc = "publish" /\ Publish(ContractName[f], NextRevision(ContractName[f]), Stored(f, job.seen[f]))
        /\ detect' = [(IF job.seen[f] = source[f] /\ f \in Crossed(claims) THEN detect ELSE Spoil(detect))
                        EXCEPT ![p] = {[job EXCEPT !.left = @ \ {f}]}]
        /\ UNCHANGED <<claims, source, setup, steps>>
  BY DEF PublishContract
<1>3. PICK f \in job.left :
        /\ job.pc = "publish" /\ Publish(ContractName[f], NextRevision(ContractName[f]), Stored(f, job.seen[f]))
        /\ detect' = [(IF job.seen[f] = source[f] /\ f \in Crossed(claims) THEN detect ELSE Spoil(detect))
                        EXCEPT ![p] = {[job EXCEPT !.left = @ \ {f}]}]
        /\ UNCHANGED <<claims, source, setup, steps>>
  BY <1>1, <1>2 DEF AtMostOne
<1> DEFINE n == ContractName[f]
           rest == [job EXCEPT !.left = @ \ {f}]
<1>4. job \in DetectJobs /\ DetectSound(job) /\ f \in Files /\ job.seen[f] \in Declarations
  BY <1>1, <1>3 DEF DetectJobs
<1>5. /\ rest \in DetectJobs /\ rest.pc = "publish" /\ rest.left = job.left \ {f}
      /\ rest.clean = job.clean /\ rest.owners = job.owners /\ rest.seen = job.seen
  BY <1>3, <1>4 DEF DetectJobs
<1> HIDE DEF rest
<1>6. n \in ContractNames /\ NextRevision(n) \in Nat /\ NextRevision(n) > Revision(n)
  <2>1. n \in ContractNames
    BY <1>4 DEF ContractNames
  <2>2. Revision(n) \in Nat
    BY <1>1, <2>1, RevisionIs
  <2> QED
    BY <2>1, <2>2 DEF NextRevision
<1>7. contracts' = [contracts EXCEPT ![n] = {[revision |-> NextRevision(n), body |-> Stored(f, job.seen[f])]}]
  BY <1>3, <1>6 DEF Publish
<1>8. ShelfTypes'
  <2>1. Stored(f, job.seen[f]) \in Files \X Texts
    BY <1>4 DEF Stored, Texts
  <2> QED
    BY <1>1, <1>3, <1>4, <1>6, <2>1, PublishTypes
<1>9. detect' \in [Commands -> SUBSET DetectJobs] /\ detect'[p] = {rest} /\ \A q \in Commands : AtMostOne(detect'[q])
  <2>1. \A others \in {detect, Spoil(detect)} :
          others \in [Commands -> SUBSET DetectJobs] /\ \A q \in Commands : AtMostOne(others[q])
    BY Spoiled DEF BoundaryInv, JobTypes
  <2>2. PICK others \in {detect, Spoil(detect)} : detect' = [others EXCEPT ![p] = {rest}]
    BY <1>3 DEF rest
  <2> QED
    BY <1>5, <2>1, <2>2 DEF AtMostOne
<1>10. JobTypes'
  BY <1>3, <1>9 DEF BoundaryInv, JobTypes
<1>11. (\A q \in Commands : \A j \in setup[q] : SetupSound(j))'
  BY <1>3 DEF BoundaryInv, SetupSound, Holds
<1>12. CASE job.seen[f] = source[f] /\ f \in Crossed(claims)
  <2>1. Current(f)' /\ \A g \in Crossed(claims) : Current(g) => Current(g)'
    BY <1>1, <1>3, <1>7, <1>12, PublishIsCurrent
  <2>2. detect' = [detect EXCEPT ![p] = {rest}]
    BY <1>3, <1>12 DEF rest
  <2>3. ASSUME NEW j, DetectSound(j) PROVE DetectSound(j)'
    BY <1>3, <2>1, <2>3 DEF DetectSound
  <2>4. DetectSound(rest)'
    BY <1>3, <1>4, <1>5, <2>1 DEF DetectSound
  <2>5. \A q \in Commands : \A j \in detect'[q] : j = rest \/ DetectSound(j)
    BY <1>1, <2>2 DEF BoundaryInv
  <2>6. (\A q \in Commands : \A j \in detect[q] : DetectSound(j))'
    BY <2>3, <2>4, <2>5
  <2> QED
    BY <1>8, <1>10, <1>11, <2>6 DEF BoundaryInv
<1>13. CASE ~(job.seen[f] = source[f] /\ f \in Crossed(claims))
  <2>1. ~job.clean
    BY <1>4, <1>13 DEF DetectSound
  <2>2. detect' = [Spoil(detect) EXCEPT ![p] = {rest}]
    BY <1>3, <1>13 DEF rest
  <2>3. Spoil(detect) \in [Commands -> SUBSET DetectJobs] /\ \A q \in Commands : \A j \in Spoil(detect)[q] : ~j.clean
    BY Spoiled
  <2>4. \A q \in Commands : \A j \in detect'[q] : ~j.clean
    BY <1>5, <2>1, <2>2, <2>3
  <2>5. (\A q \in Commands : \A j \in detect[q] : DetectSound(j))'
    BY <2>4 DEF DetectSound
  <2> QED
    BY <1>8, <1>10, <1>11, <2>5 DEF BoundaryInv
<1> QED
  BY <1>12, <1>13

LEMMA BoundaryKeeps == BoundaryInv /\ [BoundaryNext]_boundaryVars => BoundaryInv'
<1> SUFFICES ASSUME BoundaryInv, [BoundaryNext]_boundaryVars PROVE BoundaryInv'
  OBVIOUS
<1>1. CASE UNCHANGED boundaryVars
  <2>1. ShelfTypes' /\ JobTypes'
    BY <1>1 DEF boundaryVars, BoundaryInv, ShelfTypes, JobTypes
  <2>2. (\A q \in Commands : \A j \in setup[q] : SetupSound(j))'
    BY <1>1 DEF boundaryVars, BoundaryInv, SetupSound, Holds
  <2>3. (\A q \in Commands : \A j \in detect[q] : DetectSound(j))'
    BY <1>1, NothingGetsOld DEF boundaryVars, BoundaryInv
  <2> QED
    BY <2>1, <2>2, <2>3 DEF BoundaryInv
<1>2. ASSUME NEW a \in Owners,
             \/ \E d \in Places : Release(a, d)
             \/ \E s \in Requests, mode \in {"exclusive", "shared"} : ClaimByHand(a, s, mode)
      PROVE  BoundaryInv'
  BY <1>2, ByHandKeeps
<1>3. ASSUME NEW f \in Files, EditSource(f) \/ \E revision \in {1, 3} : PublishByHand(f, revision)
      PROVE  BoundaryInv'
  BY <1>3, EditsOfFilesKeep
<1>4. ASSUME NEW p \in Commands,
             \/ QuickStart(p) \/ ApplyGitOwnership(p) \/ ClaimNext(p) \/ EndSetup(p)
             \/ GetOwnership(p) \/ GetContracts(p) \/ ScanExports(p) \/ Candidates(p)
             \/ PublishContract(p) \/ EndDetect(p)
      PROVE  BoundaryInv'
  BY <1>4, SetupsBegin, ClaimKeeps, DetectionReads, PublishKeeps
<1> QED
  BY <1>1, <1>2, <1>3, <1>4 DEF BoundaryNext

\* A setup that ended holds what it suggested, a detection that published has left
\* current contracts, and what the preview calls safe can be claimed, until
\* somebody changes what the report is about.
THEOREM ReportsStayTrue == BoundarySpec => []ReportsHold
<1>1. BoundarySpec => []BoundaryInv
  BY BoundaryBegins, BoundaryKeeps, PTL DEF BoundarySpec
<1> QED
  BY <1>1, BoundaryInvSound, PTL
=============================================================================
