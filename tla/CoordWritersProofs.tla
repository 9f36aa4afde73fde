------------------------- MODULE CoordWritersProofs -------------------------
(***************************************************************************)
(* Proofs about CoordWriters, for all agents, paths, bounds and failures,  *)
(* and about Sessions, for all batches, events, turns and deaths.          *)
(***************************************************************************)
EXTENDS CoordWriters, Sessions, FiniteSetTheorems, SequenceTheorems, WellFoundedInduction, TLAPS

-----------------------------------------------------------------------------
(* The writers of the coordination log. *)

\* The events in the file; what a call has read before it writes is this still.
Recorded == EventsOf(file)

\* A call that has read the log and not yet written.
HasRead(a) ==
  pc[a] \in {"append", "archive", "tmp", "rename"} \/ (pc[a] = "check" /\ call[a] \in Paths)

OwnedByAnother(S, a) ==
  {p \in Paths : Log!OwnerOf(S, p) # NoOwner /\ Log!OwnerOf(S, p).agent # a}

\* Recorded with numbers of their own, up to a bound.
Numbered(S) ==
  /\ S \subseteq Log!Event
  /\ \A e, f \in S : e.seq = f.seq => e = f
  /\ \A e \in S : e.seq <= MaxSeq

\* What the holder of the lock has read is what the file holds; its claim is of
\* a path nobody else owns, and its compaction has an archive to fall back on.
Knows(a) ==
  /\ Numbered(seen[a])
  /\ HasRead(a) => seen[a] = Recorded
  /\ HasRead(a) /\ call[a] \in Paths => call[a] \notin OwnedByAnother(Recorded, a)
  /\ pc[a] \in {"append", "chmod"} => call[a] # "compact"
  /\ pc[a] \in {"archive", "tmp", "rename"} => call[a] = "compact"
  /\ pc[a] \in {"tmp", "rename"} => Recorded \subseteq archived
  /\ pc[a] = "rename" =>
       \E k \in CutPoints(Recorded) :
         tmp = InOrder(KeptOf(Recorded, k) \cup {SummaryOf(Recorded \ KeptOf(Recorded, k))})

HolderKnows == \A a \in Agents : Knows(a)

Bounded == \A e \in Recorded : e.seq <= MaxSeq

\* A line that lacks its newline is no event, if no append is cut off between
\* the two; then no event is ever spoiled.
CutIsCorrupt == cut => file # <<>> /\ ("line" \notin Tears => file[Len(file)] = Corrupt)

NothingIsSpoiled == "line" \notin Tears => NothingReadIsLost

\* A call made under the kill switch has not passed its check.
HaltedWait ==
  \A a \in halted :
    /\ kill
    /\ pc[a] \in {"idle", "wait", "check", "read"}
    /\ pc[a] = "read" => call[a] \in Paths

FilesTyped ==
  /\ file \in Seq(Log!Event \cup {Corrupt}) /\ tmp \in Seq(Log!Event) /\ cut \in BOOLEAN
  /\ archived \subseteq Log!Event /\ accepted \subseteq Log!Event /\ logged \subseteq Log!Event

CallsTyped ==
  /\ kill \in BOOLEAN /\ lock \in Agents \cup {NoAgent}
  /\ pc \in [Agents -> Steps] /\ call \in [Agents -> Calls]
  /\ seen \in [Agents -> SUBSET Log!Event]
  /\ failures \in 0..MaxFailures
  /\ halted \subseteq Agents
  /\ \A a \in Agents : pc[a] \notin {"idle", "wait"} <=> lock = a

FileInv == LogOrdered /\ NothingIsSpoiled /\ Bounded /\ CutIsCorrupt

WInv == FilesTyped /\ CallsTyped /\ FileInv /\ HolderKnows

-----------------------------------------------------------------------------
(* The highest number of some events, and events in their order *)

LEMMA EventFields ==
  ASSUME NEW e \in Log!Event
  PROVE  e.seq \in Nat
BY DEF Log!Event, Log!OwnershipEvent, Log!ContractEvent, Log!DecisionEvent,
       Log!AckEvent, Log!TaskEvent, Log!SummaryEvent

LEMMA HighSeqIs ==
  ASSUME NEW S, S \subseteq Log!Event, NEW n \in {e.seq : e \in S} \cup {-1},
         \A e \in S : e.seq <= n
  PROVE  HighSeqOf(S) = n /\ Log!HighSeq(S) = n
<1> DEFINE N == {e.seq : e \in S} \cup {-1}
<1>1. N \subseteq Int /\ \A m \in N : m <= n
  BY EventFields
<1>2. HighSeqOf(S) = n
  <2>1. \A m \in N : (\A e \in S : e.seq <= m) => m = n
    <3> SUFFICES ASSUME NEW m \in N, \A e \in S : e.seq <= m PROVE m = n
      OBVIOUS
    <3>1. m \in Int /\ n \in Int /\ m <= n
      BY <1>1
    <3>2. CASE n = -1
      <4>1. S = {}
        BY <3>2, EventFields
      <4> QED
        BY <3>2, <4>1
    <3>3. CASE \E e \in S : n = e.seq
      BY <3>1, <3>3
    <3> QED
      BY <3>2, <3>3
  <2> QED
    BY <2>1 DEF HighSeqOf
<1>3. Log!HighSeq(S) = n
  <2>1. \A m \in N : (\A k \in N : k <= m) => m = n
    BY <1>1
  <2> HIDE DEF N
  <2>2. Log!MaxOf(N) = n
    BY <1>1, <2>1 DEF Log!MaxOf, N
  <2> QED
    BY <2>2 DEF Log!HighSeq, N
<1> QED
  BY <1>2, <1>3

\* Recorded up to a bound have a last one.
LEMMA LastExists ==
  ASSUME MaxSeq \in Nat, NEW S, Numbered(S), S # {}
  PROVE  \E e \in S : \A f \in S : f.seq <= e.seq
<1> DEFINE R == {ss \in Nat \X Nat : ss[1] < ss[2]}
           D == {MaxSeq - e.seq : e \in S}
<1>1. \A f \in S : f.seq \in Nat /\ f.seq <= MaxSeq
  BY EventFields DEF Numbered
<1>2. D \subseteq Nat /\ D # {}
  BY <1>1
<1>3. OpToRel(<, Nat) = R
  BY DEF OpToRel
<1>4. ASSUME NEW k \in Nat, NEW m \in Nat, <<k, m>> \notin R PROVE m <= k
  BY <1>4
<1> HIDE DEF R, D
<1>5. PICK m \in D : \A k \in D : ~(<<k, m>> \in R)
  BY <1>2, <1>3, NatLessThanWellFounded, WFMin
<1>6. ASSUME NEW k \in D PROVE m <= k
  <2>1. k \in Nat /\ m \in Nat /\ <<k, m>> \notin R
    BY <1>2, <1>5
  <2> QED
    BY <1>4, <2>1
<1>7. PICK e \in S : m = MaxSeq - e.seq
  BY DEF D
<1>8. ASSUME NEW f \in S PROVE f.seq <= e.seq
  <2>1. m <= MaxSeq - f.seq
    BY <1>6 DEF D
  <2> QED
    BY <1>1, <1>7, <2>1
<1> QED
  BY <1>8

LEMMA HighSeqBounds ==
  ASSUME MaxSeq \in Nat, NEW S, Numbered(S)
  PROVE  /\ HighSeqOf(S) \in {e.seq : e \in S} \cup {-1}
         /\ HighSeqOf(S) \in Nat \cup {-1}
         /\ \A e \in S : e.seq <= HighSeqOf(S)
         /\ Log!HighSeq(S) = HighSeqOf(S)
<1>1. S \subseteq Log!Event
  BY DEF Numbered
<1>2. CASE S = {}
  <2>0. -1 \in {e.seq : e \in S} \cup {-1} /\ \A e \in S : e.seq <= -1
    BY <1>2
  <2>1. HighSeqOf(S) = -1 /\ Log!HighSeq(S) = -1
    BY <1>1, <2>0, HighSeqIs
  <2> QED
    BY <1>2, <2>1
<1>3. CASE S # {}
  <2>1. PICK e \in S : \A f \in S : f.seq <= e.seq
    BY <1>3, LastExists
  <2>2. HighSeqOf(S) = e.seq /\ Log!HighSeq(S) = e.seq
    BY <1>1, <2>1, HighSeqIs
  <2> QED
    BY <1>1, <2>1, <2>2, EventFields
<1> QED
  BY <1>2, <1>3

LEMMA NumberedFinite ==
  ASSUME MaxSeq \in Nat, NEW S, Numbered(S)
  PROVE  IsFiniteSet(S)
<1> DEFINE f == [e \in S |-> e.seq]
<1>1. f \in Injection(S, 0..MaxSeq)
  <2>1. \A e \in S : e.seq \in 0..MaxSeq
    BY EventFields DEF Numbered
  <2> QED
    BY <2>1 DEF Injection, IsInjective, Numbered
<1>2. IsFiniteSet(0..MaxSeq)
  BY FS_Interval
<1> QED
  BY <1>1, <1>2, FS_Injection

Sorting(S, s) ==
  s \in [1..Cardinality(S) -> S] /\ \A i, j \in DOMAIN s : i < j => s[i].seq < s[j].seq

\* Were some events without an order, so would be the smallest number of them;
\* but all of those but the last have one.
LEMMA SortingExists ==
  ASSUME MaxSeq \in Nat, NEW S, Numbered(S)
  PROVE  \E s : Sorting(S, s)
<1> DEFINE R == {ss \in Nat \X Nat : ss[1] < ss[2]}
           bad == {n \in Nat : \E T \in SUBSET S : Cardinality(T) = n /\ ~\E s : Sorting(T, s)}
<1>1. \A T \in SUBSET S : Numbered(T) /\ IsFiniteSet(T) /\ Cardinality(T) \in Nat
  <2>1. \A T \in SUBSET S : Numbered(T)
    BY DEF Numbered
  <2> QED
    BY <2>1, NumberedFinite, FS_CardinalityType
<1>2. bad = {}
  <2> SUFFICES ASSUME bad # {} PROVE FALSE
    OBVIOUS
  <2>1. OpToRel(<, Nat) = R
    BY DEF OpToRel
  <2>2. bad \subseteq Nat
    OBVIOUS
  <2> HIDE DEF R, bad
  <2>3. PICK n \in bad : \A m \in bad : ~(<<m, n>> \in R)
    BY <2>1, <2>2, NatLessThanWellFounded, WFMin
  <2>4. PICK T \in SUBSET S : Cardinality(T) = n /\ ~\E s : Sorting(T, s)
    BY <2>3 DEF bad
  <2>5. CASE T = {}
    <3>1. Cardinality(T) = 0
      BY <2>5, FS_EmptySet
    <3>2. Sorting(T, [i \in 1..0 |-> i])
      BY <2>5, <3>1 DEF Sorting
    <3> QED
      BY <2>4, <3>2
  <2>6. CASE T # {}
    <3>1. PICK top \in T : \A f \in T : f.seq <= top.seq
      BY <1>1, <2>6, LastExists
    <3> DEFINE U == T \ {top}
    <3>2. Cardinality(U) = n - 1 /\ U \in SUBSET S
      BY <1>1, <2>4, FS_RemoveElement
    <3>3. n \in Nat /\ n - 1 \in Nat
      BY <1>1, <2>4, <3>2
    <3>4. <<n - 1, n>> \in R
      BY <3>3 DEF R
    <3>5. n - 1 \notin bad
      BY <2>3, <3>4
    <3>6. PICK u : Sorting(U, u)
      BY <3>2, <3>3, <3>5 DEF bad
    <3> DEFINE s == [i \in 1..n |-> IF i = n THEN top ELSE u[i]]
    <3>7. \A i \in 1..n : i # n => i \in 1..(n-1) /\ u[i] \in U
      <4>1. \A i \in 1..(n-1) : u[i] \in U
        BY <3>2, <3>6 DEF Sorting
      <4>2. \A i \in 1..n : i # n => i \in 1..(n-1)
        BY <3>3
      <4> QED
        BY <4>1, <4>2
    <3>8. s \in [1..n -> T] /\ DOMAIN s = 1..n
      BY <3>7
    <3>9. \A f \in U : f.seq \in Nat /\ top.seq \in Nat /\ f.seq < top.seq
      <4>1. \A f \in T : f.seq \in Nat
        BY <1>1, EventFields DEF Numbered
      <4>2. \A f \in U : f.seq # top.seq
        BY <1>1, <2>4 DEF Numbered
      <4> QED
        BY <3>1, <4>1, <4>2
    <3>10. ASSUME NEW i \in 1..n, NEW j \in 1..n, i < j PROVE s[i].seq < s[j].seq
      <4>1. i \in 1..(n-1) /\ u[i] \in U /\ s[i] = u[i]
        BY <3>3, <3>7, <3>10
      <4>2. CASE j = n
        BY <3>9, <4>1, <4>2
      <4>3. CASE j # n
        <5>1. j \in 1..(n-1) /\ s[j] = u[j]
          BY <3>7, <4>3
        <5>2. u[i].seq < u[j].seq
          BY <3>2, <3>6, <3>10, <4>1, <5>1 DEF Sorting
        <5> QED
          BY <4>1, <5>1, <5>2
      <4> QED
        BY <4>2, <4>3
    <3> HIDE DEF s
    <3>11. Sorting(T, s)
      BY <2>4, <3>8, <3>10 DEF Sorting
    <3> QED
      BY <2>4, <3>11
  <2> QED
    BY <2>5, <2>6
<1> QED
  BY <1>1, <1>2

\* InOrder lists the events, each once, by number.
LEMMA InOrderIs ==
  ASSUME MaxSeq \in Nat, NEW S, Numbered(S)
  PROVE  /\ InOrder(S) \in Seq(S)
         /\ ToSet(InOrder(S)) = S
         /\ \A i, j \in DOMAIN InOrder(S) : i < j => InOrder(S)[i].seq < InOrder(S)[j].seq
<1> DEFINE s == InOrder(S)
           n == Cardinality(S)
<1>1. Sorting(S, s)
  BY SortingExists DEF InOrder, Sorting
<1> HIDE DEF s
<1>2. IsFiniteSet(S) /\ n \in Nat
  BY NumberedFinite, FS_CardinalityType
<1>3. IsFiniteSet(1..n) /\ Cardinality(1..n) = n
  BY <1>2, FS_Interval
<1>4. s \in Injection(1..n, S)
  <2>1. ASSUME NEW i \in 1..n, NEW j \in 1..n, s[i] = s[j] PROVE i = j
    <3>1. \A x \in 1..n : s[x].seq \in Nat
      BY <1>1, EventFields DEF Sorting, Numbered
    <3>2. ~(i < j) /\ ~(j < i)
      BY <1>1, <2>1, <3>1 DEF Sorting
    <3> QED
      BY <1>2, <3>2
  <2> QED
    BY <1>1, <2>1 DEF Injection, IsInjective, Sorting
<1>5. s \in Surjection(1..n, S)
  BY <1>2, <1>3, <1>4, FS_Injection
<1>6. ToSet(s) = S
  BY <1>1, <1>5 DEF ToSet, Surjection, Sorting
<1>7. s \in Seq(S)
  BY <1>1, <1>2 DEF Sorting
<1> QED
  BY <1>1, <1>6, <1>7 DEF s, Sorting

-----------------------------------------------------------------------------
(* The lines of the file *)

Line == Log!Event \cup {Corrupt}

LinesOrdered(s) ==
  \A i, j \in DOMAIN s :
    (i < j /\ s[i] # Corrupt /\ s[j] # Corrupt) => s[i].seq < s[j].seq

LEMMA EventsNumbered ==
  ASSUME file \in Seq(Line), LogOrdered, Bounded
  PROVE  Numbered(Recorded)
<1>1. Recorded \subseteq Log!Event /\ \A e \in Recorded : e # Corrupt /\ \E i \in DOMAIN file : file[i] = e
  BY DEF Recorded, EventsOf, ToSet, Line
<1>2. ASSUME NEW e \in Recorded, NEW f \in Recorded, e.seq = f.seq PROVE e = f
  <2>1. PICK i \in DOMAIN file, j \in DOMAIN file : file[i] = e /\ file[j] = f
    BY <1>1
  <2>2. i \in Nat /\ j \in Nat
    OBVIOUS
  <2>3. e.seq \in Nat /\ f.seq \in Nat
    BY <1>1, EventFields
  <2>4. ~(i < j) /\ ~(j < i)
    BY <1>1, <1>2, <2>1, <2>3 DEF LogOrdered
  <2> QED
    BY <2>1, <2>2, <2>4
<1> QED
  BY <1>1, <1>2 DEF Numbered, Bounded

\* A line that is written after a line without a newline is lost with it.
LEMMA ExtendIs ==
  ASSUME CorruptIsNoEvent, file \in Seq(Line), LogOrdered, CutIsCorrupt, cut \in BOOLEAN, NEW line \in Line
  PROVE  /\ Extend(line) \in Seq(Line)
         /\ Extend(line) # <<>>
         /\ Extend(line)[Len(Extend(line))] = (IF cut THEN Corrupt ELSE line)
         /\ cut => EventsOf(Extend(line)) \subseteq Recorded
         /\ cut /\ "line" \notin Tears => EventsOf(Extend(line)) = Recorded
         /\ ~cut => EventsOf(Extend(line)) = Recorded \cup (IF line = Corrupt THEN {} ELSE {line})
         /\ cut \/ line = Corrupt \/ (\A e \in Recorded : e.seq < line.seq) => LinesOrdered(Extend(line))
<1>0. \A i \in 1..Len(file) : file[i] \in Line
  OBVIOUS
<1>1. CASE cut
  <2> DEFINE n == Len(file)
             g == Append(Front(file), Corrupt)
  <2>1. n \in Nat /\ n # 0 /\ ("line" \notin Tears => file[n] = Corrupt)
    BY <1>1 DEF CutIsCorrupt
  <2>2. Front(file) \in Seq(Line) /\ Len(Front(file)) = n - 1 /\ \A i \in 1..(n-1) : Front(file)[i] = file[i]
    <3>1. \A i \in 1..(n-1) : file[i] \in Line
      BY <1>0
    <3>2. /\ SubSeq(file, 1, n - 1) \in Seq(Line)
          /\ Len(SubSeq(file, 1, n - 1)) = IF 1 <= n - 1 THEN n - 1 - 1 + 1 ELSE 0
          /\ \A i \in 1..(n - 1 - 1 + 1) : SubSeq(file, 1, n - 1)[i] = file[1 + i - 1]
      BY <2>1, <3>1, SubSeqProperties
    <3>3. n - 1 - 1 + 1 = n - 1 /\ \A i \in 1..(n-1) : 1 + i - 1 = i
      BY <2>1
    <3> QED
      BY <2>1, <3>2, <3>3 DEF Front
  <2>3. g \in Seq(Line) /\ Len(g) = n /\ g[n] = Corrupt /\ \A i \in 1..(n-1) : g[i] = file[i]
    BY <2>1, <2>2 DEF Line
  <2>4. Extend(line) = g
    BY <1>1 DEF Extend
  <2> HIDE DEF g
  <2>5. DOMAIN g = 1..n /\ DOMAIN file = 1..n /\ \A i \in DOMAIN g : i \in 1..(n-1) \/ i = n
    BY <2>1, <2>3
  <2>6. EventsOf(g) \subseteq Recorded
    BY <2>3, <2>5 DEF EventsOf, Recorded, ToSet
  <2>7. LinesOrdered(g)
    <3> SUFFICES ASSUME NEW i \in DOMAIN g, NEW j \in DOMAIN g, i < j, g[i] # Corrupt, g[j] # Corrupt
                 PROVE  g[i].seq < g[j].seq
      BY DEF LinesOrdered
    <3>1. i \in 1..(n-1) /\ j \in 1..(n-1)
      BY <2>3, <2>5
    <3> QED
      BY <2>3, <2>5, <3>1 DEF LogOrdered
  <2>8. "line" \notin Tears => EventsOf(g) = Recorded
    <3> SUFFICES ASSUME "line" \notin Tears PROVE g = file
      BY DEF Recorded
    <3>1. \A i \in 1..n : g[i] = file[i]
      BY <2>1, <2>3
    <3> QED
      BY <2>3, <3>1
  <2> QED
    BY <1>1, <2>3, <2>1, <2>4, <2>6, <2>7, <2>8
<1>2. CASE ~cut
  <2> DEFINE n == Len(file)
             g == Append(file, line)
  <2>1. /\ g \in Seq(Line) /\ Len(g) = n + 1 /\ n \in Nat /\ DOMAIN g = 1..(n+1) /\ DOMAIN file = 1..n
        /\ g[n+1] = line /\ \A i \in 1..n : g[i] = file[i]
    OBVIOUS
  <2>2. Extend(line) = g
    BY <1>2 DEF Extend
  <2> HIDE DEF g
  <2>3. \A i \in DOMAIN g : i \in DOMAIN file \/ i = n + 1
    BY <2>1
  <2>4. ToSet(g) = ToSet(file) \cup {line}
    BY <2>1, <2>3 DEF ToSet
  <2>5. EventsOf(g) = Recorded \cup (IF line = Corrupt THEN {} ELSE {line})
    BY <2>4 DEF EventsOf, Recorded
  <2>6. ASSUME line = Corrupt \/ \A e \in Recorded : e.seq < line.seq,
               NEW i \in DOMAIN g, NEW j \in DOMAIN g, i < j, g[i] # Corrupt, g[j] # Corrupt
        PROVE  g[i].seq < g[j].seq
    <3>1. i \in DOMAIN file /\ g[i] = file[i]
      BY <2>1, <2>6
    <3>2. CASE j = n + 1
      <4>1. g[i] \in Recorded /\ g[j] = line
        BY <2>1, <2>6, <3>1, <3>2 DEF Recorded, EventsOf, ToSet
      <4> QED
        BY <2>6, <4>1
    <3>3. CASE j # n + 1
      BY <2>1, <2>6, <3>1, <3>3 DEF LogOrdered
    <3> QED
      BY <3>2, <3>3
  <2> QED
    BY <1>2, <2>1, <2>2, <2>5, <2>6 DEF LinesOrdered
<1> QED
  BY <1>1, <1>2

LEMMA SummaryIsEvent ==
  ASSUME MaxSeq \in Nat, NEW S, Numbered(S), S # {}
  PROVE  /\ SummaryOf(S) \in Log!Event
         /\ \E last \in S : SummaryOf(S).seq = last.seq /\ \A e \in S : e.seq <= last.seq
<1>1. PICK last \in S : \A e \in S : e.seq <= last.seq
  BY LastExists
<1>2. HighSeqOf(S) = last.seq
  BY <1>1, HighSeqIs DEF Numbered
<1>3. last.seq \in Nat
  BY EventFields DEF Numbered
<1> QED
  BY <1>1, <1>2, <1>3 DEF SummaryOf, Log!Event, Log!SummaryEvent

\* What compaction leaves of the events S: numbered as they were, the summary in
\* the place of an event that is gone, and the last number kept.
LEMMA CompactedIs ==
  ASSUME MaxSeq \in Nat, NEW S, Numbered(S), NEW k \in CutPoints(S)
  PROVE  LET kept == KeptOf(S, k)
             left == kept \cup {SummaryOf(S \ kept)}
         IN  /\ kept \subseteq S
             /\ S \ kept # {}
             /\ Numbered(left)
             /\ HighSeqOf(left) = HighSeqOf(S)
<1> DEFINE kept == KeptOf(S, k)
           gone == S \ kept
           x    == SummaryOf(gone)
<1>1. kept \subseteq S /\ gone # {} /\ gone \subseteq S
  BY DEF CutPoints, KeptOf
<1> HIDE DEF kept, gone, x
<1>2. Numbered(gone) /\ kept \cap gone = {} /\ S = kept \cup gone
  BY <1>1 DEF Numbered, gone
<1>3. x \in Log!Event
  BY <1>1, <1>2, SummaryIsEvent DEF x
<1>4. PICK last \in gone : x.seq = last.seq /\ \A e \in gone : e.seq <= last.seq
  BY <1>1, <1>2, SummaryIsEvent DEF x
<1>5. \A e \in kept : e.seq # last.seq
  BY <1>1, <1>2, <1>4 DEF Numbered
<1>6. Numbered(kept \cup {x})
  BY <1>1, <1>3, <1>4, <1>5 DEF Numbered
<1>7. PICK top \in S : HighSeqOf(S) = top.seq /\ \A e \in S : e.seq <= top.seq
  <2>1. PICK top \in S : \A e \in S : e.seq <= top.seq
    BY <1>1, LastExists
  <2> QED
    BY <2>1, HighSeqIs DEF Numbered
<1>8. \A e \in S : e.seq \in Nat
  BY EventFields DEF Numbered
<1>9. \A e \in kept \cup {x} : e.seq <= top.seq
  BY <1>1, <1>4, <1>7
<1>10. top.seq \in {e.seq : e \in kept \cup {x}}
  <2>1. CASE top \in kept
    BY <2>1
  <2>2. CASE top \in gone
    <3>1. top.seq = last.seq
      BY <1>1, <1>4, <1>7, <1>8, <2>2
    <3> QED
      BY <1>4, <3>1
  <2> QED
    BY <1>2, <2>1, <2>2
<1>11. HighSeqOf(kept \cup {x}) = top.seq
  BY <1>6, <1>9, <1>10, HighSeqIs DEF Numbered
<1> QED
  BY <1>1, <1>6, <1>7, <1>11 DEF kept, gone, x

-----------------------------------------------------------------------------
(* Every step keeps the invariant *)

LEMMA TypeIsSplit == TypeOK <=> FilesTyped /\ CallsTyped
BY DEF TypeOK, FilesTyped, CallsTyped

LEMMA EventsAreNumbered ==
  ASSUME FilesTyped, FileInv
  PROVE  Numbered(Recorded)
BY EventsNumbered DEF FilesTyped, FileInv, Line

\* A step that writes no file keeps what is known about the files.
LEMMA QuietKeepsFiles ==
  ASSUME FilesTyped, FileInv, UNCHANGED fileVars, accepted' \subseteq Log!Event
  PROVE  FilesTyped' /\ FileInv'
BY DEF FilesTyped, FileInv, fileVars, LogOrdered, NothingIsSpoiled, NothingReadIsLost, Bounded, CutIsCorrupt, Recorded, EventsOf

\* Nobody but the holder of the lock knows anything that a step could undo.
LEMMA OthersKnow ==
  ASSUME CallsTyped, NEW b \in Agents, Knows(b),
         pc'[b] = pc[b], call'[b] = call[b], seen'[b] = seen[b],
         UNCHANGED fileVars \/ pc[b] \in {"idle", "wait"}
  PROVE  Knows(b)'
<1>1. CASE pc[b] \in {"idle", "wait"}
  BY <1>1 DEF Knows, HasRead, Numbered
<1>2. CASE UNCHANGED fileVars
  BY <1>2 DEF Knows, HasRead, Numbered, fileVars, Recorded, EventsOf, OwnedByAnother
<1> QED
  BY <1>1, <1>2

LEMMA IdleKnows ==
  ASSUME NEW a \in Agents, pc'[a] \in {"idle", "wait"}, Numbered(seen'[a])
  PROVE  Knows(a)'
BY DEF Knows, HasRead, Numbered

\* A call takes a step of its own, and every other stays where it was.
Only(a) ==
  /\ \A b \in Agents \ {a} : pc'[b] = pc[b] /\ call'[b] = call[b] /\ seen'[b] = seen[b]
  /\ \A b \in Agents \ {a} : UNCHANGED fileVars \/ lock = a

LEMMA OnlyKeepsOthers ==
  ASSUME CallsTyped, HolderKnows, NEW a \in Agents, Only(a), Knows(a)'
  PROVE  HolderKnows'
<1> SUFFICES ASSUME NEW b \in Agents, b # a PROVE Knows(b)'
  BY DEF HolderKnows
<1>1. UNCHANGED fileVars \/ pc[b] \in {"idle", "wait"}
  BY DEF Only, CallsTyped
<1> QED
  BY <1>1, OthersKnow DEF Only, HolderKnows

LEMMA NothingNumbered == Numbered({})
BY DEF Numbered

\* Leaving the critical section, with nothing or with the file written.
LEMMA LeaveKnows ==
  ASSUME WritersConstantsOK, CallsTyped, HolderKnows, NEW a \in Agents, lock = a, Leave(a),
         kill' \in BOOLEAN, failures' \in 0..MaxFailures, halted' \subseteq Agents
  PROVE  CallsTyped' /\ HolderKnows'
<1>1. pc' = [pc EXCEPT ![a] = "idle"] /\ seen' = [seen EXCEPT ![a] = {}] /\ call' = [call EXCEPT ![a] = "task"]
      /\ lock' = NoAgent
  BY DEF Leave
<1>2. pc'[a] = "idle" /\ seen'[a] = {}
  BY <1>1 DEF CallsTyped
<1>3. Knows(a)'
  BY <1>2, IdleKnows, NothingNumbered
<1>4. Only(a)
  BY <1>1 DEF Only, CallsTyped
<1>5. CallsTyped'
  <2>1. /\ pc' \in [Agents -> Steps] /\ call' \in [Agents -> Calls] /\ seen' \in [Agents -> SUBSET Log!Event]
        /\ lock' \in Agents \cup {NoAgent}
    BY <1>1 DEF CallsTyped, Steps, Calls
  <2>2. \A b \in Agents : pc'[b] \in {"idle", "wait"}
    BY <1>1 DEF CallsTyped
  <2> QED
    BY <1>1, <2>1, <2>2 DEF CallsTyped, WritersConstantsOK
<1> QED
  BY <1>3, <1>4, <1>5, OnlyKeepsOthers

\* Going on with the lock in hand.
LEMMA ProceedTyped ==
  ASSUME CallsTyped, NEW a \in Agents, lock = a, NEW to \in Steps \ {"idle", "wait"}, Proceed(a, to),
         seen' \in [Agents -> SUBSET Log!Event],
         kill' \in BOOLEAN, failures' \in 0..MaxFailures, halted' \subseteq Agents
  PROVE  CallsTyped' /\ pc'[a] = to /\ call'[a] = call[a]
BY DEF CallsTyped, Proceed

LEMMA ProceedOnly ==
  ASSUME CallsTyped, NEW a \in Agents, lock = a, NEW to, Proceed(a, to),
         \/ UNCHANGED seen
         \/ \E S : seen' = [seen EXCEPT ![a] = S]
  PROVE  Only(a)
BY DEF CallsTyped, Proceed, Only

LEMMA LockIsHeld ==
  ASSUME CallsTyped, NEW a \in Agents, pc[a] \notin {"idle", "wait"}
  PROVE  lock = a
BY DEF CallsTyped

\* The event a call appends has the number after the last one it has read.
LEMMA EventOfIs ==
  ASSUME WritersConstantsOK, CallsTyped, HolderKnows, NEW a \in Agents
  PROVE  /\ EventOf(a) \in Log!Event
         /\ EventOf(a).seq = HighSeqOf(seen[a]) + 1
         /\ \A e \in seen[a] : e.seq < EventOf(a).seq
<1>1. Numbered(seen[a]) /\ MaxSeq \in Nat
  BY DEF HolderKnows, Knows, WritersConstantsOK
<1> DEFINE n == HighSeqOf(seen[a]) + 1
<1>2. n \in Nat /\ \A e \in seen[a] : e.seq \in Nat /\ e.seq < n
  BY <1>1, HighSeqBounds, EventFields DEF Numbered
<1>3. EventOf(a).seq = n
  BY DEF EventOf
<1> HIDE DEF n
<1>4. CASE call[a] \in Paths
  <2>1. [type |-> "ownership", seq |-> n, from |-> a, paths |-> {call[a]}, mode |-> "exclusive"] \in Log!Event
    BY <1>2, <1>4 DEF Log!Event, Log!OwnershipEvent, Log!Modes
  <2> QED
    BY <1>2, <1>3, <1>4, <2>1 DEF EventOf, n
<1>5. CASE call[a] \notin Paths
  <2>1. [type |-> "task", seq |-> n, from |-> a] \in Log!Event
    BY <1>2 DEF Log!Event, Log!TaskEvent
  <2> QED
    BY <1>2, <1>3, <1>5, <2>1 DEF EventOf, n
<1> QED
  BY <1>4, <1>5

\* Writing a line at the end of the file.
LEMMA ExtendKeepsFiles ==
  ASSUME WritersConstantsOK, CorruptIsNoEvent, FilesTyped, FileInv,
         NEW line \in Line, file' = Extend(line), cut' \in BOOLEAN, cut' /\ "line" \notin Tears => line = Corrupt,
         logged' = logged \cup EventsOf(file'), UNCHANGED <<tmp, archived, accepted>>,
         line # Corrupt => line.seq <= MaxSeq /\ \A e \in Recorded : e.seq < line.seq
  PROVE  FilesTyped' /\ FileInv'
<1>1. /\ file' \in Seq(Line) /\ file' # <<>>
      /\ file'[Len(file')] = (IF cut THEN Corrupt ELSE line)
      /\ cut => EventsOf(file') \subseteq Recorded
      /\ cut /\ "line" \notin Tears => EventsOf(file') = Recorded
      /\ ~cut => EventsOf(file') = Recorded \cup (IF line = Corrupt THEN {} ELSE {line})
      /\ cut \/ line = Corrupt \/ (\A e \in Recorded : e.seq < line.seq) => LinesOrdered(file')
  BY ExtendIs DEF FilesTyped, FileInv, Line
<1>2. EventsOf(file') \subseteq Log!Event
  BY <1>1 DEF EventsOf, ToSet, Line
<1>3. FilesTyped'
  BY <1>1, <1>2 DEF FilesTyped, Line
<1>4. LogOrdered'
  BY <1>1 DEF LogOrdered, LinesOrdered
<1>5. NothingIsSpoiled'
  BY <1>1 DEF FileInv, NothingIsSpoiled, NothingReadIsLost, Recorded
<1>6. Bounded'
  BY <1>1 DEF FileInv, Bounded, Recorded
<1>7. CutIsCorrupt'
  BY <1>1 DEF CutIsCorrupt
<1> QED
  BY <1>3, <1>4, <1>5, <1>6, <1>7 DEF FileInv

Assumed == WritersConstantsOK /\ CorruptIsNoEvent

LEMMA InitWInv == WritersConstantsOK /\ Init => WInv
<1> SUFFICES ASSUME WritersConstantsOK, Init PROVE WInv
  OBVIOUS
<1>1. FilesTyped
  BY EmptySeq DEF Init, FilesTyped
<1>2. CallsTyped
  <2>1. pc \in [Agents -> Steps] /\ call \in [Agents -> Calls] /\ seen \in [Agents -> SUBSET Log!Event]
    BY DEF Init, Steps, Calls
  <2>2. failures \in 0..MaxFailures
    BY DEF Init, WritersConstantsOK
  <2>3. \A a \in Agents : pc[a] = "idle" /\ lock # a
    BY DEF Init, WritersConstantsOK
  <2>4. kill \in BOOLEAN
    BY DEF Init
  <2> QED
    BY <2>1, <2>2, <2>3, <2>4 DEF Init, CallsTyped
<1>3. Recorded = {}
  BY DEF Init, Recorded, EventsOf, ToSet
<1>4. FileInv
  BY <1>3 DEF Init, FileInv, LogOrdered, NothingIsSpoiled, NothingReadIsLost, Bounded, CutIsCorrupt
<1>5. HolderKnows
  BY NothingNumbered DEF Init, HolderKnows, Knows, HasRead
<1> QED
  BY <1>1, <1>2, <1>4, <1>5 DEF WInv

LEMMA CallKeeps ==
  ASSUME Assumed, WInv, NEW a \in Agents, Call(a)
  PROVE  WInv'
<1>1. /\ pc[a] = "idle" /\ pc' = [pc EXCEPT ![a] = "wait"]
      /\ UNCHANGED fileVars /\ UNCHANGED <<kill, lock, seen, failures, accepted>>
      /\ halted' \subseteq Agents
  BY DEF Call, WInv, CallsTyped
<1>2. PICK c \in Calls : call' = [call EXCEPT ![a] = c]
  BY DEF Call
<1>3. pc'[a] = "wait" /\ Only(a)
  BY <1>1, <1>2 DEF WInv, CallsTyped, Only
<1>4. CallsTyped'
  BY <1>1, <1>2 DEF WInv, CallsTyped, Steps
<1>5. Knows(a)'
  BY <1>1, <1>3, IdleKnows DEF WInv, HolderKnows, Knows, CallsTyped
<1>6. FilesTyped' /\ FileInv'
  BY <1>1, QuietKeepsFiles DEF WInv, FilesTyped
<1> QED
  BY <1>3, <1>4, <1>5, <1>6, OnlyKeepsOthers DEF WInv

LEMMA AcquireKeeps ==
  ASSUME Assumed, WInv, NEW a \in Agents, Acquire(a)
  PROVE  WInv'
<1> DEFINE to == IF call[a] \in Paths THEN "read" ELSE "check"
<1>1. /\ pc[a] = "wait" /\ lock = NoAgent /\ lock' = a /\ pc' = [pc EXCEPT ![a] = to]
      /\ UNCHANGED fileVars /\ UNCHANGED <<kill, call, seen, failures, accepted, halted>>
  BY DEF Acquire
<1>2. to \in {"read", "check"} /\ (to = "check" => call[a] \notin Paths)
  OBVIOUS
<1> HIDE DEF to
<1>3. pc'[a] = to /\ Only(a)
  BY <1>1 DEF WInv, CallsTyped, Only
<1>4. CallsTyped'
  <2>1. pc' \in [Agents -> Steps]
    BY <1>1, <1>2 DEF WInv, CallsTyped, Steps
  <2>2. \A b \in Agents : pc'[b] \notin {"idle", "wait"} <=> lock' = b
    BY <1>1, <1>2 DEF WInv, CallsTyped, Assumed, WritersConstantsOK
  <2> QED
    BY <1>1, <2>1, <2>2 DEF WInv, CallsTyped
<1>5. Knows(a)'
  BY <1>1, <1>2, <1>3 DEF WInv, HolderKnows, Knows, HasRead, Numbered, CallsTyped
<1>6. FilesTyped' /\ FileInv'
  BY <1>1, QuietKeepsFiles DEF WInv, FilesTyped
<1> QED
  BY <1>3, <1>4, <1>5, <1>6, OnlyKeepsOthers DEF WInv

\* The end of an operation that leaves the files as they are.
LEMMA LeaveQuietly ==
  ASSUME Assumed, WInv, NEW a \in Agents, lock = a, Leave(a), UNCHANGED fileVars, UNCHANGED <<kill, halted>>,
         failures' \in 0..MaxFailures, accepted' \subseteq Log!Event
  PROVE  WInv'
<1>1. CallsTyped' /\ HolderKnows'
  BY LeaveKnows DEF WInv, Assumed, CallsTyped
<1>2. FilesTyped' /\ FileInv'
  BY QuietKeepsFiles DEF WInv
<1> QED
  BY <1>1, <1>2 DEF WInv

LEMMA CheckKeeps ==
  ASSUME Assumed, WInv, NEW a \in Agents, Check(a)
  PROVE  WInv'
<1> DEFINE to == IF call[a] \in Paths THEN "append" ELSE "read"
<1>1. pc[a] = "check" /\ lock = a /\ UNCHANGED fileVars /\ UNCHANGED <<kill, failures, accepted, halted>>
  BY LockIsHeld DEF Check, WInv
<1>2. CASE Leave(a)
  BY <1>1, <1>2, LeaveQuietly DEF WInv, FilesTyped, CallsTyped
<1>3. CASE Proceed(a, to) /\ UNCHANGED seen
  <2>1. to \in Steps \ {"idle", "wait"}
    BY DEF Steps
  <2>2. to \in {"append", "read"} /\ (to = "append" <=> call[a] \in Paths)
    OBVIOUS
  <2> HIDE DEF to
  <2>3. CallsTyped' /\ pc'[a] = to /\ call'[a] = call[a] /\ Only(a)
    BY <1>1, <1>3, <2>1, ProceedTyped, ProceedOnly DEF WInv, CallsTyped
  <2>4. Knows(a)'
    BY <1>1, <1>3, <2>2, <2>3
       DEF WInv, HolderKnows, Knows, HasRead, Numbered, fileVars, Recorded, EventsOf, OwnedByAnother, Assumed, WritersConstantsOK
  <2>5. FilesTyped' /\ FileInv'
    BY <1>1, QuietKeepsFiles DEF WInv, FilesTyped
  <2> QED
    BY <2>3, <2>4, <2>5, OnlyKeepsOthers DEF WInv
<1> QED
  BY <1>2, <1>3 DEF Check

LEMMA SwitchKeeps ==
  ASSUME Assumed, WInv, ActivateKillSwitch \/ DeactivateKillSwitch
  PROVE  WInv'
<1>1. UNCHANGED fileVars /\ UNCHANGED <<lock, pc, call, seen, failures, accepted>> /\ kill' \in BOOLEAN /\ halted' \subseteq Agents
  BY DEF ActivateKillSwitch, DeactivateKillSwitch, WInv, CallsTyped
<1>2. CallsTyped'
  BY <1>1 DEF WInv, CallsTyped
<1>3. HolderKnows'
  BY <1>1, OthersKnow DEF WInv, HolderKnows
<1>4. FilesTyped' /\ FileInv'
  BY <1>1, QuietKeepsFiles DEF WInv, FilesTyped
<1> QED
  BY <1>2, <1>3, <1>4 DEF WInv

LEMMA InterruptKeeps ==
  ASSUME Assumed, WInv, NEW a \in Agents, Interrupt(a)
  PROVE  WInv'
<1>1. lock = a /\ Leave(a) /\ UNCHANGED fileVars /\ UNCHANGED <<kill, halted>>
      /\ failures' \in 0..MaxFailures /\ accepted' \subseteq Log!Event
  BY DEF Interrupt, WInv, CallsTyped, FilesTyped, Assumed, WritersConstantsOK
<1> QED
  BY <1>1, LeaveQuietly

LEMMA ReadKeeps ==
  ASSUME Assumed, WInv, NEW a \in Agents, Read(a)
  PROVE  WInv'
<1>1. pc[a] = "read" /\ lock = a /\ UNCHANGED fileVars /\ UNCHANGED <<kill, failures, accepted, halted>>
  BY LockIsHeld DEF Read, WInv
<1>2. CASE Leave(a)
  BY <1>1, <1>2, LeaveQuietly DEF WInv, FilesTyped, CallsTyped
<1>3. ASSUME NEW to \in {"archive", "append", "check"}, Proceed(a, to), seen' = [seen EXCEPT ![a] = Recorded],
             to = "archive" => call[a] = "compact",
             to = "append" => call[a] = "task",
             to = "check" => call[a] \in Paths \ OwnedByAnother(Recorded, a)
      PROVE  WInv'
  <2>1. to \in Steps \ {"idle", "wait"}
    BY DEF Steps
  <2>2. Numbered(Recorded)
    BY EventsAreNumbered DEF WInv
  <2>3. seen' \in [Agents -> SUBSET Log!Event] /\ seen'[a] = Recorded
    BY <1>3, <2>2 DEF WInv, CallsTyped, Numbered
  <2>4. CallsTyped' /\ pc'[a] = to /\ call'[a] = call[a] /\ Only(a)
    BY <1>1, <1>3, <2>1, <2>3, ProceedTyped, ProceedOnly DEF WInv, CallsTyped
  <2>5. Recorded' = Recorded
    BY <1>1 DEF fileVars, Recorded
  <2>6. "task" \notin Paths /\ "compact" \notin Paths
    BY DEF Assumed, WritersConstantsOK
  <2>7. Knows(a)'
    BY <1>1, <1>3, <2>2, <2>3, <2>4, <2>5, <2>6 DEF Knows, HasRead, Numbered, OwnedByAnother
  <2>8. FilesTyped' /\ FileInv'
    BY <1>1, QuietKeepsFiles DEF WInv, FilesTyped
  <2> QED
    BY <2>4, <2>7, <2>8, OnlyKeepsOthers DEF WInv
<1>4. ASSUME call[a] = "compact", Proceed(a, "archive"), seen' = [seen EXCEPT ![a] = Recorded] PROVE WInv'
  BY <1>3, <1>4
<1>5. ASSUME call[a] = "task", Proceed(a, "append"), seen' = [seen EXCEPT ![a] = Recorded] PROVE WInv'
  BY <1>3, <1>5
<1>6. ASSUME call[a] \in Paths \ OwnedByAnother(Recorded, a), Proceed(a, "check"), seen' = [seen EXCEPT ![a] = Recorded]
      PROVE  WInv'
  BY <1>3, <1>6
<1>7. {p \in Paths : \E o \in {Log!OwnerOf(Recorded, p)} : o # NoOwner /\ o.agent # a} = OwnedByAnother(Recorded, a)
  BY DEF OwnedByAnother
<1> QED
  BY <1>2, <1>4, <1>5, <1>6, <1>7 DEF Read, Recorded

\* The number a call appends is new to what is in the file.
LEMMA AppendsNext ==
  ASSUME Assumed, WInv, NEW a \in Agents, pc[a] = "append", EventOf(a).seq <= MaxSeq
  PROVE  /\ lock = a
         /\ EventOf(a) \in Line /\ EventOf(a) # Corrupt
         /\ EventOf(a).seq <= MaxSeq /\ \A e \in Recorded : e.seq < EventOf(a).seq
<1>1. lock = a
  BY LockIsHeld DEF WInv
<1>2. seen[a] = Recorded
  BY DEF WInv, HolderKnows, Knows, HasRead
<1> QED
  BY <1>1, <1>2, EventOfIs DEF WInv, Assumed, CorruptIsNoEvent, Line

LEMMA AppendLineKeeps ==
  ASSUME Assumed, WInv, NEW a \in Agents, AppendLine(a)
  PROVE  WInv'
<1>1. /\ pc[a] = "append" /\ EventOf(a).seq <= MaxSeq /\ file' = Extend(EventOf(a)) /\ cut' = FALSE
      /\ logged' = logged \cup EventsOf(file') /\ Proceed(a, "chmod")
      /\ UNCHANGED <<tmp, archived, kill, seen, failures, accepted, halted>>
  BY DEF AppendLine
<1>2. /\ lock = a /\ EventOf(a) \in Line /\ EventOf(a) # Corrupt
      /\ EventOf(a).seq <= MaxSeq /\ \A e \in Recorded : e.seq < EventOf(a).seq
  BY <1>1, AppendsNext
<1>3. FilesTyped' /\ FileInv'
  BY <1>1, <1>2, ExtendKeepsFiles DEF WInv, Assumed
<1>4. CallsTyped' /\ pc'[a] = "chmod" /\ call'[a] = call[a] /\ Only(a)
  BY <1>1, <1>2, ProceedTyped, ProceedOnly DEF WInv, CallsTyped, Steps
<1>5. Knows(a)'
  BY <1>1, <1>4 DEF WInv, HolderKnows, Knows, HasRead, Numbered
<1> QED
  BY <1>3, <1>4, <1>5, OnlyKeepsOthers DEF WInv

LEMMA TearLineKeeps ==
  ASSUME Assumed, WInv, NEW a \in Agents, TearLine(a)
  PROVE  WInv'
<1>1. /\ pc[a] = "append" /\ EventOf(a).seq <= MaxSeq /\ cut' = TRUE /\ failures' \in 0..MaxFailures
      /\ logged' = logged \cup EventsOf(file') /\ Leave(a)
      /\ UNCHANGED <<tmp, archived, kill, accepted, halted>>
  BY DEF TearLine, WInv, CallsTyped, Assumed, WritersConstantsOK
<1>2. PICK line \in {Corrupt, EventOf(a)} : file' = Extend(line) /\ ("line" \notin Tears => line = Corrupt)
  BY DEF TearLine, Assumed, WritersConstantsOK
<1>3. /\ lock = a /\ EventOf(a) \in Line
      /\ EventOf(a).seq <= MaxSeq /\ \A e \in Recorded : e.seq < EventOf(a).seq
  BY <1>1, AppendsNext
<1>4. FilesTyped' /\ FileInv'
  <2>1. line \in Line /\ (line # Corrupt => line = EventOf(a))
    BY <1>2, <1>3 DEF Line
  <2> QED
    BY <1>1, <1>2, <1>3, <2>1, ExtendKeepsFiles DEF WInv, Assumed
<1>5. CallsTyped' /\ HolderKnows'
  BY <1>1, <1>3, LeaveKnows DEF WInv, Assumed, CallsTyped
<1> QED
  BY <1>4, <1>5 DEF WInv

LEMMA ChmodKeeps ==
  ASSUME Assumed, WInv, NEW a \in Agents, Chmod(a)
  PROVE  WInv'
<1>1. pc[a] = "chmod" /\ accepted' = accepted \cup {EventOf(a)} /\ Leave(a) /\ UNCHANGED fileVars
      /\ UNCHANGED <<kill, failures, halted>>
  BY DEF Chmod
<1>2. lock = a
  BY <1>1, LockIsHeld DEF WInv
<1>3. accepted' \subseteq Log!Event
  BY <1>1, EventOfIs DEF WInv, FilesTyped, Assumed
<1> QED
  BY <1>1, <1>2, <1>3, LeaveQuietly DEF WInv, CallsTyped

LEMMA ArchiveKeeps ==
  ASSUME Assumed, WInv, NEW a \in Agents, Archive(a)
  PROVE  WInv'
<1>1. /\ pc[a] = "archive" /\ archived' = archived \cup Recorded /\ Proceed(a, "tmp")
      /\ UNCHANGED <<file, cut, tmp, logged, kill, seen, failures, accepted, halted>>
  BY DEF Archive, Recorded
<1>2. lock = a
  BY <1>1, LockIsHeld DEF WInv
<1>3. Recorded' = Recorded /\ Numbered(Recorded)
  BY <1>1, EventsAreNumbered DEF Recorded, WInv
<1>4. FilesTyped' /\ FileInv'
  BY <1>1, <1>3 DEF WInv, FilesTyped, FileInv, LogOrdered, NothingIsSpoiled, NothingReadIsLost, Bounded, CutIsCorrupt, Numbered, Recorded
<1>5. CallsTyped' /\ pc'[a] = "tmp" /\ call'[a] = call[a] /\ Only(a)
  BY <1>1, <1>2, ProceedTyped, ProceedOnly DEF WInv, CallsTyped, Steps
<1>6. Knows(a)'
  BY <1>1, <1>3, <1>5 DEF WInv, HolderKnows, Knows, HasRead, Numbered, Assumed, WritersConstantsOK
<1> QED
  BY <1>4, <1>5, <1>6, OnlyKeepsOthers DEF WInv

\* The events that a compaction cut at k leaves.
LeftOf(S, k) == KeptOf(S, k) \cup {SummaryOf(S \ KeptOf(S, k))}

LEMMA WriteTmpKeeps ==
  ASSUME Assumed, WInv, NEW a \in Agents, WriteTmp(a)
  PROVE  WInv'
<1>1. /\ pc[a] = "tmp" /\ Proceed(a, "rename") /\ \E k \in CutPoints(seen[a]) : tmp' = InOrder(LeftOf(seen[a], k))
      /\ UNCHANGED <<file, cut, archived, logged, kill, seen, failures, accepted, halted>>
  BY DEF WriteTmp, LeftOf
<1>2. lock = a
  BY <1>1, LockIsHeld DEF WInv
<1>3. Recorded' = Recorded /\ Numbered(Recorded) /\ seen[a] = Recorded
  BY <1>1, EventsAreNumbered DEF Recorded, WInv, HolderKnows, Knows, HasRead
<1>4. PICK k \in CutPoints(Recorded) : tmp' = InOrder(LeftOf(Recorded, k))
  BY <1>1, <1>3
<1>5. tmp' \in Seq(Log!Event)
  <2>1. MaxSeq \in Nat
    BY DEF Assumed, WritersConstantsOK
  <2>2. Numbered(LeftOf(Recorded, k))
    BY <1>3, <2>1, CompactedIs DEF LeftOf
  <2>3. tmp' \in Seq(LeftOf(Recorded, k)) /\ LeftOf(Recorded, k) \subseteq Log!Event
    BY <1>4, <2>1, <2>2, InOrderIs DEF Numbered
  <2> QED
    BY <2>3, SeqMonotonic
<1>6. FilesTyped' /\ FileInv'
  BY <1>1, <1>5 DEF WInv, FilesTyped, FileInv, LogOrdered, NothingIsSpoiled, NothingReadIsLost, Bounded, CutIsCorrupt, Recorded
<1>7. CallsTyped' /\ pc'[a] = "rename" /\ call'[a] = call[a] /\ Only(a)
  BY <1>1, <1>2, ProceedTyped, ProceedOnly DEF WInv, CallsTyped, Steps
<1>8. Knows(a)'
  <2>1. Knows(a) /\ "compact" \notin Paths
    BY DEF WInv, HolderKnows, Assumed, WritersConstantsOK
  <2>2. call[a] = "compact" /\ Recorded \subseteq archived
    BY <1>1, <2>1 DEF Knows
  <2>3. \E n \in CutPoints(Recorded') : tmp' = InOrder(KeptOf(Recorded', n) \cup {SummaryOf(Recorded' \ KeptOf(Recorded', n))})
    BY <1>3, <1>4 DEF LeftOf
  <2> QED
    BY <1>1, <1>3, <1>7, <2>1, <2>2, <2>3 DEF Knows, HasRead, Numbered
<1> QED
  BY <1>6, <1>7, <1>8, OnlyKeepsOthers DEF WInv

\* What is in the temporary file when it takes the place of the log.
LEMMA TmpIs ==
  ASSUME Assumed, WInv, NEW a \in Agents, pc[a] = "rename"
  PROVE  \E k \in CutPoints(Recorded) :
           /\ EventsOf(tmp) = LeftOf(Recorded, k)
           /\ Numbered(LeftOf(Recorded, k))
           /\ HighSeqOf(LeftOf(Recorded, k)) = HighSeqOf(Recorded)
           /\ LinesOrdered(tmp)
<1>0. MaxSeq \in Nat /\ Numbered(Recorded)
  BY EventsAreNumbered DEF Assumed, WritersConstantsOK, WInv
<1>1. PICK k \in CutPoints(Recorded) : tmp = InOrder(LeftOf(Recorded, k))
  BY DEF WInv, HolderKnows, Knows, LeftOf
<1>2. Numbered(LeftOf(Recorded, k)) /\ HighSeqOf(LeftOf(Recorded, k)) = HighSeqOf(Recorded)
  BY <1>0, CompactedIs DEF LeftOf
<1>3. ToSet(tmp) = LeftOf(Recorded, k) /\ LinesOrdered(tmp)
  BY <1>0, <1>1, <1>2, InOrderIs DEF LinesOrdered
<1>4. Corrupt \notin LeftOf(Recorded, k)
  BY <1>2 DEF Numbered, Assumed, CorruptIsNoEvent
<1> QED
  BY <1>2, <1>3, <1>4 DEF EventsOf

LEMMA RenameTmpKeeps ==
  ASSUME Assumed, WInv, NEW a \in Agents, RenameTmp(a)
  PROVE  WInv'
<1>1. /\ pc[a] = "rename" /\ file' = tmp /\ tmp' = <<>> /\ cut' = FALSE /\ logged' = logged \cup EventsOf(tmp) /\ Leave(a)
      /\ UNCHANGED <<archived, kill, failures, accepted, halted>>
  BY DEF RenameTmp
<1>2. lock = a
  BY <1>1, LockIsHeld DEF WInv
<1>3. PICK k \in CutPoints(Recorded) : EventsOf(tmp) = LeftOf(Recorded, k) /\ Numbered(LeftOf(Recorded, k)) /\ LinesOrdered(tmp)
  BY <1>1, TmpIs
<1>4. Recorded' = EventsOf(tmp) /\ EventsOf(tmp) \subseteq Log!Event
  BY <1>1, <1>3 DEF Recorded, Numbered
<1>5. FilesTyped'
  <2>1. tmp \in Seq(Line)
    BY SeqMonotonic DEF WInv, FilesTyped, Line
  <2>2. tmp' \in Seq(Log!Event)
    BY <1>1, EmptySeq
  <2> QED
    BY <1>1, <1>4, <2>1, <2>2 DEF WInv, FilesTyped, Line
<1>6. Recorded \subseteq archived
  BY <1>1 DEF WInv, HolderKnows, Knows
<1>7. FileInv'
  <2>1. LogOrdered'
    BY <1>1, <1>3 DEF LogOrdered, LinesOrdered
  <2>2. NothingIsSpoiled'
    BY <1>1, <1>6 DEF NothingIsSpoiled, NothingReadIsLost, WInv, FileInv, Recorded
  <2>3. Bounded' /\ CutIsCorrupt'
    BY <1>1, <1>3, <1>4 DEF Bounded, CutIsCorrupt, Numbered
  <2> QED
    BY <2>1, <2>2, <2>3 DEF FileInv
<1>8. CallsTyped' /\ HolderKnows'
  BY <1>1, <1>2, LeaveKnows DEF WInv, Assumed, CallsTyped
<1> QED
  BY <1>5, <1>7, <1>8 DEF WInv

LEMMA WInvStep ==
  ASSUME Assumed, WInv, [Next]_vars
  PROVE  WInv'
<1>1. ASSUME NEW a \in Agents,
             \/ Call(a) \/ Acquire(a) \/ Check(a) \/ Read(a) \/ AppendLine(a) \/ TearLine(a)
             \/ Chmod(a) \/ Archive(a) \/ WriteTmp(a) \/ RenameTmp(a) \/ Interrupt(a)
      PROVE  WInv'
  BY <1>1, CallKeeps, AcquireKeeps, CheckKeeps, ReadKeeps, AppendLineKeeps, TearLineKeeps,
     ChmodKeeps, ArchiveKeeps, WriteTmpKeeps, RenameTmpKeeps, InterruptKeeps
<1>2. CASE ActivateKillSwitch \/ DeactivateKillSwitch
  BY <1>2, SwitchKeeps
<1>3. CASE UNCHANGED vars
  <2>1. UNCHANGED fileVars /\ UNCHANGED <<kill, lock, pc, call, seen, failures, accepted, halted>>
    BY <1>3 DEF vars
  <2>2. CallsTyped'
    BY <2>1 DEF WInv, CallsTyped
  <2>3. HolderKnows'
    BY <2>1, OthersKnow DEF WInv, HolderKnows
  <2>4. FilesTyped' /\ FileInv'
    BY <2>1, QuietKeepsFiles DEF WInv, FilesTyped
  <2> QED
    BY <2>2, <2>3, <2>4 DEF WInv
<1> QED
  BY <1>1, <1>2, <1>3 DEF Next

LEMMA AssumedHolds == Assumed
BY WritersConstantsOK, CorruptIsNoEvent DEF Assumed

LEMMA WInvInductive == Spec => []WInv
<1>1. Init => WInv
  BY InitWInv, WritersConstantsOK
<1>2. WInv /\ [Next]_vars => WInv'
  BY WInvStep, AssumedHolds
<1> QED
  BY <1>1, <1>2, PTL DEF Spec

\* Every variable of the writers keeps its type, and the readable lines of the file
\* have rising numbers, wherever writers die and appends are cut off (appendLocked,
\* compact).
THEOREM LogStaysOrdered == Spec => [](TypeOK /\ LogOrdered)
<1>1. WInv => TypeOK /\ LogOrdered
  BY TypeIsSplit DEF WInv, FileInv
<1> QED
  BY <1>1, WInvInductive, PTL

\* When no append is cut off exactly before its newline, nothing is lost either:
\* what was readable is in the log or, compacted, in an archive.
THEOREM LogStaysWhole ==
  ASSUME "line" \notin Tears
  PROVE  Spec => []WritersSound
<1>1. WInv => WritersSound
  BY TypeIsSplit DEF WInv, FileInv, NothingIsSpoiled, WritersSound
<1> QED
  BY <1>1, WInvInductive, PTL

-----------------------------------------------------------------------------
(* The kill switch *)

\* Steps of a that leave the switch alone, and that a halted call may take.
LEMMA HaltedStays ==
  ASSUME CallsTyped, HaltedWait, NEW a \in Agents, UNCHANGED <<kill, halted>>,
         \A b \in Agents \ {a} : pc'[b] = pc[b] /\ call'[b] = call[b],
         a \in halted => pc'[a] \in {"idle", "wait", "check", "read"} /\ (pc'[a] = "read" => call'[a] \in Paths)
  PROVE  HaltedWait'
BY DEF HaltedWait, CallsTyped

LEMMA ProceedHalted ==
  ASSUME CallsTyped, HaltedWait, NEW a \in Agents, NEW to, Proceed(a, to), UNCHANGED <<kill, halted>>,
         a \in halted => to = "check"
  PROVE  HaltedWait'
<1>1. pc'[a] = to /\ \A b \in Agents \ {a} : pc'[b] = pc[b] /\ call'[b] = call[b]
  BY DEF Proceed, CallsTyped
<1> QED
  BY <1>1, HaltedStays

LEMMA LeaveHalted ==
  ASSUME CallsTyped, HaltedWait, NEW a \in Agents, Leave(a), UNCHANGED <<kill, halted>>
  PROVE  HaltedWait'
<1>1. pc'[a] = "idle" /\ \A b \in Agents \ {a} : pc'[b] = pc[b] /\ call'[b] = call[b]
  BY DEF Leave, CallsTyped
<1> QED
  BY <1>1, HaltedStays

LEMMA HaltedStep ==
  ASSUME Assumed, CallsTyped, HaltedWait, [Next]_vars
  PROVE  HaltedWait'
<1>1. ASSUME NEW a \in Agents, Call(a) PROVE HaltedWait'
  <2>1. /\ pc' = [pc EXCEPT ![a] = "wait"] /\ halted' = IF kill THEN halted \cup {a} ELSE halted \ {a}
        /\ kill' = kill /\ \E c \in Calls : call' = [call EXCEPT ![a] = c]
    BY <1>1 DEF Call
  <2>2. pc'[a] = "wait" /\ \A b \in Agents \ {a} : pc'[b] = pc[b] /\ call'[b] = call[b]
    BY <2>1 DEF CallsTyped
  <2> QED
    BY <2>1, <2>2 DEF HaltedWait, CallsTyped
<1>2. ASSUME NEW a \in Agents, Acquire(a) PROVE HaltedWait'
  <2>1. /\ pc' = [pc EXCEPT ![a] = IF call[a] \in Paths THEN "read" ELSE "check"]
        /\ UNCHANGED <<kill, halted, call>>
    BY <1>2 DEF Acquire
  <2>2. /\ pc'[a] = (IF call[a] \in Paths THEN "read" ELSE "check") /\ call'[a] = call[a]
        /\ \A b \in Agents \ {a} : pc'[b] = pc[b] /\ call'[b] = call[b]
    BY <2>1 DEF CallsTyped
  <2> QED
    BY <2>1, <2>2, HaltedStays
<1>3. ASSUME NEW a \in Agents, Check(a) PROVE HaltedWait'
  <2>1. UNCHANGED <<kill, halted>> /\ (Leave(a) \/ (~kill /\ \E to \in {"append", "read"} : Proceed(a, to)))
    BY <1>3 DEF Check
  <2>2. ~kill => halted = {}
    BY DEF HaltedWait
  <2> QED
    BY <2>1, <2>2, LeaveHalted, ProceedHalted
<1>4. ASSUME NEW a \in Agents, Read(a) PROVE HaltedWait'
  <2>1. /\ pc[a] = "read" /\ UNCHANGED <<kill, halted>>
        /\ \/ Leave(a) \/ Proceed(a, "check")
           \/ call[a] \in {"compact", "task"} /\ \E to \in {"archive", "append"} : Proceed(a, to)
    BY <1>4 DEF Read
  <2>2. a \in halted => call[a] \notin {"compact", "task"}
    BY <2>1 DEF HaltedWait, Assumed, WritersConstantsOK
  <2> QED
    BY <2>1, <2>2, LeaveHalted, ProceedHalted
<1>5. ASSUME NEW a \in Agents, AppendLine(a) \/ Archive(a) \/ WriteTmp(a) PROVE HaltedWait'
  <2>1. pc[a] \in {"append", "archive", "tmp"} /\ UNCHANGED <<kill, halted>> /\ \E to \in Steps : Proceed(a, to)
    BY <1>5 DEF AppendLine, Archive, WriteTmp, Steps
  <2>2. a \notin halted
    BY <2>1 DEF HaltedWait
  <2> QED
    BY <2>1, <2>2, ProceedHalted
<1>6. ASSUME NEW a \in Agents, TearLine(a) \/ Chmod(a) \/ RenameTmp(a) \/ Interrupt(a) PROVE HaltedWait'
  <2>1. Leave(a) /\ UNCHANGED <<kill, halted>>
    BY <1>6 DEF TearLine, Chmod, RenameTmp, Interrupt
  <2> QED
    BY <2>1, LeaveHalted
<1>7. CASE ActivateKillSwitch
  BY <1>7 DEF ActivateKillSwitch, HaltedWait
<1>8. CASE DeactivateKillSwitch
  BY <1>8 DEF DeactivateKillSwitch, HaltedWait
<1>9. CASE UNCHANGED vars
  BY <1>9 DEF vars, HaltedWait
<1> QED
  BY <1>1, <1>2, <1>3, <1>4, <1>5, <1>6, <1>7, <1>8, <1>9 DEF Next

\* Who changes the file holds the lock and is past its check.
LEMMA WhoWrites ==
  ASSUME CallsTyped, Next, file' # file
  PROVE  \E a \in Agents : lock = a /\ pc[a] \in {"append", "rename"}
<1>1. \E a \in Agents : AppendLine(a) \/ TearLine(a) \/ RenameTmp(a)
  BY DEF Next, Call, Acquire, Check, Read, Chmod, Archive, WriteTmp, Interrupt, ActivateKillSwitch,
         DeactivateKillSwitch, fileVars
<1>2. PICK a \in Agents : pc[a] \in {"append", "rename"}
  BY <1>1 DEF AppendLine, TearLine, RenameTmp
<1> QED
  BY <1>2, LockIsHeld

\* A call that began after the kill switch came on writes nothing, however long
\* it waits for the lock and whatever it has read (assertCoordinationEnabled).
THEOREM HaltedWriteNothing == Spec => HaltedCallsWriteNothing
<1> DEFINE A == file' # file => lock \notin halted
<1>1. Init => HaltedWait
  BY DEF Init, HaltedWait
<1>2. WInv /\ HaltedWait /\ [Next]_vars => HaltedWait'
  BY HaltedStep, AssumedHolds DEF WInv
<1>3. WInv /\ HaltedWait /\ [Next]_vars => [A]_vars
  <2> SUFFICES ASSUME WInv, HaltedWait, Next, file' # file PROVE lock \notin halted
    BY DEF vars
  <2>1. PICK a \in Agents : lock = a /\ pc[a] \in {"append", "rename"}
    BY WhoWrites DEF WInv
  <2> QED
    BY <2>1 DEF HaltedWait
<1> QED
  BY <1>1, <1>2, <1>3, WInvInductive, PTL DEF Spec, HaltedCallsWriteNothing

-----------------------------------------------------------------------------
(* The writers implement the operations of CoordLog *)

\* An event written whole, after a line with its newline, is CoordLog's append.
LEMMA AppendLineIsAppend ==
  ASSUME Assumed, "line" \notin Tears, WInv, NEW a \in Agents, AppendLine(a)
  PROVE  [Log!Next]_(Log!vars)
<1>1. /\ pc[a] = "append" /\ EventOf(a).seq <= MaxSeq /\ file' = Extend(EventOf(a))
  BY DEF AppendLine
<1>2. /\ lock = a /\ EventOf(a) \in Line /\ EventOf(a) # Corrupt
      /\ EventOf(a).seq <= MaxSeq /\ \A e \in Recorded : e.seq < EventOf(a).seq
  BY <1>1, AppendsNext
<1>3. /\ cut => Recorded' = Recorded
      /\ ~cut => Recorded' = Recorded \cup {EventOf(a)}
  BY <1>1, <1>2, ExtendIs DEF WInv, FilesTyped, FileInv, Line, Assumed, Recorded
<1>4. CASE cut
  BY <1>3, <1>4 DEF Log!vars, Recorded
<1>5. CASE ~cut
  <2>1. MaxSeq \in Nat /\ Numbered(Recorded) /\ seen[a] = Recorded
    BY <1>1, EventsAreNumbered DEF Assumed, WritersConstantsOK, WInv, HolderKnows, Knows, HasRead
  <2> DEFINE n == HighSeqOf(Recorded)
  <2>2. n \in Nat \cup {-1} /\ Log!HighSeq(Recorded) = n
    BY <2>1, HighSeqBounds
  <2>3. EventOf(a).seq = n + 1 /\ EventOf(a) \in Log!Event
    BY <2>1, EventOfIs DEF WInv, Assumed
  <2>4. HighSeqOf(Recorded') = EventOf(a).seq
    <3>1. Recorded \cup {EventOf(a)} \subseteq Log!Event /\ EventOf(a).seq \in Nat
          /\ \A e \in Recorded : e.seq \in Nat
      BY <2>1, <2>3, EventFields DEF Numbered
    <3>2. \A e \in Recorded \cup {EventOf(a)} : e.seq <= EventOf(a).seq
      BY <1>2, <3>1
    <3> QED
      BY <1>3, <1>5, <3>1, <3>2, HighSeqIs
  <2>5. Log!AppendLocked(EventOf(a))
    BY <1>2, <1>3, <1>5, <2>1, <2>2, <2>3, <2>4 DEF Log!AppendLocked, Recorded
  <2>6. CASE call[a] \in Paths
    <3>1. EventOf(a) = [type |-> "ownership", seq |-> n + 1, from |-> a, paths |-> {call[a]}, mode |-> "exclusive"]
      BY <2>1, <2>6 DEF EventOf
    <3>2. Log!Conflicts(a, {call[a]}, "exclusive") = {}
      <4>1. call[a] \notin OwnedByAnother(Recorded, a)
        BY <1>1, <2>6 DEF WInv, HolderKnows, Knows, HasRead
      <4> QED
        BY <4>1 DEF Log!Conflicts, Log!PathsOverlap, OwnedByAnother, Recorded
    <3>3. Log!ClaimOwnership(a, {call[a]}, "exclusive")
      BY <2>2, <2>5, <3>1, <3>2 DEF Log!ClaimOwnership, Log!NextSeq, Recorded
    <3> QED
      BY <2>6, <3>3 DEF Log!Next
  <2>7. CASE call[a] \notin Paths
    <3>1. EventOf(a) = [type |-> "task", seq |-> n + 1, from |-> a]
      BY <2>1, <2>7 DEF EventOf
    <3>2. Log!EmitTask(a)
      BY <2>2, <2>5, <3>1 DEF Log!EmitTask, Log!NextSeq, Recorded
    <3> QED
      BY <3>2 DEF Log!Next
  <2> QED
    BY <2>6, <2>7
<1> QED
  BY <1>4, <1>5

\* A torn line is none of CoordLog's business.
LEMMA TearLineIsNothing ==
  ASSUME Assumed, "line" \notin Tears, WInv, NEW a \in Agents, TearLine(a)
  PROVE  Recorded' = Recorded
<1>1. file' = Extend(Corrupt)
  BY DEF TearLine, Assumed, WritersConstantsOK
<1>2. Corrupt \in Line
  BY DEF Line
<1> QED
  BY <1>1, <1>2, ExtendIs DEF WInv, FilesTyped, FileInv, Line, Assumed, Recorded

\* The rename is the moment of CoordLog's compaction.
LEMMA RenameTmpIsCompact ==
  ASSUME Assumed, WInv, NEW a \in Agents, RenameTmp(a)
  PROVE  \E e \in Recorded : Log!Compact(e.seq + 1)
<1>1. pc[a] = "rename" /\ file' = tmp
  BY DEF RenameTmp
<1>2. PICK k \in CutPoints(Recorded) : /\ EventsOf(tmp) = LeftOf(Recorded, k)
                                     /\ HighSeqOf(LeftOf(Recorded, k)) = HighSeqOf(Recorded)
  BY <1>1, TmpIs
<1>3. MaxSeq \in Nat /\ Numbered(Recorded) /\ Recorded' = LeftOf(Recorded, k)
  BY <1>1, <1>2, EventsAreNumbered DEF Assumed, WritersConstantsOK, WInv, Recorded
<1>4. PICK e \in Recorded : k = e.seq + 1
  BY DEF CutPoints
<1> DEFINE kept      == KeptOf(Recorded, k)
           removable == {f \in Recorded : f.seq < k}
           remove    == removable \ Log!StateCheckpoints(removable)
<1>5. \A f \in Recorded : f.seq \in Int /\ k \in Int
  BY <1>3, <1>4, EventFields DEF Numbered
<1>6. kept = Recorded \ remove /\ remove = Recorded \ kept
  <2>1. \A f \in Recorded : f \in kept <=> f \notin remove
    BY <1>5 DEF KeptOf, Log!StateCheckpoints, Recorded
  <2> QED
    BY <2>1 DEF KeptOf
<1>7. remove # {} /\ Numbered(remove)
  BY <1>3, <1>6 DEF CutPoints, Numbered, KeptOf
<1>8. PICK last \in remove : SummaryOf(remove).seq = last.seq /\ \A f \in remove : f.seq <= last.seq
  BY <1>3, <1>7, SummaryIsEvent
<1>9. SummaryOf(remove) = [type |-> "status", seq |-> last.seq, from |-> Loadout]
  BY <1>8 DEF SummaryOf
<1>10. Recorded' = (Recorded \ remove) \cup {[type |-> "status", seq |-> last.seq, from |-> Loadout]}
  BY <1>3, <1>6, <1>9 DEF LeftOf
<1>11. HighSeqOf(Recorded') = HighSeqOf(Recorded)
  BY <1>2, <1>3
<1> HIDE DEF remove, kept
<1>12. Log!Compact(k)
  BY <1>8, <1>10, <1>11 DEF Log!Compact, remove, Recorded
<1> QED
  BY <1>4, <1>12

LEMMA LogStep ==
  ASSUME Assumed, "line" \notin Tears, WInv, [Next]_vars
  PROVE  [Log!Next]_(Log!vars)
<1>1. ASSUME Recorded' = Recorded PROVE [Log!Next]_(Log!vars)
  BY <1>1 DEF Log!vars, Recorded
<1>2. ASSUME NEW a \in Agents, TearLine(a) PROVE [Log!Next]_(Log!vars)
  BY <1>1, <1>2, TearLineIsNothing
<1>3. ASSUME NEW a \in Agents, RenameTmp(a) PROVE [Log!Next]_(Log!vars)
  BY <1>3, RenameTmpIsCompact DEF Log!Next, Recorded
<1>4. ASSUME UNCHANGED file PROVE [Log!Next]_(Log!vars)
  BY <1>1, <1>4 DEF Recorded
<1>5. \/ \E a \in Agents : AppendLine(a) \/ TearLine(a) \/ RenameTmp(a)
      \/ UNCHANGED file
  BY DEF Next, vars, Call, Acquire, Check, Read, Chmod, Archive, WriteTmp, Interrupt, ActivateKillSwitch,
         DeactivateKillSwitch, fileVars
<1> QED
  BY <1>2, <1>3, <1>4, <1>5, AppendLineIsAppend

\* The steps of emit, claimOwnership and compact, and what is left of those that
\* die or fail, are the atomic operations of CoordLog on what a reader sees.
THEOREM WritersImplementLog ==
  ASSUME "line" \notin Tears
  PROVE  Spec => ImplementsLog
<1>1. Init => Log!Init
  <2> SUFFICES ASSUME Init PROVE Log!Init
    OBVIOUS
  <2>1. EventsOf(file) = {}
    BY DEF Init, EventsOf, ToSet
  <2>2. HighSeqOf({}) = -1
    BY HighSeqIs
  <2> QED
    BY <2>1, <2>2 DEF Log!Init
<1>2. WInv /\ [Next]_vars => [Log!Next]_(Log!vars)
  BY LogStep, AssumedHolds
<1> QED
  BY <1>1, <1>2, WInvInductive, PTL DEF Spec, ImplementsLog, Log!Spec

-----------------------------------------------------------------------------
(* The session manager. *)

\* The types of the variables, apart from what the history relates.
Typed ==
  /\ log \in SUBSET Events /\ acked \in Events \cup {-1}
  /\ killed \in BOOLEAN /\ switches \in 0..MaxSwitches /\ deaths \in 0..MaxDeaths
  /\ mode \in {"off", "bridge", "send"}
  /\ handed \in Events \cup {-1}
  /\ busy \in Tasks \cup {Idle}
  /\ turns \in 0..MaxTurns /\ before \in [Tasks -> 0..MaxTurns] /\ spent \in Nat
  /\ cursor \in Events \cup {-1}
  /\ storing \in [Tasks -> Events \cup {-1}]
  /\ saved \in Events \cup {-1, Untracked}

TasksTyped ==
  /\ doing \in [Tasks -> TaskSteps] /\ batch \in [Tasks -> SUBSET Events]
  /\ past \subseteq Tasks

\* The session is busy exactly while a task is in its turn.
Busy == \A t \in Tasks : doing[t] = "turn" <=> busy = t

\* The count a task has read before its turn is the count still.
Counted == spent = turns /\ \A t \in Tasks : doing[t] = "turn" => before[t] = turns /\ turns < MaxTurns

\* What a task carries is in the log, and only a task on the way from the watcher
\* to the end of a turn carries anything; a turn's passive events are reported.
Carried ==
  /\ pending \subseteq log /\ delivered \cup taken \cup surfaced \cup givenUp \subseteq log
  /\ \A t \in Tasks :
       /\ batch[t] \subseteq log
       /\ doing[t] \notin {"route", "gate", "decide", "turn"} => batch[t] = {}
       /\ doing[t] = "turn" => batch[t] \cap Passive \subseteq surfaced

\* Nothing is taken up for a session that is not attached.
Fresh ==
  /\ mode = "off" => taken = {} /\ \A t \in Tasks : doing[t] = "free"
  /\ doing[Main] = "attach" => taken = {}

\* A call that is about to decide while the switch is on had looked before.
Warned == \A t \in Tasks : killed /\ doing[t] = "decide" => t \in past

SInv ==
  /\ Typed /\ TasksTyped /\ Busy /\ Counted
  /\ Carried /\ Fresh /\ Warned /\ NothingVanishes

-----------------------------------------------------------------------------
(* The highest of some numbers *)

LEMMA MaxIs ==
  ASSUME MaxEvents \in Nat, NEW S, S \subseteq Events \cup {-1}, S # {}
  PROVE  Max(S) \in S /\ \A x \in S : x <= Max(S)
<1> DEFINE R == {ss \in Nat \X Nat : ss[1] < ss[2]}
           D == {MaxEvents - x : x \in S}
<1>1. \A x \in S : x \in Int /\ x <= MaxEvents
  BY DEF Events
<1>2. D \subseteq Nat /\ D # {}
  BY <1>1
<1>3. OpToRel(<, Nat) = R
  BY DEF OpToRel
<1>4. ASSUME NEW k \in Nat, NEW m \in Nat, <<k, m>> \notin R PROVE m <= k
  BY <1>4
<1> HIDE DEF R, D
<1>5. PICK m \in D : \A k \in D : ~(<<k, m>> \in R)
  BY <1>2, <1>3, NatLessThanWellFounded, WFMin
<1>6. ASSUME NEW k \in D PROVE m <= k
  <2>1. k \in Nat /\ m \in Nat /\ <<k, m>> \notin R
    BY <1>2, <1>5
  <2> QED
    BY <1>4, <2>1
<1>7. PICK top \in S : m = MaxEvents - top
  BY DEF D
<1>8. ASSUME NEW x \in S PROVE top >= x
  <2>1. m <= MaxEvents - x
    BY <1>6 DEF D
  <2> QED
    BY <1>1, <1>7, <2>1
<1>9. Max(S) \in S /\ \A x \in S : Max(S) >= x
  BY <1>8 DEF Max
<1> QED
  BY <1>1, <1>9

LEMMA HighSeqTyped ==
  ASSUME MaxEvents \in Nat, Typed
  PROVE  HighSeq \in Events \cup {-1}
BY MaxIs DEF HighSeq, Typed

-----------------------------------------------------------------------------
(* A task moves on, with the events it carries from then on *)

Moved(t, to, B) == doing' = [doing EXCEPT ![t] = to] /\ batch' = [batch EXCEPT ![t] = B]

Carrying == {"route", "gate", "decide", "turn"}

After(t) == IF t = Main THEN "lastSave" ELSE "free"

LEMMA ReturnMoves ==
  ASSUME NEW t, Return(t)
  PROVE  Moved(t, After(t), {})
BY DEF Return, Goto, Moved, After

LEMMA SubmitMoves ==
  ASSUME NEW t, NEW E, Submit(t, E)
  PROVE  Moved(t, IF E = {} THEN After(t) ELSE "gate", E)
BY DEF Submit, Return, Goto, Moved, After

LEMMA GotoMoves ==
  ASSUME TasksTyped, NEW t \in Tasks, NEW to, Goto(t, to), UNCHANGED batch
  PROVE  Moved(t, to, batch[t])
<1>1. batch' = [batch EXCEPT ![t] = batch[t]]
  BY DEF TasksTyped
<1> QED
  BY <1>1 DEF Goto, Moved

LEMMA AfterIs == \A t : After(t) \in TaskSteps \ (Carrying \cup {"attach"})
BY DEF After, TaskSteps, Carrying

LEMMA MovedAt ==
  ASSUME TasksTyped, NEW t \in Tasks, NEW to, NEW B, Moved(t, to, B)
  PROVE  /\ doing'[t] = to /\ batch'[t] = B
         /\ \A u \in Tasks \ {t} : doing'[u] = doing[u] /\ batch'[u] = batch[u]
BY DEF TasksTyped, Moved

LEMMA MovedTyped ==
  ASSUME TasksTyped, NEW t \in Tasks, NEW to \in TaskSteps, NEW B \in SUBSET Events, Moved(t, to, B),
         past' \subseteq Tasks
  PROVE  TasksTyped'
BY DEF TasksTyped, Moved

LEMMA MovedBusy ==
  ASSUME TasksTyped, Busy, NEW t \in Tasks, NEW to, NEW B, Moved(t, to, B),
         doing[t] # "turn", to # "turn", UNCHANGED busy
  PROVE  Busy'
BY MovedAt DEF Busy

LEMMA MovedCounted ==
  ASSUME TasksTyped, Counted, NEW t \in Tasks, NEW to, NEW B, Moved(t, to, B),
         to # "turn", UNCHANGED <<turns, before, spent>>
  PROVE  Counted'
BY MovedAt DEF Counted

LEMMA MovedCarried ==
  ASSUME TasksTyped, Carried, NEW t \in Tasks, NEW to, NEW B, Moved(t, to, B),
         UNCHANGED log, B \subseteq log, pending' \subseteq log,
         delivered' \cup taken' \cup surfaced' \cup givenUp' \subseteq log,
         to \notin Carrying => B = {},
         to = "turn" => B \cap Passive \subseteq surfaced',
         surfaced \subseteq surfaced'
  PROVE  Carried'
<1>1. ASSUME NEW u \in Tasks, u # t
      PROVE  /\ batch'[u] \subseteq log'
             /\ doing'[u] \notin Carrying => batch'[u] = {}
             /\ doing'[u] = "turn" => batch'[u] \cap Passive \subseteq surfaced'
  BY <1>1, MovedAt DEF Carried, Carrying
<1>2. /\ batch'[t] \subseteq log'
      /\ doing'[t] \notin Carrying => batch'[t] = {}
      /\ doing'[t] = "turn" => batch'[t] \cap Passive \subseteq surfaced'
  BY MovedAt
<1> QED
  BY <1>1, <1>2 DEF Carried, Carrying

LEMMA MovedFresh ==
  ASSUME TasksTyped, SessionsConstantsOK, Fresh, NEW t \in Tasks, NEW to, NEW B, Moved(t, to, B),
         UNCHANGED mode, mode # "off", to # "attach", doing[Main] = "attach" /\ t # Main => UNCHANGED taken
  PROVE  Fresh'
<1>1. Main \in Tasks
  BY DEF Tasks
<1> QED
  BY <1>1, MovedAt DEF Fresh

LEMMA MovedWarned ==
  ASSUME TasksTyped, Warned, NEW t \in Tasks, NEW to, NEW B, Moved(t, to, B),
         UNCHANGED killed, to = "decide" => ~killed, past \ {t} \subseteq past'
  PROVE  Warned'
BY MovedAt DEF Warned

\* Where an event that was taken up is: on its way, or at the end of it.
Somewhere(e) ==
  \/ \E t \in Tasks : e \in batch[t]
  \/ e \in pending \cup delivered \cup surfaced \cup givenUp

LEMMA NothingVanishesIs == NothingVanishes <=> \A e \in taken : Somewhere(e)
<1>1. \A e : e \in InFlight <=> \E t \in Tasks : e \in batch[t]
  BY DEF InFlight
<1> QED
  BY <1>1 DEF NothingVanishes, Somewhere

LEMMA MovedKeepsAll ==
  ASSUME TasksTyped, NothingVanishes, NEW t \in Tasks, NEW to, NEW B, Moved(t, to, B),
         taken' \subseteq taken \cup B \cup batch[t],
         delivered \subseteq delivered', surfaced \subseteq surfaced', givenUp \subseteq givenUp',
         pending \subseteq B \cup pending',
         (batch[t] \cap taken') \subseteq B \cup pending' \cup delivered' \cup surfaced' \cup givenUp'
  PROVE  NothingVanishes'
<1>1. ASSUME NEW e \in taken' PROVE Somewhere(e)'
  <2>1. CASE e \in B
    BY <2>1, MovedAt DEF Somewhere
  <2>2. CASE e \in batch[t]
    BY <2>1, <2>2 DEF Somewhere
  <2>3. CASE e \notin B /\ e \notin batch[t]
    <3>1. Somewhere(e)
      BY <2>3, NothingVanishesIs
    <3>2. CASE e \in pending \cup delivered \cup surfaced \cup givenUp
      BY <2>3, <3>2 DEF Somewhere
    <3>3. ASSUME NEW u \in Tasks, e \in batch[u] PROVE Somewhere(e)'
      BY <2>3, <3>3, MovedAt DEF Somewhere
    <3> QED
      BY <3>1, <3>2, <3>3 DEF Somewhere
  <2> QED
    BY <2>1, <2>2, <2>3
<1>2. (\A e \in taken : Somewhere(e))'
  BY <1>1
<1>3. InFlight' = UNION {batch'[u] : u \in Tasks}
  BY DEF InFlight
<1> QED
  BY <1>1, <1>3 DEF NothingVanishes, Somewhere

-----------------------------------------------------------------------------
(* Every step keeps the invariant *)

LEMMA InitSInv == SessionsConstantsOK /\ SessionInit => SInv
<1> SUFFICES ASSUME SessionsConstantsOK, SessionInit PROVE SInv
  OBVIOUS
<1>1. Typed
  <2>1. 0 \in 0..MaxTurns /\ switches \in 0..MaxSwitches /\ deaths \in 0..MaxDeaths
    BY DEF SessionInit, SessionsConstantsOK
  <2>2. before \in [Tasks -> 0..MaxTurns] /\ storing \in [Tasks -> Events \cup {-1}]
    BY <2>1 DEF SessionInit
  <2> QED
    BY <2>1, <2>2 DEF SessionInit, Typed
<1>2. TasksTyped
  BY DEF SessionInit, TasksTyped, TaskSteps
<1>3. Busy /\ Counted /\ Carried /\ Fresh /\ Warned
  BY DEF SessionInit, SessionsConstantsOK, Busy, Counted, Carried, Fresh, Warned, Tasks
<1>4. NothingVanishes
  BY DEF SessionInit, NothingVanishes
<1> QED
  BY <1>1, <1>2, <1>3, <1>4 DEF SInv

\* A task that neither begins nor ends a turn moves on.
LEMMA MoveKeeps ==
  ASSUME SessionsConstantsOK, SInv, NEW t \in Tasks, NEW to \in TaskSteps \ {"turn", "attach"}, NEW B \in SUBSET log,
         Moved(t, to, B), doing[t] # "turn", mode # "off", Typed',
         UNCHANGED <<log, killed, mode, busy, turns, before, spent>>,
         to \notin Carrying => B = {},
         to = "decide" => ~killed,
         past \ {t} \subseteq past', past' \subseteq Tasks,
         taken \subseteq taken', taken' \subseteq taken \cup B \cup batch[t], taken' \subseteq log,
         doing[Main] = "attach" /\ t # Main => UNCHANGED taken,
         delivered' = delivered,
         surfaced \subseteq surfaced', surfaced' \subseteq log,
         givenUp \subseteq givenUp', givenUp' \subseteq log,
         pending \subseteq B \cup pending', pending' \subseteq log,
         (batch[t] \cap taken') \subseteq B \cup pending' \cup delivered' \cup surfaced' \cup givenUp'
  PROVE  SInv'
<1>1. TasksTyped'
  BY MovedTyped DEF SInv, Typed
<1>2. Busy' /\ Counted' /\ Fresh' /\ Warned'
  BY MovedBusy, MovedCounted, MovedFresh, MovedWarned DEF SInv
<1>3. Carried'
  <2>1. delivered' \cup taken' \cup surfaced' \cup givenUp' \subseteq log
    BY DEF SInv, Carried
  <2> QED
    BY <2>1, MovedCarried DEF SInv
<1>4. NothingVanishes'
  BY MovedKeepsAll DEF SInv
<1> QED
  BY <1>1, <1>2, <1>3, <1>4 DEF SInv

LEMMA NotOff ==
  ASSUME SInv, NEW t \in Tasks, doing[t] # "free"
  PROVE  mode # "off"
BY DEF SInv, Fresh

LEMMA MainIsTask == Main \in Tasks
BY DEF Tasks

LEMMA WatchKeeps ==
  ASSUME SessionsConstantsOK, SInv, NEW t \in Tasks, Watch(t)
  PROVE  SInv'
<1> DEFINE B == {e \in log : e > handed}
<1>1. /\ mode = "bridge" /\ t # Main /\ doing[t] = "free" /\ handed' = HighSeq
      /\ Moved(t, "route", B)
      /\ UNCHANGED <<world, mode, busy, turns, before, pending, store, deaths, history>>
  BY DEF Watch, Goto, Moved
<1>2. Typed'
  BY <1>1, HighSeqTyped DEF SInv, Typed, SessionsConstantsOK, world, store, history
<1>3. batch[t] = {}
  BY <1>1 DEF SInv, Carried
<1>4. B \in SUBSET log
  OBVIOUS
<1> HIDE DEF B
<1> QED
  BY <1>1, <1>2, <1>3, <1>4, MoveKeeps DEF TaskSteps, Carrying, SInv, TasksTyped, Carried, world, history

LEMMA RouteKeeps ==
  ASSUME SessionsConstantsOK, SInv, NEW t \in Tasks, Route(t)
  PROVE  SInv'
<1>0. mode # "off" /\ doing[t] = "route"
  BY NotOff DEF Route
<1>1. Typed'
  BY DEF Route, SInv, Typed, world, store
<1>2. /\ UNCHANGED <<log, killed, mode, busy, turns, before, spent, pending, delivered, surfaced, past>>
      /\ batch[t] \subseteq log
  BY DEF Route, world, SInv, Carried
<1>3. CASE doing[Main] = "attach"
  <2>1. Moved(t, After(t), {}) /\ UNCHANGED <<taken, givenUp>> /\ taken = {}
    BY <1>3, ReturnMoves DEF Route, SInv, Fresh
  <2> QED
    BY <1>0, <1>1, <1>2, <2>1, MoveKeeps, AfterIs DEF TaskSteps, Carrying, SInv, TasksTyped, Carried
<1>4. CASE doing[Main] # "attach" /\ killed
  <2>1. Moved(t, After(t), {}) /\ taken' = taken \cup batch[t] /\ givenUp' = givenUp \cup batch[t]
    BY <1>4, ReturnMoves DEF Route
  <2> QED
    BY <1>0, <1>1, <1>2, <1>4, <2>1, MoveKeeps, AfterIs DEF TaskSteps, Carrying, SInv, TasksTyped, Carried
<1>5. CASE doing[Main] # "attach" /\ ~killed
  <2>1. Moved(t, "gate", batch[t]) /\ taken' = taken \cup batch[t] /\ givenUp' = givenUp
    BY <1>5, GotoMoves DEF Route, SInv
  <2> QED
    BY <1>0, <1>1, <1>2, <1>5, <2>1, MoveKeeps DEF TaskSteps, Carrying, SInv, TasksTyped, Carried
<1> QED
  BY <1>3, <1>4, <1>5

LEMMA GateKeeps ==
  ASSUME SessionsConstantsOK, SInv, NEW t \in Tasks, Gate(t)
  PROVE  SInv'
<1>0. mode # "off" /\ doing[t] = "gate"
  BY NotOff DEF Gate
<1>1. Typed'
  BY DEF Gate, SInv, Typed, world, store
<1>2. /\ UNCHANGED <<log, killed, mode, busy, turns, before, spent, pending, delivered, surfaced, past, taken>>
      /\ batch[t] \subseteq log
  BY DEF Gate, world, SInv, Carried
<1>3. CASE killed
  <2>1. Moved(t, After(t), {}) /\ givenUp' = givenUp \cup batch[t]
    BY <1>3, ReturnMoves DEF Gate
  <2> QED
    BY <1>0, <1>1, <1>2, <2>1, MoveKeeps, AfterIs DEF TaskSteps, Carrying, SInv, TasksTyped, Carried
<1>4. CASE ~killed
  <2>1. Moved(t, "decide", batch[t]) /\ givenUp' = givenUp
    BY <1>4, GotoMoves DEF Gate, SInv
  <2> QED
    BY <1>0, <1>1, <1>2, <1>4, <2>1, MoveKeeps DEF TaskSteps, Carrying, SInv, TasksTyped, Carried
<1> QED
  BY <1>3, <1>4

LEMMA ReportKeeps ==
  ASSUME SessionsConstantsOK, SInv, NEW t \in Tasks, Report(t)
  PROVE  SInv'
<1>0. mode # "off" /\ doing[t] = "decide"
  BY NotOff DEF Report, Decide
<1>1. Typed'
  BY DEF Report, SInv, Typed, world, store
<1>2. /\ UNCHANGED <<log, killed, mode, busy, turns, before, spent, pending, delivered, givenUp, taken>>
      /\ batch[t] \subseteq log /\ past' = past \ {t}
  BY DEF Report, Decide, world, SInv, Carried
<1>3. Moved(t, After(t), {}) /\ surfaced' = surfaced \cup batch[t]
  BY ReturnMoves DEF Report
<1> QED
  BY <1>0, <1>1, <1>2, <1>3, MoveKeeps, AfterIs DEF TaskSteps, Carrying, SInv, TasksTyped, Carried

LEMMA QueueKeeps ==
  ASSUME SessionsConstantsOK, SInv, NEW t \in Tasks, Queue(t)
  PROVE  SInv'
<1>0. mode # "off" /\ doing[t] = "decide"
  BY NotOff DEF Queue, Decide
<1>1. Typed'
  BY DEF Queue, SInv, Typed, world, store
<1>2. /\ UNCHANGED <<log, killed, mode, busy, turns, before, spent, delivered, givenUp, taken>>
      /\ batch[t] \subseteq log /\ past' = past \ {t}
  BY DEF Queue, Decide, world, SInv, Carried
<1>3. /\ Moved(t, After(t), {}) /\ surfaced' = surfaced \cup (batch[t] \cap Passive)
      /\ pending' = pending \cup (batch[t] \ Passive)
  BY ReturnMoves DEF Queue, Deliverable
<1> QED
  BY <1>0, <1>1, <1>2, <1>3, MoveKeeps, AfterIs DEF TaskSteps, Carrying, SInv, TasksTyped, Carried

LEMMA SaveKeeps ==
  ASSUME SessionsConstantsOK, SInv, NEW t \in Tasks, Save(t)
  PROVE  SInv'
<1> DEFINE to == IF doing[t] = "save" THEN "store" ELSE "lastStore"
<1>0. mode # "off" /\ doing[t] \in {"save", "lastSave"}
  BY NotOff DEF Save
<1>1. Typed'
  BY DEF Save, SInv, Typed, world, history
<1>2. /\ UNCHANGED <<log, killed, mode, busy, turns, before, spent, pending>> /\ UNCHANGED history
      /\ batch[t] = {}
  BY <1>0 DEF Save, world, SInv, Carried, history
<1>3. Moved(t, to, {})
  BY <1>0, <1>2, GotoMoves DEF Save, SInv
<1> QED
  BY <1>0, <1>1, <1>2, <1>3, MoveKeeps DEF TaskSteps, Carrying, SInv, TasksTyped, Carried, history

LEMMA StoreKeeps ==
  ASSUME SessionsConstantsOK, SInv, NEW t \in Tasks, Store(t)
  PROVE  SInv'
<1>0. mode # "off" /\ doing[t] \in {"store", "lastStore"}
  BY NotOff DEF Store
<1>1. Typed'
  BY DEF Store, SInv, Typed, world, history
<1>2. /\ UNCHANGED <<log, killed, mode, busy, turns, before, spent>> /\ UNCHANGED history
      /\ batch[t] = {} /\ pending \subseteq log
  BY <1>0 DEF Store, world, SInv, Carried, history
<1>3. CASE Submit(t, pending) /\ pending' = {}
  <2>1. Moved(t, IF pending = {} THEN After(t) ELSE "gate", pending)
    BY <1>3, SubmitMoves
  <2> QED
    BY <1>0, <1>1, <1>2, <1>3, <2>1, MoveKeeps, AfterIs DEF TaskSteps, Carrying, SInv, TasksTyped, Carried, history
<1>4. CASE Return(t) /\ UNCHANGED pending
  <2>1. Moved(t, After(t), {})
    BY <1>4, ReturnMoves
  <2> QED
    BY <1>0, <1>1, <1>2, <1>4, <2>1, MoveKeeps, AfterIs DEF TaskSteps, Carrying, SInv, TasksTyped, Carried, history
<1>5. CASE Goto(t, "free") /\ UNCHANGED <<batch, pending>>
  <2>1. Moved(t, "free", {})
    BY <1>2, <1>5, GotoMoves DEF SInv
  <2> QED
    BY <1>0, <1>1, <1>2, <1>5, <2>1, MoveKeeps DEF TaskSteps, Carrying, SInv, TasksTyped, Carried, history
<1> QED
  BY <1>3, <1>4, <1>5 DEF Store

LEMMA SnapshotKeeps ==
  ASSUME SessionsConstantsOK, SInv, Snapshot
  PROVE  SInv'
<1>0. mode # "off" /\ doing[Main] = "snapshot" /\ Main \in Tasks
  BY NotOff, MainIsTask DEF Snapshot
<1>1. Typed'
  BY DEF Snapshot, SInv, Typed, world, store
<1>2. /\ UNCHANGED <<log, killed, mode, busy, turns, before, spent, pending, delivered, surfaced, givenUp, past>>
      /\ batch[Main] = {}
  BY <1>0 DEF Snapshot, world, SInv, Carried
<1>3. PICK missed \in SUBSET log : Submit(Main, missed) /\ taken' = taken \cup missed
  BY DEF Snapshot
<1>4. Moved(Main, IF missed = {} THEN After(Main) ELSE "gate", missed)
  BY <1>3, SubmitMoves
<1> QED
  BY <1>0, <1>1, <1>2, <1>3, <1>4, MoveKeeps, AfterIs DEF TaskSteps, Carrying, SInv, TasksTyped, Carried

\* A step that moves no task and forgets nothing.
LEMMA StillKeeps ==
  ASSUME SInv, UNCHANGED <<doing, batch, busy, turns, before, spent, pending, taken, delivered, surfaced, givenUp>>,
         Typed', log \subseteq log', mode' = mode, Warned', past' \subseteq Tasks
  PROVE  SInv'
<1>1. TasksTyped' /\ Busy' /\ Counted' /\ Fresh'
  BY DEF SInv, TasksTyped, Busy, Counted, Fresh
<1>2. Carried'
  BY DEF SInv, Carried
<1>3. NothingVanishes'
  BY DEF SInv, NothingVanishes, InFlight
<1> QED
  BY <1>1, <1>2, <1>3 DEF SInv

LEMMA EmitKeeps ==
  ASSUME SessionsConstantsOK, SInv, Emit
  PROVE  SInv'
<1>1. /\ ~killed /\ log' = log \cup {HighSeq + 1} /\ HighSeq + 1 \in Events
      /\ UNCHANGED <<acked, killed, switches, mode, handed, doing, batch, busy, turns, before, pending,
                 store, deaths, history>>
  BY DEF Emit
<1>2. Typed'
  BY <1>1 DEF SInv, Typed, store, history
<1>3. Warned'
  BY <1>1 DEF Warned
<1> QED
  BY <1>1, <1>2, <1>3, StillKeeps DEF history, SInv, TasksTyped

LEMMA AckKeeps ==
  ASSUME SessionsConstantsOK, SInv, Ack
  PROVE  SInv'
<1>1. /\ acked' = Max(delivered \cup {acked})
      /\ UNCHANGED <<log, killed, switches, mode, handed, doing, batch, busy, turns, before, pending,
                 store, deaths, history>>
  BY DEF Ack
<1>2. delivered \cup {acked} \subseteq Events \cup {-1} /\ MaxEvents \in Nat
  BY DEF SInv, Typed, Carried, SessionsConstantsOK
<1>3. acked' \in Events \cup {-1}
  BY <1>1, <1>2, MaxIs
<1>4. Typed'
  BY <1>1, <1>3 DEF SInv, Typed, store, history
<1>5. Warned'
  BY <1>1 DEF SInv, Warned, history
<1> QED
  BY <1>1, <1>4, <1>5, StillKeeps DEF history, SInv, TasksTyped

LEMMA SessionSwitchKeeps ==
  ASSUME SessionsConstantsOK, SInv, SwitchOn \/ SwitchOff
  PROVE  SInv'
<1>1. /\ UNCHANGED <<log, acked, mode, handed, doing, batch, busy, turns, before, pending,
                     store, deaths, delivered, spent, taken, surfaced, givenUp>>
      /\ killed' \in BOOLEAN /\ switches' \in 0..MaxSwitches
  <2>1. switches \in 0..MaxSwitches /\ MaxSwitches \in Nat
    BY DEF SInv, Typed, SessionsConstantsOK
  <2>2. CASE SwitchOn
    <3>1. switches' \in 0..MaxSwitches
      BY <2>1, <2>2 DEF SwitchOn
    <3> QED
      BY <2>2, <3>1 DEF SwitchOn
  <2>3. CASE SwitchOff
    BY <2>1, <2>3 DEF SwitchOff
  <2> QED
    BY <2>2, <2>3
<1>2. Typed'
  BY <1>1 DEF SInv, Typed, store
<1>3. Warned' /\ past' \subseteq Tasks
  BY <1>1 DEF SwitchOn, SwitchOff, Warned
<1> QED
  BY <1>1, <1>2, <1>3, StillKeeps

\* The end of the process ends everything it had under way.
LEMMA EndKeeps ==
  ASSUME SessionsConstantsOK, SInv, End, deaths' \in 0..MaxDeaths
  PROVE  SInv'
<1>1. Typed'
  <2>1. 0 \in 0..MaxTurns
    BY DEF SessionsConstantsOK
  <2>2. before' \in [Tasks -> 0..MaxTurns] /\ storing' \in [Tasks -> Events \cup {-1}]
    BY <2>1 DEF End
  <2> QED
    BY <2>1, <2>2 DEF End, SInv, Typed, world
<1>2. TasksTyped'
  BY DEF End, TasksTyped, TaskSteps
<1>3. \A t \in Tasks : doing'[t] = "free" /\ batch'[t] = {}
  BY DEF End
<1>4. Busy' /\ Warned'
  BY <1>3 DEF End, SessionsConstantsOK, Busy, Warned
<1>5. Counted'
  BY <1>3 DEF End, Counted
<1>6. Carried'
  BY <1>3 DEF End, SInv, Carried, world
<1>7. Fresh'
  BY <1>3, MainIsTask DEF End, Fresh
<1>8. NothingVanishes'
  BY DEF End, NothingVanishes
<1> QED
  BY <1>1, <1>2, <1>4, <1>5, <1>6, <1>7, <1>8 DEF SInv

LEMMA DieKeeps ==
  ASSUME SessionsConstantsOK, SInv, Die \/ Exit
  PROVE  SInv'
<1>1. End /\ deaths' \in 0..MaxDeaths
  BY DEF Die, Exit, SInv, Typed, SessionsConstantsOK
<1> QED
  BY <1>1, EndKeeps

LEMMA AttachKeeps ==
  ASSUME SessionsConstantsOK, SInv, Attach
  PROVE  SInv'
<1>0. mode # "off" /\ doing[Main] = "attach" /\ Main \in Tasks
  BY NotOff, MainIsTask DEF Attach
<1>1. CASE End /\ UNCHANGED deaths
  BY <1>1, EndKeeps DEF SInv, Typed
<1>2. CASE /\ cursor' = IF saved = Untracked THEN -1 ELSE saved
           /\ Goto(Main, "snapshot")
           /\ UNCHANGED <<world, mode, handed, batch, busy, turns, before, pending, storing,
                          saved, deaths, history>>
  <2>1. Typed'
    BY <1>2 DEF SInv, Typed, world, history
  <2>2. batch[Main] = {}
    BY <1>0 DEF SInv, Carried
  <2>3. Moved(Main, "snapshot", {})
    BY <1>0, <1>2, <2>2, GotoMoves DEF SInv
  <2> QED
    BY <1>0, <1>2, <2>1, <2>2, <2>3, MoveKeeps DEF TaskSteps, Carrying, SInv, TasksTyped, Carried, world, history
<1> QED
  BY <1>1, <1>2 DEF Attach

LEMMA StartKeeps ==
  ASSUME SessionsConstantsOK, SInv, Start
  PROVE  SInv'
<1>1. /\ mode = "off" /\ mode' \in {"bridge", "send"} /\ handed' \in {HighSeq, handed}
      /\ Goto(Main, "attach")
      /\ UNCHANGED <<world, batch, busy, turns, before, pending, store, deaths, history>>
  BY DEF Start
<1>2. taken = {} /\ (\A t \in Tasks : doing[t] = "free") /\ Main \in Tasks /\ batch[Main] = {}
  BY <1>1, MainIsTask DEF SInv, Fresh, Carried
<1>3. Typed'
  BY <1>1, HighSeqTyped DEF SInv, Typed, SessionsConstantsOK, world, store, history
<1>4. Moved(Main, "attach", {})
  BY <1>1, <1>2, GotoMoves DEF SInv
<1>5. TasksTyped'
  BY <1>1, <1>2, <1>4, MovedTyped DEF SInv, TasksTyped, TaskSteps, history
<1>6. Busy' /\ Counted' /\ Warned'
  BY <1>1, <1>2, <1>4, MovedBusy, MovedCounted, MovedWarned DEF SInv, world, history
<1>7. Carried'
  BY <1>1, <1>2, <1>4, MovedCarried DEF SInv, Carried, Carrying, world, history
<1>8. Fresh' /\ NothingVanishes'
  BY <1>1, <1>2 DEF Fresh, NothingVanishes, history
<1> QED
  BY <1>3, <1>5, <1>6, <1>7, <1>8 DEF SInv

LEMMA BeginTurnKeeps ==
  ASSUME SessionsConstantsOK, SInv, NEW t \in Tasks, BeginTurn(t)
  PROVE  SInv'
<1>1. /\ doing[t] = "decide" /\ past' = past \ {t} /\ turns < MaxTurns /\ busy = Idle
      /\ busy' = t /\ before' = [before EXCEPT ![t] = turns]
      /\ surfaced' = surfaced \cup (batch[t] \cap Passive)
      /\ Goto(t, "turn")
      /\ UNCHANGED <<world, mode, handed, batch, turns, pending, store, deaths,
                     delivered, spent, taken, givenUp>>
  BY DEF BeginTurn, Decide
<1>2. mode # "off" /\ batch[t] \subseteq log /\ Moved(t, "turn", batch[t])
  BY <1>1, NotOff, GotoMoves DEF SInv, Carried
<1>3. Typed'
  BY <1>1 DEF SInv, Typed, world, store
<1>4. TasksTyped'
  BY <1>1, <1>2, MovedTyped DEF SInv, Typed, TasksTyped, TaskSteps
<1>5. Busy'
  <2>1. \A u \in Tasks : doing[u] # "turn"
    BY <1>1 DEF SInv, Busy, SessionsConstantsOK
  <2> QED
    BY <1>1, <1>2, <2>1, MovedAt DEF SInv, Busy
<1>6. Counted'
  <2>1. before'[t] = turns /\ \A u \in Tasks \ {t} : before'[u] = before[u]
    BY <1>1 DEF SInv, Typed
  <2> QED
    BY <1>1, <1>2, <2>1, MovedAt DEF SInv, Counted
<1>7. Carried'
  <2>1. delivered' \cup taken' \cup surfaced' \cup givenUp' \subseteq log /\ pending' \subseteq log
    BY <1>1, <1>2 DEF SInv, Carried
  <2> QED
    BY <1>1, <1>2, <2>1, MovedCarried DEF SInv, Carrying, world
<1>8. Fresh' /\ Warned'
  BY <1>1, <1>2, MovedFresh, MovedWarned DEF SInv, world
<1>9. NothingVanishes'
  BY <1>1, <1>2, MovedKeepsAll DEF SInv
<1> QED
  BY <1>3, <1>4, <1>5, <1>6, <1>7, <1>8, <1>9 DEF SInv

\* A turn ends, and nobody else is in one.
LEMMA TurnEndsBusy ==
  ASSUME SessionsConstantsOK, SInv, NEW t \in Tasks, NEW to, NEW B, Moved(t, to, B),
         doing[t] = "turn", to # "turn", busy' = Idle
  PROVE  Busy' /\ \A u \in Tasks : doing'[u] # "turn"
<1>1. \A u \in Tasks \ {t} : doing[u] # "turn"
  BY DEF SInv, Busy
<1>2. \A u \in Tasks : doing'[u] # "turn"
  BY <1>1, MovedAt DEF SInv
<1> QED
  BY <1>2 DEF Busy, SessionsConstantsOK

LEMMA TurnSucceedsKeeps ==
  ASSUME SessionsConstantsOK, SInv, NEW t \in Tasks, TurnSucceeds(t)
  PROVE  SInv'
<1>1. /\ doing[t] = "turn" /\ busy' = Idle /\ turns' = before[t] + 1
      /\ cursor' = Max((batch[t] \ Passive) \cup {cursor})
      /\ delivered' = delivered \cup (batch[t] \ Passive)
      /\ spent' = spent + 1
      /\ Moved(t, "save", {})
      /\ UNCHANGED <<world, mode, handed, before, pending, storing, saved, deaths,
                     taken, surfaced, givenUp, past>>
  BY DEF TurnSucceeds, Deliverable, Goto, Moved
<1>2. mode # "off" /\ batch[t] \subseteq log /\ batch[t] \cap Passive \subseteq surfaced
  BY <1>1, NotOff DEF SInv, Carried
<1>3. before[t] = turns /\ turns < MaxTurns /\ spent = turns /\ turns \in Nat /\ MaxTurns \in Nat
  BY <1>1 DEF SInv, Counted, Typed, SessionsConstantsOK
<1>4. Typed'
  <2>1. (batch[t] \ Passive) \cup {cursor} \subseteq Events \cup {-1} /\ MaxEvents \in Nat
    BY <1>2 DEF SInv, Typed, SessionsConstantsOK
  <2>2. cursor' \in Events \cup {-1}
    BY <1>1, <2>1, MaxIs
  <2>3. turns' \in 0..MaxTurns /\ spent' \in Nat
    BY <1>1, <1>3
  <2> QED
    BY <1>1, <2>2, <2>3 DEF SInv, Typed, world
<1>5. TasksTyped'
  BY <1>1, MovedTyped DEF SInv, TasksTyped, TaskSteps
<1>6. Busy' /\ Counted'
  BY <1>1, <1>3, TurnEndsBusy DEF Counted
<1>7. Carried'
  <2>1. delivered' \cup taken' \cup surfaced' \cup givenUp' \subseteq log /\ pending' \subseteq log
    BY <1>1, <1>2 DEF SInv, Carried
  <2> QED
    BY <1>1, <1>2, <2>1, MovedCarried DEF SInv, Carrying, world
<1>8. Fresh' /\ Warned'
  BY <1>1, <1>2, MovedFresh, MovedWarned DEF SInv, world
<1>9. NothingVanishes'
  BY <1>1, <1>2, MovedKeepsAll DEF SInv
<1> QED
  BY <1>4, <1>5, <1>6, <1>7, <1>8, <1>9 DEF SInv

LEMMA TurnFailsKeeps ==
  ASSUME SessionsConstantsOK, SInv, NEW t \in Tasks, TurnFails(t)
  PROVE  SInv'
<1>1. /\ doing[t] = "turn" /\ busy' = Idle
      /\ surfaced' = surfaced \cup (batch[t] \ Passive)
      /\ Moved(t, After(t), {})
      /\ UNCHANGED <<world, mode, handed, turns, before, pending, store, deaths,
                     delivered, spent, taken, givenUp, past>>
  BY ReturnMoves DEF TurnFails, Deliverable
<1>2. mode # "off" /\ batch[t] \subseteq log /\ batch[t] \cap Passive \subseteq surfaced
  BY <1>1, NotOff DEF SInv, Carried
<1>3. After(t) \in TaskSteps \ {"turn", "attach", "decide"} /\ After(t) \notin Carrying
  BY AfterIs DEF Carrying
<1>4. Typed'
  BY <1>1 DEF SInv, Typed, world, store
<1>5. TasksTyped'
  BY <1>1, <1>3, MovedTyped DEF SInv, TasksTyped
<1>6. Busy' /\ Counted'
  BY <1>1, <1>3, TurnEndsBusy DEF SInv, Counted
<1>7. Carried'
  <2>1. delivered' \cup taken' \cup surfaced' \cup givenUp' \subseteq log /\ pending' \subseteq log
    BY <1>1, <1>2 DEF SInv, Carried
  <2> QED
    BY <1>1, <1>2, <1>3, <2>1, MovedCarried DEF SInv, world
<1>8. Fresh' /\ Warned'
  BY <1>1, <1>2, <1>3, MovedFresh, MovedWarned DEF SInv, world
<1>9. NothingVanishes'
  BY <1>1, <1>2, MovedKeepsAll DEF SInv
<1> QED
  BY <1>4, <1>5, <1>6, <1>7, <1>8, <1>9 DEF SInv

LEMMA SInvStep ==
  ASSUME SessionsConstantsOK, SInv, [SessionNext]_sessionVars
  PROVE  SInv'
<1>1. ASSUME NEW t \in Tasks, Step(t) PROVE SInv'
  BY <1>1, WatchKeeps, RouteKeeps, GateKeeps, ReportKeeps, QueueKeeps, BeginTurnKeeps,
     TurnSucceedsKeeps, TurnFailsKeeps, SaveKeeps, StoreKeeps DEF Step
<1>2. CASE Emit \/ Ack \/ SwitchOn \/ SwitchOff
  BY <1>2, EmitKeeps, AckKeeps, SessionSwitchKeeps
<1>3. CASE Start \/ Attach \/ Snapshot \/ Exit \/ Die
  BY <1>3, StartKeeps, AttachKeeps, SnapshotKeeps, DieKeeps
<1>4. CASE UNCHANGED sessionVars
  <2>1. Typed'
    BY <1>4 DEF sessionVars, world, store, history, SInv, Typed
  <2>2. Warned' /\ past' \subseteq Tasks
    BY <1>4 DEF sessionVars, world, history, SInv, Warned, TasksTyped
  <2> QED
    BY <1>4, <2>1, <2>2, StillKeeps DEF sessionVars, world, history
<1> QED
  BY <1>1, <1>2, <1>3, <1>4 DEF SessionNext

LEMMA SInvInductive == SessionSpec => []SInv
<1>1. SessionInit => SInv
  BY InitSInv, SessionsConstantsOK
<1>2. SInv /\ [SessionNext]_sessionVars => SInv'
  BY SInvStep, SessionsConstantsOK
<1> QED
  BY <1>1, <1>2, PTL DEF SessionSpec

LEMMA SInvIsSound == SInv => SessionSound
<1> SUFFICES ASSUME SInv PROVE SessionSound
  OBVIOUS
<1>1. SessionTypeOK
  BY DEF SInv, Typed, TasksTyped, Carried, Busy, SessionTypeOK
<1>2. OneTurnAtATime
  BY DEF SInv, Busy, OneTurnAtATime
<1>3. TurnsCapped
  BY DEF SInv, Typed, Counted, TurnsCapped, SessionsConstantsOK
<1> QED
  BY <1>1, <1>2, <1>3 DEF SInv, SessionSound

\* Every variable of the session manager keeps its type, and what the history says
\* was delivered, taken up, reported or given up was in the log.
THEOREM SessionTypeCorrect == SessionSpec => []SessionTypeOK
<1>1. SInv => SessionTypeOK
  BY SInvIsSound DEF SessionSound
<1> QED
  BY <1>1, SInvInductive, PTL

\* However batches, turns, flushes, deaths and restarts interleave, turns of a
\* session do not overlap, none of them is missed by the count, and no event that
\* was taken up disappears (submitEvents, flushPendingEvents).
THEOREM SessionsAreSound == SessionSpec => []SessionSound
BY SInvIsSound, SInvInductive, PTL

\* A turn begins under the kill switch only in a call that looked at it before,
\* also for events that had waited in the queue (submitEvents).
THEOREM KillSwitchStopsTurns == SessionSpec => NoTurnWhileKilled
<1> DEFINE A == \A t \in Tasks : doing[t] # "turn" /\ doing'[t] = "turn" => ~killed \/ t \in past
<1>1. SInv /\ [SessionNext]_sessionVars => [A]_sessionVars
  <2> SUFFICES ASSUME SInv, SessionNext, NEW t \in Tasks, doing[t] # "turn", doing'[t] = "turn", killed
               PROVE  t \in past
    OBVIOUS
  <2>1. doing[t] = "decide"
    <3>1. ASSUME NEW u \in Tasks, NEW to, NEW B, Moved(u, to, B), to # "turn" PROVE FALSE
      BY <3>1, MovedAt DEF SInv
    <3>2. UNCHANGED doing => FALSE
      OBVIOUS
    <3>3. End => FALSE
      BY DEF End
    <3>4. ASSUME NEW u \in Tasks, NEW to, Goto(u, to), to # "turn" PROVE FALSE
      BY <3>4 DEF SInv, TasksTyped, Goto
    <3>5. ~(Emit \/ Ack \/ SwitchOn \/ SwitchOff \/ Exit \/ Die)
      BY <3>2, <3>3 DEF Emit, Ack, SwitchOn, SwitchOff, Exit, Die
    <3>6. ~(Start \/ Attach)
      BY <3>3, <3>4, MainIsTask DEF Start, Attach
    <3>7. ~Snapshot
      <4>1. ASSUME NEW E, Submit(Main, E) PROVE FALSE
        BY <3>1, <4>1, SubmitMoves, AfterIs, MainIsTask DEF Carrying
      <4> QED
        BY <4>1 DEF Snapshot
    <3>8. ASSUME NEW u \in Tasks, Return(u) PROVE FALSE
      BY <3>1, <3>8, ReturnMoves, AfterIs DEF Carrying
    <3>9. ASSUME NEW u \in Tasks, NEW E, Submit(u, E) PROVE FALSE
      BY <3>1, <3>9, SubmitMoves, AfterIs DEF Carrying
    <3>10. PICK u \in Tasks : Step(u)
      BY <3>5, <3>6, <3>7 DEF SessionNext
    <3>11. BeginTurn(u)
      BY <3>4, <3>8, <3>9, <3>10 DEF Step, Watch, Route, Gate, Report, Queue, TurnSucceeds, TurnFails, Save, Store
    <3>12. u = t
      <4>1. Moved(u, "turn", batch[u])
        BY <3>11, GotoMoves DEF BeginTurn, SInv
      <4> QED
        BY <4>1, MovedAt DEF SInv
    <3> QED
      BY <3>11, <3>12 DEF BeginTurn, Decide
  <2> QED
    BY <2>1 DEF SInv, Warned
<1> QED
  BY <1>1, SInvInductive, PTL DEF SessionSpec, NoTurnWhileKilled

=============================================================================
