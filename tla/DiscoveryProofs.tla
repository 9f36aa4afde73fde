--------------------------- MODULE DiscoveryProofs --------------------------
(***************************************************************************)
(* Proofs about Discovery, Connector, Candidates, Selection,               *)
(* PackageRegistry, Provenance and Alerts: any number of days, listings,   *)
(* reviewers, skills, publishers, packages, processes and failures.        *)
(***************************************************************************)
EXTENDS MCDiscovery, FiniteSetTheorems, SequenceTheorems, TLAPS

-----------------------------------------------------------------------------
(* Growth measurement. *)

Times == 0..MaxTime
Counted == [at : Times, stars : Counts]
\* GitHub had this count then, or on that day.
Exact(c) == c \in Counted /\ c.at <= now /\ c.stars = stars[c.at]
Had(day, n) == \E at \in 0..now : DayOf(at) = day /\ stars[at] = n

Gains == [gain : Int, from : Int, to : Int]
FeedGain(g) ==
  g \in Gains /\ g.from < g.to /\
  \E first \in 0..now, second \in 0..now :
    DayOf(first) = g.from /\ DayOf(second) = g.to /\ stars[second] - stars[first] = g.gain
Observations == [at : Int, stars : Counts]
FeedItems == [lastSeen : Int, observations : SUBSET Observations, growth : SUBSET Gains]
FeedSound(item) ==
  /\ item \in FeedItems
  /\ \A c \in item.observations : Had(c.at, c.stars)
  /\ \A g \in item.growth : FeedGain(g)

QueueGain(g) ==
  g \in Gains /\ g.from \in 0..now /\ g.to \in 0..now /\ g.to - g.from >= 2 /\ stars[g.to] - stars[g.from] = g.gain
QueueItems == [base : Counted, since : Times, last : Times, growth : SUBSET Gains]
QueueSound(item) ==
  /\ item \in QueueItems /\ Exact(item.base)
  /\ \A g \in item.growth : QueueGain(g)
  /\ item.growth = {} => item.base.at <= item.since /\ item.last <= item.base.at + 1

AtMostOne(set) == \A x, y \in set : x = y
SoundQueue(items) == AtMostOne(items) /\ \A item \in items : QueueSound(item)
SoundLead(lead) == AtMostOne(lead) /\ \A c \in lead : Exact(c)
FinderSound(x) ==
  \/ x = [pc |-> "idle"]
  \/ x = [pc |-> "read", lead |-> x.lead] /\ SoundLead(x.lead)
  \/ x = [pc |-> "write", lead |-> x.lead, items |-> x.items] /\ SoundLead(x.lead) /\ SoundQueue(x.items)
  \/ x = [pc |-> "release", count |-> x.count] /\ Exact(x.count)

Clock == now \in Times /\ stars \in [Times -> Counts]
FilesSound ==
  /\ AtMostOne(feed) /\ \A item \in feed : FeedSound(item)
  /\ SoundQueue(queue)
  /\ DOMAIN finder = Finders /\ \A p \in Finders : FinderSound(finder[p])
HistorySound ==
  /\ history \subseteq Counted
  /\ \A c \in history : \A other \in history : DayOf(c.at) = DayOf(other.at) => c = other
  /\ dated \in BOOLEAN /\ (dated => \A c \in history : Had(DayOf(c.at), c.stars))
GrowthInv == Clock /\ FilesSound /\ HistorySound

LEMMA Singles == ASSUME NEW set, AtMostOne(set) PROVE Cardinality(set) <= 1
<1>1. CASE set = {}
  BY <1>1, FS_EmptySet
<1>2. CASE set # {}
  <2>1. PICK x \in set : TRUE
    BY <1>2
  <2>2. set = {x}
    BY <2>1 DEF AtMostOne
  <2>3. Cardinality({x}) = 1
    BY FS_Singleton, Zenon
  <2> QED
    BY <2>2, <2>3
<1> QED
  BY <1>1, <1>2

LEMMA Numbers == /\ \A n \in Counts : n \in Nat /\ n \in Int
                 /\ \A t \in Times : t \in Nat /\ t <= MaxTime
BY GrowthAssumption DEF Times

LEMMA Days == \A t \in Nat : DayOf(t) \in Nat
BY DEF DayOf

LEMMA GrowthBegins == GrowthInit => GrowthInv
<1> SUFFICES ASSUME GrowthInit PROVE GrowthInv
  OBVIOUS
<1>1. Clock /\ HistorySound
  BY GrowthAssumption DEF GrowthInit, Clock, HistorySound, Times
<1>2. FilesSound
  BY DEF GrowthInit, FilesSound, AtMostOne, SoundQueue, FinderSound
<1> QED
  BY <1>1, <1>2 DEF GrowthInv

LEMMA GrowthTypes == GrowthInv => GrowthTypeOK
<1> SUFFICES ASSUME GrowthInv PROVE GrowthTypeOK
  OBVIOUS
<1>1. Cardinality(feed) <= 1 /\ Cardinality(queue) <= 1
  BY Singles DEF GrowthInv, FilesSound, SoundQueue
<1>2. ASSUME NEW p \in Finders PROVE finder[p].pc \in {"idle", "read", "write", "release"}
  <2>1. FinderSound(finder[p])
    BY DEF GrowthInv, FilesSound
  <2> DEFINE x == finder[p]
  <2> HIDE DEF x
  <2>2. FinderSound(x) => x.pc \in {"idle", "read", "write", "release"}
    BY DEF FinderSound
  <2> QED
    BY <2>1, <2>2 DEF x
<1> QED
  BY <1>1, <1>2 DEF GrowthInv, Clock, HistorySound, Counted, Times, GrowthTypeOK

LEMMA GrowthMeasured == GrowthInv => GrowthIsMeasured
<1> SUFFICES ASSUME GrowthInv PROVE GrowthIsMeasured
  OBVIOUS
<1>1. ASSUME NEW item \in feed, NEW g \in item.growth PROVE FeedGain(g)
  BY DEF GrowthInv, FilesSound, FeedSound
<1>2. ASSUME NEW item \in queue
      PROVE  /\ \A g \in item.growth : g.to - g.from >= 2 /\ stars[g.to] - stars[g.from] = g.gain
             /\ item.last - item.since >= 2 => item.growth # {}
  <2>1. QueueSound(item)
    BY DEF GrowthInv, FilesSound, SoundQueue
  <2>2. item.since \in Int /\ item.last \in Int /\ item.base.at \in Int
    BY <2>1 DEF QueueSound, QueueItems, Times, Counted
  <2> QED
    BY <2>1, <2>2 DEF QueueSound, QueueGain
<1>3. dated => \A c \in history : \E at \in 0..now : DayOf(at) = DayOf(c.at) /\ stars[at] = c.stars
  BY DEF GrowthInv, HistorySound, Had
<1>4. \A c \in history : \A other \in history : DayOf(c.at) = DayOf(other.at) => c = other
  BY DEF GrowthInv, HistorySound
<1> QED
  BY <1>1, <1>2, <1>3, <1>4 DEF GrowthIsMeasured, FeedGain

-----------------------------------------------------------------------------
(* What was true stays true: counts do not change, and time goes on. *)
LEMMA Lasting ==
  ASSUME Clock, now' \in Times, now <= now', UNCHANGED stars
  PROVE  /\ \A c : Exact(c) => Exact(c)'
         /\ \A day, n : Had(day, n) => Had(day, n)'
         /\ \A g : FeedGain(g) => FeedGain(g)'
         /\ \A g : QueueGain(g) => QueueGain(g)'
<1>1. now \in Int /\ now' \in Int /\ \A t \in 0..now : t \in 0..now'
  BY DEF Clock, Times
<1>2. \A c : Exact(c) => Exact(c)'
  BY <1>1 DEF Exact, Counted, Times
<1>3. \A day, n : Had(day, n) => Had(day, n)'
  BY <1>1 DEF Had
<1>4. ASSUME NEW g, FeedGain(g) PROVE FeedGain(g)'
  BY <1>1, <1>4 DEF FeedGain
<1>5. ASSUME NEW g, QueueGain(g) PROVE QueueGain(g)'
  BY <1>1, <1>5 DEF QueueGain
<1> QED
  BY <1>2, <1>3, <1>4, <1>5

LEMMA LastingItems ==
  ASSUME Clock, now' \in Times, now <= now', UNCHANGED stars
  PROVE  /\ \A item : FeedSound(item) => FeedSound(item)'
         /\ \A items : SoundQueue(items) => SoundQueue(items)'
         /\ \A lead : SoundLead(lead) => SoundLead(lead)'
         /\ \A x : FinderSound(x) => FinderSound(x)'
<1>1. \A item : FeedSound(item) => FeedSound(item)'
  BY Lasting DEF FeedSound
<1>2. \A item : QueueSound(item) => QueueSound(item)'
  BY Lasting DEF QueueSound
<1>3. \A items : SoundQueue(items) => SoundQueue(items)'
  BY <1>2 DEF SoundQueue
<1>4. \A lead : SoundLead(lead) => SoundLead(lead)'
  BY Lasting DEF SoundLead
<1>5. ASSUME NEW x, FinderSound(x) PROVE FinderSound(x)'
  BY <1>3, <1>4, <1>5, Lasting DEF FinderSound
<1> QED
  BY <1>1, <1>3, <1>4, <1>5

\* The files change, and nothing else.
LEMMA GrowthGoesOn ==
  ASSUME GrowthInv, UNCHANGED <<now, stars>>,
         feed' = feed \/ (AtMostOne(feed') /\ \A item \in feed' : FeedSound(item)),
         queue' = queue \/ SoundQueue(queue'),
         finder' = finder \/ \E p \in Finders : \E x : FinderSound(x) /\ finder' = [finder EXCEPT ![p] = x],
         UNCHANGED <<history, dated>> \/ HistorySound'
  PROVE  GrowthInv'
<1>1. Clock /\ Clock' /\ now' \in Times /\ now <= now'
  BY DEF GrowthInv, Clock, Times
<1>2. FilesSound'
  <2>1. /\ AtMostOne(feed') /\ (\A item \in feed' : FeedSound(item)) /\ SoundQueue(queue')
        /\ DOMAIN finder' = Finders
    BY DEF GrowthInv, FilesSound
  <2>2. \A p \in Finders : FinderSound(finder'[p])
    BY DEF GrowthInv, FilesSound
  <2>3. /\ \A item \in feed' : FeedSound(item)'
        /\ SoundQueue(queue)'
        /\ \A p \in Finders : FinderSound(finder[p])'
    <3>1. \A item : FeedSound(item) => FeedSound(item)'
      BY <1>1, LastingItems
    <3>2. SoundQueue(queue') => SoundQueue(queue)'
      BY <1>1 DEF SoundQueue, QueueSound, QueueGain, Exact
    <3>3. \A p \in Finders : FinderSound(finder'[p]) => FinderSound(finder[p])'
      BY <1>1 DEF FinderSound, SoundLead, SoundQueue, QueueSound, QueueGain, Exact
    <3> QED
      BY <2>1, <2>2, <3>1, <3>2, <3>3
  <2> QED
    BY <2>1, <2>3 DEF FilesSound, AtMostOne
<1>3. HistorySound'
  BY DEF GrowthInv, HistorySound, Had
<1> QED
  BY <1>1, <1>2, <1>3 DEF GrowthInv

LEMMA TickKeeps == ASSUME GrowthInv, Tick PROVE GrowthInv'
<1>1. /\ Clock /\ Clock' /\ now' \in Times /\ now <= now'
      /\ UNCHANGED <<stars, feed, queue, history, finder, dated>>
  BY GrowthAssumption DEF GrowthInv, Clock, Times, Tick
<1>2. /\ \A item : FeedSound(item) => FeedSound(item)'
      /\ \A items : SoundQueue(items) => SoundQueue(items)'
      /\ \A x : FinderSound(x) => FinderSound(x)'
      /\ \A day, n : Had(day, n) => Had(day, n)'
  BY <1>1, Lasting, LastingItems
<1>3. SoundQueue(queue)'
  <2>1. SoundQueue(queue)
    BY DEF GrowthInv, FilesSound
  <2> QED
    BY <1>1, <1>2, <2>1 DEF SoundQueue
<1>4. \A p \in Finders : FinderSound(finder[p])'
  <2>1. \A p \in Finders : FinderSound(finder[p])
    BY DEF GrowthInv, FilesSound
  <2>2. ASSUME NEW p \in Finders PROVE FinderSound(finder[p])'
    <3> DEFINE x == finder[p]
    <3>1. finder'[p] = finder[p]
      BY <1>1
    <3>2. FinderSound(x)
      BY <2>1
    <3> QED
      BY <1>2, <3>1, <3>2 DEF FinderSound
  <2> QED
    BY <2>2
<1>5. FilesSound'
  BY <1>1, <1>2, <1>3, <1>4 DEF GrowthInv, FilesSound, AtMostOne
<1>6. HistorySound'
  BY <1>1, <1>2 DEF GrowthInv, HistorySound
<1> QED
  BY <1>1, <1>5, <1>6 DEF GrowthInv

-----------------------------------------------------------------------------
(* The feed. *)

LEMMA WithinIsPart == ASSUME NEW counts, NEW day PROVE Within(counts, day) \subseteq counts
BY DEF Within

LEMMA FoundIsSound == ASSUME GrowthInv PROVE FeedSound(FoundItem(feed, DayOf(now)))
<1> DEFINE day == DayOf(now)
           before == UNION {item.observations : item \in feed}
           all == {c \in before : c.at # day} \cup {Count(day, stars[now])}
           observations == Within(all, day)
           gains == {[gain |-> stars[now] - c.stars, from |-> c.at, to |-> day] : c \in Baseline(observations, day)}
<1>1. FoundItem(feed, day) = [lastSeen |-> day, observations |-> observations, growth |-> gains]
  BY DEF FoundItem
<1>2. now \in 0..now /\ day \in Int /\ stars[now] \in Counts /\ now \in Nat
  BY Days, GrowthAssumption DEF GrowthInv, Clock, Times
<1>3. \A c \in all : c \in Observations /\ Had(c.at, c.stars)
  <2>1. \A c \in before : c \in Observations /\ Had(c.at, c.stars)
    BY DEF GrowthInv, FilesSound, FeedSound, FeedItems
  <2>2. Count(day, stars[now]) \in Observations /\ Had(day, stars[now])
    BY <1>2 DEF Count, Observations, Had
  <2>3. Count(day, stars[now]).at = day /\ Count(day, stars[now]).stars = stars[now]
    BY DEF Count
  <2> QED
    BY <2>1, <2>2, <2>3
<1> HIDE DEF all
<1>4. \A c \in observations : c \in Observations /\ Had(c.at, c.stars)
  BY <1>3, WithinIsPart
<1> HIDE DEF observations
<1>5. ASSUME NEW g \in gains PROVE FeedGain(g)
  <2>1. PICK c \in Baseline(observations, day) : g = [gain |-> stars[now] - c.stars, from |-> c.at, to |-> day]
    OBVIOUS
  <2>2. c \in observations /\ day - c.at >= 1
    BY <2>1 DEF Baseline, Latest
  <2>3. c \in Observations /\ Had(c.at, c.stars) /\ c.stars \in Int /\ stars[now] \in Int
    BY <1>2, <1>4, <2>2, Numbers DEF Observations
  <2>4. PICK first \in 0..now : DayOf(first) = c.at /\ stars[first] = c.stars
    BY <2>3 DEF Had
  <2>5. g \in Gains /\ g.from = c.at /\ g.to = day /\ g.gain = stars[now] - stars[first]
    BY <1>2, <2>1, <2>3, <2>4 DEF Gains, Observations
  <2>6. g.from < g.to
    BY <1>2, <2>2, <2>3, <2>5 DEF Observations
  <2> QED
    BY <1>2, <2>4, <2>5, <2>6 DEF FeedGain
<1> HIDE DEF gains, day
<1>6. observations \in SUBSET Observations /\ gains \in SUBSET Gains
  BY <1>4, <1>5 DEF FeedGain
<1> DEFINE new == [lastSeen |-> day, observations |-> observations, growth |-> gains]
<1>7. new \in FeedItems /\ new.observations = observations /\ new.growth = gains
  BY <1>2, <1>6 DEF FeedItems
<1> HIDE DEF new
<1>8. FeedSound(new)
  BY <1>4, <1>5, <1>7 DEF FeedSound
<1> QED
  BY <1>1, <1>8 DEF new, day

LEMMA KeptAreSound ==
  ASSUME GrowthInv
  PROVE  AtMostOne(KeptItems(feed, DayOf(now))) /\ \A item \in KeptItems(feed, DayOf(now)) : FeedSound(item)
<1> DEFINE day == DayOf(now)
           keeping == KeptItems(feed, day)
<1>1. AtMostOne(feed) /\ \A item \in feed : FeedSound(item)
  BY DEF GrowthInv, FilesSound
<1>2. \A k \in keeping : \E item \in feed : k = [item EXCEPT !.observations = Within(@, day)]
  BY DEF KeptItems
<1> HIDE DEF keeping, day
<1>3. AtMostOne(keeping)
  BY <1>1, <1>2 DEF AtMostOne
<1>4. ASSUME NEW k \in keeping PROVE FeedSound(k)
  <2>1. PICK item \in feed : k = [item EXCEPT !.observations = Within(@, day)]
    BY <1>2
  <2>2. item \in FeedItems /\ FeedSound(item) /\ Within(item.observations, day) \subseteq item.observations
    BY <1>1, WithinIsPart DEF FeedSound
  <2>3. k \in FeedItems /\ k.observations = Within(item.observations, day) /\ k.growth = item.growth
    BY <2>1, <2>2 DEF FeedItems
  <2> QED
    BY <2>2, <2>3 DEF FeedSound
<1> QED
  BY <1>3, <1>4 DEF keeping, day

LEMMA FeedKeeps == ASSUME GrowthInv, BuildArtifact PROVE GrowthInv'
<1>1. AtMostOne(feed') /\ \A item \in feed' : FeedSound(item)
  <2>1. CASE feed' = {FoundItem(feed, DayOf(now))}
    BY <2>1, FoundIsSound DEF AtMostOne
  <2>2. CASE feed' = KeptItems(feed, DayOf(now))
    BY <2>2, KeptAreSound
  <2>3. CASE feed' = {}
    BY <2>3 DEF AtMostOne
  <2> QED
    BY <2>1, <2>2, <2>3 DEF BuildArtifact
<1> QED
  BY <1>1, GrowthGoesOn DEF BuildArtifact

-----------------------------------------------------------------------------
(* The queue. *)

LEMMA NowIsExact == ASSUME GrowthInv PROVE Exact(Count(now, stars[now]))
BY DEF GrowthInv, Clock, Exact, Count, Counted, Times

LEMMA MeasuredIsSound ==
  ASSUME GrowthInv, NEW item, QueueSound(item), NEW lead, Exact(lead) PROVE QueueSound(Measured(item, lead))
<1> DEFINE gain == [gain |-> lead.stars - item.base.stars, from |-> item.base.at, to |-> lead.at]
           moved == [base |-> lead, since |-> item.since, last |-> lead.at, growth |-> {gain}]
           waits == [item EXCEPT !.last = lead.at]
           gives == [item EXCEPT !.base = lead, !.last = lead.at]
<1>1. /\ item \in QueueItems /\ Exact(item.base) /\ lead \in Counted
      /\ item.base.at \in Nat /\ lead.at \in Nat /\ item.base.at <= now /\ lead.at <= now /\ now \in Nat
      /\ item.base.stars \in Int /\ lead.stars \in Int /\ item.since \in Nat /\ item.last \in Nat
      /\ item.base.stars = stars[item.base.at] /\ lead.stars = stars[lead.at]
      /\ lead.at \in Times /\ item.since \in Times
  <2>1. /\ item \in QueueItems /\ Exact(item.base) /\ lead \in Counted /\ item.base \in Counted
        /\ item.since \in Times /\ item.last \in Times /\ now \in Times
    BY DEF QueueSound, QueueItems, Exact, GrowthInv, Clock
  <2>2. /\ item.base.at \in Times /\ lead.at \in Times /\ item.base.stars \in Counts /\ lead.stars \in Counts
    BY <2>1 DEF Counted
  <2>3. /\ item.base.at <= now /\ lead.at <= now
        /\ item.base.stars = stars[item.base.at] /\ lead.stars = stars[lead.at]
    BY <2>1 DEF Exact
  <2> QED
    BY <2>1, <2>2, <2>3, Numbers
<1>2. CASE lead.at - item.base.at >= 2
  <2>1. Measured(item, lead) = moved
    BY <1>1, <1>2 DEF Measured
  <2>2. /\ gain \in Gains /\ gain.from = item.base.at /\ gain.to = lead.at /\ gain.gain = lead.stars - item.base.stars
    BY <1>1 DEF Gains
  <2> HIDE DEF gain
  <2>3. QueueGain(gain)
    BY <1>1, <1>2, <2>2 DEF QueueGain
  <2>4. /\ moved \in QueueItems /\ moved.base = lead /\ moved.growth = {gain}
    BY <1>1, <2>2 DEF QueueItems
  <2> HIDE DEF moved
  <2> QED
    BY <2>1, <2>3, <2>4 DEF QueueSound
<1>3. CASE lead.at - item.base.at = 1
  <2>1. Measured(item, lead) = waits
    BY <1>1, <1>3 DEF Measured
  <2>2. /\ waits \in QueueItems /\ waits.base = item.base /\ waits.growth = item.growth /\ waits.last = lead.at
        /\ waits.since = item.since
    BY <1>1 DEF QueueItems
  <2> HIDE DEF waits
  <2> QED
    BY <1>1, <1>3, <2>1, <2>2 DEF QueueSound
<1>4. CASE lead.at - item.base.at < 1
  <2>1. Measured(item, lead) = gives
    BY <1>1, <1>4 DEF Measured
  <2>2. /\ gives \in QueueItems /\ gives.base = lead /\ gives.growth = item.growth /\ gives.last = lead.at
        /\ gives.since = item.since
    BY <1>1 DEF QueueItems
  <2> HIDE DEF gives
  <2> QED
    BY <1>1, <1>4, <2>1, <2>2 DEF QueueSound
<1> QED
  BY <1>1, <1>2, <1>3, <1>4

LEMMA QueueKeeps ==
  ASSUME GrowthInv, NEW p \in Finders, BeginMerge(p) \/ ReadReviewQueue(p) \/ MergeReviewQueue(p) PROVE GrowthInv'
<1> DEFINE x == finder[p]
<1>0. FinderSound(x) /\ SoundQueue(queue) /\ FinderSound([pc |-> "idle"])
  BY DEF GrowthInv, FilesSound, FinderSound
<1>1. CASE BeginMerge(p)
  <2>1. PICK lead \in {{Count(now, stars[now])}, {}} :
          finder' = [finder EXCEPT ![p] = [pc |-> "read", lead |-> lead]]
    BY <1>1 DEF BeginMerge, Begins
  <2>2. SoundLead(lead)
    BY <2>1, NowIsExact DEF SoundLead, AtMostOne
  <2>3. FinderSound([pc |-> "read", lead |-> lead])
    BY <2>2 DEF FinderSound
  <2> QED
    BY <1>1, <2>1, <2>3, GrowthGoesOn DEF BeginMerge
<1>2. CASE ReadReviewQueue(p)
  <2>1. x.pc = "read" /\ finder' = [finder EXCEPT ![p] = [pc |-> "write", lead |-> x.lead, items |-> queue]]
    BY <1>2 DEF ReadReviewQueue
  <2> HIDE DEF x
  <2>2. SoundLead(x.lead)
    BY <1>0, <2>1 DEF FinderSound
  <2>3. FinderSound([pc |-> "write", lead |-> x.lead, items |-> queue])
    BY <1>0, <2>2 DEF FinderSound
  <2> QED
    BY <1>2, <2>1, <2>3, GrowthGoesOn DEF ReadReviewQueue
<1>3. CASE MergeReviewQueue(p)
  <2> DEFINE measured == {Measured(item, lead) : item \in x.items, lead \in x.lead}
             started == {[base |-> lead, since |-> lead.at, last |-> lead.at, growth |-> {}] :
                           lead \in {l \in x.lead : x.items = {}}}
  <2>1. /\ x.pc = "write" /\ finder' = [finder EXCEPT ![p] = [pc |-> "idle"]]
        /\ queue' = IF x.lead = {} THEN x.items ELSE measured \cup started
    BY <1>3 DEF MergeReviewQueue
  <2>2. SoundLead(x.lead) /\ SoundQueue(x.items)
    <3> HIDE DEF x, measured, started
    <3> QED
      BY <1>0, <2>1 DEF FinderSound
  <2>3. SoundQueue(measured \cup started)
    <3>1. ASSUME NEW y \in measured PROVE QueueSound(y)
      BY <2>2, MeasuredIsSound DEF SoundLead, SoundQueue
    <3>2. ASSUME NEW y \in started PROVE QueueSound(y)
      <4>1. PICK lead \in x.lead : y = [base |-> lead, since |-> lead.at, last |-> lead.at, growth |-> {}]
        OBVIOUS
      <4>2. Exact(lead) /\ lead \in Counted /\ lead.at \in Times /\ lead.at \in Nat
        BY <2>2 DEF SoundLead, Exact, Counted, Times
      <4>3. y \in QueueItems /\ y.base = lead /\ y.since = lead.at /\ y.last = lead.at /\ y.growth = {}
        BY <4>1, <4>2 DEF QueueItems
      <4> QED
        BY <4>2, <4>3 DEF QueueSound
    <3>3. AtMostOne(measured \cup started)
      <4>1. \A a, b \in x.lead : a = b
        BY <2>2 DEF SoundLead, AtMostOne
      <4>2. \A a, b \in x.items : a = b
        BY <2>2 DEF SoundQueue, AtMostOne
      <4>3. \A y \in measured : x.items # {} /\ \E item \in x.items, lead \in x.lead : y = Measured(item, lead)
        OBVIOUS
      <4>4. \A y \in started : x.items = {} /\ \E lead \in x.lead :
               y = [base |-> lead, since |-> lead.at, last |-> lead.at, growth |-> {}]
        OBVIOUS
      <4> HIDE DEF measured, started
      <4>5. \A y, z \in measured : y = z
        BY <4>1, <4>2, <4>3
      <4>6. \A y, z \in started : y = z
        BY <4>1, <4>4
      <4> QED
        BY <4>3, <4>4, <4>5, <4>6 DEF AtMostOne
    <3> HIDE DEF measured, started
    <3> QED
      BY <3>1, <3>2, <3>3 DEF SoundQueue
  <2> HIDE DEF measured, started
  <2>4. SoundQueue(queue')
    BY <2>1, <2>2, <2>3
  <2> QED
    BY <1>0, <1>3, <2>1, <2>4, GrowthGoesOn DEF MergeReviewQueue
<1> QED
  BY <1>1, <1>2, <1>3

-----------------------------------------------------------------------------
(* The history. *)

LEMMA HistoryKeeps ==
  ASSUME GrowthInv, NEW p \in Finders, RefreshCatalog(p) \/ RecordObservation(p) PROVE GrowthInv'
<1>1. CASE RefreshCatalog(p)
  <2>1. PICK at \in 0..now : finder' = [finder EXCEPT ![p] = [pc |-> "release", count |-> Count(at, stars[at])]]
    BY <1>1 DEF RefreshCatalog, Begins
  <2>2. Exact(Count(at, stars[at]))
    <3>1. now \in Times /\ stars \in [Times -> Counts] /\ now \in Nat /\ now <= MaxTime
      BY Numbers DEF GrowthInv, Clock
    <3>2. at \in Times /\ at <= now
      BY <3>1, GrowthAssumption DEF Times
    <3> QED
      BY <3>1, <3>2 DEF Exact, Count, Counted
  <2>3. FinderSound([pc |-> "release", count |-> Count(at, stars[at])])
    BY <2>2 DEF FinderSound
  <2> QED
    BY <1>1, <2>1, <2>3, GrowthGoesOn DEF RefreshCatalog
<1>2. CASE RecordObservation(p)
  <2> DEFINE count == finder[p].count
             new == Count(now, count.stars)
  <2>1. /\ finder' = [finder EXCEPT ![p] = [pc |-> "idle"]] /\ UNCHANGED <<now, stars, feed, queue>>
        /\ FinderSound([pc |-> "idle"])
    BY <1>2 DEF RecordObservation, FinderSound
  <2>2. Exact(count)
    <3> DEFINE x == finder[p]
    <3>1. FinderSound(x) /\ x.pc = "release"
      BY <1>2 DEF GrowthInv, FilesSound, RecordObservation
    <3> HIDE DEF x
    <3>2. Exact(x.count)
      BY <3>1 DEF FinderSound
    <3> QED
      BY <3>2 DEF x
  <2>3. HistorySound' \/ UNCHANGED <<history, dated>>
    <3>1. SUFFICES ASSUME history' = {c \in history : DayOf(c.at) # DayOf(now)} \cup {new},
                          dated' = (dated /\ DayOf(count.at) = DayOf(now))
                   PROVE  HistorySound'
      BY <1>2 DEF RecordObservation
    <3>2. /\ new \in Counted /\ new.at = now /\ new.stars = count.stars /\ UNCHANGED <<now, stars>>
          /\ count.at \in 0..now /\ count.stars = stars[count.at]
      BY <1>2, <2>2 DEF Count, Counted, GrowthInv, Clock, Exact, Times, RecordObservation
    <3> HIDE DEF new, count
    <3>3. history' \subseteq Counted /\ dated' \in BOOLEAN
      BY <3>1, <3>2 DEF GrowthInv, HistorySound
    <3>4. \A c \in history' : \A other \in history' : DayOf(c.at) = DayOf(other.at) => c = other
      BY <3>1, <3>2 DEF GrowthInv, HistorySound
    <3>5. ASSUME dated' PROVE \A c \in history' : Had(DayOf(c.at), c.stars)'
      <4>1. \A c \in history : Had(DayOf(c.at), c.stars)
        BY <3>1, <3>5 DEF GrowthInv, HistorySound
      <4>2. Had(DayOf(now), new.stars)
        BY <3>1, <3>2, <3>5 DEF Had
      <4> QED
        BY <3>1, <3>2, <4>1, <4>2 DEF Had
    <3> QED
      BY <3>3, <3>4, <3>5 DEF HistorySound
  <2> HIDE DEF count, new
  <2> QED
    BY <2>1, <2>3, GrowthGoesOn
<1> QED
  BY <1>1, <1>2

LEMMA GrowthInvariant == ASSUME GrowthInv, [GrowthNext]_growthVars PROVE GrowthInv'
<1>1. CASE UNCHANGED growthVars
  <2>1. UNCHANGED <<now, stars, feed, queue, finder, history, dated>>
    BY <1>1 DEF growthVars
  <2> QED
    BY <2>1, GrowthGoesOn
<1> QED
  BY <1>1, TickKeeps, FeedKeeps, QueueKeeps, HistoryKeeps DEF GrowthNext, QueueNext, HistoryNext

-----------------------------------------------------------------------------
(* Listings. *)

Final(q) == Len(listing[q])
Searches ==
  [pc : {"loop", "fallback", "request", "records", "finish", "keep"}, source : {"registry", "skills"}, query : Queries,
   start : Nat, limit : RecordLimits, pages : PageLimits, cursor : Nat, seen : SUBSET Nat, hops : Int, page : Int,
   todo : Seq(Entries), following : Nat, records : SUBSET Entries, cut : BOOLEAN, failed : BOOLEAN,
   issues : SUBSET {"authentication", "replay", "failed", "invalid", "duplicate"}]

CoversTo(s, to) == Found(s.query, s.start, to) \subseteq s.records
\* Where a search is, what it has read, and that it has all there is before.
Ranged(s) == s.start \in 1..Final(s.query) /\ s.cursor \in 0..Final(s.query) /\ s.seen \subseteq 1..Final(s.query)
Gathered(s) ==
  /\ s.records \subseteq Found(s.query, s.start, Final(s.query))
  /\ s.cursor # 0 => CoversTo(s, s.cursor - 1)
  /\ s.pc \in {"loop", "finish"} /\ s.cursor = 0 => s.cut \/ CoversTo(s, Final(s.query))
  /\ s.pc = "keep" => s.records = Found(s.query, s.start, Final(s.query))
Walks(s) ==
  /\ s.pc = "loop" => \E h \in (s.start - 1)..Final(s.query) :
       s.seen = s.start..h /\ (s.cursor # 0 => s.cursor \in s.start..(h + 1))
  /\ s.pc \in {"request", "records"} => s.cursor \in s.start..Final(s.query) /\ s.seen = s.start..s.cursor
  /\ s.pc \in {"loop", "request"} /\ s.cursor # 0 => ~s.cut
  /\ s.failed => s.issues # {}
PageOf(s) == listing[s.query][s.cursor]
ReadsPage(s) == s.pc = "records" =>
  /\ s.following \in {PageAfter(s)} \cup s.start..s.cursor
  /\ s.cut => s.todo = <<>>
  /\ ToSet(s.todo) \subseteq ToSet(PageOf(s))
  /\ ~s.cut => ToSet(PageOf(s)) \ {Bad} \subseteq s.records \cup ToSet(s.todo)
SearchSound(s) == s \in Searches /\ Ranged(s) /\ Gathered(s) /\ Walks(s) /\ ReadsPage(s)

AllFound(k) == k.records = Found(k.query, k.start, Final(k.query))
KeptSound ==
  /\ \A k \in kept : AllFound(k)
  /\ \A k, other \in kept : k.source = other.source /\ k.query = other.query => k = other
AnswerSound(a) ==
  /\ a.status \in {"complete", "partial", "cached", "unavailable"} /\ a.next \in 0..Final(a.query)
  /\ a.next # 0 => a.start \in 1..Final(a.query)
  /\ a.status = "complete" => a.records = Found(a.query, a.start, Final(a.query))
  /\ a.next # 0 => Found(a.query, a.start, a.next - 1) \subseteq a.records
  /\ a.status = "cached" => \E k \in kept : SameCache(k, a) /\ a.records = Found(k.query, k.start, Final(k.query))

ConnectorInv ==
  /\ listing \in [Queries -> Layouts]
  /\ AtMostOne(search) /\ \A s \in search : SearchSound(s)
  /\ AtMostOne(answer) /\ \A a \in answer : AnswerSound(a)
  /\ KeptSound

LEMMA ConnectorBegins == ConnectorInit => ConnectorInv
BY DEF ConnectorInit, ConnectorInv, KeptSound, AtMostOne

\* What a query lists.
LEMMA Listings ==
  ASSUME listing \in [Queries -> Layouts], NEW q \in Queries
  PROVE  /\ listing[q] \in Seq(Seq(Entries)) /\ Final(q) \in Nat /\ Final(q) >= 1
         /\ \A place \in 1..Final(q) : listing[q][place] \in Seq(Entries)
<1>1. listing[q] \in Seq(Seq(Entries)) /\ listing[q] # <<>>
  BY ConnectorAssumption
<1> QED
  BY <1>1 DEF Final

LEMMA InFound ==
  ASSUME NEW q, NEW from, NEW to, NEW r
  PROVE  r \in Found(q, from, to) <=> r # Bad /\ \E place \in from..to : r \in ToSet(listing[q][place])
<1> DEFINE pages == {ToSet(listing[q][place]) : place \in from..to}
<1>1. Found(q, from, to) = (UNION pages) \ {Bad}
  BY DEF Found
<1>2. \A set : set \in pages <=> \E place \in from..to : set = ToSet(listing[q][place])
  OBVIOUS
<1> HIDE DEF pages
<1>3. r \in Found(q, from, to) <=> r # Bad /\ \E set \in pages : r \in set
  BY <1>1
<1>4. (\E set \in pages : r \in set) <=> \E place \in from..to : r \in ToSet(listing[q][place])
  BY <1>2
<1> QED
  BY <1>3, <1>4

LEMMA FoundGrows ==
  ASSUME NEW q, NEW from \in Nat, NEW to \in Nat, NEW c \in Nat
  PROVE  /\ c <= to => Found(q, from, c) \subseteq Found(q, from, to)
         /\ 1 <= c => Found(q, from, c) \subseteq Found(q, from, c - 1) \cup (ToSet(listing[q][c]) \ {Bad})
         /\ from <= c /\ c <= to => ToSet(listing[q][c]) \ {Bad} \subseteq Found(q, from, to)
         /\ Found(q, from, from - 1) = {}
         /\ c <= to => Found(q, from, c - 1) \subseteq Found(q, from, to)
<1>1. c <= to => \A place \in from..c : place \in from..to
  OBVIOUS
<1>2. \A place \in from..c : place = c \/ place \in from..(c - 1)
  OBVIOUS
<1>3. from <= c /\ c <= to => c \in from..to
  OBVIOUS
<1>4. \A place \in from..(from - 1) : FALSE
  OBVIOUS
<1>5. c <= to => \A place \in from..(c - 1) : place \in from..to
  OBVIOUS
<1>6. c <= to => Found(q, from, c) \subseteq Found(q, from, to)
  BY <1>1, InFound
<1>7. Found(q, from, c) \subseteq Found(q, from, c - 1) \cup (ToSet(listing[q][c]) \ {Bad})
  BY <1>2, InFound
<1>8. from <= c /\ c <= to => ToSet(listing[q][c]) \ {Bad} \subseteq Found(q, from, to)
  BY <1>3, InFound
<1>9. Found(q, from, from - 1) = {}
  BY <1>4, InFound
<1>10. c <= to => Found(q, from, c - 1) \subseteq Found(q, from, to)
  BY <1>5, InFound
<1> QED
  BY <1>6, <1>7, <1>8, <1>9, <1>10

LEMMA ConnectorTypes == ConnectorInv => ConnectorTypeOK
<1> SUFFICES ASSUME ConnectorInv PROVE ConnectorTypeOK
  OBVIOUS
<1>1. Cardinality(search) <= 1 /\ Cardinality(answer) <= 1
  BY Singles DEF ConnectorInv
<1>2. \A s \in search : s.cursor \in Places(s.query) /\ s.seen \subseteq Places(s.query)
  <2> SUFFICES ASSUME NEW s \in search PROVE s.cursor \in Places(s.query) /\ s.seen \subseteq Places(s.query)
    OBVIOUS
  <2>1. SearchSound(s) /\ s.query \in Queries /\ listing \in [Queries -> Layouts]
    BY DEF ConnectorInv, SearchSound, Searches
  <2> QED
    BY <2>1, Listings DEF SearchSound, Ranged, Places, Final
<1>3. \A a \in answer : a.status \in {"complete", "partial", "cached", "unavailable"} /\ a.next \in Places(a.query)
  BY DEF ConnectorInv, AnswerSound, Places, Final
<1> QED
  BY <1>1, <1>2, <1>3 DEF ConnectorTypeOK, ConnectorInv, KeptSound

LEMMA AnswersAdd == ConnectorInv => AnswersAddUp
BY DEF ConnectorInv, AnswerSound, AnswersAddUp, Final

-----------------------------------------------------------------------------
(* The steps of a search. *)

\* A search goes on; answers and what is kept stay.
LEMMA SearchGoesOn ==
  ASSUME ConnectorInv, UNCHANGED <<listing, answer, kept>>, NEW n, SearchSound(n), search' = {n} PROVE ConnectorInv'
<1>1. SearchSound(n) => SearchSound(n)'
  BY DEF SearchSound, Ranged, Gathered, CoversTo, Walks, ReadsPage, PageOf, PageAfter, Found, Final
<1>2. \A s \in search' : SearchSound(s)'
  BY <1>1
<1>3. AtMostOne(search')
  BY DEF AtMostOne
<1>4. \A a \in answer' : AnswerSound(a)'
  BY DEF ConnectorInv, AnswerSound, Found, Final
<1>5. KeptSound'
  BY DEF ConnectorInv, KeptSound, AllFound, Found, Final
<1> QED
  BY <1>2, <1>3, <1>4, <1>5 DEF ConnectorInv, AtMostOne

\* A search ends with an answer.
LEMMA AnswerEnds ==
  ASSUME ConnectorInv, UNCHANGED listing, search' = {}, NEW a, AnswerSound(a)', answer' = {a}, KeptSound'
  PROVE  ConnectorInv'
BY DEF ConnectorInv, AtMostOne

LEMMA CurrentSearch ==
  ASSUME ConnectorInv, NEW s \in search
  PROVE  /\ SearchSound(s) /\ s \in Searches /\ s.query \in Queries /\ listing \in [Queries -> Layouts]
         /\ s.start \in 1..Final(s.query) /\ s.cursor \in 0..Final(s.query) /\ Final(s.query) \in Nat
         /\ s.start \in Nat /\ s.cursor \in Nat /\ s.seen \subseteq 1..Final(s.query)
BY Listings DEF ConnectorInv, SearchSound, Searches, Ranged

LEMMA SearchBegins == ASSUME ConnectorInv, BeginSearch PROVE ConnectorInv'
<1>1. PICK source \in {"registry", "skills"}, q \in Queries, limit \in RecordLimits, pages \in PageLimits :
     \E start \in {1} \cup Continuations(source, q),
        pc \in IF source = "skills" THEN {"loop", "fallback"} ELSE {"loop"} :
       Becomes([pc |-> pc, source |-> source, query |-> q, start |-> start, limit |-> limit, pages |-> pages,
                cursor |-> start, seen |-> {}, hops |-> 0, page |-> 0, todo |-> <<>>, following |-> 0,
                records |-> {}, cut |-> FALSE, failed |-> FALSE,
                issues |-> IF pc = "fallback" THEN {"authentication"} ELSE {}])
  BY DEF BeginSearch
<1>2. PICK start \in {1} \cup Continuations(source, q), pc \in {"loop", "fallback"} :
       Becomes([pc |-> pc, source |-> source, query |-> q, start |-> start, limit |-> limit, pages |-> pages,
                cursor |-> start, seen |-> {}, hops |-> 0, page |-> 0, todo |-> <<>>, following |-> 0,
                records |-> {}, cut |-> FALSE, failed |-> FALSE,
                issues |-> IF pc = "fallback" THEN {"authentication"} ELSE {}])
  BY <1>1
<1> DEFINE n == [pc |-> pc, source |-> source, query |-> q, start |-> start, limit |-> limit, pages |-> pages,
                cursor |-> start, seen |-> {}, hops |-> 0, page |-> 0, todo |-> <<>>, following |-> 0,
                records |-> {}, cut |-> FALSE, failed |-> FALSE,
                issues |-> IF pc = "fallback" THEN {"authentication"} ELSE {}]
<1>3. start \in 1..Final(q) /\ start \in Nat /\ Final(q) \in Nat
  <2>1. Final(q) \in Nat /\ 1 <= Final(q)
    BY Listings DEF ConnectorInv
  <2>2. ASSUME start \in Continuations(source, q) PROVE start \in 0..Final(q) /\ start # 0
    <3>1. PICK a \in answer : start = a.next /\ a.query = q /\ a.next # 0
      BY <2>2 DEF Continuations
    <3> QED
      BY <3>1 DEF ConnectorInv, AnswerSound
  <2> QED
    BY <2>1, <2>2
<1>4. <<>> \in Seq(Entries)
  BY EmptySeq, Zenon
<1>5. /\ n \in Searches /\ n.pc = pc /\ n.query = q /\ n.start = start /\ n.cursor = start /\ n.seen = {}
      /\ n.records = {} /\ ~n.cut /\ ~n.failed
  BY <1>3, <1>4 DEF Searches
<1> HIDE DEF n
<1>6. Ranged(n)
  BY <1>3, <1>5 DEF Ranged
<1>7. Gathered(n)
  <2>1. CoversTo(n, n.cursor - 1)
    <3>1. Found(q, start, start - 1) = {}
      BY <1>3, FoundGrows
    <3> QED
      BY <1>5, <3>1 DEF CoversTo
  <2> QED
    BY <1>2, <1>3, <1>5, <2>1 DEF Gathered
<1>8. Walks(n)
  <2>1. start - 1 \in (start - 1)..Final(q) /\ start..(start - 1) = {} /\ start \in start..((start - 1) + 1)
    BY <1>3
  <2> QED
    BY <1>2, <1>3, <1>5, <2>1 DEF Walks
<1>9. SearchSound(n)
  BY <1>2, <1>5, <1>6, <1>7, <1>8 DEF SearchSound, ReadsPage
<1> QED
  BY <1>2, <1>9, SearchGoesOn DEF BeginSearch, Becomes, n

LEMMA NextPageKeeps == ASSUME ConnectorInv, NextPage PROVE ConnectorInv'
<1>1. PICK s \in search :
        /\ s.pc = "loop" /\ UNCHANGED <<listing, answer, kept, searches>>
        /\ IF s.cursor = 0 \/ s.page = s.pages \/ Cardinality(s.records) >= s.limit THEN Goes(s, "finish")
           ELSE IF s.cursor \in s.seen
           THEN Becomes([s EXCEPT !.pc = "finish", !.issues = @ \cup {"replay"}, !.failed = TRUE])
           ELSE Becomes([s EXCEPT !.pc = "request", !.seen = @ \cup {s.cursor}, !.hops = 0])
  BY DEF NextPage
<1>2. /\ SearchSound(s) /\ s \in Searches /\ s.query \in Queries /\ listing \in [Queries -> Layouts]
      /\ s.start \in 1..Final(s.query) /\ s.cursor \in 0..Final(s.query) /\ Final(s.query) \in Nat
      /\ s.start \in Nat /\ s.cursor \in Nat /\ s.seen \subseteq 1..Final(s.query)
  BY CurrentSearch
<1>3. CASE Goes(s, "finish")
  <2> DEFINE n == [s EXCEPT !.pc = "finish"]
  <2>1. /\ n \in Searches /\ n.pc = "finish" /\ n.query = s.query /\ n.start = s.start /\ n.cursor = s.cursor
        /\ n.seen = s.seen /\ n.records = s.records /\ n.cut = s.cut /\ n.failed = s.failed /\ n.issues = s.issues
    BY <1>2 DEF Searches
  <2>2. search' = {n}
    BY <1>3 DEF Goes
  <2> HIDE DEF n
  <2>3. SearchSound(n)
    BY <1>1, <1>2, <2>1 DEF SearchSound, Ranged, Gathered, CoversTo, Walks, ReadsPage
  <2> QED
    BY <1>1, <2>2, <2>3, SearchGoesOn
<1>4. CASE Becomes([s EXCEPT !.pc = "finish", !.issues = @ \cup {"replay"}, !.failed = TRUE])
  <2> DEFINE n == [s EXCEPT !.pc = "finish", !.issues = @ \cup {"replay"}, !.failed = TRUE]
  <2>1. /\ n \in Searches /\ n.pc = "finish" /\ n.query = s.query /\ n.start = s.start /\ n.cursor = s.cursor
        /\ n.seen = s.seen /\ n.records = s.records /\ n.cut = s.cut /\ n.issues # {}
    BY <1>2 DEF Searches
  <2>2. search' = {n}
    BY <1>4 DEF Becomes
  <2> HIDE DEF n
  <2>3. SearchSound(n)
    BY <1>1, <1>2, <2>1 DEF SearchSound, Ranged, Gathered, CoversTo, Walks, ReadsPage
  <2> QED
    BY <1>1, <2>2, <2>3, SearchGoesOn
<1>5. CASE s.cursor # 0 /\ s.cursor \notin s.seen /\ Becomes([s EXCEPT !.pc = "request", !.seen = @ \cup {s.cursor}, !.hops = 0])
  <2> DEFINE n == [s EXCEPT !.pc = "request", !.seen = @ \cup {s.cursor}, !.hops = 0]
  <2>1. /\ n \in Searches /\ n.pc = "request" /\ n.query = s.query /\ n.start = s.start /\ n.cursor = s.cursor
        /\ n.seen = s.seen \cup {s.cursor} /\ n.records = s.records /\ n.cut = s.cut /\ n.failed = s.failed
        /\ n.issues = s.issues
    <3> DEFINE m == [s EXCEPT !.pc = "request", !.seen = @ \cup {s.cursor}]
    <3>1. /\ m \in Searches /\ m.pc = "request" /\ m.query = s.query /\ m.start = s.start /\ m.cursor = s.cursor
          /\ m.seen = s.seen \cup {s.cursor} /\ m.records = s.records /\ m.cut = s.cut /\ m.failed = s.failed
          /\ m.issues = s.issues
      BY <1>2 DEF Searches
    <3>2. n = [m EXCEPT !.hops = 0]
      OBVIOUS
    <3> HIDE DEF m, n
    <3> QED
      BY SMTT(60), <3>1, <3>2 DEF Searches
  <2>2. search' = {n}
    BY <1>5 DEF Becomes
  <2> HIDE DEF n
  <2>3. s.cursor \in s.start..Final(s.query) /\ s.seen \cup {s.cursor} = s.start..s.cursor
    <3>1. PICK h \in (s.start - 1)..Final(s.query) : s.seen = s.start..h /\ s.cursor \in s.start..(h + 1)
      BY <1>1, <1>2, <1>5 DEF SearchSound, Walks
    <3>2. s.cursor = h + 1
      BY <1>2, <1>5, <3>1
    <3> QED
      BY <1>2, <3>1, <3>2
  <2>4. Ranged(n) /\ Gathered(n) /\ Walks(n)
    BY <1>1, <1>2, <1>5, <2>1, <2>3 DEF SearchSound, Ranged, Gathered, CoversTo, Walks
  <2>5. SearchSound(n)
    BY <2>1, <2>4 DEF SearchSound, ReadsPage
  <2> QED
    BY <1>1, <2>2, <2>5, SearchGoesOn
<1> QED
  BY <1>1, <1>3, <1>4, <1>5

LEMMA RequestKeeps == ASSUME ConnectorInv, FollowRedirect \/ RequestFails PROVE ConnectorInv'
<1>1. CASE FollowRedirect
  <2>1. PICK s \in search : s.pc = "request" /\ Becomes([s EXCEPT !.hops = @ + 1])
    BY <1>1 DEF FollowRedirect
  <2>2. SearchSound(s) /\ s \in Searches
    BY CurrentSearch
  <2> DEFINE n == [s EXCEPT !.hops = @ + 1]
  <2>3. /\ n \in Searches /\ n.pc = s.pc /\ n.query = s.query /\ n.start = s.start /\ n.cursor = s.cursor
        /\ n.seen = s.seen /\ n.records = s.records /\ n.cut = s.cut /\ n.failed = s.failed /\ n.issues = s.issues
    BY <2>2 DEF Searches
  <2>4. search' = {n}
    BY <2>1 DEF Becomes
  <2> HIDE DEF n
  <2>5. SearchSound(n)
    BY <2>1, <2>2, <2>3 DEF SearchSound, Ranged, Gathered, CoversTo, Walks, ReadsPage
  <2> QED
    BY <1>1, <2>4, <2>5, SearchGoesOn DEF FollowRedirect
<1>2. CASE RequestFails
  <2>1. PICK s \in search :
          s.pc = "request" /\ Becomes([s EXCEPT !.pc = "finish", !.issues = @ \cup {"failed"}, !.failed = TRUE])
    BY <1>2 DEF RequestFails
  <2>2. SearchSound(s) /\ s \in Searches /\ s.start \in 1..Final(s.query) /\ s.cursor \in Nat /\ Final(s.query) \in Nat
    BY CurrentSearch
  <2> DEFINE n == [s EXCEPT !.pc = "finish", !.issues = @ \cup {"failed"}, !.failed = TRUE]
  <2>3. /\ n \in Searches /\ n.pc = "finish" /\ n.query = s.query /\ n.start = s.start /\ n.cursor = s.cursor
        /\ n.seen = s.seen /\ n.records = s.records /\ n.cut = s.cut /\ n.issues # {}
    BY <2>2 DEF Searches
  <2>4. search' = {n}
    BY <2>1 DEF Becomes
  <2> HIDE DEF n
  <2>5. s.cursor # 0
    BY <2>1, <2>2 DEF SearchSound, Walks
  <2>6. SearchSound(n)
    BY <2>1, <2>2, <2>3, <2>5 DEF SearchSound, Ranged, Gathered, CoversTo, Walks, ReadsPage
  <2> QED
    BY <1>2, <2>4, <2>6, SearchGoesOn DEF RequestFails
<1> QED
  BY <1>1, <1>2

LEMMA ArriveKeeps == ASSUME ConnectorInv, PageArrives PROVE ConnectorInv'
<1>1. PICK s \in search :
        /\ s.pc = "request" /\ UNCHANGED <<listing, answer, kept, searches>>
        /\ \E following \in {PageAfter(s)} \cup (IF s.source = "registry" THEN s.seen \ {1} ELSE {}) :
             Becomes([s EXCEPT !.pc = "records", !.todo = listing[s.query][s.cursor], !.following = following])
  BY DEF PageArrives
<1>2. PICK following \in {PageAfter(s)} \cup s.seen :
        Becomes([s EXCEPT !.pc = "records", !.todo = listing[s.query][s.cursor], !.following = following])
  BY <1>1
<1>3. /\ SearchSound(s) /\ s \in Searches /\ s.query \in Queries /\ listing \in [Queries -> Layouts]
      /\ s.start \in 1..Final(s.query) /\ s.cursor \in 0..Final(s.query) /\ Final(s.query) \in Nat
      /\ s.start \in Nat /\ s.cursor \in Nat /\ s.seen \subseteq 1..Final(s.query)
  BY CurrentSearch
<1>4. s.cursor \in s.start..Final(s.query) /\ s.seen = s.start..s.cursor /\ ~s.cut /\ s.cursor # 0
  BY <1>1, <1>3 DEF SearchSound, Walks
<1>5. listing[s.query][s.cursor] \in Seq(Entries) /\ PageAfter(s) \in 0..Final(s.query)
  BY SMTT(60), <1>3, <1>4, Listings DEF PageAfter, Final
<1> DEFINE n == [s EXCEPT !.pc = "records", !.todo = listing[s.query][s.cursor], !.following = following]
<1>6. /\ n \in Searches /\ n.pc = "records" /\ n.query = s.query /\ n.start = s.start /\ n.cursor = s.cursor
      /\ n.seen = s.seen /\ n.records = s.records /\ n.cut = s.cut /\ n.failed = s.failed /\ n.issues = s.issues
      /\ n.todo = listing[s.query][s.cursor] /\ n.following = following
  <2>1. following \in Nat
    BY <1>3, <1>5
  <2> QED
    BY <1>3, <1>5, <2>1 DEF Searches
<1>7. search' = {n}
  BY <1>2 DEF Becomes
<1> HIDE DEF n
<1>8. PageAfter(n) = PageAfter(s) /\ PageOf(n) = listing[s.query][s.cursor]
  BY <1>6 DEF PageAfter, PageOf
<1>9. ReadsPage(n)
  BY <1>2, <1>4, <1>6, <1>8 DEF ReadsPage
<1>10. Ranged(n) /\ Gathered(n) /\ Walks(n)
  BY <1>1, <1>3, <1>4, <1>6 DEF SearchSound, Ranged, Gathered, CoversTo, Walks
<1>11. SearchSound(n)
  BY <1>6, <1>9, <1>10 DEF SearchSound
<1> QED
  BY <1>1, <1>7, <1>11, SearchGoesOn

LEMMA HeadFirst ==
  ASSUME NEW seq \in Seq(Entries), seq # <<>>
  PROVE  /\ ToSet(seq) \subseteq {Head(seq)} \cup ToSet(Tail(seq)) /\ Head(seq) \in ToSet(seq)
         /\ ToSet(Tail(seq)) \subseteq ToSet(seq) /\ Tail(seq) \in Seq(Entries) /\ Head(seq) \in Entries
         /\ Len(seq) <= 1 => ToSet(Tail(seq)) = {}
<1>1. /\ Len(seq) \in Nat /\ Len(seq) >= 1 /\ DOMAIN seq = 1..Len(seq) /\ Head(seq) = seq[1] /\ Head(seq) \in Entries
      /\ Tail(seq) \in Seq(Entries) /\ Len(Tail(seq)) = Len(seq) - 1 /\ DOMAIN Tail(seq) = 1..(Len(seq) - 1)
      /\ \A i \in 1..(Len(seq) - 1) : Tail(seq)[i] = seq[i + 1]
  OBVIOUS
<1>2. \A i \in 1..Len(seq) : i = 1 \/ (i - 1 \in 1..(Len(seq) - 1) /\ seq[i] = Tail(seq)[i - 1])
  BY <1>1
<1>3. \A i \in 1..(Len(seq) - 1) : i + 1 \in 1..Len(seq) /\ seq[i + 1] = Tail(seq)[i]
  BY <1>1
<1>4. 1 \in 1..Len(seq)
  BY <1>1
<1>5. Len(seq) <= 1 => 1..(Len(seq) - 1) = {}
  BY <1>1
<1>6. ToSet(seq) \subseteq {Head(seq)} \cup ToSet(Tail(seq))
  <2> SUFFICES ASSUME NEW r \in ToSet(seq) PROVE r = Head(seq) \/ r \in ToSet(Tail(seq))
    OBVIOUS
  <2>1. PICK i \in 1..Len(seq) : r = seq[i]
    BY <1>1 DEF ToSet
  <2>2. CASE i = 1
    BY <1>1, <2>1, <2>2
  <2>3. CASE i - 1 \in 1..(Len(seq) - 1) /\ seq[i] = Tail(seq)[i - 1]
    BY <1>1, <2>1, <2>3 DEF ToSet
  <2> QED
    BY <1>2, <2>2, <2>3
<1>7. Head(seq) \in ToSet(seq)
  BY <1>1, <1>4 DEF ToSet
<1>8. ToSet(Tail(seq)) \subseteq ToSet(seq)
  <2> SUFFICES ASSUME NEW r \in ToSet(Tail(seq)) PROVE r \in ToSet(seq)
    OBVIOUS
  <2>1. PICK i \in 1..(Len(seq) - 1) : r = Tail(seq)[i]
    BY <1>1 DEF ToSet
  <2> QED
    BY <1>1, <1>3, <2>1 DEF ToSet
<1>9. Len(seq) <= 1 => ToSet(Tail(seq)) = {}
  BY <1>1, <1>5 DEF ToSet
<1> QED
  BY <1>1, <1>6, <1>7, <1>8, <1>9

LEMMA TakeKeeps == ASSUME ConnectorInv, TakeRecord PROVE ConnectorInv'
<1> DEFINE Skipped(s, issue) == [s EXCEPT !.todo = Tail(@), !.issues = @ \cup {issue}]
           Taken(s, full) == [s EXCEPT !.records = @ \cup {Head(s.todo)}, !.cut = full /\ StopsWithin(s.todo),
                                       !.todo = IF full THEN <<>> ELSE Tail(@)]
<1>1. PICK s \in search :
        /\ s.pc = "records" /\ s.todo # <<>> /\ UNCHANGED <<listing, answer, kept, searches>>
        /\ LET entry == Head(s.todo)
               full == Cardinality(s.records) + 1 >= s.limit
           IN IF entry = Bad THEN Becomes([s EXCEPT !.todo = Tail(@), !.issues = @ \cup {"invalid"}])
              ELSE IF entry \in s.records THEN Becomes([s EXCEPT !.todo = Tail(@), !.issues = @ \cup {"duplicate"}])
              ELSE Becomes([s EXCEPT !.records = @ \cup {entry}, !.cut = full /\ StopsWithin(s.todo),
                                     !.todo = IF full THEN <<>> ELSE Tail(@)])
  BY DEF TakeRecord
<1>2. /\ SearchSound(s) /\ s \in Searches /\ s.query \in Queries /\ listing \in [Queries -> Layouts]
      /\ s.start \in 1..Final(s.query) /\ s.cursor \in 0..Final(s.query) /\ Final(s.query) \in Nat
      /\ s.start \in Nat /\ s.cursor \in Nat /\ s.seen \subseteq 1..Final(s.query)
  BY CurrentSearch
<1>3. /\ s.todo \in Seq(Entries) /\ s.todo # <<>> /\ ~s.cut /\ s.cut \in BOOLEAN
      /\ s.cursor \in s.start..Final(s.query) /\ s.records \subseteq Entries
      /\ s.following \in {PageAfter(s)} \cup s.start..s.cursor
      /\ ToSet(s.todo) \subseteq ToSet(PageOf(s))
      /\ ToSet(PageOf(s)) \ {Bad} \subseteq s.records \cup ToSet(s.todo)
  BY <1>1, <1>2 DEF SearchSound, ReadsPage, Walks, Searches
<1> DEFINE entry == Head(s.todo)
           rest == Tail(s.todo)
<1>4. /\ ToSet(s.todo) \subseteq {entry} \cup ToSet(rest) /\ entry \in ToSet(s.todo) /\ ToSet(rest) \subseteq ToSet(s.todo)
      /\ rest \in Seq(Entries) /\ entry \in Entries /\ (Len(s.todo) <= 1 => ToSet(rest) = {})
  BY <1>3, HeadFirst
<1>5. entry # Bad => entry \in Found(s.query, s.start, Final(s.query))
  <2>1. ToSet(listing[s.query][s.cursor]) \ {Bad} \subseteq Found(s.query, s.start, Final(s.query))
    <3>1. s.cursor \in Nat /\ s.start <= s.cursor /\ s.cursor <= Final(s.query)
      BY <1>2, <1>3
    <3> QED
      BY <1>2, <3>1, FoundGrows
  <2> HIDE DEF entry
  <2> QED
    BY <1>3, <1>4, <2>1 DEF PageOf
\* the rest of the page is left
<1>6. ASSUME NEW issue \in {"invalid", "duplicate"}, entry = Bad \/ entry \in s.records,
             Becomes([s EXCEPT !.todo = Tail(@), !.issues = @ \cup {issue}])
      PROVE  ConnectorInv'
  <2> DEFINE n == [s EXCEPT !.todo = Tail(@), !.issues = @ \cup {issue}]
  <2>1. /\ n \in Searches /\ n.pc = "records" /\ n.query = s.query /\ n.start = s.start /\ n.cursor = s.cursor
        /\ n.seen = s.seen /\ n.records = s.records /\ n.cut = s.cut /\ n.issues # {}
        /\ n.todo = rest /\ n.following = s.following
    <3> DEFINE m == [s EXCEPT !.issues = @ \cup {issue}]
    <3>1. /\ m \in Searches /\ m.pc = "records" /\ m.query = s.query /\ m.start = s.start /\ m.cursor = s.cursor
          /\ m.seen = s.seen /\ m.records = s.records /\ m.cut = s.cut /\ m.issues # {} /\ m.following = s.following
      BY <1>1, <1>2 DEF Searches
    <3>2. n = [m EXCEPT !.todo = rest]
      BY <1>2 DEF Searches
    <3> HIDE DEF m, n, rest
    <3> QED
      BY <1>4, <3>1, <3>2 DEF Searches
  <2>2. search' = {n}
    BY <1>6 DEF Becomes
  <2> HIDE DEF n, entry, rest
  <2>3. PageAfter(n) = PageAfter(s) /\ PageOf(n) = PageOf(s)
    BY <2>1 DEF PageAfter, PageOf
  <2>4. ReadsPage(n)
    BY <1>3, <1>4, <1>6, <2>1, <2>3 DEF ReadsPage
  <2>5. Ranged(n) /\ Gathered(n) /\ Walks(n)
    BY <1>1, <1>2, <2>1 DEF SearchSound, Ranged, Gathered, CoversTo, Walks
  <2>6. SearchSound(n)
    BY <2>1, <2>4, <2>5 DEF SearchSound
  <2> QED
    BY <1>1, <2>2, <2>6, SearchGoesOn
\* one more is added
<1>7. ASSUME NEW full \in BOOLEAN, entry # Bad,
             Becomes([s EXCEPT !.records = @ \cup {entry}, !.cut = full /\ StopsWithin(s.todo),
                               !.todo = IF full THEN <<>> ELSE Tail(@)])
      PROVE  ConnectorInv'
  <2> DEFINE m == [s EXCEPT !.records = @ \cup {entry}]
             cut == full /\ StopsWithin(s.todo)
             todo == IF full THEN <<>> ELSE rest
             n == [m EXCEPT !.cut = cut, !.todo = todo]
  <2>1. /\ m \in Searches /\ m.pc = "records" /\ m.query = s.query /\ m.start = s.start /\ m.cursor = s.cursor
        /\ m.seen = s.seen /\ m.records = s.records \cup {entry} /\ m.following = s.following
        /\ m.failed = s.failed /\ m.issues = s.issues /\ m.todo = s.todo
    BY <1>1, <1>2, <1>4 DEF Searches
  <2>2. search' = {n}
    BY <1>7 DEF Becomes
  <2>3. todo \in Seq(Entries)
    <3>1. <<>> \in Seq(Entries)
      BY EmptySeq, Zenon
    <3>2. CASE full
      BY <3>1, <3>2
    <3>3. CASE ~full
      <4>1. todo = rest
        BY <3>3
      <4> HIDE DEF todo, rest
      <4> QED
        BY <1>4, <4>1
    <3> QED
      BY <3>2, <3>3
  <2>4. cut \in BOOLEAN /\ (cut => todo = <<>>)
    BY DEF StopsWithin
  <2>5. ~cut => ToSet(s.todo) \subseteq {entry} \cup ToSet(todo)
    <3>1. CASE full
      <4>1. ~cut => ~(Len(s.todo) > 1)
        BY <3>1 DEF StopsWithin
      <4>2. Len(s.todo) \in Nat
        BY <1>3
      <4>3. ~cut => Len(s.todo) <= 1
        BY <4>1, <4>2
      <4> HIDE DEF cut, todo, rest, entry
      <4> QED
        BY <1>4, <4>3
    <3>2. CASE ~full
      <4>1. todo = rest
        BY <3>2
      <4> HIDE DEF cut, todo, rest, entry
      <4> QED
        BY <1>4, <4>1
    <3> QED
      BY <3>1, <3>2
  <2>6. ToSet(todo) \subseteq ToSet(s.todo)
    <3>1. ToSet(<<>>) = {}
      BY DEF ToSet
    <3>2. todo = <<>> \/ todo = rest
      OBVIOUS
    <3> HIDE DEF todo, rest, entry
    <3> QED
      BY <1>4, <3>1, <3>2
  <2> HIDE DEF cut, todo, m, rest, entry
  <2>7. /\ n \in Searches /\ n.pc = "records" /\ n.query = s.query /\ n.start = s.start /\ n.cursor = s.cursor
        /\ n.seen = s.seen /\ n.records = s.records \cup {entry} /\ n.following = s.following
        /\ n.failed = s.failed /\ n.issues = s.issues /\ n.todo = todo /\ n.cut = cut
    BY <2>1, <2>3, <2>4 DEF Searches
  <2> HIDE DEF n
  <2>8. PageAfter(n) = PageAfter(s) /\ PageOf(n) = PageOf(s)
    BY <2>7 DEF PageAfter, PageOf
  <2>9. ReadsPage(n)
    BY <1>3, <1>4, <2>4, <2>5, <2>6, <2>7, <2>8 DEF ReadsPage
  <2>10. Ranged(n) /\ Gathered(n) /\ Walks(n)
    BY <1>1, <1>2, <1>5, <1>7, <2>7 DEF SearchSound, Ranged, Gathered, CoversTo, Walks
  <2>11. SearchSound(n)
    BY <2>7, <2>9, <2>10 DEF SearchSound
  <2> QED
    BY <1>1, <2>2, <2>11, SearchGoesOn
<1>8. (Cardinality(s.records) + 1 >= s.limit) \in BOOLEAN
  OBVIOUS
<1> QED
  BY <1>1, <1>6, <1>7, <1>8

LEMMA EndPageKeeps == ASSUME ConnectorInv, EndPage PROVE ConnectorInv'
<1>1. PICK s \in search :
        /\ s.pc = "records" /\ s.todo = <<>> /\ UNCHANGED <<listing, answer, kept, searches>>
        /\ Becomes([s EXCEPT !.pc = "loop", !.page = @ + 1, !.cursor = IF s.cut THEN 0 ELSE s.following])
  BY DEF EndPage
<1>2. /\ SearchSound(s) /\ s \in Searches /\ s.query \in Queries /\ listing \in [Queries -> Layouts]
      /\ s.start \in 1..Final(s.query) /\ s.cursor \in 0..Final(s.query) /\ Final(s.query) \in Nat
      /\ s.start \in Nat /\ s.cursor \in Nat /\ s.seen \subseteq 1..Final(s.query)
  BY CurrentSearch
<1>3. /\ s.cursor \in s.start..Final(s.query) /\ s.seen = s.start..s.cursor /\ s.cut \in BOOLEAN /\ s.following \in Nat
      /\ s.following \in {PageAfter(s)} \cup s.start..s.cursor
      /\ CoversTo(s, s.cursor - 1) /\ (s.failed => s.issues # {})
  BY <1>1, <1>2 DEF SearchSound, ReadsPage, Walks, Searches, Gathered
<1>4. ~s.cut => CoversTo(s, s.cursor)
  <2>1. ToSet(<<>>) = {}
    BY DEF ToSet
  <2>2. ~s.cut => ToSet(PageOf(s)) \ {Bad} \subseteq s.records
    BY <1>1, <1>2, <2>1 DEF SearchSound, ReadsPage
  <2> QED
    BY <1>2, <1>3, <2>2, FoundGrows DEF CoversTo, PageOf
<1> DEFINE next == IF s.cut THEN 0 ELSE s.following
           o == [s EXCEPT !.page = @ + 1]
           m == [o EXCEPT !.pc = "loop"]
           n == [m EXCEPT !.cursor = next]
<1>5. /\ m \in Searches /\ m.pc = "loop" /\ m.query = s.query /\ m.start = s.start /\ m.seen = s.seen
      /\ m.records = s.records /\ m.failed = s.failed /\ m.issues = s.issues /\ m.cut = s.cut
  <2>1. /\ o \in Searches /\ o.query = s.query /\ o.start = s.start /\ o.seen = s.seen
        /\ o.records = s.records /\ o.failed = s.failed /\ o.issues = s.issues /\ o.cut = s.cut
    BY SMTT(60), <1>2 DEF Searches
  <2> HIDE DEF o
  <2> QED
    BY <2>1 DEF Searches
<1>6. search' = {n}
  BY <1>1 DEF Becomes
<1>7. /\ next \in 0..Final(s.query) /\ next \in Nat
      /\ next # 0 => next \in s.start..(s.cursor + 1) /\ ~s.cut
      /\ next = 0 /\ ~s.cut => s.cursor = Final(s.query)
  BY <1>2, <1>3 DEF PageAfter, Final
<1> HIDE DEF m, next
<1>8. /\ n \in Searches /\ n.pc = "loop" /\ n.query = s.query /\ n.start = s.start /\ n.seen = s.seen
      /\ n.records = s.records /\ n.failed = s.failed /\ n.issues = s.issues /\ n.cut = s.cut /\ n.cursor = next
  BY <1>5, <1>7 DEF Searches
<1> HIDE DEF n
<1>9. next # 0 => CoversTo(s, next - 1)
  <2>1. ASSUME next # 0 PROVE next - 1 <= s.cursor /\ next - 1 \in Nat /\ CoversTo(s, s.cursor)
    BY <1>2, <1>3, <1>4, <1>7, <2>1
  <2> QED
    BY <1>2, <2>1, FoundGrows DEF CoversTo
<1>10. Ranged(n)
  BY <1>2, <1>7, <1>8 DEF Ranged
<1>11. Gathered(n)
  BY <1>2, <1>4, <1>7, <1>8, <1>9 DEF SearchSound, Gathered, CoversTo
<1>12. Walks(n)
  <2>1. s.cursor \in (s.start - 1)..Final(s.query)
    BY <1>2, <1>3
  <2> QED
    BY <1>3, <1>7, <1>8, <2>1 DEF Walks
<1>13. SearchSound(n)
  BY <1>8, <1>10, <1>11, <1>12 DEF SearchSound, ReadsPage
<1> QED
  BY <1>1, <1>6, <1>13, SearchGoesOn

LEMMA EndKeeps == ASSUME ConnectorInv, EndSearch PROVE ConnectorInv'
<1>1. PICK s \in search :
        /\ s.pc = "finish" /\ UNCHANGED <<listing, kept, searches>>
        /\ LET issues == s.issues \cup (IF ~s.failed /\ (s.cut \/ s.cursor # 0) THEN {"limit"} ELSE {})
           IN CASE issues = {} -> Goes(s, "keep") /\ UNCHANGED answer
                [] issues # {} /\ s.records = {} -> Goes(s, "fallback") /\ UNCHANGED answer
                [] OTHER -> Answers(s, "partial", s.records, s.cursor)
  BY DEF EndSearch
<1>2. /\ SearchSound(s) /\ s \in Searches /\ s.start \in 1..Final(s.query) /\ s.cursor \in 0..Final(s.query)
  BY CurrentSearch
<1> DEFINE issues == s.issues \cup (IF ~s.failed /\ (s.cut \/ s.cursor # 0) THEN {"limit"} ELSE {})
<1>3. CASE issues = {} /\ Goes(s, "keep") /\ UNCHANGED answer
  <2> DEFINE n == [s EXCEPT !.pc = "keep"]
  <2>1. /\ n \in Searches /\ n.pc = "keep" /\ n.query = s.query /\ n.start = s.start /\ n.cursor = s.cursor
        /\ n.seen = s.seen /\ n.records = s.records /\ n.cut = s.cut /\ n.failed = s.failed /\ n.issues = s.issues
    BY <1>2 DEF Searches
  <2>2. search' = {n}
    BY <1>3 DEF Goes
  <2> HIDE DEF n
  <2>3. s.issues = {} /\ (s.failed \/ (~s.cut /\ s.cursor = 0))
    BY <1>3
  <2>4. ~s.cut /\ s.cursor = 0 /\ ~s.failed
    BY <1>2, <2>3 DEF SearchSound, Walks
  <2>5. s.records = Found(s.query, s.start, Final(s.query))
    BY <1>1, <1>2, <2>4 DEF SearchSound, Gathered, CoversTo
  <2>6. SearchSound(n)
    BY <1>1, <1>2, <2>1, <2>4, <2>5 DEF SearchSound, Ranged, Gathered, CoversTo, Walks, ReadsPage
  <2> QED
    BY <1>1, <1>3, <2>2, <2>6, SearchGoesOn
<1>4. CASE Goes(s, "fallback") /\ UNCHANGED answer
  <2> DEFINE n == [s EXCEPT !.pc = "fallback"]
  <2>1. /\ n \in Searches /\ n.pc = "fallback" /\ n.query = s.query /\ n.start = s.start /\ n.cursor = s.cursor
        /\ n.seen = s.seen /\ n.records = s.records /\ n.cut = s.cut /\ n.failed = s.failed /\ n.issues = s.issues
    BY <1>2 DEF Searches
  <2>2. search' = {n}
    BY <1>4 DEF Goes
  <2> HIDE DEF n
  <2>3. SearchSound(n)
    BY <1>1, <1>2, <2>1 DEF SearchSound, Ranged, Gathered, CoversTo, Walks, ReadsPage
  <2> QED
    BY <1>1, <1>4, <2>2, <2>3, SearchGoesOn
<1>5. CASE Answers(s, "partial", s.records, s.cursor)
  <2> DEFINE a == [source |-> s.source, query |-> s.query, start |-> s.start, status |-> "partial",
                   records |-> s.records, next |-> s.cursor]
  <2>1. search' = {} /\ answer' = {a}
    BY <1>5 DEF Answers
  <2>2. a.status = "partial" /\ a.next = s.cursor /\ a.query = s.query /\ a.start = s.start /\ a.records = s.records
    OBVIOUS
  <2> HIDE DEF a
  <2>3. AnswerSound(a)
    BY <1>1, <1>2, <2>2 DEF SearchSound, Gathered, CoversTo, AnswerSound
  <2>4. AnswerSound(a)' /\ KeptSound'
    BY <1>1, <2>2, <2>3 DEF ConnectorInv, KeptSound, AllFound, AnswerSound, Found, Final
  <2> QED
    BY <1>1, <2>1, <2>4, AnswerEnds
<1> QED
  BY <1>1, <1>3, <1>4, <1>5

LEMMA KeepKeeps == ASSUME ConnectorInv, KeepAnswer PROVE ConnectorInv'
<1>1. PICK s \in search :
        /\ s.pc = "keep" /\ UNCHANGED <<listing, searches>>
        /\ \/ /\ kept' = {k \in kept : ~SameCache(k, s)}
                         \cup {[source |-> s.source, query |-> s.query, start |-> s.start, records |-> s.records]}
              /\ Answers(s, "complete", s.records, 0)
           \/ UNCHANGED kept /\ Answers(s, "partial", s.records, 0)
  BY DEF KeepAnswer
<1>2. SearchSound(s)
  BY CurrentSearch
<1>3. s.records = Found(s.query, s.start, Final(s.query))
  BY <1>1, <1>2 DEF SearchSound, Gathered
<1>4. ASSUME NEW status \in {"complete", "partial"}, Answers(s, status, s.records, 0), KeptSound'
      PROVE  ConnectorInv'
  <2> DEFINE a == [source |-> s.source, query |-> s.query, start |-> s.start, status |-> status,
                   records |-> s.records, next |-> 0]
  <2>1. search' = {} /\ answer' = {a}
    BY <1>4 DEF Answers
  <2>2. a.status = status /\ a.next = 0 /\ a.query = s.query /\ a.start = s.start /\ a.records = s.records
    OBVIOUS
  <2> HIDE DEF a
  <2>3. s.records = Found(s.query, s.start, Final(s.query))'
    BY <1>1, <1>3 DEF Found, Final
  <2>4. 0 \in 0..Final(s.query)
    BY CurrentSearch
  <2>5. AnswerSound(a)'
    BY <1>1, <1>4, <2>2, <2>3, <2>4 DEF AnswerSound, Final
  <2> QED
    BY <1>1, <1>4, <2>1, <2>5, AnswerEnds
<1> DEFINE k0 == [source |-> s.source, query |-> s.query, start |-> s.start, records |-> s.records]
<1>5. k0.source = s.source /\ k0.query = s.query /\ k0.start = s.start /\ k0.records = s.records
  OBVIOUS
<1>6. CASE kept' = {k \in kept : ~SameCache(k, s)} \cup {k0} /\ Answers(s, "complete", s.records, 0)
  <2> HIDE DEF k0
  <2>1. AllFound(k0)
    BY <1>3, <1>5 DEF AllFound
  <2>2. \A k \in kept' : AllFound(k)
    BY <1>6, <2>1 DEF ConnectorInv, KeptSound
  <2>3. \A k \in kept' : AllFound(k)'
    BY <1>1, <2>2 DEF AllFound, Found, Final
  <2>4. \A k, other \in kept' : k.source = other.source /\ k.query = other.query => k = other
    BY <1>5, <1>6 DEF ConnectorInv, KeptSound, SameCache
  <2>5. KeptSound'
    BY <2>3, <2>4 DEF KeptSound
  <2> QED
    BY <1>4, <1>6, <2>5
<1>7. CASE UNCHANGED kept /\ Answers(s, "partial", s.records, 0)
  <2>1. KeptSound'
    BY <1>1, <1>7 DEF ConnectorInv, KeptSound, AllFound, Found, Final
  <2> QED
    BY <1>4, <1>7, <2>1
<1> QED
  BY <1>1, <1>6, <1>7

LEMMA FallBackKeeps == ASSUME ConnectorInv, FallBack PROVE ConnectorInv'
<1>1. PICK s \in search :
        /\ s.pc = "fallback" /\ UNCHANGED <<listing, kept, searches>>
        /\ \/ \E k \in kept : SameCache(k, s) /\ Answers(s, "cached", k.records, 0)
           \/ ~(\E k \in kept : SameCache(k, s)) /\ Answers(s, "unavailable", {}, 0)
  BY DEF FallBack
<1>2. 0 \in 0..Final(s.query)
  BY CurrentSearch
<1>3. KeptSound'
  BY <1>1 DEF ConnectorInv, KeptSound, AllFound, Found, Final
<1>4. ASSUME NEW k \in kept, SameCache(k, s), Answers(s, "cached", k.records, 0) PROVE ConnectorInv'
  <2> DEFINE a == [source |-> s.source, query |-> s.query, start |-> s.start, status |-> "cached",
                   records |-> k.records, next |-> 0]
  <2>1. search' = {} /\ answer' = {a}
    BY <1>4 DEF Answers
  <2>2. a.status = "cached" /\ a.next = 0 /\ a.query = s.query /\ a.source = s.source /\ a.records = k.records
    OBVIOUS
  <2> HIDE DEF a
  <2>3. SameCache(k, a) /\ a.records = Found(k.query, k.start, Final(k.query))
    BY <1>4, <2>2 DEF ConnectorInv, KeptSound, AllFound, SameCache
  <2>4. k \in kept' /\ a.records = Found(k.query, k.start, Final(k.query))'
    BY <1>1, <2>3 DEF Found, Final
  <2>5. AnswerSound(a)'
    BY <1>1, <1>2, <2>2, <2>3, <2>4 DEF AnswerSound, Final
  <2> QED
    BY <1>1, <1>3, <2>1, <2>5, AnswerEnds
<1>5. CASE Answers(s, "unavailable", {}, 0)
  <2> DEFINE a == [source |-> s.source, query |-> s.query, start |-> s.start, status |-> "unavailable",
                   records |-> {}, next |-> 0]
  <2>1. search' = {} /\ answer' = {a}
    BY <1>5 DEF Answers
  <2>2. a.status = "unavailable" /\ a.next = 0 /\ a.query = s.query
    OBVIOUS
  <2> HIDE DEF a
  <2>3. AnswerSound(a)'
    BY <1>1, <1>2, <2>2 DEF AnswerSound, Final
  <2> QED
    BY <1>1, <1>3, <2>1, <2>3, AnswerEnds
<1> QED
  BY <1>1, <1>4, <1>5

LEMMA ConnectorInvariant == ASSUME ConnectorInv, [ConnectorNext]_linkVars PROVE ConnectorInv'
<1>1. ASSUME UNCHANGED linkVars PROVE ConnectorInv'
  <2>1. UNCHANGED <<listing, search, answer, kept>>
    BY <1>1 DEF linkVars
  <2>2. \A s \in search' : SearchSound(s)'
    <3> SUFFICES ASSUME NEW s \in search PROVE SearchSound(s)'
      BY <2>1
    <3>1. SearchSound(s)
      BY DEF ConnectorInv
    <3> QED
      BY <2>1, <3>1 DEF SearchSound, Ranged, Gathered, CoversTo, Walks, ReadsPage, PageOf, PageAfter, Found, Final
  <2>3. \A a \in answer' : AnswerSound(a)'
    BY <2>1 DEF ConnectorInv, AnswerSound, Found, Final
  <2>4. KeptSound'
    BY <2>1 DEF ConnectorInv, KeptSound, AllFound, Found, Final
  <2> QED
    BY <2>1, <2>2, <2>3, <2>4 DEF ConnectorInv, AtMostOne
<1> QED
  BY <1>1, SearchBegins, NextPageKeeps, RequestKeeps, ArriveKeeps, TakeKeeps, EndPageKeeps, EndKeeps, KeepKeeps, FallBackKeeps
     DEF ConnectorNext

-----------------------------------------------------------------------------
(* Candidate review. *)

\* A review that is under way, and one that its directory has not disturbed: while it
\* reads the directory is whole, and so is what it has read; more than the commit
\* is in either only after somebody put it there.
UnderReview ==
  [pc : {"clone", "reuse", "fetch", "remove", "rename", "read", "evaluate", "decide"}, goal : {"inspect", "propose"},
   commit : Commits, claim : SUBSET Evidence, extent : Extents, calm : BOOLEAN]
ReviewStates == {[pc |-> "idle"]} \cup UnderReview
Full(r) == r.extent = "all" \/ (r.extent = "extra" /\ r.commit \in littered)
CalmReview(r) == r \in UnderReview /\ r.calm =>
  /\ r.pc \in {"clone", "reuse", "fetch", "remove", "rename"} => r.extent = "all"
  /\ Full(r) /\ (r.pc \in {"read", "evaluate"} => cache[r.commit] \in {"whole", "extra"})

Dossiers == [commit : Commits, evidence : Evidence]
ReviewInv ==
  /\ head \in Commits /\ cache \in [Commits -> CacheStates] /\ littered \subseteq Commits
  /\ \A c \in Commits : cache[c] = "extra" => c \in littered
  /\ (dossier = {} \/ \E d \in Dossiers : dossier = {d})
  /\ reviewer \in [Reviewers -> ReviewStates]
  /\ \A p \in Reviewers : CalmReview(reviewer[p])
  /\ AdmittedOnEvidence

LEMMA ReviewBegins == ReviewInit => ReviewInv
BY DEF ReviewInit, ReviewInv, ReviewStates, UnderReview, CalmReview, AdmittedOnEvidence, CacheStates

LEMMA ReviewTypes == ReviewInv => ReviewTypeOK
<1> SUFFICES ASSUME ReviewInv PROVE ReviewTypeOK
  OBVIOUS
<1>1. dossier \subseteq Dossiers /\ Cardinality(dossier) <= 1
  <2>1. CASE dossier = {}
    BY <2>1, FS_EmptySet
  <2>2. ASSUME NEW d \in Dossiers, dossier = {d} PROVE dossier \subseteq Dossiers /\ Cardinality(dossier) <= 1
    <3>1. Cardinality({d}) = 1
      BY FS_Singleton, Zenon
    <3> QED
      BY <2>2, <3>1
  <2> QED
    BY <2>1, <2>2 DEF ReviewInv
<1>2. \A p \in Reviewers : reviewer[p].pc \in
       {"idle", "clone", "reuse", "fetch", "remove", "rename", "read", "evaluate", "decide"}
  BY DEF ReviewInv, ReviewStates, UnderReview
<1> QED
  BY <1>1, <1>2 DEF ReviewInv, ReviewTypeOK, Dossiers

\* A review under way is one that is not idle.
LEMMA ReviewUnderWay ==
  ASSUME ReviewInv, NEW p \in Reviewers, reviewer[p].pc # "idle"
  PROVE  reviewer[p] \in UnderReview /\ reviewer[p].commit \in Commits
BY DEF ReviewInv, ReviewStates, UnderReview

\* One review goes on, and the directories are left alone.
LEMMA ReviewGoesOn ==
  ASSUME ReviewInv, NEW p \in Reviewers, NEW r \in ReviewStates, reviewer' = [reviewer EXCEPT ![p] = r],
         CalmReview(r), UNCHANGED <<cache, littered>>, head' \in Commits,
         dossier' = {} \/ \E d \in Dossiers : dossier' = {d}, AdmittedOnEvidence'
  PROVE  ReviewInv'
<1>1. reviewer' \in [Reviewers -> ReviewStates]
  BY DEF ReviewInv
<1>2. ASSUME NEW q \in Reviewers PROVE CalmReview(reviewer'[q])
  <2>1. CalmReview(reviewer[q])
    BY DEF ReviewInv
  <2> QED
    BY <2>1 DEF ReviewInv
<1>3. ASSUME NEW q \in Reviewers PROVE CalmReview(reviewer[q])'
  BY <1>2 DEF CalmReview, Full
<1> QED
  BY <1>1, <1>3 DEF ReviewInv

\* One review goes on, and nothing else happens.
LEMMA ReviewGoesOnAlone ==
  ASSUME ReviewInv, NEW p \in Reviewers, NEW r \in ReviewStates, reviewer' = [reviewer EXCEPT ![p] = r],
         CalmReview(r), UNCHANGED <<cache, head, dossier, proposals, littered>>
  PROVE  ReviewInv'
<1>1. AdmittedOnEvidence'
  BY DEF ReviewInv, AdmittedOnEvidence
<1> QED
  BY <1>1, ReviewGoesOn DEF ReviewInv

LEMMA StopKeeps ==
  ASSUME ReviewInv, NEW p \in Reviewers, Stops(p), UNCHANGED <<cache, head, dossier, proposals, littered>> PROVE ReviewInv'
<1>1. [pc |-> "idle"] \in ReviewStates /\ CalmReview([pc |-> "idle"])
  BY DEF ReviewStates, UnderReview, CalmReview
<1> QED
  BY <1>1, ReviewGoesOnAlone DEF Stops

LEMMA StartKeeps ==
  ASSUME ReviewInv, NEW p \in Reviewers, InspectCandidate(p) \/ ProposeCandidate(p) PROVE ReviewInv'
<1>1. CASE InspectCandidate(p)
  <2>1. /\ Review("inspect", head, {}, "clone") \in UnderReview
        /\ CalmReview(Review("inspect", head, {}, "clone"))
    BY DEF Review, UnderReview, CalmReview, ReviewInv, Full, Extents
  <2> QED
    BY <1>1, <2>1, ReviewGoesOnAlone DEF InspectCandidate, Starts, ReviewStates
<1>2. CASE ProposeCandidate(p)
  <2>1. PICK d \in dossier : Starts(p, Review("propose", d.commit, {d.evidence}, "reuse"))
    BY <1>2 DEF ProposeCandidate
  <2>2. d.commit \in Commits /\ d.evidence \in Evidence
    BY DEF ReviewInv, Dossiers
  <2>3. /\ Review("propose", d.commit, {d.evidence}, "reuse") \in UnderReview
        /\ CalmReview(Review("propose", d.commit, {d.evidence}, "reuse"))
    BY <2>2 DEF Review, UnderReview, CalmReview, Full, Extents
  <2> QED
    BY <2>1, <2>3, ReviewGoesOnAlone DEF Starts, ReviewStates
<1> QED
  BY <1>1, <1>2

LEMMA FetchKeeps ==
  ASSUME ReviewInv, NEW p \in Reviewers, CloneHead(p) \/ ReuseSnapshot(p) \/ FetchCommit(p) PROVE ReviewInv'
<1>1. reviewer[p] \in UnderReview /\ CalmReview(reviewer[p]) /\ UNCHANGED <<cache, head, dossier, proposals, littered>>
      /\ head \in Commits /\ reviewer[p].commit \in Commits
      /\ reviewer[p].pc \in {"clone", "reuse", "fetch"}
  BY ReviewUnderWay DEF CloneHead, ReuseSnapshot, FetchCommit, At, Elsewhere, ReviewInv
<1>2. ASSUME NEW pc \in {"fetch", "remove", "read"}, reviewer' = [reviewer EXCEPT ![p].pc = pc],
             pc = "read" => cache[reviewer[p].commit] \in {"whole", "extra"}
      PROVE  ReviewInv'
  <2> DEFINE r == [reviewer[p] EXCEPT !.pc = pc]
  <2>1. r \in UnderReview /\ r.pc = pc /\ r.calm = reviewer[p].calm /\ r.extent = reviewer[p].extent
        /\ r.commit = reviewer[p].commit /\ r \in ReviewStates
    BY <1>1 DEF UnderReview, ReviewStates
  <2>2. reviewer' = [reviewer EXCEPT ![p] = r]
    BY <1>2
  <2> HIDE DEF r
  <2>3. CalmReview(r)
    BY <1>1, <1>2, <2>1 DEF CalmReview, Full
  <2> QED
    BY <1>1, <2>1, <2>2, <2>3, ReviewGoesOnAlone
<1>3. CASE CloneHead(p) /\ ~Stops(p)
  <2> DEFINE r == [reviewer[p] EXCEPT !.pc = "remove", !.commit = head]
  <2>1. r \in UnderReview /\ r.pc = "remove" /\ r.calm = reviewer[p].calm /\ r.extent = reviewer[p].extent
        /\ r \in ReviewStates
    BY <1>1 DEF UnderReview, ReviewStates
  <2>2. reviewer' = [reviewer EXCEPT ![p] = r]
    BY <1>3 DEF CloneHead
  <2> HIDE DEF r
  <2>3. CalmReview(r)
    BY <1>1, <2>1 DEF CalmReview, Full
  <2> QED
    BY <1>1, <2>1, <2>2, <2>3, ReviewGoesOnAlone
<1>4. CASE ReuseSnapshot(p)
  BY <1>2, <1>4 DEF ReuseSnapshot, Moves, Reusable
<1>5. CASE FetchCommit(p) /\ ~Stops(p)
  BY <1>2, <1>5 DEF FetchCommit, Moves
<1> QED
  BY <1>1, <1>3, <1>4, <1>5, StopKeeps

\* The reviews when the directory of c changes: its readers are disturbed.
LEMMA ChangeKeeps ==
  ASSUME ReviewInv, NEW c \in Commits, NEW state \in CacheStates,
         littered \subseteq littered', littered' \subseteq Commits, state = "extra" => c \in littered',
         NEW next \in [Reviewers -> ReviewStates], Changes(c, state, next), UNCHANGED <<head, proposals>>,
         dossier' = {} \/ \E d \in Dossiers : dossier' = {d},
         \A q \in Reviewers : \/ next[q] = reviewer[q]
                              \/ /\ next[q] \in UnderReview /\ (next[q].calm => next[q].extent = "all")
                                 /\ next[q].pc = "rename" \/ (next[q].pc = "read" /\ state = "whole" /\ next[q].commit = c)
  PROVE  ReviewInv'
<1>1. cache' = [cache EXCEPT ![c] = state] /\ cache' \in [Commits -> CacheStates]
      /\ \A d \in Commits : cache'[d] = "extra" => d \in littered'
  BY DEF Changes, ReviewInv
<1>2. ASSUME NEW q \in Reviewers PROVE reviewer'[q] \in ReviewStates /\ CalmReview(reviewer[q])'
  <2>1. next[q] \in ReviewStates /\ reviewer[q] \in ReviewStates /\ CalmReview(reviewer[q])
    BY DEF ReviewInv
  <2>2. CASE Reading(q, c)
    <3>1. reviewer'[q] = [next[q] EXCEPT !.calm = FALSE]
      BY <2>2 DEF Changes
    <3>2. reviewer[q] \in UnderReview
      BY <2>2, ReviewUnderWay DEF Reading
    <3>3. next[q] \in UnderReview
      BY <3>2
    <3>4. reviewer'[q] \in UnderReview /\ ~reviewer'[q].calm
      BY <3>1, <3>3 DEF UnderReview
    <3> QED
      BY <3>4 DEF CalmReview, ReviewStates
  <2>3. CASE ~Reading(q, c)
    <3>1. reviewer'[q] = next[q]
      BY <2>3 DEF Changes
    <3>2. CASE next[q] = reviewer[q]
      BY <1>1, <2>1, <2>3, <3>1, <3>2 DEF CalmReview, Full, Reading, UnderReview
    <3>3. CASE next[q] # reviewer[q]
      BY <1>1, <2>1, <3>1, <3>3 DEF CalmReview, Full
    <3> QED
      BY <3>2, <3>3
  <2> QED
    BY <2>2, <2>3
<1>3. reviewer' \in [Reviewers -> ReviewStates]
  BY <1>2 DEF Changes
<1> QED
  BY <1>1, <1>2, <1>3 DEF ReviewInv, AdmittedOnEvidence

LEMMA RemoveKeeps == ASSUME ReviewInv, NEW p \in Reviewers, RemoveSnapshot(p) PROVE ReviewInv'
<1> DEFINE c == reviewer[p].commit
           r == [reviewer[p] EXCEPT !.pc = "rename"]
           next == [reviewer EXCEPT ![p] = r]
<1>1. /\ reviewer[p] \in UnderReview /\ c \in Commits /\ UNCHANGED <<head, dossier, proposals, littered>> /\ littered \subseteq Commits
      /\ reviewer \in [Reviewers -> ReviewStates] /\ CalmReview(reviewer[p])
  BY ReviewUnderWay DEF RemoveSnapshot, At, Elsewhere, ReviewInv
<1>0. reviewer[p].pc = "remove"
  BY DEF RemoveSnapshot, At
<1>2. r \in UnderReview /\ r.pc = "rename" /\ r.calm = reviewer[p].calm /\ r.extent = reviewer[p].extent
  BY <1>1 DEF UnderReview
<1>3. Changes(c, "part", reviewer) \/ Changes(c, "absent", next)
  BY DEF RemoveSnapshot
<1> HIDE DEF r
<1>4. next \in [Reviewers -> ReviewStates] /\ next[p] = r /\ \A q \in Reviewers \ {p} : next[q] = reviewer[q]
  BY <1>1, <1>2 DEF ReviewStates
<1>5. r.calm => r.extent = "all"
  BY <1>0, <1>1, <1>2 DEF CalmReview
<1>6. dossier' = {} \/ \E d \in Dossiers : dossier' = {d}
  BY <1>1 DEF ReviewInv
<1> HIDE DEF next, c
<1>7. CASE Changes(c, "part", reviewer)
  BY <1>1, <1>6, <1>7, ChangeKeeps DEF CacheStates
<1>8. CASE Changes(c, "absent", next)
  BY <1>1, <1>2, <1>4, <1>5, <1>6, <1>8, ChangeKeeps DEF CacheStates
<1> QED
  BY <1>3, <1>7, <1>8

LEMMA RenameKeeps == ASSUME ReviewInv, NEW p \in Reviewers, RenameSnapshot(p) PROVE ReviewInv'
<1> DEFINE c == reviewer[p].commit
           r == [reviewer[p] EXCEPT !.pc = "read"]
           next == [reviewer EXCEPT ![p] = r]
<1>1. /\ reviewer[p] \in UnderReview /\ c \in Commits /\ UNCHANGED <<head, dossier, proposals, littered>> /\ littered \subseteq Commits
      /\ reviewer \in [Reviewers -> ReviewStates] /\ CalmReview(reviewer[p])
  BY ReviewUnderWay DEF RenameSnapshot, At, Elsewhere, ReviewInv
<1>0. reviewer[p].pc = "rename"
  BY DEF RenameSnapshot, At
<1>2. /\ r \in UnderReview /\ r.pc = "read" /\ r.calm = reviewer[p].calm /\ r.extent = reviewer[p].extent
      /\ r.commit = c
  BY <1>1 DEF UnderReview
<1>3. Changes(c, "whole", next) \/ (Stops(p) /\ UNCHANGED cache)
  BY DEF RenameSnapshot
<1> HIDE DEF r
<1>4. next \in [Reviewers -> ReviewStates] /\ next[p] = r /\ \A q \in Reviewers \ {p} : next[q] = reviewer[q]
  BY <1>1, <1>2 DEF ReviewStates
<1>5. r.calm => r.extent = "all"
  BY <1>0, <1>1, <1>2 DEF CalmReview
<1>6. dossier' = {} \/ \E d \in Dossiers : dossier' = {d}
  BY <1>1 DEF ReviewInv
<1> HIDE DEF next, c
<1>7. CASE Changes(c, "whole", next)
  BY <1>1, <1>2, <1>4, <1>5, <1>6, <1>7, ChangeKeeps DEF CacheStates
<1> QED
  BY <1>1, <1>3, <1>7, StopKeeps

LEMMA DossierReadKeeps ==
  ASSUME ReviewInv, NEW p \in Reviewers, InspectPackage(p) \/ EvaluatePackage(p) PROVE ReviewInv'
<1>1. PICK next \in {"evaluate", "decide"} : Reads(p, next) /\ reviewer[p].pc \in {"read", "evaluate"}
  BY DEF InspectPackage, EvaluatePackage, At
<1> DEFINE b == Sees(reviewer[p].extent, cache[reviewer[p].commit])
           r == [reviewer[p] EXCEPT !.pc = next, !.extent = b]
<1>2. reviewer[p] \in UnderReview /\ CalmReview(reviewer[p]) /\ UNCHANGED <<cache, head, dossier, proposals, littered>>
      /\ reviewer[p].commit \in Commits /\ (cache[reviewer[p].commit] = "extra" => reviewer[p].commit \in littered)
  BY <1>1, ReviewUnderWay DEF Reads, Elsewhere, ReviewInv
<1>3. /\ r \in UnderReview /\ r.pc = next /\ r.calm = reviewer[p].calm /\ r.extent = b
      /\ r.commit = reviewer[p].commit /\ r \in ReviewStates
  BY <1>2 DEF UnderReview, ReviewStates, Sees, Extents
<1>4. reviewer' = [reviewer EXCEPT ![p] = r]
  BY <1>1 DEF Reads
<1>5. b = Sees(reviewer[p].extent, cache[reviewer[p].commit])
  OBVIOUS
<1> HIDE DEF r, b
<1>6. CalmReview(r)
  BY <1>1, <1>2, <1>3, <1>5 DEF CalmReview, Full, Sees
<1> QED
  BY <1>2, <1>3, <1>4, <1>6, ReviewGoesOnAlone

LEMMA DecideKeeps ==
  ASSUME ReviewInv, NEW p \in Reviewers, WriteDossier(p) \/ WriteProposal(p) PROVE ReviewInv'
<1> DEFINE r == reviewer[p]
<1>1. /\ r \in UnderReview /\ CalmReview(r) /\ UNCHANGED <<cache, head, littered>> /\ Stops(p)
      /\ r.commit \in Commits /\ r.extent \in Extents
  BY ReviewUnderWay DEF WriteDossier, WriteProposal, At, ReviewInv, UnderReview
<1>2. [pc |-> "idle"] \in ReviewStates /\ CalmReview([pc |-> "idle"])
  BY DEF ReviewStates, UnderReview, CalmReview
<1>3. dossier' = {} \/ \E d \in Dossiers : dossier' = {d}
  <2>1. Observed(r) \in Evidence
    BY <1>1 DEF Observed, Evidence, Extents
  <2>2. [commit |-> r.commit, evidence |-> Observed(r)] \in Dossiers
    BY <1>1, <2>1 DEF Dossiers
  <2> QED
    BY <2>2 DEF WriteDossier, WriteProposal, ReviewInv
<1>4. AdmittedOnEvidence'
  <2>1. CASE UNCHANGED proposals
    BY <1>1, <2>1 DEF ReviewInv, AdmittedOnEvidence
  <2>2. CASE proposals' # proposals
    <3> DEFINE new == [commit |-> r.commit, evidence |-> Observed(r), calm |-> r.calm]
    <3>1. Passes(r) /\ proposals' = proposals \cup {new}
      BY <2>2 DEF WriteProposal, WriteDossier
    <3>2. ASSUME r.calm
          PROVE  \/ Observed(r) = TrueEvidence(r.commit) /\ r.commit \notin Unsafe
                 \/ Observed(r) = [commit |-> r.commit, extent |-> "extra"] /\ r.commit \in littered
      BY <1>1, <3>1, <3>2 DEF CalmReview, Full, Passes, Observed, TrueEvidence, IsBlocked
    <3> HIDE DEF r
    <3> QED
      BY <1>1, <3>1, <3>2 DEF ReviewInv, AdmittedOnEvidence
  <2> QED
    BY <2>1, <2>2
<1> QED
  BY <1>1, <1>2, <1>3, <1>4, ReviewGoesOn DEF Stops, ReviewInv

LEMMA OutsideKeeps ==
  ASSUME ReviewInv, MoveHead \/ EditDossier \/ \E c \in Commits : DamageSnapshot(c) \/ LitterSnapshot(c) PROVE ReviewInv'
<1>1. CASE MoveHead
  <2>1. /\ head' \in Commits /\ UNCHANGED <<cache, reviewer, dossier, proposals, littered>>
    BY <1>1 DEF MoveHead
  <2> QED
    BY <2>1 DEF ReviewInv, AdmittedOnEvidence, CalmReview, Full
<1>2. CASE EditDossier
  <2>1. /\ UNCHANGED <<cache, reviewer, head, proposals, littered>> /\ \E d \in Dossiers : dossier' = {d}
    <3>1. PICK c \in Commits, e \in Evidence : dossier' = {[commit |-> c, evidence |-> e]}
      BY <1>2 DEF EditDossier
    <3>2. [commit |-> c, evidence |-> e] \in Dossiers
      BY DEF Dossiers
    <3> QED
      BY <1>2, <3>1, <3>2 DEF EditDossier, CountEdit
  <2> QED
    BY <2>1 DEF ReviewInv, AdmittedOnEvidence, CalmReview, Full
<1>3. ASSUME NEW c \in Commits, DamageSnapshot(c) \/ LitterSnapshot(c) PROVE ReviewInv'
  <2>1. PICK state \in CacheStates :
          /\ Changes(c, state, reviewer) /\ littered \subseteq littered' /\ littered' \subseteq Commits
          /\ state = "extra" => c \in littered'
    <3>1. CASE DamageSnapshot(c)
      BY <3>1 DEF DamageSnapshot, ReviewInv, CacheStates
    <3>2. CASE LitterSnapshot(c)
      BY <3>2 DEF LitterSnapshot, ReviewInv, CacheStates
    <3> QED
      BY <1>3, <3>1, <3>2
  <2>2. UNCHANGED <<head, proposals, dossier>> /\ reviewer \in [Reviewers -> ReviewStates]
    BY <1>3 DEF DamageSnapshot, LitterSnapshot, CountEdit, ReviewInv
  <2>3. dossier' = {} \/ \E d \in Dossiers : dossier' = {d}
    BY <2>2 DEF ReviewInv
  <2> QED
    BY <2>1, <2>2, <2>3, ChangeKeeps
<1> QED
  BY <1>1, <1>2, <1>3

LEMMA ReviewInvariant == ASSUME ReviewInv, [ReviewNext]_reviewVars PROVE ReviewInv'
<1>1. CASE UNCHANGED reviewVars
  BY <1>1 DEF reviewVars, ReviewInv, AdmittedOnEvidence, CalmReview, Full
<1>2. ASSUME NEW p \in Reviewers, ReviewFails(p) PROVE ReviewInv'
  BY <1>2, StopKeeps DEF ReviewFails, Elsewhere
<1> QED
  BY <1>1, <1>2, StartKeeps, FetchKeeps, RemoveKeeps, RenameKeeps, DossierReadKeeps, DecideKeeps, OutsideKeeps DEF ReviewNext

-----------------------------------------------------------------------------
(* Choosing skills. *)

SkillSets == [Hosts -> SUBSET Skills]
Plans ==
  [pc : {"scan", "plan", "proposed", "activate"}, limit : Limits, pins : PinSets, disabled : SkillSets,
   capacity : [Hosts -> Nat], selected : SkillSets, changes : SkillSets, found : [Hosts -> Nat]]
\* What is to be activated is a part of what there was room for when it began, and
\* nothing but users' own skills has come since.
Roomy(p) == planner[p].pc = "activate" =>
  /\ holder = {p}
  /\ \A h \in Hosts : Cardinality(active[h]) + planner[p].found[h] + Cardinality(planner[p].selected[h]) <= planner[p].limit
Planned(r) == \A h \in Hosts : r.changes[h] \subseteq r.selected[h] /\ (r.pc = "scan" => r.changes[h] = {})
LimitInv ==
  /\ active \in SkillSets /\ own \in [Hosts -> Nat]
  /\ planner \in [Planners -> {Idle} \cup Plans]
  /\ \A p \in Planners : planner[p] # Idle => Planned(planner[p])
  /\ \A p \in Planners : Roomy(p)

LEMMA FewSkills == IsFiniteSet(Skills)
<1>1. BySource \in Seq(Skills) /\ ToSet(BySource) = Skills
  BY SelectionAssumption
<1>2. IsFiniteSet(1..Len(BySource))
  BY <1>1, FS_Interval
<1>3. BySource \in Surjection(1..Len(BySource), Skills)
  BY <1>1 DEF ToSet, Surjection
<1> QED
  BY <1>2, <1>3, FS_Surjection

\* Fewer skills in a part.
LEMMA Parts ==
  ASSUME NEW S \in SUBSET Skills, NEW T \in SUBSET Skills
  PROVE  /\ Cardinality(S) \in Nat /\ (T \subseteq S => Cardinality(T) <= Cardinality(S))
         /\ Cardinality(S \cup T) <= Cardinality(S) + Cardinality(T)
<1>1. IsFiniteSet(S) /\ IsFiniteSet(T)
  BY FewSkills, FS_Subset
<1>2. Cardinality(S \cup T) = Cardinality(S) + Cardinality(T) - Cardinality(S \cap T)
  BY <1>1, FS_Union
<1>3. Cardinality(S) \in Nat /\ Cardinality(T) \in Nat /\ Cardinality(S \cap T) \in Nat
  BY <1>1, FS_CardinalityType, FS_Intersection
<1>4. T \subseteq S => Cardinality(T) <= Cardinality(S)
  BY <1>1, FS_Subset
<1> QED
  BY <1>2, <1>3, <1>4

LEMMA LimitBegins == SelectionInit => LimitInv
BY SelectionAssumption DEF SelectionInit, LimitInv, SkillSets, Roomy, Idle

\* A planner goes on while no planner is activating, or activates no more.
LEMMA PlannerGoesOn ==
  ASSUME LimitInv, NEW p \in Planners, NEW r \in {Idle} \cup Plans, planner' = [planner EXCEPT ![p] = r],
         r # Idle => r.pc # "activate" /\ Planned(r),
         UNCHANGED <<active, own>>, UNCHANGED holder \/ planner[p].pc = "activate"
  PROVE  LimitInv'
<1>1. planner' \in [Planners -> {Idle} \cup Plans] /\ \A q \in Planners : planner'[q] = IF q = p THEN r ELSE planner[q]
  BY DEF LimitInv
<1>2. \A q \in Planners : planner'[q] # Idle => Planned(planner'[q])
  BY <1>1 DEF LimitInv
<1>3. ASSUME NEW q \in Planners PROVE Roomy(q)'
  <2>1. CASE q = p
    BY <1>1, <2>1 DEF Roomy, Idle
  <2>2. CASE q # p /\ planner[q].pc = "activate"
    <3>1. Roomy(q) /\ Roomy(p) /\ planner'[q] = planner[q]
      BY <1>1, <2>2 DEF LimitInv
    <3>2. UNCHANGED holder
      BY <2>2, <3>1 DEF Roomy
    <3> QED
      BY <3>1, <3>2 DEF Roomy
  <2>3. CASE q # p /\ planner[q].pc # "activate"
    BY <1>1, <2>3 DEF Roomy
  <2> QED
    BY <2>1, <2>2, <2>3
<1> QED
  BY <1>1, <1>2, <1>3 DEF LimitInv

LEMMA PlanningKeeps ==
  ASSUME LimitInv, NEW p \in Planners, ReadLibrary(p) \/ ScanSkills(p) \/ PlanChanges(p) \/ DropProposal(p)
  PROVE  LimitInv'
<1> DEFINE r == planner[p]
<1>1. CASE ReadLibrary(p)
  <2>1. PICK limit \in Limits, pins \in PinSets :
       planner' = [planner EXCEPT ![p] =
         [pc |-> "scan", limit |-> limit, pins |-> pins, disabled |-> [h \in Hosts |-> Skills \ active[h]],
          capacity |-> None, selected |-> Nothing, changes |-> Nothing, found |-> None]]
    BY <1>1 DEF ReadLibrary, Sets
  <2> DEFINE n == [pc |-> "scan", limit |-> limit, pins |-> pins, disabled |-> [h \in Hosts |-> Skills \ active[h]],
                   capacity |-> None, selected |-> Nothing, changes |-> Nothing, found |-> None]
  <2>2. n \in Plans /\ n.pc = "scan" /\ n.changes = Nothing
    BY DEF Plans, SkillSets, Nothing, None, LimitInv
  <2>3. planner' = [planner EXCEPT ![p] = n]
    BY <2>1
  <2> HIDE DEF n
  <2>4. Planned(n)
    BY <2>2 DEF Planned, Nothing
  <2> QED
    BY <1>1, <2>2, <2>3, <2>4, PlannerGoesOn DEF ReadLibrary
<1>2. ASSUME r.pc \in {"scan", "plan", "proposed"}
      PROVE  r \in Plans /\ r # Idle /\ Planned(r)
  BY <1>2 DEF LimitInv, Idle
<1>3. CASE ScanSkills(p)
  <2> DEFINE Capacity(h) == IF r.limit > Total(h) THEN r.limit - Total(h) ELSE 0
             capacity == [h \in Hosts |-> Capacity(h)]
             selected == [h \in Hosts |-> Chosen(r.disabled[h], r.pins, Capacity(h))]
  <2>1. r.pc = "scan" /\ planner' = [planner EXCEPT ![p] = [r EXCEPT !.pc = "plan", !.capacity = capacity, !.selected = selected]]
    BY <1>3 DEF ScanSkills, Sets
  <2>2. \A h \in Hosts : Total(h) \in Nat
    <3> TAKE h \in Hosts
    <3>1. active[h] \in SUBSET Skills /\ own[h] \in Nat
      BY DEF LimitInv, SkillSets
    <3> QED
      BY <3>1, Parts DEF Total
  <2>3. r \in Plans /\ r.limit \in Nat /\ r.disabled \in SkillSets /\ r.changes \in SkillSets
    BY <1>2, <2>1, SelectionAssumption DEF Plans
  <2>4. capacity \in [Hosts -> Nat]
    BY <2>2, <2>3
  <2>5. selected \in SkillSets
    <3>1. \A h \in Hosts : Chosen(r.disabled[h], r.pins, Capacity(h)) \in SUBSET Skills
      BY <2>3 DEF Chosen, SkillSets
    <3> QED
      BY <3>1 DEF SkillSets
  <2> DEFINE n == [r EXCEPT !.pc = "plan", !.capacity = capacity, !.selected = selected]
  <2>6. \A h \in Hosts : r.changes[h] = {}
    BY <1>2, <2>1 DEF Planned
  <2> HIDE DEF capacity, selected, r
  <2>7. n \in Plans /\ n.pc = "plan" /\ n.changes = r.changes
    <3> DEFINE m == [r EXCEPT !.pc = "plan", !.capacity = capacity]
    <3>1. m \in Plans /\ m.pc = "plan" /\ m.changes = r.changes
      BY <2>3, <2>4 DEF Plans
    <3>2. n = [m EXCEPT !.selected = selected]
      BY <2>3 DEF Plans
    <3> HIDE DEF m, n
    <3> QED
      BY <2>5, <3>1, <3>2 DEF Plans
  <2>8. planner' = [planner EXCEPT ![p] = n]
    BY <2>1
  <2> HIDE DEF n
  <2>9. Planned(n)
    BY <2>6, <2>7 DEF Planned
  <2> QED
    BY <1>3, <2>7, <2>8, <2>9, PlannerGoesOn DEF ScanSkills
<1>4. CASE PlanChanges(p)
  <2> DEFINE changes == [h \in Hosts |-> r.selected[h] \ active[h]]
             n == [r EXCEPT !.pc = "proposed", !.changes = changes]
  <2>1. r.pc = "plan" /\ planner' = [planner EXCEPT ![p] = n]
    BY <1>4 DEF PlanChanges, Sets
  <2>2. r \in Plans /\ r.selected \in SkillSets
    BY <1>2, <2>1 DEF Plans
  <2>3. changes \in SkillSets /\ \A h \in Hosts : changes[h] \subseteq r.selected[h]
    BY <2>2 DEF SkillSets
  <2> HIDE DEF changes, r
  <2>4. n \in Plans /\ n.pc = "proposed" /\ n.changes = changes /\ n.selected = r.selected
    BY <2>2, <2>3 DEF Plans
  <2> HIDE DEF n
  <2>5. Planned(n)
    BY <2>3, <2>4 DEF Planned
  <2> QED
    BY <1>4, <2>1, <2>4, <2>5, PlannerGoesOn DEF PlanChanges
<1>5. CASE DropProposal(p)
  BY <1>5, PlannerGoesOn DEF DropProposal, Sets
<1> QED
  BY <1>1, <1>3, <1>4, <1>5

LEMMA ActivationBegins == ASSUME LimitInv, NEW p \in Planners, BeginActivation(p) PROVE LimitInv'
<1> DEFINE r == planner[p]
           n == [r EXCEPT !.pc = "activate", !.found = own]
<1>1. /\ r.pc = "proposed" /\ holder = {} /\ UNCHANGED <<active, own>>
      /\ \/ RoomLeft(r) /\ planner' = [planner EXCEPT ![p] = n] /\ holder' = {p}
         \/ planner' = [planner EXCEPT ![p] = Idle] /\ UNCHANGED holder
  BY DEF BeginActivation, Sets
<1>2. CASE planner' = [planner EXCEPT ![p] = Idle] /\ UNCHANGED holder
  BY <1>1, <1>2, PlannerGoesOn
<1>3. CASE RoomLeft(r) /\ planner' = [planner EXCEPT ![p] = n] /\ holder' = {p}
  <2>1. r \in Plans /\ Planned(r)
    BY <1>1 DEF LimitInv, Idle
  <2>2. own \in [Hosts -> Nat] /\ active \in SkillSets /\ r.selected \in SkillSets /\ r.limit \in Nat
    BY <2>1, SelectionAssumption DEF LimitInv, Plans
  <2>3. \A h \in Hosts : Cardinality(active[h]) + own[h] + Cardinality(r.selected[h]) <= r.limit
    BY <1>3 DEF RoomLeft, Total
  <2>4. \A q \in Planners : planner[q].pc # "activate"
    BY <1>1 DEF LimitInv, Roomy
  <2> HIDE DEF r
  <2>5. n \in Plans /\ n.pc = "activate" /\ n.found = own /\ n.selected = r.selected /\ n.changes = r.changes /\ n.limit = r.limit
    BY <2>1, <2>2 DEF Plans
  <2> HIDE DEF n
  <2>6. planner' \in [Planners -> {Idle} \cup Plans] /\ \A q \in Planners : planner'[q] = IF q = p THEN n ELSE planner[q]
    BY <1>3, <2>5 DEF LimitInv
  <2>7. \A q \in Planners : planner'[q] # Idle => Planned(planner'[q])
    BY <2>1, <2>5, <2>6 DEF LimitInv, Planned
  <2>8. \A q \in Planners : Roomy(q)'
    BY <1>1, <1>3, <2>3, <2>4, <2>5, <2>6 DEF Roomy
  <2> QED
    BY <1>1, <2>6, <2>7, <2>8 DEF LimitInv
<1> QED
  BY <1>1, <1>2, <1>3

\* The process that activates is the only one.
LEMMA Activating ==
  ASSUME LimitInv, NEW p \in Planners, planner[p].pc = "activate"
  PROVE  /\ planner[p] \in Plans /\ holder = {p} /\ \A q \in Planners : planner[q].pc = "activate" => q = p
         /\ planner[p].changes \in SkillSets /\ planner[p].selected \in SkillSets
         /\ planner[p].limit \in Nat /\ planner[p].found \in [Hosts -> Nat]
<1>1. planner[p] \in Plans
  BY DEF LimitInv, Idle
<1>2. \A q \in Planners : planner[q].pc = "activate" => holder = {q}
  BY DEF LimitInv, Roomy
<1>3. holder = {p} /\ \A q \in Planners : planner[q].pc = "activate" => q = p
  BY <1>2
<1> QED
  BY <1>1, <1>3, SelectionAssumption DEF Plans

LEMMA EndActivation ==
  ASSUME LimitInv, NEW p \in Planners, planner[p].pc = "activate", planner' = [planner EXCEPT ![p] = Idle],
         active' \in SkillSets, UNCHANGED own
  PROVE  LimitInv'
<1>1. \A q \in Planners : planner'[q] = IF q = p THEN Idle ELSE planner[q]
  BY DEF LimitInv
<1>2. \A q \in Planners : planner'[q].pc # "activate"
  BY <1>1, Activating DEF Idle
<1>3. planner' \in [Planners -> {Idle} \cup Plans]
  BY DEF LimitInv
<1> QED
  BY <1>1, <1>2, <1>3 DEF LimitInv, Roomy

LEMMA ActivateKeeps == ASSUME LimitInv, NEW p \in Planners, Activate(p) \/ ActivationFails(p) PROVE LimitInv'
<1>1. CASE Activate(p)
  <2>1. active' = [h \in Hosts |-> active[h] \cup planner[p].changes[h]] /\ planner[p].pc = "activate"
    BY <1>1 DEF Activate
  <2>2. active' \in SkillSets
    BY <2>1, Activating DEF LimitInv, SkillSets
  <2> QED
    BY <1>1, <2>1, <2>2, EndActivation DEF Activate, Sets
<1>2. CASE ActivationFails(p)
  BY <1>2, EndActivation DEF ActivationFails, Sets, LimitInv
<1> QED
  BY <1>1, <1>2

LEMMA OthersKeep == ASSUME LimitInv, NEW h \in Hosts, AddOwnSkill(h) \/ \E s \in Skills : Toggle(h, s) PROVE LimitInv'
<1>1. CASE AddOwnSkill(h)
  <2>1. own' = [own EXCEPT ![h] = @ + 1] /\ UNCHANGED <<active, planner, holder>>
    BY <1>1 DEF AddOwnSkill
  <2>2. own' \in [Hosts -> Nat]
    BY <2>1 DEF LimitInv
  <2> QED
    BY <2>1, <2>2 DEF LimitInv, Roomy
<1>2. ASSUME NEW s \in Skills, Toggle(h, s) PROVE LimitInv'
  <2>1. holder = {} /\ UNCHANGED <<own, planner, holder>>
        /\ (active' = [active EXCEPT ![h] = @ \ {s}] \/ active' = [active EXCEPT ![h] = @ \cup {s}])
    BY <1>2 DEF Toggle
  <2>2. active' \in SkillSets
    BY <2>1 DEF LimitInv, SkillSets
  <2>3. \A p \in Planners : planner[p].pc # "activate"
    BY <2>1 DEF LimitInv, Roomy
  <2> QED
    BY <2>1, <2>2, <2>3 DEF LimitInv, Roomy
<1> QED
  BY <1>1, <1>2

LEMMA LimitInvariant == ASSUME LimitInv, [SelectionNext]_selectionVars PROVE LimitInv'
<1>1. CASE UNCHANGED selectionVars
  BY <1>1 DEF selectionVars, LimitInv, Roomy
<1> QED
  BY <1>1, PlanningKeeps, ActivationBegins, ActivateKeeps, OthersKeep DEF SelectionNext

LEMMA KeepsToLimit ==
  ASSUME LimitInv, NEW p \in Planners, NEW h \in Hosts, Activate(p)
  PROVE  Total(h)' <= planner[p].limit + (own[h] - planner[p].found[h])
<1> DEFINE r == planner[p]
<1>1. active' = [g \in Hosts |-> active[g] \cup r.changes[g]] /\ r.pc = "activate" /\ own' = own
  BY DEF Activate
<1>2. /\ r.changes[h] \in SUBSET Skills /\ r.selected[h] \in SUBSET Skills /\ active[h] \in SUBSET Skills
      /\ r.limit \in Nat /\ r.found[h] \in Nat /\ own[h] \in Nat
  BY <1>1, Activating DEF SkillSets, LimitInv
<1>3. r.changes[h] \subseteq r.selected[h] /\ Cardinality(active[h]) + r.found[h] + Cardinality(r.selected[h]) <= r.limit
  BY <1>1 DEF LimitInv, Roomy, Idle, Planned
<1>4. active'[h] = active[h] \cup r.changes[h]
  BY <1>1
<1> HIDE DEF r
<1>5. /\ Cardinality(active[h] \cup r.changes[h]) <= Cardinality(active[h]) + Cardinality(r.changes[h])
      /\ Cardinality(r.changes[h]) <= Cardinality(r.selected[h])
      /\ Cardinality(active[h]) \in Nat /\ Cardinality(r.changes[h]) \in Nat /\ Cardinality(r.selected[h]) \in Nat
  BY <1>2, <1>3, Parts
<1>6. active[h] \cup r.changes[h] \in SUBSET Skills
  BY <1>2
<1>7. Cardinality(active[h] \cup r.changes[h]) \in Nat
  BY <1>6, Parts
<1>8. Total(h)' = Cardinality(active[h] \cup r.changes[h]) + own[h]
  BY <1>1, <1>4 DEF Total
<1>9. Total(h)' <= r.limit + (own[h] - r.found[h])
  BY <1>2, <1>3, <1>5, <1>7, <1>8
<1> QED
  BY <1>9 DEF r

-----------------------------------------------------------------------------
(* Package registries. *)

Bare == [f \in PackageFiles |-> NoFile]
Staging == [pc : {"stage"}, packed : Contents, left : SUBSET PackageFiles, temporary : Contents]
Storing == [pc : {"store"}, packed : Contents, left : SUBSET ShelfEntries, temporary : Contents]
Presses == {AtPress} \cup [pc : {"check"}, packed : Contents] \cup Staging \cup Storing
Lookups == [digest : Contents, left : SUBSET PackageFiles, found : Contents]
Single(set) == set = {} \/ \E d \in Contents : set = {d}

ShelfTypes ==
  /\ work \in Contents /\ shelved \in Contents /\ Single(record)
  /\ press \in [Publishers -> Presses]
  /\ DOMAIN lookup = Resolvers /\ \A r \in Resolvers : lookup[r] \subseteq Lookups
  /\ contested \in BOOLEAN /\ harmed \in BOOLEAN

\* While no two publishers were at work on different contents, there is one version.
OneVersion ==
  /\ \A p, q \in Publishers : AtWork(p) /\ AtWork(q) => press[p].packed = press[q].packed
  /\ \A p \in Publishers : AtWork(p) /\ record # {} => record = {press[p].packed}
  /\ \A r \in Resolvers : \A look \in lookup[r] : look.digest \in record
  /\ served \subseteq record

\* What a publisher whom nothing has disturbed has copied, and what it has stored.
Copied(r) ==
  /\ r.packed = work
  /\ r.pc = "stage" => \A f \in PackageFiles :
       r.temporary[f] = IF f \in FilesOf(r.packed) \ r.left THEN r.packed[f] ELSE NoFile
  /\ r.pc = "store" =>
       /\ r.temporary = r.packed
       /\ \A f \in PackageFiles : /\ shelved[f] \in {NoFile, r.packed[f]}
                                  /\ f \in FilesOf(r.packed) \ r.left => shelved[f] = r.packed[f]
       /\ RecordName \notin r.left => record = {r.packed}
Shelved == \/ \E p \in Publishers : press[p].pc = "store"
           \/ record = {} /\ shelved = Bare
           \/ \E d \in Contents : record = {d} /\ shelved = d
Undisturbed(p) == press[p].pc # "idle" => Copied(press[p])
WellKept == reported \subseteq record /\ Shelved /\ \A p \in Publishers : Undisturbed(p)

ShelfInv ==
  /\ ShelfTypes
  /\ ~contested => OneVersion
  /\ ~contested /\ ~harmed => WellKept

ShelfHolds ==
  /\ Cardinality(served) > 1 => contested
  /\ \A digest \in reported :
       \/ record = {digest} /\ shelved = digest
       \/ contested \/ harmed \/ \E p \in Publishers : press[p].pc = "store"

LEMMA ShelfBegins == RegistryInit => ShelfInv
<1> SUFFICES ASSUME RegistryInit PROVE ShelfInv
  OBVIOUS
<1>1. ShelfTypes
  BY DEF RegistryInit, ShelfTypes, Contents, Single, Presses
<1>2. OneVersion /\ WellKept
  BY DEF RegistryInit, OneVersion, WellKept, Shelved, Undisturbed, AtPress, AtWork, Bare
<1> QED
  BY <1>1, <1>2 DEF ShelfInv

LEMMA ShelfIsKept == ShelfInv => ShelfHolds
<1> SUFFICES ASSUME ShelfInv PROVE ShelfHolds
  OBVIOUS
<1>1. ASSUME ~contested PROVE ~(Cardinality(served) > 1)
  <2>1. served \subseteq record /\ Single(record)
    BY <1>1 DEF ShelfInv, OneVersion, ShelfTypes
  <2>2. served = {} \/ \E d \in Contents : served = {d}
    BY <2>1 DEF Single
  <2>3. CASE served = {}
    BY <2>3, FS_EmptySet
  <2>4. ASSUME NEW d, served = {d} PROVE ~(Cardinality(served) > 1)
    <3>1. Cardinality({d}) = 1
      BY FS_Singleton, Zenon
    <3> QED
      BY <2>4, <3>1
  <2> QED
    BY <2>2, <2>3, <2>4
<1>2. ASSUME ~contested, ~harmed, NEW digest \in reported, ~\E p \in Publishers : press[p].pc = "store"
      PROVE  record = {digest} /\ shelved = digest
  <2>1. digest \in record /\ Shelved
    BY <1>2 DEF ShelfInv, OneVersion, WellKept
  <2> QED
    BY <1>2, <2>1 DEF Shelved
<1> QED
  BY <1>1, <1>2 DEF ShelfHolds, ShelfInv, ShelfTypes

\* The parts of the invariant that a step may leave to the previous state.
LEMMA PressUnderWay ==
  ASSUME ShelfInv, NEW p \in Publishers
  PROVE  /\ press[p].pc = "check" => press[p] \in [pc : {"check"}, packed : Contents]
         /\ press[p].pc = "stage" => press[p] \in Staging
         /\ press[p].pc = "store" => press[p] \in Storing
         /\ press[p].pc \in {"idle", "check", "stage", "store"}
BY DEF ShelfInv, ShelfTypes, Presses, Staging, Storing, AtPress

\* A publisher stops.
LEMMA StopsKeep ==
  ASSUME ShelfInv, NEW p \in Publishers, press' = [press EXCEPT ![p] = AtPress], contested' = contested,
         UNCHANGED <<work, shelved, record, lookup, served>>, harmed' \in BOOLEAN, reported' \subseteq reported \cup record,
         \/ harmed'
         \/ harmed' = harmed /\ press[p].pc # "store"
  PROVE  ShelfInv'
<1>1. AtPress \in Presses /\ press \in [Publishers -> Presses]
  BY DEF Presses, ShelfInv, ShelfTypes
<1>2. /\ press'[p] = AtPress /\ \A q \in Publishers \ {p} : press'[q] = press[q]
      /\ press' \in [Publishers -> Presses]
  BY <1>1
<1>3. ShelfTypes'
  BY <1>2 DEF ShelfInv, ShelfTypes, Single, Contents
<1>4. ASSUME ~contested PROVE OneVersion'
  <2>1. OneVersion
    BY <1>4 DEF ShelfInv
  <2> QED
    BY <1>2, <2>1 DEF OneVersion, AtWork, AtPress
<1>5. ASSUME ~contested, ~harmed' PROVE WellKept'
  <2>1. WellKept /\ press[p].pc # "store"
    BY <1>5 DEF ShelfInv
  <2>2. Shelved'
    BY <1>2, <2>1 DEF WellKept, Shelved, Bare
  <2>3. ASSUME NEW q \in Publishers PROVE Undisturbed(q)'
    BY <1>2, <2>1 DEF WellKept, Undisturbed, Copied, AtPress, FilesOf
  <2> QED
    BY <2>1, <2>2, <2>3 DEF WellKept
<1> QED
  BY <1>3, <1>4, <1>5 DEF ShelfInv

LEMMA PackKeeps == ASSUME ShelfInv, NEW p \in Publishers, PackPackage(p) PROVE ShelfInv'
<1> DEFINE r == [pc |-> "check", packed |-> work]
<1>1. /\ press' = [press EXCEPT ![p] = r] /\ press \in [Publishers -> Presses] /\ work \in Contents
      /\ UNCHANGED <<work, shelved, record, lookup, reported, served, contested, harmed>>
      /\ press[p].pc = "idle"
  BY DEF PackPackage, ShelfInv, ShelfTypes
<1>2. r \in Presses /\ r.pc = "check" /\ r.packed = work
  BY <1>1 DEF Presses
<1> HIDE DEF r
<1>3. /\ press'[p] = r /\ \A q \in Publishers \ {p} : press'[q] = press[q]
      /\ press' \in [Publishers -> Presses]
  BY <1>1, <1>2
<1>4. ShelfTypes'
  BY <1>1, <1>3 DEF ShelfInv, ShelfTypes, Single, Contents
<1>5. ASSUME ~contested PROVE OneVersion'
  <2>1. OneVersion
    BY <1>5 DEF ShelfInv
  <2> QED
    BY <1>1, <1>2, <1>3, <2>1 DEF OneVersion, AtWork
<1>6. ASSUME ~contested, ~harmed PROVE WellKept'
  <2>1. WellKept
    BY <1>6 DEF ShelfInv
  <2>2. Shelved'
    BY <1>1, <1>2, <1>3, <2>1 DEF WellKept, Shelved, Bare
  <2>3. ASSUME NEW q \in Publishers PROVE Undisturbed(q)'
    <3>1. CASE q = p
      BY <1>1, <1>2, <1>3, <3>1 DEF Undisturbed, Copied
    <3>2. CASE q # p
      BY <1>1, <1>3, <2>1, <3>2 DEF WellKept, Undisturbed, Copied, FilesOf
    <3> QED
      BY <3>1, <3>2
  <2> QED
    BY <1>1, <2>1, <2>2, <2>3 DEF WellKept
<1> QED
  BY <1>1, <1>4, <1>5, <1>6 DEF ShelfInv

LEMMA CheckKeeps == ASSUME ShelfInv, NEW p \in Publishers, CheckPublished(p) PROVE ShelfInv'
<1> DEFINE packed == press[p].packed
           r == [pc |-> "stage", packed |-> packed, left |-> FilesOf(packed), temporary |-> Bare]
<1>1. /\ press[p].pc = "check" /\ packed \in Contents /\ press \in [Publishers -> Presses]
      /\ UNCHANGED <<work, shelved, record, lookup, served, harmed>>
      /\ contested \in BOOLEAN /\ harmed \in BOOLEAN
  BY PressUnderWay DEF CheckPublished, ShelfInv, ShelfTypes
<1>2. CASE record # {}
  <2>1. press' = [press EXCEPT ![p] = AtPress] /\ reported' = reported \cup (record \cap {packed}) /\ UNCHANGED contested
    BY <1>2 DEF CheckPublished, NewVersion
  <2> QED
    BY <1>1, <2>1, StopsKeep
<1>3. CASE record = {}
  <2>1. /\ press' = [press EXCEPT ![p] = r] /\ UNCHANGED reported
        /\ contested' = (contested \/ \E q \in Publishers : AtWork(q) /\ press[q].packed # packed)
    BY <1>3 DEF CheckPublished, NewVersion, Bare
  <2>2. /\ r \in Staging /\ r.pc = "stage" /\ r.packed = packed /\ r.left = FilesOf(packed) /\ r.temporary = Bare
        /\ r \in Presses
    BY <1>1 DEF Presses, Staging, FilesOf, Bare, Contents
  <2> HIDE DEF r
  <2>3. /\ press'[p] = r /\ \A q \in Publishers \ {p} : press'[q] = press[q]
        /\ press' \in [Publishers -> Presses]
    BY <1>1, <2>1, <2>2
  <2>4. ShelfTypes'
    BY <1>1, <2>1, <2>3 DEF ShelfInv, ShelfTypes, Single, Contents
  <2>5. ASSUME ~contested' PROVE OneVersion'
    <3>1. OneVersion /\ \A q \in Publishers : AtWork(q) => press[q].packed = packed
      BY <1>1, <2>1, <2>5 DEF ShelfInv
    <3> HIDE DEF packed
    <3>2. \A q \in Publishers : AtWork(q)' => press'[q].packed = packed
      BY <2>2, <2>3, <3>1 DEF AtWork
    <3> QED
      BY <1>1, <1>3, <2>1, <3>1, <3>2 DEF OneVersion
  <2>6. ASSUME ~contested', ~harmed PROVE WellKept'
    <3>1. WellKept
      BY <1>1, <2>1, <2>6 DEF ShelfInv
    <3>2. Shelved'
      BY <1>1, <2>2, <2>3, <3>1 DEF WellKept, Shelved, Bare
    <3>3. ASSUME NEW q \in Publishers PROVE Undisturbed(q)'
      <4>1. CASE q = p
        <5>1. packed = work
          BY <1>1, <3>1 DEF WellKept, Undisturbed, Copied
        <5> QED
          BY <1>1, <2>2, <2>3, <4>1, <5>1 DEF Undisturbed, Copied, Bare
      <4>2. CASE q # p
        BY <1>1, <2>3, <3>1, <4>2 DEF WellKept, Undisturbed, Copied, FilesOf
      <4> QED
        BY <4>1, <4>2
    <3> QED
      BY <1>1, <2>1, <3>1, <3>2, <3>3 DEF WellKept
  <2> QED
    BY <1>1, <2>1, <2>4, <2>5, <2>6 DEF ShelfInv
<1> QED
  BY <1>2, <1>3

LEMMA StageKeeps == ASSUME ShelfInv, NEW p \in Publishers, StageFile(p) PROVE ShelfInv'
<1> DEFINE x == press[p]
<1>1. /\ x.pc = "stage" /\ x \in Staging /\ press \in [Publishers -> Presses] /\ work \in Contents
      /\ UNCHANGED <<work, shelved, record, lookup, reported, served, contested, harmed>>
      /\ contested \in BOOLEAN /\ harmed \in BOOLEAN
  BY PressUnderWay DEF StageFile, ShelfInv, ShelfTypes
<1>2. PICK f \in x.left : press' = [press EXCEPT ![p] =
         IF work[f] = NoFile THEN AtPress ELSE [x EXCEPT !.left = @ \ {f}, !.temporary[f] = work[f]]]
  BY DEF StageFile
<1>3. CASE work[f] = NoFile
  BY <1>1, <1>2, <1>3, StopsKeep
<1>4. CASE work[f] # NoFile
  <2> DEFINE r == [x EXCEPT !.left = @ \ {f}, !.temporary[f] = work[f]]
  <2>1. press' = [press EXCEPT ![p] = r]
    BY <1>2, <1>4
  <2>2. /\ r \in Staging /\ r.pc = "stage" /\ r.packed = x.packed /\ r.left = x.left \ {f}
        /\ r.temporary = [x.temporary EXCEPT ![f] = work[f]] /\ r \in Presses
    BY <1>1 DEF Presses, Staging, Contents
  <2> HIDE DEF r
  <2>3. /\ press'[p] = r /\ \A q \in Publishers \ {p} : press'[q] = press[q]
        /\ press' \in [Publishers -> Presses]
    BY <1>1, <2>1, <2>2
  <2>4. ShelfTypes'
    BY <1>1, <2>3 DEF ShelfInv, ShelfTypes, Single, Contents
  <2>5. ASSUME ~contested PROVE OneVersion'
    <3>1. OneVersion
      BY <2>5 DEF ShelfInv
    <3>2. \A q \in Publishers : (AtWork(q)' <=> AtWork(q)) /\ press'[q].packed = press[q].packed
      BY <1>1, <2>2, <2>3 DEF AtWork
    <3> QED
      BY <1>1, <3>1, <3>2 DEF OneVersion
  <2>6. ASSUME ~contested, ~harmed PROVE WellKept'
    <3>1. WellKept
      BY <2>6 DEF ShelfInv
    <3>2. Shelved'
      BY <1>1, <2>2, <2>3, <3>1 DEF WellKept, Shelved, Bare
    <3>3. ASSUME NEW q \in Publishers PROVE Undisturbed(q)'
      <4>1. CASE q = p
        <5>1. /\ x.packed = work
              /\ \A g \in PackageFiles : x.temporary[g] = IF g \in FilesOf(work) \ x.left THEN work[g] ELSE NoFile
          BY <1>1, <3>1 DEF WellKept, Undisturbed, Copied
        <5>2. f \in FilesOf(work)
          BY <1>1, <1>4 DEF FilesOf, Staging
        <5>3. \A g \in PackageFiles : r.temporary[g] = IF g \in FilesOf(work) \ r.left THEN work[g] ELSE NoFile
          <6>1. x.temporary \in Contents /\ f \in PackageFiles /\ x.left \in SUBSET PackageFiles
            BY <1>1 DEF Staging
          <6>2. \A g \in PackageFiles : r.temporary[g] = IF g = f THEN work[f] ELSE x.temporary[g]
            BY <2>2, <6>1 DEF Contents
          <6> QED
            BY <2>2, <5>1, <5>2, <6>1, <6>2
        <5> QED
          BY <1>1, <2>2, <2>3, <4>1, <5>1, <5>3 DEF Undisturbed, Copied, FilesOf
      <4>2. CASE q # p
        BY <1>1, <2>3, <3>1, <4>2 DEF WellKept, Undisturbed, Copied, FilesOf
      <4> QED
        BY <4>1, <4>2
    <3> QED
      BY <1>1, <3>1, <3>2, <3>3 DEF WellKept
  <2> QED
    BY <1>1, <2>4, <2>5, <2>6 DEF ShelfInv
<1> QED
  BY <1>3, <1>4

LEMMA StoreBegins == ASSUME ShelfInv, NEW p \in Publishers, BeginStore(p) PROVE ShelfInv'
<1> DEFINE x == press[p]
           r == [x EXCEPT !.pc = "store", !.left = FilesOf(x.packed) \cup (ShelfEntries \ PackageFiles)]
<1>1. /\ x.pc = "stage" /\ x \in Staging /\ press \in [Publishers -> Presses] /\ x.left = {}
      /\ UNCHANGED <<work, shelved, record, lookup, reported, served, contested, harmed>>
      /\ contested \in BOOLEAN /\ harmed \in BOOLEAN
  BY PressUnderWay DEF BeginStore, ShelfInv, ShelfTypes
<1>2. press' = [press EXCEPT ![p] = r]
  BY DEF BeginStore
<1>3. /\ r \in Storing /\ r.pc = "store" /\ r.packed = x.packed /\ FilesOf(x.packed) \subseteq r.left
      /\ RecordName \in r.left /\ r.temporary = x.temporary /\ r \in Presses
  BY <1>1, RegistryAssumption DEF Presses, Staging, Storing, ShelfEntries, FilesOf
<1> HIDE DEF r
<1>4. /\ press'[p] = r /\ \A q \in Publishers \ {p} : press'[q] = press[q]
      /\ press' \in [Publishers -> Presses]
  BY <1>1, <1>2, <1>3
<1>5. ShelfTypes'
  BY <1>1, <1>4 DEF ShelfInv, ShelfTypes, Single, Contents
<1>6. ASSUME ~contested PROVE OneVersion'
  <2>1. OneVersion
    BY <1>6 DEF ShelfInv
  <2>2. \A q \in Publishers : (AtWork(q)' <=> AtWork(q)) /\ press'[q].packed = press[q].packed
    BY <1>1, <1>3, <1>4 DEF AtWork
  <2> QED
    BY <1>1, <2>1, <2>2 DEF OneVersion
<1>7. ASSUME ~contested, ~harmed PROVE WellKept'
  <2>1. WellKept /\ OneVersion
    BY <1>7 DEF ShelfInv
  <2>2. Shelved'
    BY <1>3, <1>4 DEF Shelved
  <2>3. /\ x.packed = work
        /\ \A g \in PackageFiles : x.temporary[g] = IF g \in FilesOf(work) THEN work[g] ELSE NoFile
    BY <1>1, <2>1 DEF WellKept, Undisturbed, Copied
  <2>4. x.temporary = work
    BY <1>1, <2>3 DEF Staging, Contents, FilesOf
  <2>5. \A f \in PackageFiles : shelved[f] \in {NoFile, work[f]}
    <3>1. CASE \E q \in Publishers : press[q].pc = "store"
      <4>1. PICK q \in Publishers : press[q].pc = "store"
        BY <3>1
      <4> QED
        BY <2>1, <4>1 DEF WellKept, Undisturbed, Copied
    <3>2. CASE shelved = Bare
      BY <3>2 DEF Bare
    <3>3. ASSUME NEW d \in Contents, record = {d}, shelved = d PROVE \A f \in PackageFiles : shelved[f] \in {NoFile, work[f]}
      <4>1. record = {x.packed}
        BY <1>1, <2>1, <3>3 DEF OneVersion, AtWork
      <4> QED
        BY <2>3, <3>3, <4>1
    <3> QED
      BY <2>1, <3>1, <3>2, <3>3 DEF WellKept, Shelved
  <2>6. ASSUME NEW q \in Publishers PROVE Undisturbed(q)'
    <3>1. CASE q = p
      BY <1>1, <1>3, <1>4, <2>3, <2>4, <2>5, <3>1 DEF Undisturbed, Copied, FilesOf
    <3>2. CASE q # p
      BY <1>1, <1>4, <2>1, <3>2 DEF WellKept, Undisturbed, Copied, FilesOf
    <3> QED
      BY <3>1, <3>2
  <2> QED
    BY <1>1, <2>1, <2>2, <2>6 DEF WellKept
<1> QED
  BY <1>1, <1>5, <1>6, <1>7 DEF ShelfInv

LEMMA StoreKeeps == ASSUME ShelfInv, NEW p \in Publishers, StoreEntry(p) PROVE ShelfInv'
<1> DEFINE x == press[p]
<1>1. /\ x.pc = "store" /\ x \in Storing /\ press \in [Publishers -> Presses] /\ AtWork(p)
      /\ UNCHANGED <<work, lookup, reported, served, contested, harmed>>
      /\ contested \in BOOLEAN /\ harmed \in BOOLEAN /\ shelved \in Contents
  BY PressUnderWay DEF StoreEntry, ShelfInv, ShelfTypes, AtWork
<1>2. PICK e \in x.left :
        /\ IF e \in PackageFiles
           THEN shelved' = [shelved EXCEPT ![e] = x.temporary[e]] /\ UNCHANGED record
           ELSE record' = {x.packed} /\ UNCHANGED shelved
        /\ press' = [press EXCEPT ![p].left = @ \ {e}]
  BY DEF StoreEntry
<1> DEFINE r == [x EXCEPT !.left = @ \ {e}]
<1>3. press' = [press EXCEPT ![p] = r]
  BY <1>2
<1>4. /\ r \in Storing /\ r.pc = "store" /\ r.packed = x.packed /\ r.left = x.left \ {e}
      /\ r.temporary = x.temporary /\ r \in Presses
  BY <1>1 DEF Presses, Storing
<1> HIDE DEF r
<1>5. /\ press'[p] = r /\ \A q \in Publishers \ {p} : press'[q] = press[q]
      /\ press' \in [Publishers -> Presses]
  BY <1>1, <1>3, <1>4
<1>6. x.packed \in Contents /\ x.temporary \in Contents
      /\ (e \notin PackageFiles => e = RecordName) /\ RecordName \notin PackageFiles
  BY <1>1, RegistryAssumption DEF Storing, ShelfEntries
<1>7. Single(record') /\ shelved' \in Contents
  <2>1. CASE e \in PackageFiles
    BY <1>1, <1>2, <1>6, <2>1 DEF ShelfInv, ShelfTypes, Contents
  <2>2. CASE e \notin PackageFiles
    BY <1>1, <1>2, <1>6, <2>2 DEF Single
  <2> QED
    BY <2>1, <2>2
<1>8. ShelfTypes'
  BY <1>1, <1>5, <1>7 DEF ShelfInv, ShelfTypes, Single, Contents
<1>9. ASSUME ~contested PROVE OneVersion' /\ (record' = record \/ record' = {x.packed})
  <2>1. OneVersion
    BY <1>9 DEF ShelfInv
  <2>2. \A q \in Publishers : (AtWork(q)' <=> AtWork(q)) /\ press'[q].packed = press[q].packed
    BY <1>1, <1>4, <1>5 DEF AtWork
  <2>3. record' = record \/ record' = {x.packed}
    BY <1>2
  <2>4. record # {} => record = {x.packed}
    BY <1>1, <2>1 DEF OneVersion
  <2>5. record \subseteq record'
    BY <2>3, <2>4
  <2>6. \A q \in Publishers : AtWork(q) => press[q].packed = x.packed
    BY <1>1, <2>1 DEF OneVersion
  <2>7. /\ \A q, s \in Publishers : AtWork(q)' /\ AtWork(s)' => press'[q].packed = press'[s].packed
        /\ \A q \in Publishers : AtWork(q)' /\ record' # {} => record' = {press'[q].packed}
    BY <2>2, <2>3, <2>4, <2>6
  <2>8. /\ \A t \in Resolvers : \A look \in lookup'[t] : look.digest \in record'
        /\ served' \subseteq record'
    BY <1>1, <2>1, <2>5 DEF OneVersion
  <2> QED
    BY <2>3, <2>7, <2>8 DEF OneVersion
<1>10. ASSUME ~contested, ~harmed PROVE WellKept'
  <2>1. WellKept /\ OneVersion
    BY <1>10 DEF ShelfInv
  <2>2. Shelved'
    BY <1>4, <1>5 DEF Shelved
  <2>3. Copied(x)
    BY <1>1, <2>1 DEF WellKept, Undisturbed
  <2>4. /\ x.packed = work /\ x.temporary = work /\ work \in Contents
        /\ \A f \in PackageFiles : /\ shelved[f] \in {NoFile, work[f]}
                                   /\ f \in FilesOf(work) \ x.left => shelved[f] = work[f]
        /\ RecordName \notin x.left => record = {work}
    BY <1>1, <2>3 DEF Copied, ShelfInv, ShelfTypes
  <2>5. \A f \in PackageFiles : shelved'[f] = IF f = e THEN work[f] ELSE shelved[f]
    BY <1>1, <1>2, <1>6, <2>4 DEF Contents
  <2>6. record' = record \/ record' = {work}
    BY <1>2, <2>4
  <2>7. e = RecordName => record' = {work}
    BY <1>2, <1>6, <2>4
  <2>9. reported' \subseteq record'
    <3>1. record # {} => record = {work}
      BY <1>1, <2>1, <2>4 DEF OneVersion
    <3> QED
      BY <1>1, <2>1, <2>6, <3>1 DEF WellKept
  <2>8. ASSUME NEW q \in Publishers PROVE Undisturbed(q)'
    <3>1. CASE q = p
      <4>1. \A f \in PackageFiles : /\ shelved'[f] \in {NoFile, work[f]}
                                    /\ f \in FilesOf(work) \ r.left => shelved'[f] = work[f]
        BY <1>4, <2>4, <2>5
      <4>2. RecordName \notin r.left => record' = {work}
        BY <1>4, <2>4, <2>6, <2>7
      <4> QED
        BY <1>1, <1>4, <1>5, <2>4, <3>1, <4>1, <4>2 DEF Undisturbed, Copied, FilesOf
    <3>2. CASE q # p
      <4>1. press'[q] = press[q] /\ Undisturbed(q)
        BY <1>5, <2>1, <3>2 DEF WellKept
      <4>2. CASE press[q].pc = "store"
        <5>1. /\ press[q].packed = work /\ press[q].temporary = work
              /\ \A f \in PackageFiles : f \in FilesOf(work) \ press[q].left => shelved[f] = work[f]
              /\ RecordName \notin press[q].left => record = {work}
          BY <4>1, <4>2 DEF Undisturbed, Copied
        <5>2. \A f \in PackageFiles : /\ shelved'[f] \in {NoFile, work[f]}
                                      /\ f \in FilesOf(work) \ press[q].left => shelved'[f] = work[f]
          BY <2>4, <2>5, <5>1
        <5>3. RecordName \notin press[q].left => record' = {work}
          BY <2>6, <5>1
        <5> QED
          BY <1>1, <4>1, <4>2, <5>1, <5>2, <5>3 DEF Undisturbed, Copied, FilesOf
      <4>3. CASE press[q].pc # "store"
        BY <1>1, <4>1, <4>3 DEF Undisturbed, Copied, FilesOf
      <4> QED
        BY <4>2, <4>3
    <3> QED
      BY <3>1, <3>2
  <2> QED
    BY <2>2, <2>8, <2>9 DEF WellKept
<1> QED
  BY <1>1, <1>8, <1>9, <1>10 DEF ShelfInv

LEMMA StoreEnds == ASSUME ShelfInv, NEW p \in Publishers, EndPublish(p) PROVE ShelfInv'
<1> DEFINE x == press[p]
<1>1. /\ x.pc = "store" /\ x \in Storing /\ press \in [Publishers -> Presses] /\ AtWork(p) /\ x.left = {}
      /\ UNCHANGED <<work, shelved, record, lookup, served, contested, harmed>>
      /\ contested \in BOOLEAN /\ harmed \in BOOLEAN /\ shelved \in Contents
      /\ reported' = reported \cup {x.packed} /\ press' = [press EXCEPT ![p] = AtPress]
  BY PressUnderWay DEF EndPublish, ShelfInv, ShelfTypes, AtWork
<1>2. /\ press'[p] = AtPress /\ \A q \in Publishers \ {p} : press'[q] = press[q]
      /\ press' \in [Publishers -> Presses]
  BY <1>1 DEF Presses
<1>3. ShelfTypes'
  BY <1>1, <1>2 DEF ShelfInv, ShelfTypes, Single, Contents
<1>4. ASSUME ~contested, ~harmed PROVE record = {x.packed} /\ shelved = x.packed
  <2>1. Copied(x)
    BY <1>1, <1>4 DEF ShelfInv, WellKept, Undisturbed
  <2>2. /\ x.packed \in Contents /\ record = {x.packed}
        /\ \A f \in PackageFiles : /\ shelved[f] \in {NoFile, x.packed[f]}
                                   /\ f \in FilesOf(x.packed) => shelved[f] = x.packed[f]
    BY <1>1, <2>1 DEF Copied, Storing
  <2>3. \A f \in PackageFiles : shelved[f] = x.packed[f]
    BY <2>2 DEF FilesOf
  <2> QED
    BY <1>1, <2>2, <2>3 DEF Contents
<1>5. ASSUME ~contested PROVE OneVersion'
  <2>1. OneVersion
    BY <1>5 DEF ShelfInv
  <2>2. \A q \in Publishers : AtWork(q)' => AtWork(q) /\ press'[q].packed = press[q].packed
    BY <1>2 DEF AtWork, AtPress
  <2> QED
    BY <1>1, <2>1, <2>2 DEF OneVersion
<1>6. ASSUME ~contested, ~harmed PROVE WellKept'
  <2>1. WellKept
    BY <1>6 DEF ShelfInv
  <2>2. Shelved' /\ reported' \subseteq record'
    BY <1>1, <1>4, <1>6, <2>1 DEF Shelved, WellKept, Storing
  <2>3. ASSUME NEW q \in Publishers PROVE Undisturbed(q)'
    BY <1>1, <1>2, <2>1 DEF WellKept, Undisturbed, Copied, AtPress, FilesOf
  <2> QED
    BY <2>2, <2>3 DEF WellKept
<1> QED
  BY <1>1, <1>3, <1>5, <1>6 DEF ShelfInv

LEMMA EditsKeep == ASSUME ShelfInv, EditWork \/ EditShelved PROVE ShelfInv'
<1>1. /\ UNCHANGED <<record, press, lookup, reported, served, contested>> /\ harmed \in BOOLEAN
      /\ work \in Contents /\ shelved \in Contents
  BY DEF EditWork, EditShelved, ShelfInv, ShelfTypes
<1>2. /\ work' \in Contents /\ shelved' \in Contents /\ harmed' \in BOOLEAN
      /\ ~harmed' => ~harmed /\ shelved' = shelved /\ \A p \in Publishers : press[p].pc = "idle"
  <2>1. CASE EditWork
    BY <1>1, <2>1 DEF EditWork, Contents
  <2>2. CASE EditShelved
    BY <1>1, <2>2 DEF EditShelved, Contents
  <2> QED
    BY <2>1, <2>2
<1>3. ShelfTypes'
  BY <1>1, <1>2 DEF ShelfInv, ShelfTypes, Single, Contents
<1>4. ASSUME ~contested PROVE OneVersion'
  BY <1>1, <1>4 DEF ShelfInv, OneVersion, AtWork
<1>5. ASSUME ~contested, ~harmed' PROVE WellKept'
  BY <1>1, <1>2, <1>5 DEF ShelfInv, WellKept, Shelved, Undisturbed, Bare
<1> QED
  BY <1>1, <1>3, <1>4, <1>5 DEF ShelfInv

\* What one resolver has read changes.
LEMMA LookupGoesOn ==
  ASSUME ShelfInv, NEW r \in Resolvers, NEW looks \in SUBSET Lookups, lookup' = [lookup EXCEPT ![r] = looks],
         UNCHANGED <<work, shelved, record, press, reported, contested, harmed>>,
         ~contested => (\A look \in looks : look.digest \in record) /\ served' \subseteq record
  PROVE  ShelfInv'
<1>1. contested \in BOOLEAN /\ DOMAIN lookup = Resolvers /\ (\A s \in Resolvers : lookup[s] \subseteq Lookups)
  BY DEF ShelfInv, ShelfTypes
<1>2. \A s \in Resolvers : lookup'[s] = IF s = r THEN looks ELSE lookup[s]
  BY <1>1
<1>3. ShelfTypes'
  BY <1>1, <1>2 DEF ShelfInv, ShelfTypes, Single, Contents
<1>4. ASSUME ~contested PROVE OneVersion'
  BY <1>2, <1>4 DEF ShelfInv, OneVersion, AtWork
<1>5. ASSUME ~contested, ~harmed PROVE WellKept'
  BY <1>5 DEF ShelfInv, WellKept, Shelved, Undisturbed, Bare, Copied, FilesOf
<1> QED
  BY <1>1, <1>3, <1>4, <1>5 DEF ShelfInv

LEMMA LookupsKeep ==
  ASSUME ShelfInv, NEW r \in Resolvers, ReadRecord(r) \/ ReadFile(r) \/ Resolve(r) PROVE ShelfInv'
<1>1. /\ UNCHANGED <<work, shelved, record, press, reported, contested, harmed>>
      /\ shelved \in Contents /\ lookup[r] \subseteq Lookups /\ Single(record)
      /\ ~contested => served \subseteq record /\ \A look \in lookup[r] : look.digest \in record
  BY DEF ReadRecord, ReadFile, Resolve, ShelfInv, ShelfTypes, OneVersion
<1>2. CASE ReadRecord(r)
  <2>1. PICK digest \in record :
          lookup' = [lookup EXCEPT ![r] = {[digest |-> digest, left |-> PackageFiles, found |-> shelved]}]
    BY <1>2 DEF ReadRecord
  <2> DEFINE new == [digest |-> digest, left |-> PackageFiles, found |-> shelved]
  <2>2. new \in Lookups /\ new.digest \in record
    BY <1>1, <2>1 DEF Lookups, Single
  <2>3. lookup' = [lookup EXCEPT ![r] = {new}] /\ UNCHANGED served
    BY <1>2, <2>1 DEF ReadRecord
  <2> HIDE DEF new
  <2> QED
    BY ZenonT(60), <1>1, <2>2, <2>3, LookupGoesOn
<1>3. CASE ReadFile(r)
  <2>1. PICK old \in lookup[r] : \E f \in old.left :
          lookup' = [lookup EXCEPT ![r] = {[old EXCEPT !.left = @ \ {f}, !.found[f] = shelved[f]]}]
    BY <1>3 DEF ReadFile
  <2>2. PICK f \in old.left : lookup' = [lookup EXCEPT ![r] = {[old EXCEPT !.left = @ \ {f}, !.found[f] = shelved[f]]}]
    BY <2>1
  <2> DEFINE new == [old EXCEPT !.left = @ \ {f}, !.found[f] = shelved[f]]
  <2>3. old \in Lookups /\ f \in PackageFiles
    BY <1>1 DEF Lookups
  <2>4. new \in Lookups /\ new.digest = old.digest
    BY <1>1, <2>3 DEF Lookups, Contents
  <2>5. lookup' = [lookup EXCEPT ![r] = {new}] /\ UNCHANGED served
    BY <1>3, <2>2 DEF ReadFile
  <2> HIDE DEF new
  <2> QED
    BY <1>1, <2>4, <2>5, LookupGoesOn
<1>4. CASE Resolve(r)
  <2>1. lookup' = [lookup EXCEPT ![r] = {}] /\ (~contested => served' \subseteq record)
    BY <1>1, <1>4 DEF Resolve
  <2> QED
    BY <1>1, <2>1, LookupGoesOn
<1> QED
  BY <1>2, <1>3, <1>4

LEMMA ShelfUnchanged == ASSUME ShelfInv, UNCHANGED shelfVars PROVE ShelfInv'
<1>1. UNCHANGED <<work, shelved, record, press, lookup, reported, served, contested, harmed>>
  BY DEF shelfVars
<1>2. ShelfTypes' /\ (~contested => OneVersion')
  BY <1>1 DEF ShelfInv, ShelfTypes, OneVersion, Single, AtWork, Contents
<1>3. ASSUME ~contested, ~harmed PROVE WellKept'
  BY <1>1, <1>3 DEF ShelfInv, WellKept, Shelved, Undisturbed, Bare, Copied, FilesOf
<1> QED
  BY <1>1, <1>2, <1>3 DEF ShelfInv

LEMMA ShelfInvariant == ASSUME ShelfInv, [ShelfNext]_shelfVars PROVE ShelfInv'
<1>1. ASSUME NEW p \in Publishers, PublisherStops(p) PROVE ShelfInv'
  BY <1>1, StopsKeep DEF PublisherStops
<1> QED
  BY <1>1, PackKeeps, CheckKeeps, StageKeeps, StoreBegins, StoreKeeps, StoreEnds, EditsKeep, LookupsKeep, ShelfUnchanged
     DEF ShelfNext

-----------------------------------------------------------------------------
(* The remote registry. *)

Imports == [pc : {"import"}, digest : Contents, staging : Contents, left : SUBSET PackageFiles]
Removes == [pc : {"remove"}, digest : Contents, staging : Contents, left : SUBSET PackageFiles]
Renames == [pc : {"rename"}, digest : Contents, staging : Contents, left : SUBSET PackageFiles]
CachedDirectories == [digest : Contents, files : Contents, touched : BOOLEAN, torn : BOOLEAN]
FetchSound(x) ==
  \/ x = AtRemote
  \/ x \in Imports /\ \A f \in PackageFiles : x.staging[f] = IF f \in FilesOf(x.digest) \ x.left THEN x.digest[f] ELSE NoFile
  \/ x \in Removes \cup Renames /\ x.staging = x.digest
RemoteInv ==
  /\ remote \in [PackageFiles -> FileTexts]
  /\ DOMAIN fetch = Fetchers /\ \A g \in Fetchers : FetchSound(fetch[g])
  /\ cached \subseteq CachedDirectories /\ \A c \in cached : CacheKept(c)
  /\ \A c, other \in cached : c.digest = other.digest => c = other

LEMMA RemoteBegins == RegistryInit => RemoteInv
BY DEF RegistryInit, RemoteInv, FetchSound

\* A step of one fetcher that keeps the cache and removes nothing when it ends.
LEMMA FetchGoesOn ==
  ASSUME RemoteInv, NEW g \in Fetchers, NEW x, FetchSound(x), Fetches(g, x), UNCHANGED <<remote, cached>>,
         fetch[g].pc # "remove"
  PROVE  RemoteInv'
<1>1. DOMAIN fetch' = Fetchers /\ \A h \in Fetchers : FetchSound(fetch'[h])
  BY DEF RemoteInv, Fetches
<1>2. \A h \in Fetchers : fetch[h].pc = "remove" => fetch'[h] = fetch[h]
  BY DEF RemoteInv, Fetches
<1>3. ASSUME NEW c \in cached PROVE CacheKept(c)'
  BY <1>2 DEF RemoteInv, CacheKept
<1> QED
  BY <1>1, <1>3 DEF RemoteInv, CacheKept, CachedDirectories, FetchSound, Imports, Removes, Renames, Contents, FilesOf

\* The shapes of a fetcher, told apart by where it is.
LEMMA FetchShapes ==
  ASSUME NEW y, FetchSound(y)
  PROVE  /\ y.pc \in {"idle", "import", "remove", "rename"}
         /\ y.pc = "import" =>
              /\ y \in Imports
              /\ \A h \in PackageFiles : y.staging[h] = IF h \in FilesOf(y.digest) \ y.left THEN y.digest[h] ELSE NoFile
         /\ y.pc = "remove" => y \in Removes /\ y.staging = y.digest
         /\ y.pc = "rename" => y \in Renames /\ y.staging = y.digest
BY DEF FetchSound, Imports, Removes, Renames, AtRemote

LEMMA ImportsKeep ==
  ASSUME RemoteInv, NEW g \in Fetchers, Answered(g) \/ ImportFile(g) \/ BeginRemove(g) PROVE RemoteInv'
<1>1. UNCHANGED <<remote, cached>> /\ remote \in [PackageFiles -> FileTexts] /\ FetchSound(fetch[g])
  BY DEF Answered, ImportFile, BeginRemove, RemoteInv
<1>0. fetch[g].pc # "remove"
  BY DEF Answered, ImportFile, BeginRemove
<1>2. CASE Answered(g)
  <2> DEFINE x == [pc |-> "import", digest |-> remote, staging |-> Bare, left |-> FilesOf(remote)]
  <2>1. x \in Imports /\ x.digest = remote /\ x.staging = Bare /\ x.left = FilesOf(remote) /\ Fetches(g, x)
    BY <1>1, <1>2 DEF Imports, Contents, Bare, FilesOf, Answered
  <2> HIDE DEF x
  <2>2. FetchSound(x)
    BY <2>1 DEF FetchSound, Bare
  <2> QED
    BY <1>0, <1>1, <2>1, <2>2, FetchGoesOn
<1>3. CASE ImportFile(g)
  <2> DEFINE y == fetch[g]
  <2>1. PICK f \in y.left : Fetches(g, [y EXCEPT !.left = @ \ {f}, !.staging[f] = y.digest[f]])
    BY <1>3 DEF ImportFile
  <2> DEFINE x == [y EXCEPT !.left = @ \ {f}, !.staging[f] = y.digest[f]]
  <2>0. y.pc = "import" /\ FetchSound(y)
    BY <1>1, <1>3 DEF ImportFile
  <2> HIDE DEF y
  <2>2. /\ y.pc = "import" /\ y \in Imports
        /\ \A h \in PackageFiles : y.staging[h] = IF h \in FilesOf(y.digest) \ y.left THEN y.digest[h] ELSE NoFile
    BY <2>0, FetchShapes
  <2>3. y.staging \in Contents /\ y.digest \in Contents /\ f \in PackageFiles
    BY <2>2 DEF Imports
  <2>4. x \in Imports /\ x.digest = y.digest /\ x.left = y.left \ {f} /\ x.staging = [y.staging EXCEPT ![f] = y.digest[f]]
    BY <2>2, <2>3 DEF Imports, Contents
  <2> HIDE DEF x
  <2>5. \A h \in PackageFiles : x.staging[h] = IF h = f THEN y.digest[f] ELSE y.staging[h]
    BY <2>3, <2>4 DEF Contents
  <2>6. \A h \in PackageFiles : x.staging[h] = IF h \in FilesOf(x.digest) \ x.left THEN x.digest[h] ELSE NoFile
    BY <2>2, <2>3, <2>4, <2>5 DEF FilesOf
  <2>7. FetchSound(x) /\ Fetches(g, x)
    BY <2>1, <2>4, <2>6 DEF FetchSound, x
  <2> QED
    BY <1>0, <1>1, <2>7, FetchGoesOn
<1>4. CASE BeginRemove(g)
  <2> DEFINE y == fetch[g]
             inside == UNION {FilesOf(c.files) : c \in Cached(y.digest)}
             x == [y EXCEPT !.pc = "remove", !.left = inside]
  <2>1. /\ y \in Imports /\ y.left = {} /\ Fetches(g, x) /\ inside \subseteq PackageFiles
        /\ \A h \in PackageFiles : y.staging[h] = IF h \in FilesOf(y.digest) \ y.left THEN y.digest[h] ELSE NoFile
    BY <1>1, <1>4, FetchShapes DEF BeginRemove, FilesOf
  <2>2. y.staging = y.digest
    BY <2>1 DEF Imports, Contents, FilesOf
  <2> HIDE DEF y, inside
  <2>3. x \in Removes /\ x.staging = y.staging /\ x.digest = y.digest
    BY <2>1 DEF Imports, Removes
  <2> HIDE DEF x
  <2>4. FetchSound(x)
    BY <2>2, <2>3 DEF FetchSound
  <2> QED
    BY <1>0, <1>1, <2>1, <2>4, FetchGoesOn
<1> QED
  BY <1>2, <1>3, <1>4

\* The directory of a fetcher's digest is rewritten in place, and is one of its kind again.
LEMMA InPlace ==
  ASSUME RemoteInv, NEW g \in Fetchers, NEW x, FetchSound(x), Fetches(g, x), UNCHANGED remote, fetch[g].pc = "remove",
         NEW there, cached' = (cached \ Cached(fetch[g].digest)) \cup there, \A c, other \in there : c = other,
         \A c \in there : c \in CachedDirectories /\ c.digest = fetch[g].digest /\ CacheKept(c)'
  PROVE  RemoteInv'
<1> DEFINE d == fetch[g].digest
<1>1. DOMAIN fetch' = Fetchers /\ \A h \in Fetchers : FetchSound(fetch'[h])
  BY DEF RemoteInv, Fetches
<1>2. ASSUME NEW c \in cached', NEW other \in cached', c.digest = other.digest PROVE c = other
  BY <1>2 DEF RemoteInv, Cached
<1>3. ASSUME NEW c \in cached' PROVE c \in CachedDirectories /\ CacheKept(c)'
  <2>1. CASE c \in cached \ Cached(d)
    <3>1. CacheKept(c) /\ c.digest # d /\ c \in CachedDirectories
      BY <2>1 DEF RemoteInv, Cached
    <3>2. \A h \in Fetchers : fetch[h].pc = "remove" /\ fetch[h].digest = c.digest => fetch'[h] = fetch[h]
      BY <3>1 DEF RemoteInv, Fetches
    <3> QED
      BY <3>1, <3>2 DEF CacheKept
  <2>2. CASE c \in there
    BY <2>2
  <2> QED
    BY <1>3, <2>1, <2>2
<1>4. remote' \in [PackageFiles -> FileTexts]
  BY DEF RemoteInv
<1> QED
  BY <1>1, <1>2, <1>3, <1>4 DEF RemoteInv, CachedDirectories, FetchSound, Imports, Removes, Renames, Contents, FilesOf

LEMMA UnlinkKeeps == ASSUME RemoteInv, NEW g \in Fetchers, RemoveFile(g) PROVE RemoteInv'
<1> DEFINE y == fetch[g]
<1>1. PICK f \in y.left :
        /\ Fetches(g, [y EXCEPT !.left = @ \ {f}])
        /\ cached' = (cached \ Cached(y.digest)) \cup {[c EXCEPT !.files[f] = NoFile] : c \in Cached(y.digest)}
  BY DEF RemoveFile
<1> DEFINE x == [y EXCEPT !.left = @ \ {f}]
           New(c) == [c EXCEPT !.files[f] = NoFile]
<1>2. y.pc = "remove" /\ y \in Removes /\ y.staging = y.digest /\ UNCHANGED remote
  BY FetchShapes DEF RemoveFile, RemoteInv
<1>3. x \in Removes /\ x.staging = y.staging /\ x.digest = y.digest /\ x.pc = "remove" /\ f \in PackageFiles
  BY <1>2 DEF Removes
<1>4. FetchSound(x) /\ Fetches(g, x)
  BY <1>1, <1>2, <1>3 DEF FetchSound
<1>5. fetch'[g] = x
  BY <1>4 DEF Fetches, RemoteInv
<1>6. ASSUME NEW c \in Cached(y.digest) PROVE New(c) \in CachedDirectories /\ New(c).digest = c.digest /\ CacheKept(New(c))'
  <2>1. c \in CachedDirectories /\ c.digest = y.digest /\ CacheKept(c)
    BY <1>6 DEF RemoteInv, Cached
  <2>2. /\ New(c) \in CachedDirectories /\ New(c).digest = c.digest /\ New(c).touched = c.touched
        /\ New(c).files = [c.files EXCEPT ![f] = NoFile]
    BY <1>3, <2>1 DEF CachedDirectories, Contents
  <2>3. ~c.touched => \A h \in PackageFiles : New(c).files[h] \in {c.digest[h], NoFile}
    BY <2>1, <2>2 DEF CacheKept, CachedDirectories, Contents
  <2> QED
    BY <1>3, <1>5, <2>1, <2>2, <2>3 DEF CacheKept
<1> DEFINE there == {New(c) : c \in Cached(y.digest)}
<1>7. cached' = (cached \ Cached(y.digest)) \cup there
  BY <1>1
<1>8. \A c, other \in there : c = other
  BY DEF RemoteInv, Cached
<1>9. \A c \in there : c \in CachedDirectories /\ c.digest = y.digest /\ CacheKept(c)'
  BY <1>6 DEF Cached
<1> HIDE DEF x, there
<1> QED
  BY <1>2, <1>4, <1>7, <1>8, <1>9, InPlace

LEMMA GivingUpKeeps ==
  ASSUME RemoteInv, NEW g \in Fetchers, fetch[g].pc = "remove", GivesUp(g), UNCHANGED remote PROVE RemoteInv'
<1> DEFINE d == fetch[g].digest
           New(c) == [c EXCEPT !.torn = @ \/ c.files # d]
<1>1. Fetches(g, AtRemote) /\ FetchSound(AtRemote)
  BY DEF GivesUp, FetchSound
<1>2. ASSUME NEW c \in Cached(d), NEW n, n = New(c) PROVE n \in CachedDirectories /\ n.digest = d /\ CacheKept(n)'
  <2>1. c \in CachedDirectories /\ c.digest = d /\ CacheKept(c)
    BY <1>2 DEF RemoteInv, Cached
  <2>2. /\ n \in CachedDirectories /\ n.digest = c.digest /\ n.touched = c.touched
        /\ n.files = c.files /\ (n.torn <=> (c.torn \/ c.files # d))
    BY <1>2, <2>1 DEF CachedDirectories
  <2> QED
    BY <2>1, <2>2 DEF CacheKept
<1>3. cached' = (cached \ Cached(d)) \cup {New(c) : c \in Cached(d)}
  BY DEF GivesUp
<1> DEFINE there == {New(c) : c \in Cached(d)}
<1>4. \A c, other \in there : c = other
  BY DEF RemoteInv, Cached
<1>5. \A c \in there : c \in CachedDirectories /\ c.digest = d /\ CacheKept(c)'
  BY <1>2 DEF Cached
<1> HIDE DEF there
<1> QED
  BY <1>1, <1>3, <1>4, <1>5, InPlace DEF there

LEMMA RemovalKeeps == ASSUME RemoteInv, NEW g \in Fetchers, RemoveCached(g) PROVE RemoteInv'
<1> DEFINE y == fetch[g]
           x == [y EXCEPT !.pc = "rename"]
<1>1. y.pc = "remove" /\ y \in Removes /\ y.staging = y.digest /\ UNCHANGED remote
  BY FetchShapes DEF RemoveCached, RemoteInv
<1>2. CASE Occupied(y.digest)
  BY <1>1, <1>2, GivingUpKeeps DEF RemoveCached
<1>3. CASE ~Occupied(y.digest)
  <2>1. Fetches(g, x) /\ cached' = cached \ Cached(y.digest)
    BY <1>3 DEF RemoveCached
  <2>2. x \in Renames /\ x.staging = x.digest
    BY <1>1 DEF Removes, Renames
  <2> HIDE DEF x
  <2>3. FetchSound(x)
    BY <2>2 DEF FetchSound
  <2>4. DOMAIN fetch' = Fetchers /\ \A h \in Fetchers : FetchSound(fetch'[h])
    BY <2>1, <2>3 DEF Fetches, RemoteInv
  <2>5. ASSUME NEW c \in cached' PROVE CacheKept(c)'
    <3>1. CacheKept(c) /\ c.digest # y.digest
      BY <2>1, <2>5 DEF RemoteInv, Cached
    <3>2. \A h \in Fetchers : fetch[h].pc = "remove" /\ fetch[h].digest = c.digest => fetch'[h] = fetch[h]
      BY <2>1, <3>1 DEF RemoteInv, Fetches
    <3> QED
      BY <3>1, <3>2 DEF CacheKept
  <2> QED
    BY <1>1, <2>1, <2>4, <2>5 DEF RemoteInv, CachedDirectories, FetchSound, Imports, Removes, Renames, Contents, FilesOf
<1> QED
  BY <1>2, <1>3

LEMMA StopsLeaveCache == ASSUME RemoteInv, NEW g \in Fetchers, FetcherStops(g) PROVE RemoteInv'
<1>1. CASE fetch[g].pc = "remove"
  BY <1>1, GivingUpKeeps DEF FetcherStops
<1>2. CASE fetch[g].pc # "remove"
  <2>1. Fetches(g, AtRemote) /\ UNCHANGED <<remote, cached>> /\ FetchSound(AtRemote)
    BY <1>2 DEF FetcherStops, FetchSound
  <2> QED
    BY <1>2, <2>1, FetchGoesOn
<1> QED
  BY <1>1, <1>2

LEMMA ArrivalKeeps == ASSUME RemoteInv, NEW g \in Fetchers, RenameImported(g) PROVE RemoteInv'
<1> DEFINE y == fetch[g]
           new == [digest |-> y.digest, files |-> y.staging, touched |-> FALSE, torn |-> FALSE]
<1>1. y.pc = "rename" /\ y \in Renames /\ y.staging = y.digest /\ UNCHANGED remote /\ Fetches(g, AtRemote)
  BY FetchShapes DEF RenameImported, RemoteInv
<1>2. FetchSound(AtRemote)
  BY DEF FetchSound
<1>3. CASE Occupied(y.digest)
  BY <1>1, <1>2, <1>3, FetchGoesOn DEF RenameImported
<1>4. CASE ~Occupied(y.digest)
  <2>1. cached' = (cached \ Cached(y.digest)) \cup {new}
    BY <1>4 DEF RenameImported
  <2>2. new \in CachedDirectories /\ new.files = new.digest /\ new.digest = y.digest
    BY <1>1 DEF Renames, CachedDirectories
  <2> HIDE DEF new
  <2>3. DOMAIN fetch' = Fetchers /\ \A h \in Fetchers : FetchSound(fetch'[h])
    BY <1>1, <1>2 DEF Fetches, RemoteInv
  <2>4. \A h \in Fetchers : fetch[h].pc = "remove" => fetch'[h] = fetch[h]
    BY <1>1 DEF RemoteInv, Fetches
  <2>5. ASSUME NEW c \in cached' PROVE CacheKept(c)'
    <3>1. CASE c = new
      <4>1. \A h \in PackageFiles : c.files[h] \in {c.digest[h], NoFile}
        BY <2>2, <3>1
      <4> QED
        BY <2>2, <3>1, <4>1 DEF CacheKept
    <3>2. CASE c \in cached
      BY <2>4, <3>2 DEF RemoteInv, CacheKept
    <3> QED
      BY <2>1, <2>5, <3>1, <3>2
  <2>6. cached' \subseteq CachedDirectories /\ \A c, other \in cached' : c.digest = other.digest => c = other
    BY <2>1, <2>2 DEF RemoteInv, Cached
  <2> QED
    BY <1>1, <2>3, <2>5, <2>6 DEF RemoteInv, CachedDirectories, FetchSound, Imports, Removes, Renames, Contents, FilesOf
<1> QED
  BY <1>3, <1>4

LEMMA CacheKeeps == ASSUME RemoteInv, RemoteMoves \/ EditCached PROVE RemoteInv'
<1>1. CASE RemoteMoves
  <2>1. remote' \in [PackageFiles -> FileTexts] /\ UNCHANGED <<fetch, cached>>
    BY <1>1 DEF RemoteMoves
  <2> QED
    BY <2>1 DEF RemoteInv, CacheKept
<1>2. CASE EditCached
  <2>1. PICK c \in cached, f \in PackageFiles, t \in FileTexts :
           cached' = (cached \ {c}) \cup {[c EXCEPT !.files[f] = t, !.touched = TRUE]}
    BY <1>2 DEF EditCached
  <2> DEFINE new == [c EXCEPT !.files[f] = t, !.touched = TRUE]
  <2>2. c \in CachedDirectories
    BY DEF RemoteInv
  <2>3. new \in CachedDirectories /\ new.digest = c.digest /\ new.touched
    BY <2>2 DEF Contents, CachedDirectories
  <2>4. cached' = (cached \ {c}) \cup {new} /\ UNCHANGED <<remote, fetch>>
    BY <1>2, <2>1 DEF EditCached
  <2> HIDE DEF new
  <2>5. \A other \in cached' : CacheKept(other)'
    BY <2>3, <2>4 DEF RemoteInv, CacheKept
  <2>6. cached' \subseteq CachedDirectories /\ \A one, other \in cached' : one.digest = other.digest => one = other
    BY <2>3, <2>4 DEF RemoteInv
  <2> QED
    BY <2>4, <2>5, <2>6 DEF RemoteInv, CachedDirectories, FetchSound, Imports, Removes, Renames, Contents, FilesOf
<1> QED
  BY <1>1, <1>2

LEMMA RemoteInvariant == ASSUME RemoteInv, [RemoteNext]_remoteVars PROVE RemoteInv'
<1>1. CASE UNCHANGED remoteVars
  BY <1>1 DEF remoteVars, RemoteInv, CacheKept
<1> QED
  BY <1>1, ImportsKeep, UnlinkKeeps, RemovalKeeps, StopsLeaveCache, ArrivalKeeps, CacheKeeps DEF RemoteNext

RegistryInv == ShelfInv /\ RemoteInv

LEMMA VersionsKept == RegistryInv => VersionsAreKept
BY ShelfIsKept DEF RegistryInv, ShelfHolds, RemoteInv, VersionsAreKept

LEMMA RegistryInvariant == ASSUME RegistryInv, [RegistryNext]_registryVars PROVE RegistryInv'
<1>1. [ShelfNext]_shelfVars /\ [RemoteNext]_remoteVars
  <2>1. CASE UNCHANGED registryVars
    BY <2>1 DEF registryVars
  <2>2. CASE ShelfNext
    BY <2>2 DEF ShelfNext, EditWork, EditShelved, PackPackage, CheckPublished, StageFile, BeginStore, StoreEntry,
       EndPublish, PublisherStops, ReadRecord, ReadFile, Resolve
  <2>3. CASE RemoteNext
    BY <2>3 DEF RemoteNext, RemoteMoves, EditCached, Answered, ImportFile, BeginRemove, RemoveFile,
       RemoveCached, GivesUp, RenameImported, FetcherStops
  <2> QED
    BY <2>1, <2>2, <2>3 DEF RegistryNext
<1> QED
  BY <1>1, ShelfInvariant, RemoteInvariant DEF RegistryInv

-----------------------------------------------------------------------------
(* Provenance. *)

\* A catalog reviews at most one commit of a package.
Catalogs == {catalog \in [Reviewed -> SUBSET Revisions] :
               \A p \in Reviewed : \A c, d \in catalog[p] : c = d}
PinnedCommits == Reviewed \X Revisions
SomeSkills == UNION {Content[pc] : pc \in PinnedCommits}
Records == [package : Reviewed, commit : Revisions, skill : SomeSkills]

\* The records are about skills the pinned commits hold, and are all of them but for
\* the packages in missing.
Truthful(records, digest) ==
  \A r \in records : <<r.package, r.commit>> \in digest /\ r.skill \in Content[<<r.package, r.commit>>] /\ r.skill.safe
Covers(records, digest, missing) ==
  \A p \in Reviewed, c \in Revisions : p \notin missing /\ <<p, c>> \in digest =>
    \A s \in Content[<<p, c>>] : [package |-> p, commit |-> c, skill |-> s] \in records

Indices == [digest : SUBSET PinnedCommits, records : SUBSET Records, failures : SUBSET Reviewed, lost : SUBSET Reviewed]
SoundIndex(i) ==
  i \in Indices /\ Truthful(i.records, i.digest) /\ Covers(i.records, i.digest, i.failures \cup i.lost)
Indexings ==
  [pc : {"index"}, pinnedAt : Catalogs, left : SUBSET Reviewed, digest : SUBSET PinnedCommits, records : SUBSET Records,
   failures : SUBSET Reviewed, lost : SUBSET Reviewed]
SoundIndexer(x) ==
  \/ x = NoIndexer
  \/ x \in [pc : {"look"}, how : {"refresh", "offline", "either"}, pinnedAt : Catalogs]
  \/ /\ x \in Indexings /\ x.digest = ImmutableCatalogDigest(x.pinnedAt)
     /\ Truthful(x.records, x.digest) /\ Covers(x.records, x.digest, x.left \cup x.failures \cup x.lost)
SoundAnswer(j) ==
  /\ j.pinnedAt \in Catalogs /\ (\A i \in j.index : SoundIndex(i))
  /\ j.source \in {"cache", "refreshed"} => \A i \in j.index : i.digest = ImmutableCatalogDigest(j.pinnedAt)

ProvenanceInv ==
  /\ pinnedAt \in Catalogs /\ (\A i \in index : SoundIndex(i))
  /\ DOMAIN indexer = Indexers /\ DOMAIN judgement = Indexers
  /\ \A b \in Indexers : SoundIndexer(indexer[b]) /\ \A j \in judgement[b] : SoundAnswer(j)

-----------------------------------------------------------------------------
(* What is matched. *)

LEMMA Matches ==
  ASSUME NEW records \in SUBSET Records, NEW skill
  PROVE  /\ CandidatesFor(skill, records).candidates \subseteq records
         /\ CandidatesFor(skill, records).kind = "unknown" => \A r \in records :
              r.package \notin skill.hints /\ r.skill.text # skill.text /\ r.skill.name # skill.name
         /\ CandidatesFor(skill, records).kind = "catalog-name-candidate" =>
              \A r \in records : r.skill.text # skill.text
<1> DEFINE owned == {r \in records : r.package \in skill.owner}
           exact == {r \in records : r.skill.text = skill.text}
           embedded == {r \in records : r.package \in skill.hints}
           named == {r \in records : r.skill.name = skill.name}
           As(kind, candidates) == [kind |-> kind, candidates |-> candidates]
           match == CandidatesFor(skill, records)
<1>1. match = (CASE skill.owner # {} -> As("loadout-managed", owned)
       [] skill.owner = {} /\ exact # {} -> As("catalog-exact", exact)
       [] skill.owner = {} /\ exact = {} /\ embedded # {} -> As("embedded-source", embedded)
       [] skill.owner = {} /\ exact \cup embedded = {} /\ named # {} -> As("catalog-name-candidate", named)
       [] OTHER -> As("unknown", {}))
  BY DEF CandidatesFor
<1>2. owned \subseteq records /\ exact \subseteq records /\ embedded \subseteq records /\ named \subseteq records
  OBVIOUS
<1>3. \A r \in records : /\ (r \in exact <=> r.skill.text = skill.text) /\ (r \in embedded <=> r.package \in skill.hints)
                         /\ (r \in named <=> r.skill.name = skill.name)
  OBVIOUS
<1>4. \A k, c : As(k, c).kind = k /\ As(k, c).candidates = c
  OBVIOUS
<1> HIDE DEF owned, exact, embedded, named, As, match
<1>5. CASE skill.owner # {}
  <2>1. match = As("loadout-managed", owned)
    BY <1>1, <1>5
  <2> QED
    BY <1>2, <1>4, <2>1 DEF match
<1>6. CASE skill.owner = {} /\ exact # {}
  <2>1. match = As("catalog-exact", exact)
    BY <1>1, <1>6
  <2> QED
    BY <1>2, <1>4, <2>1 DEF match
<1>7. CASE skill.owner = {} /\ exact = {} /\ embedded # {}
  <2>1. match = As("embedded-source", embedded)
    BY <1>1, <1>7
  <2> QED
    BY <1>2, <1>4, <2>1 DEF match
<1>8. CASE skill.owner = {} /\ exact = {} /\ embedded = {} /\ named # {}
  <2>1. match = As("catalog-name-candidate", named)
    BY <1>1, <1>8
  <2> QED
    BY <1>2, <1>3, <1>4, <1>8, <2>1 DEF match
<1>9. CASE skill.owner = {} /\ exact = {} /\ embedded = {} /\ named = {}
  <2>1. match = As("unknown", {})
    BY <1>1, <1>9
  <2> QED
    BY <1>3, <1>4, <1>9, <2>1 DEF match
<1> QED
  BY <1>5, <1>6, <1>7, <1>8, <1>9 DEF match

LEMMA Digested ==
  ASSUME NEW catalog \in Catalogs
  PROVE  /\ ImmutableCatalogDigest(catalog) \subseteq PinnedCommits
         /\ \A p \in Reviewed, c \in Revisions : <<p, c>> \in ImmutableCatalogDigest(catalog) <=> c \in catalog[p]
         /\ \A p \in Reviewed : \A c \in catalog[p] : c \in Revisions /\ catalog[p] = {c}
BY DEF Catalogs, ImmutableCatalogDigest, PinnedCommits

\* An index of the very catalog justifies what is matched in it.
LEMMA SoundlyMatched ==
  ASSUME NEW i, SoundIndex(i), NEW catalog \in Catalogs, i.digest = ImmutableCatalogDigest(catalog), NEW skill
  PROVE  LET match == CandidatesFor(skill, i.records)
             sources == {p \in Reviewed \ (i.failures \cup i.lost) : \E c \in catalog[p] : \E s \in Content[<<p, c>>] :
                           s.name = skill.name \/ s.text = skill.text \/ p \in skill.hints}
         IN /\ \A r \in match.candidates : catalog[r.package] = {r.commit}
            /\ match.kind = "unknown" => sources = {}
            /\ match.kind = "catalog-name-candidate" =>
                 \A p \in sources, c \in Revisions : c \in catalog[p] =>
                   \A s \in Content[<<p, c>>] : s.text # skill.text
<1> DEFINE match == CandidatesFor(skill, i.records)
           sources == {p \in Reviewed \ (i.failures \cup i.lost) : \E c \in catalog[p] : \E s \in Content[<<p, c>>] :
                           s.name = skill.name \/ s.text = skill.text \/ p \in skill.hints}
<1>1. i.records \in SUBSET Records
  BY DEF SoundIndex, Indices
<1>2. /\ match.candidates \subseteq i.records
      /\ match.kind = "unknown" => \A r \in i.records :
              r.package \notin skill.hints /\ r.skill.text # skill.text /\ r.skill.name # skill.name
      /\ match.kind = "catalog-name-candidate" => \A r \in i.records : r.skill.text # skill.text
  BY <1>1, Matches
<1>3. ASSUME NEW r \in match.candidates PROVE catalog[r.package] = {r.commit}
  <2>1. r \in Records /\ <<r.package, r.commit>> \in ImmutableCatalogDigest(catalog)
    BY <1>1, <1>2 DEF SoundIndex, Truthful
  <2> QED
    BY <2>1, Digested DEF Records
<1>4. ASSUME NEW p \in sources, NEW c \in catalog[p], NEW s \in Content[<<p, c>>]
      PROVE  \E r \in i.records : r.package = p /\ r.skill = s
  <2>1. c \in Revisions /\ <<p, c>> \in i.digest /\ p \in Reviewed /\ p \notin i.failures \cup i.lost
    BY Digested
  <2>2. [package |-> p, commit |-> c, skill |-> s] \in i.records
    BY <2>1 DEF SoundIndex, Covers
  <2> QED
    BY <2>2
<1>5. ASSUME match.kind = "unknown" PROVE sources = {}
  <2>1. ASSUME NEW p \in sources PROVE FALSE
    <3>1. PICK c \in catalog[p] : \E s \in Content[<<p, c>>] :
             s.name = skill.name \/ s.text = skill.text \/ p \in skill.hints
      OBVIOUS
    <3>2. PICK s \in Content[<<p, c>>] : s.name = skill.name \/ s.text = skill.text \/ p \in skill.hints
      BY <3>1
    <3>3. PICK r \in i.records : r.package = p /\ r.skill = s
      BY <1>4
    <3> QED
      BY <1>2, <1>5, <3>2, <3>3
  <2> QED
    BY <2>1
<1>6. ASSUME match.kind = "catalog-name-candidate", NEW p \in sources, NEW c \in catalog[p], NEW s \in Content[<<p, c>>]
      PROVE  s.text # skill.text
  <2>1. PICK r \in i.records : r.package = p /\ r.skill = s
    BY <1>4
  <2> QED
    BY <1>2, <1>6, <2>1
<1> HIDE DEF sources, match
<1>7. /\ \A r \in match.candidates : catalog[r.package] = {r.commit}
      /\ match.kind = "unknown" => sources = {}
      /\ match.kind = "catalog-name-candidate" =>
           \A p \in sources, c \in Revisions : c \in catalog[p] => \A s \in Content[<<p, c>>] : s.text # skill.text
  BY <1>3, <1>5, <1>6
<1> QED
  BY <1>7 DEF sources, match

LEMMA Justified == ProvenanceInv => ProvenanceJustified
<1> SUFFICES ASSUME ProvenanceInv, NEW b \in Indexers, NEW j \in judgement[b]
             PROVE  /\ \A i \in j.index : \A r \in i.records :
                         r.skill \in Content[<<r.package, r.commit>>] /\ r.skill.safe
                    /\ j.source \in {"cache", "refreshed"} => \A i \in j.index, skill \in Scanned :
                         LET match == CandidatesFor(skill, i.records)
                             sources == {p \in Reviewed \ (i.failures \cup i.lost) :
                                           \E c \in j.pinnedAt[p] : \E s \in Content[<<p, c>>] :
                                             s.name = skill.name \/ s.text = skill.text \/ p \in skill.hints}
                         IN /\ \A r \in match.candidates : j.pinnedAt[r.package] = {r.commit}
                            /\ match.kind = "unknown" => sources = {}
                            /\ match.kind = "catalog-name-candidate" =>
                                 \A p \in sources, c \in Revisions : c \in j.pinnedAt[p] =>
                                   \A s \in Content[<<p, c>>] : s.text # skill.text
  BY DEF ProvenanceJustified
<1>1. SoundAnswer(j)
  BY DEF ProvenanceInv
<1>2. \A i \in j.index : \A r \in i.records : r.skill \in Content[<<r.package, r.commit>>] /\ r.skill.safe
  BY <1>1 DEF SoundAnswer, SoundIndex, Truthful
<1>3. ASSUME j.source \in {"cache", "refreshed"}, NEW i \in j.index, NEW skill \in Scanned
      PROVE  LET match == CandidatesFor(skill, i.records)
                 sources == {p \in Reviewed \ (i.failures \cup i.lost) :
                               \E c \in j.pinnedAt[p] : \E s \in Content[<<p, c>>] :
                                 s.name = skill.name \/ s.text = skill.text \/ p \in skill.hints}
             IN /\ \A r \in match.candidates : j.pinnedAt[r.package] = {r.commit}
                /\ match.kind = "unknown" => sources = {}
                /\ match.kind = "catalog-name-candidate" =>
                     \A p \in sources, c \in Revisions : c \in j.pinnedAt[p] =>
                       \A s \in Content[<<p, c>>] : s.text # skill.text
  <2>1. SoundIndex(i) /\ j.pinnedAt \in Catalogs /\ i.digest = ImmutableCatalogDigest(j.pinnedAt)
    BY <1>1, <1>3 DEF SoundAnswer
  <2> QED
    BY <2>1, SoundlyMatched
<1> QED
  BY <1>2, <1>3

-----------------------------------------------------------------------------
(* The steps. *)

LEMMA ProvenanceBegins == ProvenanceInit => ProvenanceInv
BY DEF ProvenanceInit, ProvenanceInv, Catalogs, SoundIndexer

\* One command goes on.
LEMMA IndexerGoesOn ==
  ASSUME ProvenanceInv, NEW b \in Indexers, NEW x, SoundIndexer(x), indexer' = [indexer EXCEPT ![b] = x],
         pinnedAt' \in Catalogs, \A i \in index' : SoundIndex(i),
         \/ judgement' = judgement
         \/ \E j : SoundAnswer(j) /\ judgement' = [judgement EXCEPT ![b] = {j}]
         \/ judgement' = [judgement EXCEPT ![b] = {}]
  PROVE  ProvenanceInv'
<1>1. DOMAIN indexer' = Indexers /\ DOMAIN judgement' = Indexers
  BY DEF ProvenanceInv
<1>2. ASSUME NEW a \in Indexers PROVE SoundIndexer(indexer'[a]) /\ \A j \in judgement'[a] : SoundAnswer(j)
  <2>1. SoundIndexer(indexer[a]) /\ \A j \in judgement[a] : SoundAnswer(j)
    BY DEF ProvenanceInv
  <2>2. SoundIndexer(indexer'[a])
    BY <2>1 DEF ProvenanceInv
  <2>3. \A j \in judgement'[a] : SoundAnswer(j)
    BY <2>1 DEF ProvenanceInv
  <2> QED
    BY <2>2, <2>3
<1> QED
  BY <1>1, <1>2 DEF ProvenanceInv, SoundIndexer, SoundAnswer, SoundIndex, Truthful, Covers

LEMMA ProvenanceUnchanged ==
  ASSUME ProvenanceInv, UNCHANGED <<indexer, judgement>>, pinnedAt' \in Catalogs, \A i \in index' : SoundIndex(i)
  PROVE  ProvenanceInv'
BY DEF ProvenanceInv

LEMMA LoadKeeps == ASSUME ProvenanceInv, NEW b \in Indexers, LoadCatalog(b) PROVE ProvenanceInv'
<1>1. PICK how \in {"refresh", "offline", "either"} :
        indexer' = [indexer EXCEPT ![b] = [pc |-> "look", how |-> how, pinnedAt |-> pinnedAt]]
  BY DEF LoadCatalog
<1>2. pinnedAt \in Catalogs /\ \A i \in index : SoundIndex(i)
  BY DEF ProvenanceInv
<1>3. SoundIndexer([pc |-> "look", how |-> how, pinnedAt |-> pinnedAt])
  BY <1>2 DEF SoundIndexer
<1> QED
  BY <1>1, <1>2, <1>3, IndexerGoesOn DEF LoadCatalog, Still

\* A command answers with sound indices.
LEMMA JudgesKeeps ==
  ASSUME ProvenanceInv, NEW b \in Indexers, NEW source, NEW found, Judges(b, source, found), pinnedAt' \in Catalogs,
         indexer[b].pinnedAt \in Catalogs, \A i \in found : SoundIndex(i), \A i \in index' : SoundIndex(i),
         source \in {"cache", "refreshed"} => \A i \in found : i.digest = ImmutableCatalogDigest(indexer[b].pinnedAt)
  PROVE  ProvenanceInv'
<1> DEFINE j == [source |-> source, index |-> found, pinnedAt |-> indexer[b].pinnedAt]
<1>1. j.source = source /\ j.index = found /\ j.pinnedAt = indexer[b].pinnedAt
  OBVIOUS
<1>2. judgement' = [judgement EXCEPT ![b] = {j}] /\ indexer' = [indexer EXCEPT ![b] = NoIndexer]
  BY DEF Judges
<1> HIDE DEF j
<1>3. SoundAnswer(j) /\ SoundIndexer(NoIndexer)
  BY <1>1 DEF SoundAnswer, SoundIndexer
<1> QED
  BY <1>2, <1>3, IndexerGoesOn

LEMMA ResolveKeeps == ASSUME ProvenanceInv, NEW b \in Indexers, ResolveIndex(b) PROVE ProvenanceInv'
<1> DEFINE me == indexer[b]
           digest == ImmutableCatalogDigest(me.pinnedAt)
           current == {i \in index : i.digest = digest}
           start == [pc |-> "index", pinnedAt |-> me.pinnedAt, left |-> {p \in Reviewed : me.pinnedAt[p] # {}},
                     digest |-> digest, records |-> {}, failures |-> {}, lost |-> {}]
<1>1. /\ me.pc = "look" /\ SoundIndexer(me) /\ pinnedAt \in Catalogs /\ (\A i \in index : SoundIndex(i))
      /\ UNCHANGED <<pinnedAt, index>>
  BY DEF ResolveIndex, ProvenanceInv, Still
<1>2. me.pinnedAt \in Catalogs
  BY <1>1 DEF SoundIndexer, NoIndexer, Indexings
<1>3. CASE Judges(b, "cache", current)
  <2>1. \A i \in current : SoundIndex(i) /\ i.digest = digest
    BY <1>1
  <2> HIDE DEF current
  <2> QED
    BY <1>1, <1>2, <1>3, <2>1, JudgesKeeps
<1>4. CASE Judges(b, IF index = {} THEN "none" ELSE "stale-cache", index)
  <2> DEFINE source == IF index = {} THEN "none" ELSE "stale-cache"
  <2>1. source \notin {"cache", "refreshed"}
    OBVIOUS
  <2>2. Judges(b, source, index)
    BY <1>4
  <2> HIDE DEF source
  <2> QED
    BY <1>1, <1>2, <2>1, <2>2, JudgesKeeps
<1>5. CASE indexer' = [indexer EXCEPT ![b] = start] /\ UNCHANGED judgement
  <2>1. /\ start \in Indexings
        /\ start.digest = ImmutableCatalogDigest(start.pinnedAt) /\ start.digest = digest
        /\ start.records = {} /\ start.left = {p \in Reviewed : me.pinnedAt[p] # {}}
    <3>1. digest \in SUBSET PinnedCommits /\ {p \in Reviewed : me.pinnedAt[p] # {}} \in SUBSET Reviewed
      BY <1>2, Digested
    <3> HIDE DEF digest
    <3>2. start \in Indexings
      BY <1>2, <3>1 DEF Indexings
    <3> QED
      BY <3>2 DEF digest
  <2> HIDE DEF start
  <2>2. Covers({}, digest, start.left \cup start.failures \cup start.lost)
    BY <1>2, <2>1, Digested DEF Covers
  <2>3. SoundIndexer(start)
    BY <2>1, <2>2 DEF SoundIndexer, Truthful
  <2> QED
    BY <1>1, <1>5, <2>3, IndexerGoesOn
<1> QED
  BY <1>3, <1>4, <1>5 DEF ResolveIndex

LEMMA EndsKeep ==
  ASSUME ProvenanceInv, NEW b \in Indexers, NEW p \in Reviewed, NEW skills, NEW failed \in BOOLEAN, NEW lost \in BOOLEAN,
         Ends(b, p, skills, failed, lost), skills \subseteq {s \in SkillsOf(b, p) : s.safe},
         failed \/ lost \/ SkillsOf(b, p) \subseteq skills
  PROVE  ProvenanceInv'
<1> DEFINE x == indexer[b]
           new == {[package |-> p, commit |-> c, skill |-> s] : c \in x.pinnedAt[p], s \in skills}
           y == [x EXCEPT !.left = @ \ {p}, !.records = @ \cup new,
                          !.failures = @ \cup (IF failed THEN {p} ELSE {}), !.lost = @ \cup (IF lost THEN {p} ELSE {})]
<1>1. /\ x.pc = "index" /\ SoundIndexer(x) /\ p \in x.left
      /\ UNCHANGED <<pinnedAt, judgement, index>> /\ pinnedAt \in Catalogs /\ (\A i \in index : SoundIndex(i))
  BY DEF Ends, ProvenanceInv, Still
<1>2. /\ x \in Indexings /\ x.digest = ImmutableCatalogDigest(x.pinnedAt) /\ x.pinnedAt \in Catalogs
      /\ Truthful(x.records, x.digest) /\ Covers(x.records, x.digest, x.left \cup x.failures \cup x.lost)
  BY <1>1 DEF SoundIndexer, NoIndexer, Indexings
<1>3. indexer' = [indexer EXCEPT ![b] = y]
  BY DEF Ends
<1>4. ASSUME NEW c \in x.pinnedAt[p], NEW s \in skills
      PROVE  /\ c \in Revisions /\ <<p, c>> \in x.digest /\ x.pinnedAt[p] = {c} /\ s \in Content[<<p, c>>] /\ s.safe
             /\ [package |-> p, commit |-> c, skill |-> s] \in Records
  <2>1. c \in Revisions /\ <<p, c>> \in x.digest /\ x.pinnedAt[p] = {c}
    BY <1>2, Digested
  <2>2. s \in Content[<<p, c>>] /\ s.safe
    BY <2>1 DEF SkillsOf
  <2>3. s \in SomeSkills
    BY <2>1, <2>2 DEF SomeSkills, PinnedCommits
  <2> QED
    BY <2>1, <2>2, <2>3 DEF Records
<1>5. new \in SUBSET Records /\ Truthful(new, x.digest)
  <2>1. ASSUME NEW r \in new
        PROVE  /\ r \in Records /\ <<r.package, r.commit>> \in x.digest
               /\ r.skill \in Content[<<r.package, r.commit>>] /\ r.skill.safe
    <3>1. PICK c \in x.pinnedAt[p], s \in skills : r = [package |-> p, commit |-> c, skill |-> s]
      OBVIOUS
    <3> QED
      BY <1>4, <3>1
  <2> HIDE DEF new
  <2> QED
    BY <2>1 DEF Truthful
<1>6. ASSUME NEW c \in x.pinnedAt[p], NEW s \in Content[<<p, c>>], ~failed, ~lost
      PROVE  [package |-> p, commit |-> c, skill |-> s] \in new
  <2>1. s \in SkillsOf(b, p)
    BY DEF SkillsOf
  <2> QED
    BY <1>6, <2>1
<1> HIDE DEF new
<1>7. /\ y \in Indexings /\ y.pinnedAt = x.pinnedAt /\ y.digest = x.digest /\ y.left = x.left \ {p}
      /\ y.records = x.records \cup new /\ x.failures \subseteq y.failures /\ x.lost \subseteq y.lost
      /\ (failed \/ lost) => p \in y.failures \cup y.lost
  BY <1>2, <1>5 DEF Indexings
<1> HIDE DEF y
<1>8. Truthful(y.records, y.digest)
  BY <1>2, <1>5, <1>7 DEF Truthful
<1>9. Covers(y.records, y.digest, y.left \cup y.failures \cup y.lost)
  <2> SUFFICES ASSUME NEW q \in Reviewed, NEW c \in Revisions, q \notin y.left \cup y.failures \cup y.lost,
                      <<q, c>> \in y.digest, NEW s \in Content[<<q, c>>]
               PROVE  [package |-> q, commit |-> c, skill |-> s] \in y.records
    BY DEF Covers
  <2>1. CASE q = p
    <3>1. c \in x.pinnedAt[p] /\ ~failed /\ ~lost
      BY <1>2, <1>7, <2>1, Digested
    <3> QED
      BY <1>6, <1>7, <2>1, <3>1
  <2>2. CASE q # p
    <3>1. q \notin x.left \cup x.failures \cup x.lost
      BY <1>7, <2>2
    <3> QED
      BY <1>2, <1>7, <3>1 DEF Covers
  <2> QED
    BY <2>1, <2>2
<1>10. SoundIndexer(y)
  BY <1>2, <1>7, <1>8, <1>9 DEF SoundIndexer
<1> QED
  BY <1>1, <1>3, <1>10, IndexerGoesOn

LEMMA PackageKeeps ==
  ASSUME ProvenanceInv, NEW b \in Indexers, NEW p \in Reviewed,
         IndexPackage(b, p) \/ PackageFails(b, p) \/ DirectoryRemoved(b, p)
  PROVE  ProvenanceInv'
<1>2. CASE IndexPackage(b, p)
  <2> DEFINE skills == {s \in SkillsOf(b, p) : s.safe}
             failed == \E s \in SkillsOf(b, p) : ~s.safe
  <2>1. Ends(b, p, skills, failed, FALSE) /\ failed \in BOOLEAN /\ (failed \/ SkillsOf(b, p) \subseteq skills)
    BY <1>2 DEF IndexPackage
  <2>2. skills \subseteq {s \in SkillsOf(b, p) : s.safe}
    OBVIOUS
  <2> HIDE DEF skills, failed
  <2> QED
    BY <2>1, <2>2, EndsKeep
<1>3. CASE PackageFails(b, p)
  <2>1. Ends(b, p, {}, TRUE, FALSE)
    BY <1>3 DEF PackageFails
  <2> QED
    BY <2>1, EndsKeep
<1>4. CASE DirectoryRemoved(b, p)
  <2>1. PICK found \in SUBSET {s \in SkillsOf(b, p) : s.safe} : Ends(b, p, found, FALSE, TRUE)
    BY <1>4 DEF DirectoryRemoved
  <2> QED
    BY <2>1, EndsKeep
<1> QED
  BY <1>2, <1>3, <1>4

LEMMA IndexWriteKeeps == ASSUME ProvenanceInv, NEW b \in Indexers, WriteIndex(b) PROVE ProvenanceInv'
<1> DEFINE x == indexer[b]
           i == [digest |-> x.digest, records |-> x.records, failures |-> x.failures, lost |-> x.lost]
<1>1. /\ x.pc = "index" /\ SoundIndexer(x) /\ x.left = {} /\ UNCHANGED pinnedAt /\ pinnedAt \in Catalogs
      /\ index' = {i} /\ Judges(b, "refreshed", {i})
  BY DEF WriteIndex, ProvenanceInv, Still
<1>2. /\ x \in Indexings /\ x.digest = ImmutableCatalogDigest(x.pinnedAt) /\ x.pinnedAt \in Catalogs
      /\ Truthful(x.records, x.digest) /\ Covers(x.records, x.digest, x.failures \cup x.lost)
  <2>1. x.left \cup x.failures \cup x.lost = x.failures \cup x.lost
    BY <1>1
  <2> QED
    BY <1>1, <2>1 DEF SoundIndexer, NoIndexer, Indexings
<1>3. i \in Indices /\ i.digest = x.digest /\ i.records = x.records /\ i.failures = x.failures /\ i.lost = x.lost
  BY <1>2 DEF Indexings, Indices
<1> HIDE DEF i
<1>4. SoundIndex(i)
  BY <1>2, <1>3 DEF SoundIndex
<1> QED
  BY <1>1, <1>2, <1>3, <1>4, JudgesKeeps

LEMMA CatalogKeeps ==
  ASSUME ProvenanceInv, CatalogMoves \/ IndexHarmed \/ \E b \in Indexers : IndexerDies(b) PROVE ProvenanceInv'
<1>1. CASE CatalogMoves
  <2>1. PICK p \in Reviewed, c \in {{}} \cup {{x} : x \in Revisions} : pinnedAt' = [pinnedAt EXCEPT ![p] = c]
    BY <1>1 DEF CatalogMoves
  <2>2. pinnedAt' \in Catalogs
    BY <2>1 DEF ProvenanceInv, Catalogs
  <2> QED
    BY <1>1, <2>2, ProvenanceUnchanged DEF CatalogMoves, ProvenanceInv
<1>2. CASE IndexHarmed
  BY <1>2, ProvenanceUnchanged DEF IndexHarmed, ProvenanceInv
<1>3. ASSUME NEW b \in Indexers, IndexerDies(b) PROVE ProvenanceInv'
  <2>1. SoundIndexer(NoIndexer) /\ indexer' = [indexer EXCEPT ![b] = NoIndexer] /\ UNCHANGED <<pinnedAt, index, judgement>>
    BY <1>3 DEF SoundIndexer, IndexerDies, Still
  <2> QED
    BY <2>1, IndexerGoesOn DEF ProvenanceInv
<1> QED
  BY <1>1, <1>2, <1>3

LEMMA ProvenanceInvariant == ASSUME ProvenanceInv, [ProvenanceNext]_provenanceVars PROVE ProvenanceInv'
<1>1. CASE UNCHANGED provenanceVars
  BY <1>1, ProvenanceUnchanged DEF provenanceVars, ProvenanceInv
<1> QED
  BY <1>1, LoadKeeps, ResolveKeeps, IndexWriteKeeps, PackageKeeps, CatalogKeeps DEF ProvenanceNext

-----------------------------------------------------------------------------
(* Alerts. *)

\* A list of ids: each is in it once.
ListOf(s, S) == s \in Seq(S) /\ \A i, j \in DOMAIN s : s[i] = s[j] => i = j
BehindIn(s, j) == {s[m] : m \in (j + 1)..Len(s)}

LEMMA WithoutIs ==
  ASSUME NEW S, NEW s, ListOf(s, S), NEW id
  PROVE  /\ ListOf(Without(s, id), S)
         /\ \A i \in 1..Len(Without(s, id)) : Without(s, id)[i] # id /\ Without(s, id)[i] \in Range(s)
         /\ \A j \in 1..Len(s) : s[j] # id =>
              \E k \in 1..Len(Without(s, id)) : Without(s, id)[k] = s[j] /\ BehindIn(Without(s, id), k) \subseteq BehindIn(s, j)
<1>1. s \in Seq(S) /\ DOMAIN s = 1..Len(s) /\ Len(s) \in Nat /\ (\A i, j \in 1..Len(s) : s[i] = s[j] => i = j)
  BY DEF ListOf
<1>2. CASE ~\E i \in 1..Len(s) : s[i] = id
  BY <1>1, <1>2 DEF Without, ListOf, Range
<1>3. CASE \E i \in 1..Len(s) : s[i] = id
  <2> DEFINE at == CHOOSE i \in DOMAIN s : s[i] = id
             t == Without(s, id)
  <2>1. at \in 1..Len(s) /\ s[at] = id
    BY <1>1, <1>3
  <2>2. t = SubSeq(s, 1, at - 1) \o SubSeq(s, at + 1, Len(s))
    BY <1>1, <1>3 DEF Without, RemoveAt
  <2> HIDE DEF at, t
  <2>3. /\ t \in Seq(S) /\ Len(t) = Len(s) - 1
        /\ \A i \in 1..(Len(s) - 1) : t[i] = IF i < at THEN s[i] ELSE s[i + 1]
    <3> DEFINE u == SubSeq(s, 1, at - 1)
               v == SubSeq(s, at + 1, Len(s))
    <3>1. at \in Nat /\ at >= 1 /\ at <= Len(s) /\ \A i \in 1..Len(s) : s[i] \in S
      BY <1>1, <2>1
    <3>2. u \in Seq(S) /\ Len(u) = at - 1 /\ \A i \in 1..(at - 1) : u[i] = s[i]
      <4>1. \A i \in 1..(at - 1) : s[i] \in S
        BY <1>1, <3>1
      <4>2. /\ u \in Seq(S) /\ Len(u) = (IF 1 <= at - 1 THEN at - 1 - 1 + 1 ELSE 0)
            /\ \A i \in 1..(at - 1 - 1 + 1) : u[i] = s[1 + i - 1]
        BY <3>1, <4>1, SubSeqProperties
      <4> HIDE DEF u
      <4> QED
        BY <3>1, <4>2
    <3>3. v \in Seq(S) /\ Len(v) = Len(s) - at /\ \A i \in 1..(Len(s) - at) : v[i] = s[at + i]
      <4>1. \A i \in (at + 1)..Len(s) : s[i] \in S
        BY <1>1, <3>1
      <4>2. /\ v \in Seq(S) /\ Len(v) = (IF at + 1 <= Len(s) THEN Len(s) - (at + 1) + 1 ELSE 0)
            /\ \A i \in 1..(Len(s) - (at + 1) + 1) : v[i] = s[at + 1 + i - 1]
        BY <1>1, <3>1, <4>1, SubSeqProperties
      <4> HIDE DEF v
      <4>3. \A i \in 1..(Len(s) - at) : i \in 1..(Len(s) - (at + 1) + 1) /\ at + 1 + i - 1 = at + i
        BY <1>1, <3>1
      <4>4. Len(v) = Len(s) - at
        <5>1. Len(s) \in Nat /\ at \in Nat /\ at <= Len(s) /\ Len(v) = (IF at + 1 <= Len(s) THEN Len(s) - (at + 1) + 1 ELSE 0)
          BY <1>1, <3>1, <4>2
        <5>2. CASE at + 1 <= Len(s)
          BY <5>1, <5>2
        <5>3. CASE at = Len(s)
          BY <5>1, <5>3
        <5> QED
          BY <5>1, <5>2, <5>3
      <4>5. \A i \in 1..(Len(s) - at) : v[i] = s[at + i]
        BY <4>2, <4>3
      <4> QED
        BY <4>2, <4>4, <4>5
    <3> HIDE DEF u, v
    <3>4. /\ u \o v \in Seq(S) /\ Len(u \o v) = Len(u) + Len(v)
          /\ \A i \in 1..(Len(u) + Len(v)) : (u \o v)[i] = IF i <= Len(u) THEN u[i] ELSE v[i - Len(u)]
      BY <3>2, <3>3, ConcatProperties
    <3>5. t = u \o v
      BY <2>2 DEF u, v
    <3>6. ASSUME NEW i \in 1..(Len(s) - 1) PROVE t[i] = IF i < at THEN s[i] ELSE s[i + 1]
      <4>1. i \in 1..(Len(u) + Len(v)) /\ i \in Nat
        BY <1>1, <3>1, <3>2, <3>3
      <4>2. CASE i < at
        <5>1. i <= Len(u) /\ i \in 1..(at - 1)
          BY <3>1, <3>2, <4>1, <4>2
        <5> QED
          BY <3>2, <3>4, <3>5, <4>1, <4>2, <5>1
      <4>3. CASE ~(i < at)
        <5>1. ~(i <= Len(u)) /\ i - (at - 1) \in 1..(Len(s) - at) /\ at + (i - (at - 1)) = i + 1 /\ i - Len(u) = i - (at - 1)
          BY <1>1, <3>1, <3>2, <4>1, <4>3
        <5> QED
          BY <3>3, <3>4, <3>5, <4>1, <4>3, <5>1
      <4> QED
        BY <4>2, <4>3
    <3>7. Len(t) = Len(s) - 1
      <4>1. Len(t) = (at - 1) + (Len(s) - at)
        BY <3>2, <3>3, <3>4, <3>5
      <4>2. Len(s) \in Nat /\ at \in Nat
        BY <1>1, <3>1
      <4> QED
        BY <4>1, <4>2
    <3> QED
      BY <3>4, <3>5, <3>6, <3>7
  <2>4. DOMAIN t = 1..(Len(s) - 1)
    BY <2>3
  <2>5. ListOf(t, S)
    BY <1>1, <2>1, <2>3, <2>4 DEF ListOf
  <2>6. \A i \in 1..Len(t) : t[i] # id /\ t[i] \in Range(s)
    BY SMTT(60), <1>1, <2>1, <2>3 DEF Range
  <2>7. ASSUME NEW j \in 1..Len(s), s[j] # id PROVE \E k \in 1..Len(t) : t[k] = s[j] /\ BehindIn(t, k) \subseteq BehindIn(s, j)
    <3>1. CASE j < at
      <4>1. j \in 1..Len(t) /\ t[j] = s[j]
        BY <1>1, <2>1, <2>3, <3>1
      <4>2. \A m \in (j + 1)..Len(t) : \E n \in (j + 1)..Len(s) : t[m] = s[n]
        <5> TAKE m \in (j + 1)..Len(t)
        <5>1. m \in (j + 1)..Len(s) /\ m + 1 \in (j + 1)..Len(s) /\ m \in 1..(Len(s) - 1)
          BY <1>1, <2>3
        <5> QED
          BY <2>3, <5>1
      <4> QED
        BY <4>1, <4>2 DEF BehindIn
    <3>2. CASE j > at
      <4>1. j - 1 \in 1..Len(t) /\ t[j - 1] = s[j]
        BY <1>1, <2>1, <2>3, <3>2
      <4>2. \A m \in ((j - 1) + 1)..Len(t) : \E n \in (j + 1)..Len(s) : t[m] = s[n]
        <5> TAKE m \in ((j - 1) + 1)..Len(t)
        <5>1. m + 1 \in (j + 1)..Len(s) /\ m \in 1..(Len(s) - 1) /\ m >= at
          BY <1>1, <2>1, <2>3, <3>2
        <5> QED
          BY <1>1, <2>1, <2>3, <5>1
      <4> QED
        BY SMTT(60), <4>1, <4>2 DEF BehindIn
    <3> QED
      BY <1>1, <2>1, <2>7, <3>1, <3>2
  <2> QED
    BY <2>5, <2>6, <2>7 DEF t
<1> QED
  BY <1>1, <1>2, <1>3

\* The list with one more id at its end, cut to the most recent.
Relisted(s, id) == MostRecent(Append(Without(s, id), id))
LEMMA RelistedIs ==
  ASSUME NEW S, NEW s, ListOf(s, S), NEW id \in S
  PROVE  /\ ListOf(Relisted(s, id), S) /\ Relisted(s, id) # <<>> /\ Relisted(s, id)[Len(Relisted(s, id))] = id
         /\ \A i \in 1..Len(Relisted(s, id)) : Relisted(s, id)[i] = id \/ Relisted(s, id)[i] \in Range(s)
         /\ \A j \in 1..Len(s) : s[j] # id =>
              \/ \E k \in 1..Len(Relisted(s, id)) :
                   Relisted(s, id)[k] = s[j] /\ BehindIn(Relisted(s, id), k) \subseteq BehindIn(s, j) \cup {id}
              \/ \E u \in Seq(S) : Len(u) >= MaxIgnored /\ ListOf(u, S) /\ Range(u) \subseteq BehindIn(s, j) \cup {id}
<1> DEFINE w == Without(s, id)
           a == Append(w, id)
           t == Relisted(s, id)
<1>1. /\ w \in Seq(S) /\ Len(w) \in Nat /\ ListOf(w, S)
      /\ \A i \in 1..Len(w) : w[i] # id /\ w[i] \in Range(s)
      /\ \A j \in 1..Len(s) : s[j] # id => \E k \in 1..Len(w) : w[k] = s[j] /\ BehindIn(w, k) \subseteq BehindIn(s, j)
  BY WithoutIs DEF ListOf
<1>2. t = IF Len(a) > MaxIgnored THEN Tail(a) ELSE a
  BY DEF Relisted, MostRecent
<1> HIDE DEF w, t
<1>3. /\ a \in Seq(S) /\ Len(a) = Len(w) + 1 /\ a[Len(a)] = id /\ DOMAIN a = 1..(Len(w) + 1)
      /\ \A i \in 1..Len(w) : a[i] = w[i]
  BY <1>1
<1> HIDE DEF a
<1>4. ListOf(a, S)
  <2>1. ASSUME NEW i \in 1..(Len(w) + 1), NEW j \in 1..(Len(w) + 1), a[i] = a[j] PROVE i = j
    <3>1. (i \in 1..Len(w) \/ i = Len(w) + 1) /\ (j \in 1..Len(w) \/ j = Len(w) + 1) /\ DOMAIN w = 1..Len(w)
      BY <1>1
    <3> QED
      BY <1>1, <1>3, <2>1, <3>1 DEF ListOf
  <2> QED
    BY <1>3, <2>1 DEF ListOf
<1>5. ASSUME NEW j \in 1..Len(s), s[j] # id
      PROVE  \E k \in 1..Len(w) : a[k] = s[j] /\ BehindIn(a, k) \subseteq BehindIn(s, j) \cup {id}
  <2>1. PICK k \in 1..Len(w) : w[k] = s[j] /\ BehindIn(w, k) \subseteq BehindIn(s, j)
    BY <1>1, <1>5
  <2>2. \A m \in (k + 1)..Len(a) : (m \in (k + 1)..Len(w) /\ a[m] = w[m]) \/ a[m] = id
    BY <1>1, <1>3
  <2>3. BehindIn(a, k) \subseteq BehindIn(w, k) \cup {id}
    BY <2>2 DEF BehindIn
  <2> QED
    BY <1>3, <2>1, <2>3
<1>6. MaxIgnored \in Nat /\ MaxIgnored >= 1
  BY AlertsAssumption
<1>7. CASE ~(Len(a) > MaxIgnored)
  <2>1. t = a
    BY <1>2, <1>7
  <2>2. \A i \in 1..Len(a) : a[i] = id \/ a[i] \in Range(s)
    BY <1>1, <1>3
  <2>3. a # <<>>
    BY <1>1, <1>3
  <2>4. \A k \in 1..Len(w) : k \in 1..Len(a)
    BY <1>1, <1>3
  <2> QED
    BY <1>3, <1>4, <1>5, <2>1, <2>2, <2>3, <2>4 DEF t
<1>8. CASE Len(a) > MaxIgnored
  <2>1. t = Tail(a) /\ Len(w) >= 1
    BY <1>1, <1>2, <1>3, <1>6, <1>8
  <2>2. /\ t \in Seq(S) /\ Len(t) = Len(w) /\ DOMAIN t = 1..Len(w) /\ \A i \in 1..Len(w) : t[i] = a[i + 1]
    BY <1>1, <1>3, <2>1
  <2>3. ListOf(t, S)
    <3>1. ASSUME NEW i \in 1..Len(w), NEW j \in 1..Len(w), t[i] = t[j] PROVE i = j
      <4>1. i + 1 \in 1..(Len(w) + 1) /\ j + 1 \in 1..(Len(w) + 1) /\ i \in Nat /\ j \in Nat
        BY <1>1
      <4>2. a[i + 1] = a[j + 1]
        BY <2>2, <3>1
      <4>3. i + 1 = j + 1
        BY <1>3, <1>4, <4>1, <4>2 DEF ListOf
      <4> QED
        BY <4>1, <4>3
    <3> QED
      BY <2>2, <3>1 DEF ListOf
  <2>4. t # <<>> /\ t[Len(t)] = id
    BY <1>1, <1>3, <2>1, <2>2
  <2>5. \A i \in 1..Len(t) : t[i] = id \/ t[i] \in Range(s)
    <3> TAKE i \in 1..Len(t)
    <3>1. t[i] = a[i + 1] /\ (i + 1 \in 1..Len(w) \/ i + 1 = Len(a))
      BY <1>1, <1>3, <2>2
    <3> QED
      BY <1>1, <1>3, <3>1
  <2>6. ASSUME NEW j \in 1..Len(s), s[j] # id
        PROVE  \/ \E k \in 1..Len(t) : t[k] = s[j] /\ BehindIn(t, k) \subseteq BehindIn(s, j) \cup {id}
               \/ \E u \in Seq(S) : Len(u) >= MaxIgnored /\ ListOf(u, S) /\ Range(u) \subseteq BehindIn(s, j) \cup {id}
    <3>1. PICK k \in 1..Len(w) : a[k] = s[j] /\ BehindIn(a, k) \subseteq BehindIn(s, j) \cup {id}
      BY <1>5, <2>6
    <3>2. \A m \in (k - 1 + 1)..Len(t) : m \in 1..Len(w) /\ m + 1 \in (k + 1)..Len(a) /\ t[m] = a[m + 1]
      BY <1>1, <1>3, <2>2
    <3>3. BehindIn(t, k - 1) \subseteq BehindIn(a, k)
      BY <3>2 DEF BehindIn
    <3>4. CASE k = 1
      <4>1. Range(t) \subseteq BehindIn(t, 0)
        BY <2>2 DEF Range, BehindIn
      <4>2. Len(t) >= MaxIgnored
        BY <1>1, <1>3, <1>6, <1>8, <2>2
      <4> QED
        BY <2>2, <2>3, <3>1, <3>3, <3>4, <4>1, <4>2
    <3>5. CASE k > 1
      <4>1. k - 1 \in 1..Len(t) /\ t[k - 1] = a[k]
        BY <1>1, <2>2, <3>5
      <4> QED
        BY <3>1, <3>3, <4>1
    <3> QED
      BY <3>4, <3>5
  <2> QED
    BY <2>3, <2>4, <2>5, <2>6 DEF t
<1> QED
  BY <1>1, <1>3, <1>6, <1>7, <1>8

-----------------------------------------------------------------------------
Ops == {"ignore", "pin", "unpin"}
TheFile(f) ==
  /\ f = [ignored |-> f.ignored, pins |-> f.pins]
  /\ ListOf(f.ignored, Range(f.ignored))
  /\ \A one, other \in f.pins : one.package = other.package => one = other
  /\ \A pin \in f.pins : CategoryOf[pin.package] = CategoryOf[pin.replacement]
Told(id) == \E i \in DOMAIN said : said[i].op = "ignore" /\ id \in said[i].fact
DeciderSound(s) ==
  \/ s.pc = "idle"
  \/ s = [pc |-> "list", facts |-> s.facts, marks |-> s.marks] /\ \A id \in UNION s.marks : Told(id)
  \/ /\ s.pc = "read" /\ s.op \in Ops /\ (s.op = "ignore" => s.fact = {s.about})
     /\ s.op = "pin" => CategoryOf[s.about.package] = CategoryOf[s.about.replacement]
  \/ /\ s.pc = "write" /\ TheFile(s.file) /\ s.said.op \in Ops /\ (s.said.op = "ignore" => s.said.fact = {s.said.about})
     /\ \A id \in Range(s.file.ignored) : Told(id) \/ (s.said.op = "ignore" /\ id = s.said.about)
ItemsSound(items) == \A item \in items : item.id = item.fact /\ (item.ignored => Told(item.fact))
\* What was ignored after the i-th decision.
IgnoredLater(i) == {said[k].about : k \in {x \in (i + 1)..Len(said) : said[x].op = "ignore"}}
DecidedAlone ==
  /\ \A c, d \in Deciders : decider[c].pc = "write" /\ decider[d].pc = "write" => c = d
  /\ \A c \in Deciders : decider[c].pc = "write" =>
       decider[c].file = Decided(decisions, decider[c].said.op, decider[c].said.about)
IgnoresStand == \A i \in 1..Len(said) : said[i].op = "ignore" =>
  \/ \E j \in 1..Len(decisions.ignored) :
       decisions.ignored[j] = said[i].about /\ BehindIn(decisions.ignored, j) \subseteq IgnoredLater(i)
  \/ Cardinality(IgnoredLater(i)) >= MaxIgnored
PinsStand ==
  /\ \A i \in 1..Len(said) : said[i].op = "pin" =>
       \/ said[i].about \in decisions.pins
       \/ \E k \in (i + 1)..Len(said) : \/ said[k].op = "unpin" /\ said[k].about = said[i].about.package
                                        \/ said[k].op = "pin" /\ said[k].about.package = said[i].about.package
  /\ \A i \in 1..Len(said) : said[i].op = "unpin" =>
       \/ ~\E pin \in decisions.pins : pin.package = said[i].about
       \/ \E k \in (i + 1)..Len(said) : said[k].op = "pin" /\ said[k].about.package = said[i].about

AlertsInv ==
  /\ decider = [c \in Deciders |-> decider[c]] /\ listed = [c \in Deciders |-> listed[c]]
  /\ said \in Seq(Range(said)) /\ overlapped \in BOOLEAN
  /\ TheFile(decisions) /\ \A id \in Range(decisions.ignored) : Told(id)
  /\ \A c \in Deciders : DeciderSound(decider[c]) /\ ItemsSound(listed[c])
  /\ ~overlapped => DecidedAlone /\ IgnoresStand /\ PinsStand

LEMMA AlertsBegin == AlertsInit => AlertsInv
<1> SUFFICES ASSUME AlertsInit PROVE AlertsInv
  OBVIOUS
<1>1. said = <<>> /\ decisions = NoDecisions /\ overlapped = FALSE /\ decider = [c \in Deciders |-> NoDecider]
      /\ listed = [c \in Deciders |-> {}]
  BY DEF AlertsInit
<1>2. \A S : <<>> \in Seq(S)
  BY EmptySeq, Zenon
<1>3. Len(<<>>) = 0 /\ DOMAIN <<>> = {} /\ Range(<<>>) = {}
  BY DEF Range
<1>4. TheFile(decisions) /\ Range(decisions.ignored) = {}
  BY <1>1, <1>2, <1>3 DEF NoDecisions, TheFile, ListOf
<1>5. \A c \in Deciders : DeciderSound(decider[c]) /\ ItemsSound(listed[c]) /\ decider[c].pc = "idle"
  BY <1>1 DEF NoDecider, DeciderSound, ItemsSound
<1>6. DecidedAlone
  BY <1>5 DEF DecidedAlone
<1>7. IgnoresStand /\ PinsStand
  BY <1>1, <1>3 DEF IgnoresStand, PinsStand
<1> QED
  BY <1>1, <1>2, <1>3, <1>4, <1>5, <1>6, <1>7 DEF AlertsInv

\* A report more.
LEMMA SaidGrows ==
  ASSUME said \in Seq(Range(said)), NEW r, said' = Append(said, r)
  PROVE  /\ said' \in Seq(Range(said')) /\ Len(said) \in Nat /\ Len(said') = Len(said) + 1
         /\ DOMAIN said = 1..Len(said) /\ DOMAIN said' = 1..(Len(said) + 1)
         /\ \A i \in 1..Len(said) : said'[i] = said[i]
         /\ said'[Len(said) + 1] = r
<1> DEFINE S == Range(said) \cup {r}
<1>1. \A i \in 1..Len(said) : said[i] \in Range(said)
  BY DEF Range
<1>2. said \in Seq(S)
  BY <1>1
<1>3. r \in S
  OBVIOUS
<1> HIDE DEF S
<1>4. /\ said' \in Seq(S) /\ Len(said') = Len(said) + 1 /\ DOMAIN said' = 1..(Len(said) + 1)
      /\ \A i \in 1..Len(said) : said'[i] = said[i]
      /\ said'[Len(said) + 1] = r
  BY <1>2, <1>3
<1>5. \A i \in 1..Len(said') : said'[i] \in Range(said')
  BY <1>4 DEF Range
<1>6. said' \in Seq(Range(said'))
  BY <1>4, <1>5
<1> QED
  BY <1>4, <1>6

LEMMA TellsMore ==
  ASSUME said \in Seq(Range(said)), NEW r, said' = Append(said, r)
  PROVE  /\ \A id : Told(id) => Told(id)'
         /\ r.op = "ignore" => \A id \in r.fact : Told(id)'
<1>1. ASSUME NEW id, Told(id) PROVE Told(id)'
  <2>1. PICK i \in 1..Len(said) : said[i].op = "ignore" /\ id \in said[i].fact
    BY <1>1 DEF Told
  <2>2. i \in DOMAIN said' /\ said'[i] = said[i]
    BY SaidGrows
  <2> QED
    BY <2>1, <2>2 DEF Told
<1>2. r.op = "ignore" => \A id \in r.fact : Told(id)'
  <2>1. Len(said) + 1 \in DOMAIN said' /\ said'[Len(said) + 1] = r
    BY SaidGrows
  <2> QED
    BY <2>1 DEF Told
<1> QED
  BY <1>1, <1>2

LEMMA ListsWiden == ASSUME NEW S, NEW s, ListOf(s, S), NEW T, Range(s) \subseteq T PROVE ListOf(s, T)
<1>1. \A i \in 1..Len(s) : s[i] \in T
  BY DEF ListOf, Range
<1> QED
  BY <1>1 DEF ListOf

LEMMA DecidedIs ==
  ASSUME NEW f, TheFile(f), NEW op \in Ops, NEW about,
         op = "pin" => CategoryOf[about.package] = CategoryOf[about.replacement]
  PROVE  /\ TheFile(Decided(f, op, about))
         /\ \A id \in Range(Decided(f, op, about).ignored) : id \in Range(f.ignored) \/ (op = "ignore" /\ id = about)
<1>1. CASE op = "ignore"
  <2> DEFINE S == Range(f.ignored) \cup {about}
             t == Relisted(f.ignored, about)
  <2>1. ListOf(f.ignored, S)
    BY ListsWiden DEF TheFile
  <2>2. ListOf(t, S) /\ \A i \in 1..Len(t) : t[i] = about \/ t[i] \in Range(f.ignored)
    BY <2>1, RelistedIs
  <2>3. Decided(f, op, about) = [ignored |-> t, pins |-> f.pins]
    BY <1>1 DEF Decided, TheFile, Relisted
  <2> HIDE DEF t
  <2>4. ListOf(t, Range(t))
    BY <2>2, ListsWiden
  <2>5. \A id \in Range(t) : id \in Range(f.ignored) \/ id = about
    <3>1. DOMAIN t = 1..Len(t)
      BY <2>2 DEF ListOf
    <3> QED
      BY <2>2, <3>1 DEF Range
  <2> QED
    BY <1>1, <2>3, <2>4, <2>5 DEF TheFile
<1>2. CASE op = "pin"
  <2>1. Decided(f, op, about) = [ignored |-> f.ignored, pins |-> {pin \in f.pins : pin.package # about.package} \cup {about}]
    BY <1>2 DEF Decided, TheFile
  <2> QED
    BY <1>2, <2>1 DEF TheFile
<1>3. CASE op = "unpin"
  <2>1. Decided(f, op, about) = [ignored |-> f.ignored, pins |-> {pin \in f.pins : pin.package # about}]
    BY <1>3 DEF Decided, TheFile
  <2> QED
    BY <2>1 DEF TheFile
<1> QED
  BY <1>1, <1>2, <1>3 DEF Ops

\* A decider goes on without writing; what was decided stays.
LEMMA DeciderGoesOn ==
  ASSUME AlertsInv, UNCHANGED <<decisions, said, overlapped>>, NEW c \in Deciders, NEW s, DeciderSound(s), s.pc # "write",
         decider' = [decider EXCEPT ![c] = s],
         listed' = [d \in Deciders |-> listed'[d]], \A d \in Deciders : ItemsSound(listed'[d])
  PROVE  AlertsInv'
<1>1. decider' = [d \in Deciders |-> decider'[d]] /\ \A d \in Deciders : decider'[d] = IF d = c THEN s ELSE decider[d]
  BY DEF AlertsInv
<1>2. \A d \in Deciders : DeciderSound(decider'[d]) /\ (decider'[d].pc = "write" => decider'[d] = decider[d])
  BY <1>1 DEF AlertsInv
<1>3. \A x : (DeciderSound(x) => DeciderSound(x)') /\ (ItemsSound(x) => ItemsSound(x)')
  BY DEF DeciderSound, ItemsSound, Told
<1>4. \A d \in Deciders : DeciderSound(decider[d])' /\ ItemsSound(listed[d])'
  BY <1>2, <1>3
<1>5. ASSUME ~overlapped PROVE DecidedAlone'
  <2>1. DecidedAlone /\ decisions' = decisions
    BY <1>5 DEF AlertsInv
  <2>2. \A d \in Deciders : decider'[d].pc = "write" =>
          decider[d].pc = "write" /\ decider'[d].file = decider[d].file /\ decider'[d].said = decider[d].said
    BY <1>2
  <2>3. \A d, e \in Deciders : decider'[d].pc = "write" /\ decider'[e].pc = "write" => d = e
    BY <2>1, <2>2 DEF DecidedAlone
  <2>4. \A d \in Deciders : decider'[d].pc = "write" =>
          decider'[d].file = Decided(decisions', decider'[d].said.op, decider'[d].said.about)
    BY <2>1, <2>2 DEF DecidedAlone
  <2> QED
    BY <2>3, <2>4 DEF DecidedAlone
<1>6. ASSUME ~overlapped PROVE IgnoresStand' /\ PinsStand'
  <2>1. IgnoresStand /\ PinsStand /\ decisions' = decisions /\ said' = said
    BY <1>6 DEF AlertsInv
  <2>2. \A i : IgnoredLater(i)' = IgnoredLater(i)
    BY <2>1 DEF IgnoredLater
  <2>3. IgnoresStand'
    BY <2>1, <2>2 DEF IgnoresStand
  <2> QED
    BY <2>1, <2>3 DEF PinsStand
<1>7. \A id \in Range(decisions.ignored) : Told(id)'
  BY DEF AlertsInv, Told
<1> QED
  BY <1>1, <1>4, <1>5, <1>6, <1>7 DEF AlertsInv

LEMMA DecisionsStandThen == AlertsInv => DecisionsStand
<1> SUFFICES ASSUME AlertsInv PROVE DecisionsStand
  OBVIOUS
<1>1. \A c \in Deciders : \A item \in listed[c] : item.ignored =>
        \E i \in DOMAIN said : said[i].op = "ignore" /\ item.fact \in said[i].fact
  BY DEF AlertsInv, ItemsSound, Told
<1>2. DOMAIN said = 1..Len(said)
  BY DEF AlertsInv
<1>3. ASSUME ~overlapped, NEW i \in 1..Len(said), said[i].op = "ignore"
      PROVE  said[i].about \in Range(decisions.ignored) \/ Cardinality(IgnoredLater(i)) >= MaxIgnored
  <2>1. DOMAIN decisions.ignored = 1..Len(decisions.ignored)
    BY DEF AlertsInv, TheFile, ListOf
  <2> QED
    BY <1>3, <2>1 DEF AlertsInv, IgnoresStand, Range
<1>4. ~overlapped => PinsStand
  BY DEF AlertsInv
<1> QED
  BY <1>1, <1>2, <1>3, <1>4 DEF DecisionsStand, AlertsInv, TheFile, IgnoredLater, PinsStand

-----------------------------------------------------------------------------
LEMMA LaterFinite == ASSUME said \in Seq(Range(said)), NEW i \in Nat PROVE IsFiniteSet(IgnoredLater(i))
<1> DEFINE D == {x \in (i + 1)..Len(said) : said[x].op = "ignore"}
           g == [k \in D |-> said[k].about]
<1>1. IsFiniteSet(D)
  <2>1. IsFiniteSet((i + 1)..Len(said))
    BY FS_Interval
  <2>2. D \in SUBSET ((i + 1)..Len(said))
    OBVIOUS
  <2> QED
    BY <2>1, <2>2, FS_Subset, Zenon
<1>2. g \in Surjection(D, IgnoredLater(i))
  <2>1. IgnoredLater(i) = {said[k].about : k \in D}
    BY DEF IgnoredLater
  <2>2. g \in [D -> IgnoredLater(i)] /\ \A y \in IgnoredLater(i) : \E k \in D : g[k] = y
    BY <2>1
  <2> QED
    BY <2>2 DEF Surjection
<1> QED
  BY <1>1, <1>2, FS_Surjection

LEMMA EnoughIn ==
  ASSUME NEW T, IsFiniteSet(T), NEW S, NEW u \in Seq(S), ListOf(u, S), Range(u) \subseteq T
  PROVE  Cardinality(T) >= Len(u)
<1>1. DOMAIN u = 1..Len(u) /\ Len(u) \in Nat
  OBVIOUS
<1>2. u \in [1..Len(u) -> T]
  <2>1. \A i \in 1..Len(u) : u[i] \in T
    BY <1>1 DEF Range
  <2>2. u \in Seq(T)
    BY <2>1
  <2> QED
    BY <1>1, <2>2
<1>3. u \in Injection(1..Len(u), T)
  <2>1. \A i, j \in 1..Len(u) : u[i] = u[j] => i = j
    BY <1>1 DEF ListOf
  <2> DEFINE I == 1..Len(u)
  <2>2. u \in [I -> T] /\ \A i, j \in I : u[i] = u[j] => i = j
    BY <1>2, <2>1
  <2> HIDE DEF I
  <2>3. u \in Injection(I, T)
    BY <2>2 DEF Injection, IsInjective
  <2> QED
    BY <2>3 DEF I
<1>4. Cardinality(1..Len(u)) = Len(u)
  BY <1>1, FS_Interval
<1>5. Cardinality(1..Len(u)) <= Cardinality(T)
  BY <1>3, FS_Injection
<1>6. Cardinality(T) \in Nat
  BY FS_CardinalityType
<1> QED
  BY <1>1, <1>4, <1>5, <1>6

LEMMA LaterGrows ==
  ASSUME said \in Seq(Range(said)), NEW r, said' = Append(said, r), NEW i \in 1..Len(said)
  PROVE  IgnoredLater(i)' = IgnoredLater(i) \cup (IF r.op = "ignore" THEN {r.about} ELSE {})
<1>1. /\ Len(said) \in Nat /\ Len(said') = Len(said) + 1 /\ said'[Len(said) + 1] = r
      /\ \A k \in 1..Len(said) : said'[k] = said[k]
  BY SaidGrows
<1>2. \A k : k \in (i + 1)..Len(said') <=> (k \in (i + 1)..Len(said) \/ k = Len(said) + 1)
  BY <1>1
<1>3. \A k \in (i + 1)..Len(said) : said'[k] = said[k] /\ k # Len(said) + 1
  BY <1>1
<1>4. \A x : x \in IgnoredLater(i)' <=> \E k \in (i + 1)..Len(said') : said'[k].op = "ignore" /\ x = said'[k].about
  BY DEF IgnoredLater
<1>5. \A x : x \in IgnoredLater(i) <=> \E k \in (i + 1)..Len(said) : said[k].op = "ignore" /\ x = said[k].about
  BY DEF IgnoredLater
<1>6. \A x : x \in IgnoredLater(i)' <=> (x \in IgnoredLater(i) \/ (r.op = "ignore" /\ x = r.about))
  BY <1>1, <1>2, <1>3, <1>4, <1>5
<1> QED
  BY <1>6

\* An ignored alert stays in the file, or as many others were ignored since.
LEMMA IgnoresGoOn ==
  ASSUME said \in Seq(Range(said)), TheFile(decisions), IgnoresStand, NEW r, r.op \in Ops,
         said' = Append(said, r), decisions' = Decided(decisions, r.op, r.about)
  PROVE  IgnoresStand'
<1>1. /\ Len(said) \in Nat /\ Len(said') = Len(said) + 1 /\ said'[Len(said) + 1] = r
      /\ \A k \in 1..Len(said) : said'[k] = said[k]
  BY SaidGrows
<1>2. \A i \in 1..Len(said') : i \in 1..Len(said) \/ i = Len(said) + 1
  BY <1>1
<1>3. CASE r.op = "ignore"
  <2> DEFINE s == decisions.ignored
             id == r.about
             t == Relisted(s, id)
             S == Range(s) \cup {id}
  <2>1. decisions' = [ignored |-> t, pins |-> decisions.pins]
    BY <1>3 DEF Decided, TheFile, Relisted
  <2>2. decisions'.ignored = t
    BY <2>1
  <2>3. ListOf(s, S)
    BY ListsWiden DEF TheFile
  <2>4. /\ ListOf(t, S) /\ t # <<>> /\ t[Len(t)] = id
        /\ \A j \in 1..Len(s) : s[j] # id =>
              \/ \E k \in 1..Len(t) : t[k] = s[j] /\ BehindIn(t, k) \subseteq BehindIn(s, j) \cup {id}
              \/ \E u \in Seq(S) : Len(u) >= MaxIgnored /\ ListOf(u, S) /\ Range(u) \subseteq BehindIn(s, j) \cup {id}
    <3>1. id \in S
      OBVIOUS
    <3> HIDE DEF S, s, id, t
    <3>2. /\ ListOf(Relisted(s, id), S) /\ Relisted(s, id) # <<>> /\ Relisted(s, id)[Len(Relisted(s, id))] = id
          /\ \A i \in 1..Len(Relisted(s, id)) : Relisted(s, id)[i] = id \/ Relisted(s, id)[i] \in Range(s)
          /\ \A j \in 1..Len(s) : s[j] # id =>
               \/ \E k \in 1..Len(Relisted(s, id)) :
                    Relisted(s, id)[k] = s[j] /\ BehindIn(Relisted(s, id), k) \subseteq BehindIn(s, j) \cup {id}
               \/ \E u \in Seq(S) : Len(u) >= MaxIgnored /\ ListOf(u, S) /\ Range(u) \subseteq BehindIn(s, j) \cup {id}
      BY <2>3, <3>1, RelistedIs, Zenon
    <3> QED
      BY <3>2, Zenon DEF t
  <2> HIDE DEF S, t
  <2>5. Len(t) \in 1..Len(t) /\ Len(t) \in Nat /\ BehindIn(t, Len(t)) = {}
    <3>1. Len(t) \in Nat /\ Len(t) >= 1
      BY <2>4 DEF ListOf
    <3>2. (Len(t) + 1)..Len(t) = {}
      BY <3>1
    <3> QED
      BY <3>1, <3>2 DEF BehindIn
  <2>6. ASSUME NEW i \in 1..Len(said), said[i].op = "ignore"
        PROVE  (\E j \in 1..Len(t) : t[j] = said[i].about /\ BehindIn(t, j) \subseteq IgnoredLater(i)')
              \/ Cardinality(IgnoredLater(i)') >= MaxIgnored
    <3>1. IgnoredLater(i)' = IgnoredLater(i) \cup {id}
      BY <1>3, LaterGrows
    <3>2. IsFiniteSet(IgnoredLater(i)) /\ IsFiniteSet(IgnoredLater(i) \cup {id})
      <4>1. i \in Nat
        BY <1>1
      <4> QED
        BY <4>1, LaterFinite, FS_AddElement
    <3>3. CASE said[i].about = id
      BY <2>4, <2>5, <3>3
    <3>4. CASE Cardinality(IgnoredLater(i)) >= MaxIgnored
      <4>1. Cardinality(IgnoredLater(i)) <= Cardinality(IgnoredLater(i) \cup {id})
        BY <3>2, FS_Subset
      <4>2. Cardinality(IgnoredLater(i)) \in Nat /\ Cardinality(IgnoredLater(i) \cup {id}) \in Nat /\ MaxIgnored \in Nat
        BY <3>2, FS_CardinalityType, AlertsAssumption
      <4> QED
        BY <3>1, <3>4, <4>1, <4>2
    <3>5. ASSUME NEW j \in 1..Len(s), s[j] = said[i].about, BehindIn(s, j) \subseteq IgnoredLater(i), said[i].about # id
          PROVE  (\E k \in 1..Len(t) : t[k] = said[i].about /\ BehindIn(t, k) \subseteq IgnoredLater(i)')
                \/ Cardinality(IgnoredLater(i)') >= MaxIgnored
      <4>1. CASE \E k \in 1..Len(t) : t[k] = s[j] /\ BehindIn(t, k) \subseteq BehindIn(s, j) \cup {id}
        BY <3>1, <3>5, <4>1
      <4>2. ASSUME NEW u \in Seq(S), Len(u) >= MaxIgnored, ListOf(u, S), Range(u) \subseteq BehindIn(s, j) \cup {id}
            PROVE  Cardinality(IgnoredLater(i)') >= MaxIgnored
        <5>1. Range(u) \subseteq IgnoredLater(i) \cup {id}
          BY <3>5, <4>2
        <5>2. Cardinality(IgnoredLater(i) \cup {id}) >= Len(u)
          BY <3>2, <4>2, <5>1, EnoughIn
        <5>3. Cardinality(IgnoredLater(i) \cup {id}) \in Nat /\ MaxIgnored \in Nat /\ Len(u) \in Nat
          BY <3>2, FS_CardinalityType, AlertsAssumption
        <5> QED
          BY <3>1, <4>2, <5>2, <5>3
      <4> QED
        BY <2>4, <3>5, <4>1, <4>2
    <3> QED
      BY <2>6, <3>3, <3>4, <3>5 DEF IgnoresStand
  <2>7. t[Len(t)] = r.about /\ BehindIn(t, Len(t)) = {} /\ Len(t) \in 1..Len(t)
    BY <2>4, <2>5
  <2>8. ASSUME NEW i \in 1..Len(said'), said'[i].op = "ignore"
        PROVE  (\E j \in 1..Len(t) : t[j] = said'[i].about /\ BehindIn(t, j) \subseteq IgnoredLater(i)')
              \/ Cardinality(IgnoredLater(i)') >= MaxIgnored
    <3>1. CASE i \in 1..Len(said)
      <4>1. said'[i] = said[i]
        BY <1>1, <3>1
      <4> QED
        BY <2>6, <2>8, <3>1, <4>1
    <3>2. CASE i = Len(said) + 1
      <4>1. said'[i] = r
        BY <1>1, <3>2
      <4> QED
        BY <2>7, <3>2, <4>1
    <3> QED
      BY <1>2, <3>1, <3>2
  <2> QED
    BY <2>2, <2>8 DEF IgnoresStand
<1>4. CASE r.op # "ignore"
  <2>1. decisions'.ignored = decisions.ignored
    BY <1>4 DEF Decided, TheFile, Ops
  <2>2. \A i \in 1..Len(said) : IgnoredLater(i)' = IgnoredLater(i)
    BY <1>4, LaterGrows
  <2> QED
    BY <1>1, <1>2, <1>4, <2>1, <2>2 DEF IgnoresStand
<1> QED
  BY <1>3, <1>4

LEMMA PinsGoOn ==
  ASSUME said \in Seq(Range(said)), TheFile(decisions), PinsStand, NEW r, r.op \in Ops,
         said' = Append(said, r), decisions' = Decided(decisions, r.op, r.about)
  PROVE  PinsStand'
<1> DEFINE new == Len(said) + 1
<1>1. /\ Len(said) \in Nat /\ Len(said') = new /\ said'[new] = r
      /\ \A k \in 1..Len(said) : said'[k] = said[k]
  BY SaidGrows
<1>2. \A i \in 1..Len(said') : i \in 1..Len(said) \/ i = new
  BY <1>1
<1>3. \A i \in 1..Len(said) : new \in (i + 1)..Len(said') /\ \A k \in (i + 1)..Len(said) :
        k \in (i + 1)..Len(said') /\ said'[k] = said[k]
  BY <1>1
<1>4. /\ r.op = "ignore" => decisions'.pins = decisions.pins
      /\ r.op = "pin" => decisions'.pins = {pin \in decisions.pins : pin.package # r.about.package} \cup {r.about}
      /\ r.op = "unpin" => decisions'.pins = {pin \in decisions.pins : pin.package # r.about}
  BY DEF Decided, TheFile
<1> HIDE DEF new
<1>5. ASSUME NEW i \in 1..Len(said), said[i].op = "pin"
      PROVE  \/ said[i].about \in decisions'.pins
             \/ \E k \in (i + 1)..Len(said') : \/ said'[k].op = "unpin" /\ said'[k].about = said[i].about.package
                                               \/ said'[k].op = "pin" /\ said'[k].about.package = said[i].about.package
  <2>1. CASE \E k \in (i + 1)..Len(said) : \/ said[k].op = "unpin" /\ said[k].about = said[i].about.package
                                           \/ said[k].op = "pin" /\ said[k].about.package = said[i].about.package
    BY <1>3, <2>1
  <2>2. CASE said[i].about \in decisions.pins
    BY <1>1, <1>3, <1>4, <2>2 DEF Ops
  <2> QED
    BY <1>5, <2>1, <2>2 DEF PinsStand
<1>6. ASSUME NEW i \in 1..Len(said), said[i].op = "unpin"
      PROVE  \/ ~\E pin \in decisions'.pins : pin.package = said[i].about
             \/ \E k \in (i + 1)..Len(said') : said'[k].op = "pin" /\ said'[k].about.package = said[i].about
  <2>1. CASE \E k \in (i + 1)..Len(said) : said[k].op = "pin" /\ said[k].about.package = said[i].about
    BY <1>3, <2>1
  <2>2. CASE ~\E pin \in decisions.pins : pin.package = said[i].about
    BY <1>1, <1>3, <1>4, <2>2 DEF Ops
  <2> QED
    BY <1>6, <2>1, <2>2 DEF PinsStand
<1>7. r.op = "pin" => r.about \in decisions'.pins
  BY <1>4
<1>8. r.op = "unpin" => ~\E pin \in decisions'.pins : pin.package = r.about
  BY <1>4
<1> QED
  BY SMTT(60), <1>1, <1>2, <1>5, <1>6, <1>7, <1>8 DEF PinsStand

LEMMA DecisionWriteKeeps == ASSUME AlertsInv, NEW c \in Deciders, WriteDecisions(c) PROVE AlertsInv'
<1> DEFINE r == decider[c].said
<1>1. decider[c].pc = "write" /\ decisions' = decider[c].file /\ said' = Append(said, r)
      /\ decider' = [decider EXCEPT ![c] = NoDecider] /\ UNCHANGED <<listed, overlapped>>
  BY DEF WriteDecisions
<1>2. /\ TheFile(decider[c].file) /\ r.op \in Ops /\ (r.op = "ignore" => r.fact = {r.about})
      /\ \A id \in Range(decider[c].file.ignored) : Told(id) \/ (r.op = "ignore" /\ id = r.about)
  <2>1. DeciderSound(decider[c])
    BY DEF AlertsInv
  <2>2. decider[c] # [pc |-> "list", facts |-> decider[c].facts, marks |-> decider[c].marks]
    BY <1>1
  <2> QED
    BY <1>1, <2>1, <2>2 DEF DeciderSound
<1> HIDE DEF r
<1>3. said \in Seq(Range(said)) /\ said' \in Seq(Range(said'))
  BY <1>1, SaidGrows DEF AlertsInv
<1>4. \A id : (Told(id) => Told(id)') /\ (r.op = "ignore" /\ id = r.about => Told(id)')
  BY <1>1, <1>2, <1>3, TellsMore
<1>5. \A d \in Deciders : decider'[d] = IF d = c THEN NoDecider ELSE decider[d]
  BY <1>1 DEF AlertsInv
<1>6. decider' = [d \in Deciders |-> decider'[d]]
  BY <1>1 DEF AlertsInv
<1>7. \A x : (DeciderSound(x) => DeciderSound(x)') /\ (ItemsSound(x) => ItemsSound(x)')
  BY <1>4 DEF DeciderSound, ItemsSound
<1>8. \A d \in Deciders : DeciderSound(decider[d])' /\ ItemsSound(listed[d])'
  <2>1. DeciderSound(NoDecider)
    BY DEF DeciderSound, NoDecider
  <2> QED
    BY <1>1, <1>5, <1>7, <2>1 DEF AlertsInv
<1>9. TheFile(decisions)' /\ \A id \in Range(decisions'.ignored) : Told(id)'
  BY <1>1, <1>2, <1>4 DEF TheFile
<1>10. ASSUME ~overlapped PROVE DecidedAlone' /\ IgnoresStand' /\ PinsStand'
  <2>1. DecidedAlone /\ IgnoresStand /\ PinsStand /\ TheFile(decisions)
    BY <1>10 DEF AlertsInv
  <2>2. decisions' = Decided(decisions, r.op, r.about)
    BY <1>1, <2>1 DEF DecidedAlone, r
  <2>3. \A d \in Deciders : decider'[d].pc # "write"
    BY <1>1, <1>5, <2>1 DEF DecidedAlone, NoDecider
  <2>4. DecidedAlone'
    BY <2>3 DEF DecidedAlone
  <2>5. IgnoresStand'
    BY <1>1, <1>2, <1>3, <2>1, <2>2, IgnoresGoOn
  <2>6. PinsStand'
    BY <1>1, <1>2, <1>3, <2>1, <2>2, PinsGoOn
  <2> QED
    BY <2>4, <2>5, <2>6
<1> QED
  BY <1>1, <1>3, <1>6, <1>8, <1>9, <1>10 DEF AlertsInv

LEMMA DecisionReadKeeps == ASSUME AlertsInv, NEW c \in Deciders, ReadDecisions(c) PROVE AlertsInv'
<1> DEFINE me == decider[c]
           next == Decided(decisions, me.op, me.about)
           report == [op |-> me.op, about |-> me.about, fact |-> me.fact]
           n == [pc |-> "write", file |-> next, said |-> report]
<1>1. /\ me.pc = "read" /\ overlapped' = (overlapped \/ \E d \in Deciders : decider[d].pc = "write")
      /\ decider' = [decider EXCEPT ![c] = IF me.op = "unpin" /\ next = decisions THEN NoDecider ELSE n]
      /\ UNCHANGED <<decisions, listed, said>>
  BY DEF ReadDecisions
<1>2. /\ me.op \in Ops /\ (me.op = "ignore" => me.fact = {me.about})
      /\ me.op = "pin" => CategoryOf[me.about.package] = CategoryOf[me.about.replacement]
  <2>1. DeciderSound(me)
    BY DEF AlertsInv
  <2>2. me # [pc |-> "list", facts |-> me.facts, marks |-> me.marks]
    BY <1>1
  <2> HIDE DEF me
  <2> QED
    BY <1>1, <2>1, <2>2 DEF DeciderSound
<1>3. TheFile(next) /\ \A id \in Range(next.ignored) : id \in Range(decisions.ignored) \/ (me.op = "ignore" /\ id = me.about)
  <2>1. TheFile(decisions)
    BY DEF AlertsInv
  <2> HIDE DEF me
  <2> QED
    BY <1>2, <2>1, DecidedIs
<1>4. /\ n.pc = "write" /\ n.file = next /\ n.said = report
      /\ report.op = me.op /\ report.about = me.about /\ report.fact = me.fact
  OBVIOUS
<1> HIDE DEF me, next, report, n
<1>5. DeciderSound(n) /\ DeciderSound(NoDecider) /\ NoDecider.pc = "idle"
  BY <1>2, <1>3, <1>4 DEF AlertsInv, DeciderSound, NoDecider
<1> DEFINE s == IF me.op = "unpin" /\ next = decisions THEN NoDecider ELSE n
<1>6. DeciderSound(s) /\ (s.pc = "write" => s = n)
  BY <1>4, <1>5
<1> HIDE DEF s
<1>7. decider' = [d \in Deciders |-> decider'[d]] /\ \A d \in Deciders : decider'[d] = IF d = c THEN s ELSE decider[d]
  BY <1>1 DEF AlertsInv, s
<1>8. \A x : (DeciderSound(x) => DeciderSound(x)') /\ (ItemsSound(x) => ItemsSound(x)')
  BY <1>1 DEF DeciderSound, ItemsSound, Told
<1>9. \A d \in Deciders : DeciderSound(decider[d])' /\ ItemsSound(listed[d])'
  BY <1>1, <1>6, <1>7, <1>8 DEF AlertsInv
<1>10. overlapped' \in BOOLEAN
  BY <1>1 DEF AlertsInv
<1>11. ASSUME ~overlapped' PROVE DecidedAlone' /\ IgnoresStand' /\ PinsStand'
  <2>1. ~overlapped /\ \A d \in Deciders : decider[d].pc # "write"
    BY <1>1, <1>11
  <2>2. IgnoresStand /\ PinsStand /\ decisions' = decisions /\ said' = said
    BY <1>1, <2>1 DEF AlertsInv
  <2>3. \A i : IgnoredLater(i)' = IgnoredLater(i)
    BY <2>2 DEF IgnoredLater
  <2>4. IgnoresStand'
    BY <2>2, <2>3 DEF IgnoresStand
  <2>5. PinsStand'
    BY <2>2 DEF PinsStand
  <2>6. \A d \in Deciders : decider'[d].pc = "write" => d = c /\ decider'[d] = n
    BY <1>6, <1>7, <2>1
  <2>7. n.file = Decided(decisions', n.said.op, n.said.about)
    BY <1>4, <2>2 DEF next
  <2>8. DecidedAlone'
    BY <2>6, <2>7 DEF DecidedAlone
  <2> QED
    BY <2>4, <2>5, <2>8
<1>12. TheFile(decisions)' /\ \A id \in Range(decisions'.ignored) : Told(id)'
  BY <1>1 DEF AlertsInv, TheFile, Told
<1>13. said' \in Seq(Range(said')) /\ listed' = [d \in Deciders |-> listed'[d]]
  BY <1>1 DEF AlertsInv
<1> QED
  BY <1>7, <1>9, <1>10, <1>11, <1>12, <1>13 DEF AlertsInv

LEMMA ListingKeeps ==
  ASSUME AlertsInv, NEW c \in Deciders, ListAlerts(c) \/ ReadWorld(c) \/ ReadMarks(c) \/ ShowAlerts(c) PROVE AlertsInv'
<1>1. DeciderSound(decider[c]) /\ \A d \in Deciders : ItemsSound(listed[d])
  BY DEF AlertsInv
<1>2. CASE ListAlerts(c)
  <2> DEFINE n == [pc |-> "list", facts |-> {}, marks |-> {}]
  <2>1. DeciderSound(n) /\ n.pc # "write"
    BY DEF DeciderSound
  <2> HIDE DEF n
  <2> QED
    BY <1>1, <1>2, <2>1, DeciderGoesOn DEF ListAlerts, Decides, AlertsInv, n
<1>3. ASSUME decider[c].pc = "list"
      PROVE  /\ decider[c] = [pc |-> "list", facts |-> decider[c].facts, marks |-> decider[c].marks]
             /\ \A id \in UNION decider[c].marks : Told(id)
  BY <1>1, <1>3 DEF DeciderSound
<1>4. CASE ReadWorld(c)
  <2>1. PICK updates \in BOOLEAN : decider' = [decider EXCEPT ![c].facts = {PackageAlerts(world, updates)}]
    BY <1>4 DEF ReadWorld
  <2> DEFINE n == [pc |-> "list", facts |-> {PackageAlerts(world, updates)}, marks |-> decider[c].marks]
  <2>2. decider[c] = [pc |-> "list", facts |-> decider[c].facts, marks |-> decider[c].marks]
    BY <1>3, <1>4 DEF ReadWorld
  <2>3. decider' = [decider EXCEPT ![c] = n]
    <3> DEFINE what == {PackageAlerts(world, updates)}
               me == decider[c]
    <3>1. me = [pc |-> "list", facts |-> me.facts, marks |-> me.marks]
      BY <2>2
    <3>2. decider' = [decider EXCEPT ![c] = [me EXCEPT !.facts = what]]
      BY <2>1
    <3> HIDE DEF what, me
    <3>3. [me EXCEPT !.facts = what] = [pc |-> "list", facts |-> what, marks |-> me.marks]
      BY <3>1
    <3> QED
      BY <3>2, <3>3 DEF what, me
  <2>4. DeciderSound(n) /\ n.pc # "write"
    BY <1>3, <1>4 DEF DeciderSound, ReadWorld
  <2> HIDE DEF n
  <2> QED
    BY <1>1, <1>4, <2>3, <2>4, DeciderGoesOn DEF ReadWorld, AlertsInv
<1>5. CASE ReadMarks(c)
  <2> DEFINE n == [pc |-> "list", facts |-> decider[c].facts, marks |-> {Range(decisions.ignored)}]
  <2>1. decider[c] = [pc |-> "list", facts |-> decider[c].facts, marks |-> decider[c].marks]
    BY <1>3, <1>5 DEF ReadMarks
  <2>2. decider' = [decider EXCEPT ![c].marks = {Range(decisions.ignored)}]
    BY <1>5 DEF ReadMarks
  <2>3. decider' = [decider EXCEPT ![c] = n]
    <3> DEFINE what == {Range(decisions.ignored)}
               me == decider[c]
    <3>1. me = [pc |-> "list", facts |-> me.facts, marks |-> me.marks]
      BY <2>1
    <3>2. decider' = [decider EXCEPT ![c] = [me EXCEPT !.marks = what]]
      BY <2>2
    <3> HIDE DEF what, me
    <3>3. [me EXCEPT !.marks = what] = [pc |-> "list", facts |-> me.facts, marks |-> what]
      BY <3>1
    <3> QED
      BY <3>2, <3>3 DEF what, me
  <2>4. DeciderSound(n) /\ n.pc # "write"
    BY DEF DeciderSound, AlertsInv
  <2> HIDE DEF n
  <2> QED
    BY <1>1, <1>5, <2>3, <2>4, DeciderGoesOn DEF ReadMarks, AlertsInv
<1>6. CASE ShowAlerts(c)
  <2> DEFINE items == {[id |-> AlertId(f), fact |-> f, ignored |-> AlertId(f) \in UNION decider[c].marks]
        : f \in UNION decider[c].facts}
  <2>1. listed' = [listed EXCEPT ![c] = items] /\ decider' = [decider EXCEPT ![c] = NoDecider] /\ decider[c].pc = "list"
    BY <1>6 DEF ShowAlerts
  <2>2. ItemsSound(items)
    <3> DEFINE marked == UNION decider[c].marks
               facts == UNION decider[c].facts
    <3>1. \A f \in marked : Told(f)
      BY <1>3, <2>1
    <3> HIDE DEF marked
    <3>2. ASSUME NEW item \in items PROVE item.id = item.fact /\ (item.ignored => Told(item.fact))
      <4>1. PICK f \in facts : item = [id |-> AlertId(f), fact |-> f, ignored |-> AlertId(f) \in marked]
        BY DEF marked
      <4> QED
        BY <3>1, <4>1 DEF AlertId
    <3> QED
      BY <3>2 DEF ItemsSound
  <2> HIDE DEF items
  <2>3. listed' = [d \in Deciders |-> listed'[d]] /\ \A d \in Deciders : ItemsSound(listed'[d])
    BY <1>1, <2>1, <2>2 DEF AlertsInv
  <2>4. DeciderSound(NoDecider) /\ NoDecider.pc # "write"
    BY DEF DeciderSound, NoDecider
  <2> QED
    BY <1>6, <2>1, <2>3, <2>4, DeciderGoesOn DEF ShowAlerts
<1> QED
  BY <1>2, <1>4, <1>5, <1>6

LEMMA DecidingKeeps ==
  ASSUME AlertsInv, NEW c \in Deciders,
         IgnoreFreshnessAlert(c) \/ PinReplacement(c) \/ UnpinReplacement(c) \/ DeciderDies(c)
  PROVE  AlertsInv'
<1>1. \A d \in Deciders : ItemsSound(listed[d])
  BY DEF AlertsInv
<1>2. ASSUME NEW n, Decides(c, n), DeciderSound(n), n.pc = "read" PROVE AlertsInv'
  BY <1>1, <1>2, DeciderGoesOn DEF Decides, AlertsInv
<1>3. CASE IgnoreFreshnessAlert(c)
  <2>1. PICK u \in Deciders : \E item \in listed[u] :
          Decides(c, [pc |-> "read", op |-> "ignore", about |-> item.id, fact |-> {item.fact}])
    BY <1>3 DEF IgnoreFreshnessAlert
  <2>2. PICK item \in listed[u] : Decides(c, [pc |-> "read", op |-> "ignore", about |-> item.id, fact |-> {item.fact}])
    BY <2>1
  <2> DEFINE n == [pc |-> "read", op |-> "ignore", about |-> item.id, fact |-> {item.fact}]
  <2>3. item.id = item.fact
    BY <1>1 DEF ItemsSound
  <2>4. DeciderSound(n) /\ n.pc = "read"
    BY <2>3 DEF DeciderSound, Ops
  <2> HIDE DEF n
  <2> QED
    BY <1>2, <2>2, <2>4 DEF n
<1>4. CASE PinReplacement(c)
  <2>1. PICK p \in Kept, r \in Kept :
          /\ CategoryOf[p] = CategoryOf[r]
          /\ Decides(c, [pc |-> "read", op |-> "pin", about |-> [package |-> p, replacement |-> r], fact |-> {}])
    BY <1>4 DEF PinReplacement
  <2> DEFINE n == [pc |-> "read", op |-> "pin", about |-> [package |-> p, replacement |-> r], fact |-> {}]
  <2>2. DeciderSound(n) /\ n.pc = "read"
    BY <2>1 DEF DeciderSound, Ops
  <2> HIDE DEF n
  <2> QED
    BY <1>2, <2>1, <2>2 DEF n
<1>5. CASE UnpinReplacement(c)
  <2>1. PICK p \in Kept : Decides(c, [pc |-> "read", op |-> "unpin", about |-> p, fact |-> {}])
    BY <1>5 DEF UnpinReplacement
  <2> DEFINE n == [pc |-> "read", op |-> "unpin", about |-> p, fact |-> {}]
  <2>2. DeciderSound(n) /\ n.pc = "read"
    BY DEF DeciderSound, Ops
  <2> HIDE DEF n
  <2> QED
    BY <1>2, <2>1, <2>2 DEF n
<1>6. CASE DeciderDies(c)
  <2>1. DeciderSound(NoDecider) /\ NoDecider.pc # "write"
    BY DEF DeciderSound, NoDecider
  <2> QED
    BY <1>1, <1>6, <2>1, DeciderGoesOn DEF DeciderDies, AlertsInv
<1> QED
  BY <1>3, <1>4, <1>5, <1>6

LEMMA AlertsInvariant == ASSUME AlertsInv, [AlertsNext]_alertVars PROVE AlertsInv'
<1>1. ASSUME UNCHANGED <<decisions, decider, listed, said, overlapped>> PROVE AlertsInv'
  <2>1. \A x : (DeciderSound(x) => DeciderSound(x)') /\ (ItemsSound(x) => ItemsSound(x)') /\ (Told(x) => Told(x)')
    BY <1>1 DEF DeciderSound, ItemsSound, Told
  <2>2. \A d \in Deciders : DeciderSound(decider[d])' /\ ItemsSound(listed[d])'
    BY <1>1, <2>1 DEF AlertsInv
  <2>3. \A i : IgnoredLater(i)' = IgnoredLater(i)
    BY <1>1 DEF IgnoredLater
  <2>4. ~overlapped => DecidedAlone' /\ IgnoresStand' /\ PinsStand'
    <3>1. ~overlapped => DecidedAlone'
      BY <1>1 DEF AlertsInv, DecidedAlone
    <3>2. ~overlapped => IgnoresStand'
      BY <1>1, <2>3 DEF AlertsInv, IgnoresStand
    <3>3. ~overlapped => PinsStand'
      BY <1>1 DEF AlertsInv, PinsStand
    <3> QED
      BY <3>1, <3>2, <3>3
  <2>5. TheFile(decisions)' /\ \A id \in Range(decisions'.ignored) : Told(id)'
    BY <1>1, <2>1 DEF AlertsInv, TheFile
  <2> QED
    BY <1>1, <2>2, <2>4, <2>5 DEF AlertsInv
<1>2. CASE UNCHANGED alertVars
  BY <1>1, <1>2 DEF alertVars
<1>3. CASE WorldTurns
  BY <1>1, <1>3 DEF WorldTurns
<1>4. ASSUME NEW c \in Deciders,
             \/ ListAlerts(c) \/ ReadWorld(c) \/ ReadMarks(c) \/ ShowAlerts(c)
             \/ IgnoreFreshnessAlert(c) \/ PinReplacement(c) \/ UnpinReplacement(c)
             \/ ReadDecisions(c) \/ WriteDecisions(c) \/ DeciderDies(c)
      PROVE  AlertsInv'
  BY <1>4, ListingKeeps, DecidingKeeps, DecisionReadKeeps, DecisionWriteKeeps
<1> QED
  BY <1>2, <1>3, <1>4 DEF AlertsNext

-----------------------------------------------------------------------------
(* The theorems. *)

\* Growth that is reported is the difference of two counts GitHub had, at least
\* as far apart as is said (discovery feed, promotion queue and stars history).
THEOREM GrowthIsReal == GrowthSpec => [](GrowthTypeOK /\ GrowthIsMeasured)
<1>1. GrowthInv /\ [GrowthNext]_growthVars => GrowthInv'
  BY GrowthInvariant
<1> QED
  BY <1>1, GrowthBegins, GrowthTypes, GrowthMeasured, PTL DEF GrowthSpec

\* An answer that a search gives as complete is complete, one that says where to go
\* on has all there is before, and what stands in for it was complete once
\* (discoverOfficialMcpRegistry, discoverSkillsSh).
THEOREM AnswersAreWhole == ConnectorSpec => [](ConnectorTypeOK /\ AnswersAddUp)
<1>1. ConnectorInv /\ [ConnectorNext]_linkVars => ConnectorInv'
  BY ConnectorInvariant
<1> QED
  BY <1>1, ConnectorBegins, ConnectorTypes, AnswersAdd, PTL DEF ConnectorSpec

\* A proposal rests on what its commit holds, unless a directory was disturbed while
\* it was reviewed or had files in it that git ignores (proposeCandidate).
THEOREM ProposalsHaveEvidence == ReviewSpec => [](ReviewTypeOK /\ AdmittedOnEvidence)
<1>1. ReviewInv /\ [ReviewNext]_reviewVars => ReviewInv'
  BY ReviewInvariant
<1>2. ReviewInv => AdmittedOnEvidence
  BY DEF ReviewInv
<1> QED
  BY <1>1, <1>2, ReviewBegins, ReviewTypes, PTL DEF ReviewSpec

\* What is activated fits the limit that was asked for, whatever others enabled or
\* added since the proposal was made (applyProjectActivation).
THEOREM ActivationsFit == SelectionSpec => LimitHolds
<1>1. LimitInv /\ [SelectionNext]_selectionVars => LimitInv'
  BY LimitInvariant
<1>2. LimitInv /\ [SelectionNext]_selectionVars =>
        [\A p \in Planners, h \in Hosts :
           Activate(p) => Total(h)' <= planner[p].limit + (own[h] - planner[p].found[h])]_selectionVars
  BY KeepsToLimit
<1> QED
  BY <1>1, <1>2, LimitBegins, PTL DEF SelectionSpec, LimitHolds

\* A version that was published stays what it was, whichever publishers overlap or die,
\* until someone edits it; a cached directory has nothing but the files of its digest,
\* and lacks some only where a fetcher removes it, or gave up removing it
\* (publishLocalPackage, fetchRemoteRegistryPackage).
THEOREM VersionsAreImmutable == RegistrySpec => []VersionsAreKept
<1>1. RegistryInv /\ [RegistryNext]_registryVars => RegistryInv'
  BY RegistryInvariant
<1>2. RegistryInit => RegistryInv
  BY ShelfBegins, RemoteBegins DEF RegistryInv
<1> QED
  BY <1>1, <1>2, VersionsKept, PTL DEF RegistrySpec

\* A source is named for an installed skill only when a reviewed commit holds it
\* (enrichInventoryWithProvenance).
THEOREM SourcesAreJustified == ProvenanceSpec => []ProvenanceJustified
<1>1. ProvenanceInv /\ [ProvenanceNext]_provenanceVars => ProvenanceInv'
  BY ProvenanceInvariant
<1> QED
  BY <1>1, ProvenanceBegins, Justified, PTL DEF ProvenanceSpec

\* Alerts are hidden, and replacements pinned, as users said last
\* (buildFreshnessAlerts, ignoreFreshnessAlert, pinReplacement, unpinReplacement).
THEOREM UsersDecide == AlertsSpec => []DecisionsStand
<1>1. AlertsInv /\ [AlertsNext]_alertVars => AlertsInv'
  BY AlertsInvariant
<1> QED
  BY <1>1, AlertsBegin, DecisionsStandThen, PTL DEF AlertsSpec

AllDiscovery ==
  /\ ConnectorInv /\ GrowthInv /\ ReviewInv /\ LimitInv /\ RegistryInv /\ ProvenanceInv /\ AlertsInv

LEMMA DiscoveryBegins == MCInit => AllDiscovery
BY ConnectorBegins, GrowthBegins, ReviewBegins, LimitBegins, ShelfBegins, RemoteBegins, ProvenanceBegins, AlertsBegin
   DEF MCInit, AllDiscovery, RegistryInv

LEMMA DiscoveryGoesOn == AllDiscovery /\ [MCNext]_MCVars => AllDiscovery'
<1> SUFFICES ASSUME AllDiscovery, [MCNext]_MCVars PROVE AllDiscovery'
  OBVIOUS
<1>1. /\ [ConnectorNext]_linkVars /\ [GrowthNext]_growthVars /\ [ReviewNext]_reviewVars
      /\ [SelectionNext]_selectionVars /\ [RegistryNext]_registryVars
      /\ [ProvenanceNext]_provenanceVars /\ [AlertsNext]_alertVars
  <2>1. CASE MCNext
    BY <2>1, Zenon DEF MCNext, GrowthNext, RegistryNext
  <2>2. CASE UNCHANGED MCVars
    BY <2>2, Zenon DEF MCVars
  <2> QED
    BY <2>1, <2>2
<1> QED
  BY <1>1, ConnectorInvariant, GrowthInvariant, ReviewInvariant, LimitInvariant, RegistryInvariant,
     ProvenanceInvariant, AlertsInvariant DEF AllDiscovery

\* The instance that is checked (MCDiscovery), for all constants: answers, growth,
\* and decisions about alerts.
THEOREM AnswersAreHonest == MCSpec => []AnswersHold
<1>1. AllDiscovery => AnswersHold
  BY ConnectorTypes, GrowthTypes, AnswersAdd, DecisionsStandThen DEF AllDiscovery, AnswersHold
<1> QED
  BY <1>1, DiscoveryBegins, DiscoveryGoesOn, PTL DEF MCSpec

\* The same of proposals and of the sources that are named for installed skills.
THEOREM EvidenceIsHeld == MCSpec => []EvidenceHolds
<1>1. AllDiscovery => EvidenceHolds
  BY ReviewTypes, Justified DEF AllDiscovery, EvidenceHolds, ReviewInv
<1> QED
  BY <1>1, DiscoveryBegins, DiscoveryGoesOn, PTL DEF MCSpec
=============================================================================
