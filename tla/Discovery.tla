----------------------------- MODULE Discovery ------------------------------
(***************************************************************************)
(* How Loadout tells whether a repository is growing: the daily feed       *)
(* (scripts/daily-discovery.mjs), the review queue (review-queue.ts), and  *)
(* the star history of the catalog (catalog.ts refreshCatalog,             *)
(* observations.ts).  Each keeps counts of earlier days in a file that it  *)
(* reads, changes and writes back; only the feed runs one at a time.  The  *)
(* module follows one repository: others matter only in that they may fill *)
(* the feed.  Time goes in half days.                                      *)
(***************************************************************************)
EXTENDS Integers, FiniteSets, FiniteSetsExt

CONSTANTS
  Counts,          \* numbers of stars
  Finders,         \* processes that run `discover --queue` or `catalog --refresh`
  Retention,       \* RETENTION_DAYS
  MaxObservations, \* MAX_OBSERVATIONS
  MaxTime, MaxFinds \* bounds: half days, commands

ASSUME GrowthAssumption == Counts \subseteq Nat /\ MaxTime \in Nat

VARIABLES
  now,
  stars,   \* GitHub's count at every time
  feed, queue, history, \* the repository's item in the files
  finder,     \* what each process is doing
  finds,
  dated       \* every count in the history was fetched for it

growthVars == <<now, stars, feed, queue, history, finder, finds, dated>>

DayOf(time) == time \div 2
Count(at, n) == [at |-> at, stars |-> n]
Latest(counts) == {c \in counts : \A other \in counts : other.at <= c.at}

GrowthTypeOK ==
  /\ now \in 0..MaxTime /\ stars \in [0..MaxTime -> Counts]
  /\ Cardinality(feed) <= 1 /\ Cardinality(queue) <= 1
  /\ history \subseteq [at : 0..MaxTime, stars : Counts]
  /\ \A p \in Finders : finder[p].pc \in {"idle", "read", "write", "release"}

GrowthInit ==
  /\ now = 0 /\ stars \in [0..MaxTime -> Counts]
  /\ feed = {} /\ queue = {} /\ history = {}
  /\ finder = [p \in Finders |-> [pc |-> "idle"]] /\ finds = 0 /\ dated = TRUE

Tick ==
  /\ now < MaxTime /\ now' = now + 1
  /\ UNCHANGED <<stars, feed, queue, history, finder, finds, dated>>

-----------------------------------------------------------------------------
(* The daily feed: a day's search finds the repository or does not, and the *)
(* cap may leave the item out.                                              *)

Within(counts, day) ==
  LET recent == {c \in counts : day - c.at <= Retention}
  IN {c \in recent : Cardinality({later \in recent : later.at > c.at}) < MaxObservations}
Baseline(observations, day) == Latest({c \in observations : c.at # day /\ day - c.at >= 1})

FoundItem(prior, day) ==
  LET before == UNION {item.observations : item \in prior}
      observations == Within({c \in before : c.at # day} \cup {Count(day, stars[now])}, day)
  IN [lastSeen |-> day, observations |-> observations,
      growth |-> {[gain |-> stars[now] - c.stars, from |-> c.at, to |-> day] : c \in Baseline(observations, day)}]
KeptItems(prior, day) ==
  {[item EXCEPT !.observations = Within(@, day)] : item \in {i \in prior : day - i.lastSeen <= Retention}}

BuildArtifact ==
  /\ feed' \in {{FoundItem(feed, DayOf(now))}, KeptItems(feed, DayOf(now)), {}}
  /\ UNCHANGED <<now, stars, queue, history, finder, finds, dated>>

-----------------------------------------------------------------------------
(* The review queue: mergeReviewQueue and setReviewDecision. *)
Begins(p, command) ==
  /\ finder[p].pc = "idle" /\ finds < MaxFinds /\ finds' = finds + 1
  /\ finder' = [finder EXCEPT ![p] = command]

(* The time is taken before the queue is read. *)
BeginMerge(p) ==
  /\ \E lead \in {{Count(now, stars[now])}, {}} : Begins(p, [pc |-> "read", lead |-> lead])
  /\ UNCHANGED <<now, stars, feed, queue, history, dated>>
ReadReviewQueue(p) ==
  /\ finder[p].pc = "read"
  /\ finder' = [finder EXCEPT ![p] = [pc |-> "write", lead |-> @.lead, items |-> queue]]
  /\ UNCHANGED <<now, stars, feed, queue, history, finds, dated>>

(* Mutant: a refresh within the day moves the baseline. *)
MovesOn(item, lead) ==
  CASE lead.at - item.base.at >= 2 ->
         [base |-> lead, since |-> item.since, last |-> lead.at,
          growth |-> {[gain |-> lead.stars - item.base.stars, from |-> item.base.at, to |-> lead.at]}]
    [] OTHER -> [item EXCEPT !.base = lead, !.last = lead.at]
(* A baseline of a day or more measures, a younger one waits, and one from *)
(* the future (a command that took its time earlier) gives way.            *)
Measured(item, lead) ==
  CASE lead.at - item.base.at >= 2 ->
         [base |-> lead, since |-> item.since, last |-> lead.at,
          growth |-> {[gain |-> lead.stars - item.base.stars, from |-> item.base.at, to |-> lead.at]}]
    [] lead.at - item.base.at = 1 -> [item EXCEPT !.last = lead.at]
    [] OTHER -> [item EXCEPT !.base = lead, !.last = lead.at]

(* A lead without a count, and a decision, leave the measurement alone. *)
MergeReviewQueue(p) ==
  /\ finder[p].pc = "write" /\ finder' = [finder EXCEPT ![p] = [pc |-> "idle"]]
  /\ queue' = IF finder[p].lead = {} THEN finder[p].items
              ELSE {Measured(item, lead) : item \in finder[p].items, lead \in finder[p].lead}
                   \cup {[base |-> lead, since |-> lead.at, last |-> lead.at, growth |-> {}] :
                           lead \in {l \in finder[p].lead : finder[p].items = {}}}
  /\ UNCHANGED <<now, stars, feed, history, finds, dated>>

-----------------------------------------------------------------------------
(* catalog --refresh: the count, then the release, then the history. *)

(* What is bundled, or was cached, stands in for a request that fails. *)
RefreshCatalog(p) ==
  /\ \E at \in 0..now : Begins(p, [pc |-> "release", count |-> Count(at, stars[at])])
  /\ UNCHANGED <<now, stars, feed, queue, history, dated>>

(* One observation for a day; without an answer about releases, none. *)
RecordObservation(p) ==
  /\ finder[p].pc = "release" /\ finder' = [finder EXCEPT ![p] = [pc |-> "idle"]]
  /\ \/ /\ history' = {c \in history : DayOf(c.at) # DayOf(now)} \cup {Count(now, finder[p].count.stars)}
        /\ dated' = (dated /\ DayOf(finder[p].count.at) = DayOf(now))
     \/ UNCHANGED <<history, dated>>
  /\ UNCHANGED <<now, stars, feed, queue, finds>>

QueueNext == \E p \in Finders : BeginMerge(p) \/ ReadReviewQueue(p) \/ MergeReviewQueue(p)
HistoryNext == \E p \in Finders : RefreshCatalog(p) \/ RecordObservation(p)
GrowthNext == Tick \/ BuildArtifact \/ QueueNext \/ HistoryNext

GrowthSpec == GrowthInit /\ [][GrowthNext]_growthVars

-----------------------------------------------------------------------------
(* Properties. *)

(* What is called measured growth was measured: it is the difference of two     *)
(* counts that GitHub had a day or more apart, however often a day is repeated, *)
(* counts expire, commands overlap and write back what they read, and answers   *)
(* come from different sources (buildArtifact, mergeReviewQueue; "never         *)
(* mislabelled as measured velocity", docs/CANDIDATE_INTELLIGENCE.md:34).  And  *)
(* a queue that has known a count for a day has a measurement: refreshing more  *)
(* often does not put it off.  The history has one count a day, GitHub's on     *)
(* that day as long as no request failed (README).                              *)
GrowthIsMeasured ==
  /\ \A item \in feed : \A g \in item.growth : g.from < g.to /\
       \E first \in 0..now, second \in 0..now :
         DayOf(first) = g.from /\ DayOf(second) = g.to /\ stars[second] - stars[first] = g.gain
  /\ \A item \in queue :
       /\ \A g \in item.growth : g.to - g.from >= 2 /\ stars[g.to] - stars[g.from] = g.gain
       /\ item.last - item.since >= 2 => item.growth # {}
  /\ \A c \in history : \A other \in history : DayOf(c.at) = DayOf(other.at) => c = other
  /\ dated => \A c \in history : \E at \in 0..now : DayOf(at) = DayOf(c.at) /\ stars[at] = c.stars
=============================================================================
