----------------------------- MODULE Connector ------------------------------
(***************************************************************************)
(* The connectors that read leads from listings of others: the Official    *)
(* MCP Registry by cursor (src/core/discovery/mcp-registry-discovery.ts)   *)
(* and skills.sh by page number (skills-sh-discovery.ts), both over        *)
(* discovery-connector.ts.  One search walks over the pages until the      *)
(* listing ends, a bound is met or a request fails, and answers with what  *)
(* it has, where to go on, and what went wrong; a complete answer is kept  *)
(* and stands in for later ones that bring nothing.  A page is known by    *)
(* its place: the cursor of page n is n.                                   *)
(***************************************************************************)
EXTENDS Naturals, Sequences, FiniteSets, SequencesExt

CONSTANTS
  Entries,       \* what a page may have: records, or "bad"
  Layouts,       \* the listings a query may have: their pages
  Queries,       \* searches of the registry, views of skills.sh
  RecordLimits, PageLimits, \* values of maxRecords and maxPages
  MaxRedirects,  \* redirects of one request
  MaxSearches    \* bound: searches

(* A listing has a first page. *)
ASSUME ConnectorAssumption == Layouts \subseteq Seq(Seq(Entries)) \ {<<>>}

VARIABLES
  listing,  \* what each query lists
  search,   \* the search under way
  answer,   \* the last answer
  kept,     \* the cache files
  searches

linkVars == <<listing, search, answer, kept, searches>>

Bad == "bad"
Places(q) == 0..Len(listing[q])
Found(q, from, to) ==
  (UNION {ToSet(listing[q][place]) : place \in from..to}) \ {Bad}

ConnectorTypeOK ==
  /\ listing \in [Queries -> Layouts] /\ Cardinality(search) <= 1 /\ Cardinality(answer) <= 1
  /\ \A s \in search : s.cursor \in Places(s.query) /\ s.seen \subseteq Places(s.query)
  /\ \A a \in answer : a.status \in {"complete", "partial", "cached", "unavailable"} /\ a.next \in Places(a.query)
  /\ \A k \in kept : \A other \in kept : (k.source = other.source /\ k.query = other.query) => k = other

ConnectorInit ==
  listing \in [Queries -> Layouts] /\ search = {} /\ answer = {} /\ kept = {} /\ searches = 0

-----------------------------------------------------------------------------
Goes(s, pc) == search' = {[s EXCEPT !.pc = pc]}
Becomes(s) == search' = {s}

Continuations(source, q) ==
  {a.next : a \in {b \in answer : source = "registry" /\ b.source = source /\ b.query = q /\ b.next # 0}}
(* A search of the registry may go on where an earlier one ended; without a *)
(* token, skills.sh is not asked at all.                                     *)
BeginSearch ==
  /\ search = {} /\ searches < MaxSearches /\ searches' = searches + 1 /\ UNCHANGED <<listing, answer, kept>>
  /\ \E source \in {"registry", "skills"}, q \in Queries, limit \in RecordLimits, pages \in PageLimits :
     \E start \in {1} \cup Continuations(source, q),
        pc \in IF source = "skills" THEN {"loop", "fallback"} ELSE {"loop"} :
       Becomes([pc |-> pc, source |-> source, query |-> q, start |-> start, limit |-> limit, pages |-> pages,
                cursor |-> start, seen |-> {}, hops |-> 0, page |-> 0, todo |-> <<>>, following |-> 0,
                records |-> {}, cut |-> FALSE, failed |-> FALSE,
                issues |-> IF pc = "fallback" THEN {"authentication"} ELSE {}])

(* The head of the loop over pages; a cursor that comes back ends it. *)
NextPage == \E s \in search :
  /\ s.pc = "loop" /\ UNCHANGED <<listing, answer, kept, searches>>
  /\ IF s.cursor = 0 \/ s.page = s.pages \/ Cardinality(s.records) >= s.limit THEN Goes(s, "finish")
     ELSE IF s.cursor \in s.seen
     THEN Becomes([s EXCEPT !.pc = "finish", !.issues = @ \cup {"replay"}, !.failed = TRUE])
     ELSE Becomes([s EXCEPT !.pc = "request", !.seen = @ \cup {s.cursor}, !.hops = 0])

(* fetchBoundedJson: redirects within the origin are followed. *)
FollowRedirect == \E s \in search :
  /\ s.pc = "request" /\ s.hops < MaxRedirects /\ Becomes([s EXCEPT !.hops = @ + 1])
  /\ UNCHANGED <<listing, answer, kept, searches>>
(* Timeout, status, size, a redirect too many, JSON or envelope. *)
RequestFails == \E s \in search :
  /\ s.pc = "request" /\ Becomes([s EXCEPT !.pc = "finish", !.issues = @ \cup {"failed"}, !.failed = TRUE])
  /\ UNCHANGED <<listing, answer, kept, searches>>

PageAfter(s) == IF s.cursor < Len(listing[s.query]) THEN s.cursor + 1 ELSE 0
(* skills.sh may not send an empty page and say that there are more; the *)
(* registry may send any cursor it has sent before.                      *)
PageArrives == \E s \in search :
  /\ s.pc = "request" /\ UNCHANGED <<listing, answer, kept, searches>>
  /\ s.source = "skills" => (listing[s.query][s.cursor] # <<>> \/ PageAfter(s) = 0)
  /\ \E following \in {PageAfter(s)} \cup (IF s.source = "registry" THEN s.seen \ {1} ELSE {}) :
       Becomes([s EXCEPT !.pc = "records", !.todo = listing[s.query][s.cursor], !.following = following])

(* truncatedWithinPage: the rest of this page has not been looked at. *)
StopsWithin(todo) == Len(todo) > 1

TakeRecord == \E s \in search :
  /\ s.pc = "records" /\ s.todo # <<>> /\ UNCHANGED <<listing, answer, kept, searches>>
  /\ LET record == Head(s.todo)
         full == Cardinality(s.records) + 1 >= s.limit
     IN IF record = Bad THEN Becomes([s EXCEPT !.todo = Tail(@), !.issues = @ \cup {"invalid"}])
        ELSE IF record \in s.records THEN Becomes([s EXCEPT !.todo = Tail(@), !.issues = @ \cup {"duplicate"}])
        ELSE Becomes([s EXCEPT !.records = @ \cup {record}, !.cut = full /\ StopsWithin(s.todo),
                               !.todo = IF full THEN <<>> ELSE Tail(@)])
EndPage == \E s \in search :
  /\ s.pc = "records" /\ s.todo = <<>> /\ UNCHANGED <<listing, answer, kept, searches>>
  /\ Becomes([s EXCEPT !.pc = "loop", !.page = @ + 1, !.cursor = IF s.cut THEN 0 ELSE s.following])

Answers(s, status, records, next) ==
  /\ answer' = {[source |-> s.source, query |-> s.query, start |-> s.start, status |-> status,
                 records |-> records, next |-> next]}
  /\ search' = {}

(* Nothing but trouble falls back on the cache; no trouble is kept. *)
EndSearch == \E s \in search :
  /\ s.pc = "finish" /\ UNCHANGED <<listing, kept, searches>>
  /\ LET issues == s.issues \cup (IF ~s.failed /\ (s.cut \/ s.cursor # 0) THEN {"limit"} ELSE {})
     IN CASE issues = {} -> Goes(s, "keep") /\ UNCHANGED answer
          [] issues # {} /\ s.records = {} -> Goes(s, "fallback") /\ UNCHANGED answer
          [] OTHER -> Answers(s, "partial", s.records, s.cursor)

(* The registry has one cache file, skills.sh one per view. *)
SameCache(k, s) == k.source = s.source /\ (s.source = "skills" => k.query = s.query)
KeepAnswer == \E s \in search :
  /\ s.pc = "keep" /\ UNCHANGED <<listing, searches>>
  /\ \/ /\ kept' = {k \in kept : ~SameCache(k, s)}
                   \cup {[source |-> s.source, query |-> s.query, start |-> s.start, records |-> s.records]}
        /\ Answers(s, "complete", s.records, 0)
     \/ UNCHANGED kept /\ Answers(s, "partial", s.records, 0)
FallBack == \E s \in search :
  /\ s.pc = "fallback" /\ UNCHANGED <<listing, kept, searches>>
  /\ \/ \E k \in kept : SameCache(k, s) /\ Answers(s, "cached", k.records, 0)
     \/ ~(\E k \in kept : SameCache(k, s)) /\ Answers(s, "unavailable", {}, 0)

ConnectorNext ==
  \/ BeginSearch \/ NextPage \/ FollowRedirect \/ RequestFails \/ PageArrives \/ TakeRecord \/ EndPage
  \/ EndSearch \/ KeepAnswer \/ FallBack

ConnectorSpec == ConnectorInit /\ [][ConnectorNext]_linkVars

-----------------------------------------------------------------------------
(* Properties. *)

(* An answer does not hide what it left out.  A complete one has every record   *)
(* of the listing from where it started, one that says where to go on has every *)
(* record before that place - whichever bound, failure, repeated cursor or      *)
(* duplicate ended it - and what stands in for it was such an answer once       *)
(* (discoverOfficialMcpRegistry, discoverSkillsSh).  It may have been the       *)
(* answer to another query, or have started in the middle of the listing.       *)
AnswersAddUp == \A a \in answer :
  /\ a.status = "complete" => a.records = Found(a.query, a.start, Len(listing[a.query]))
  /\ a.next # 0 => Found(a.query, a.start, a.next - 1) \subseteq a.records
  /\ a.status = "cached" =>
       \E k \in kept : SameCache(k, a) /\ a.records = Found(k.query, k.start, Len(listing[k.query]))
=============================================================================
