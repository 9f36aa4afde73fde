# A TLA+ model of loadout

Loadout installs skills and MCP servers for coding agents, and lets several
agents (Claude Code, Codex) work on one project side by side. Most of it is
hard in the same way: a command reads files, plans, and acts on them later,
while other commands, agents and editors go on, processes die between two
steps, and requests fail. This directory models those parts in TLA+, checks
them with TLC, and proves what matters most about the shared core with TLAPS.

Run a check with `tlc -config MCCoordLog.cfg MCCoordLog.tla` and a proof with
`tlapm CoordLogProofs.tla`, in this directory. `PROJECT.json` lists every run,
the source lines every definition stands for, the hazards the properties are
about, and for every property a fault in the model that breaks it.

## 1. The system

### Agents that work together

| Component | Source (under `src/src/`) | State it keeps | Operations | Hard because of |
|---|---|---|---|---|
| Coordination log | `core/coordination/{coordinator,retention,events}.ts` | `.handoff/coordination.jsonl`, its archives | emit, claim, release, publish, ack, compact; replayed views | check-then-append, log rewriting, numbers that must not be reused |
| Coordination lock | `core/coordination/lock.ts` | queue per process, `coordination.lock` | call, compete, recover, release | dying holders, recovery of stale files, deadlines |
| Kill switch | `core/coordination/crash-recovery.ts` | `KILL_SWITCH` | activate, deactivate | looked at before, acted on later |
| Session manager, bridge | `core/coordination/session-manager.ts`, `commands/coordination-sessions.ts` | sessions, queue, turn counts in memory; `sessions.json` | attach, resume, route, submit, flush, save | interleaved awaits, failing turns, restarts |
| Daemon, watcher | `core/coordination/{daemon,watcher,auth,http-api}.ts` | SSE clients, cursor, pid and token file, port | start, stop, subscribe, broadcast | backlog against broadcast, two daemons, late `fs.watch` |
| Bridge lease | `core/coordination/bridge-lease.ts` | `bridge.lock` | acquire, release | stale lease removed by path |
| Discussions, pipeline, handoff tasks | `core/coordination/{discussion,discussion-pipeline}.ts`, `core/delegation/handoff.ts` | events of a thread, `messages.jsonl` | lead, record failure, dispatch, settle | failing halfway, dispatching twice, torn lines |
| Boundaries | `core/coordination/{quick-start,git-ownership,conflict-preview,auto-contract}.ts` | none of their own: claims and contracts of the log | set up, preview, detect, publish | many reads and appends in a row |
| Handoff sending | `core/delegation/*.ts`, `commands/catalog-workflows.ts` | templates, pickup blocks, bundles | save, apply, bundle, send | users' edits, withdrawal after a failure |

### What is installed

| Component | Source | State it keeps | Operations | Hard because of |
|---|---|---|---|---|
| File lock | `core/install/file-lock.ts` | lock file, `.reclaim` directory | acquire, heartbeat, reclaim, release | reused pids, several recoverers |
| Mutation transactions | `core/install/{transaction,snapshot}.ts` | journals, snapshots, managed files | mutate, complete, abort, recover, roll back | death or failure at every step |
| Install state, active set, package lifecycle | `core/install/`, `core/workspace/{state,active-set}.ts` | `state.json`, active skills, library | install, enable, disable, accept, update, remove, adopt, reconcile, sync, uninstall | a plan made without the lock and applied under it |
| Runtime tools | `core/agents/runtime-tools.ts` | `runtime-tools.json`, runtimes, skills | install, remove | no lock and no journal |
| Native scheduler | `core/runtime/scheduler.ts` | unit files, the system's jobs | schedule, unschedule | a system that no snapshot can restore |
| MCP and model configuration, recipes | `core/runtime/{mcp,mcp-recipes,model-config}.ts`, `core/agents/codex-mcp.ts`, `core/install/remove.ts` | entries in files of others | plan, write, remove, verify | previews that grow old, servers that babble |
| Credentials | `core/agents/credentials.ts` | the system's store (external) | get, set, delete | child processes, sizes, newlines |

### Which packages a project gets

| Component | Source | State it keeps | Operations | Hard because of |
|---|---|---|---|---|
| Discovery connectors | `core/discovery/*-discovery.ts` | a cache of a complete answer | search | pages, bounds, failures, cursors that repeat |
| Growth measurement | `scripts/daily-discovery.mjs`, `core/discovery/review-queue.ts`, `core/catalog/{catalog,observations}.ts` | three files of counts | run, merge, refresh | repeated and missed days, overlapping commands |
| Candidate review, repository cache | `core/discovery/candidate-intelligence.ts`, `core/install/source.ts` | dossiers, proposals, cached snapshots | inspect, propose, fetch | moving branches, edited evidence |
| Provenance, freshness alerts | `core/catalog/provenance.ts`, `core/reporting/freshness-alerts.ts` | an index, a file of decisions | index, match; list, ignore, pin | stale indexes, partial evidence |
| Activation policy | `core/workspace/active-policy.ts` | none | plan, apply | a limit that others use up |
| Manifest, sync plan | `core/workspace/manifest.ts`, `core/install/sync.ts` | `loadout.json` | edit, expand, order | dependencies met twice |
| Package registries | `core/catalog/registry.ts` | versions, a cache | publish, resolve, fetch | copies that are not atomic |
| Agent health score | `core/agents/{agent-health-score,health-score-evidence}.ts` | none | collect, score | evidence that changes while it is read |

How they meet: every mutation of the coordination log is one critical section of
the coordination lock, which first looks at the kill switch. The watcher reads
the log without the lock and calls the session manager and the daemon back.
The session manager has no lock; its calls interleave at every `await`. A bridge
or a design room holds the bridge lease. Discussions and boundaries are sequences
of such critical sections with nothing around them. Install, update, enable and
the like plan without a lock and then run inside `runMutationTransaction`, under
the file lock, as the scheduler and the configuration files do; the handoff log
uses the same file lock for itself. Runtime tools, the manifest, the registries,
the index and the decisions about alerts have no lock at all.

What makes each part correct:

- log: numbers are unique and the watermark never falls, exclusive claims are
  disjoint, an acknowledgement never hides a later event, compaction changes no
  view, nothing readable is lost;
- locks and leases: one holder, nobody's lock is taken away, abandoned locks are
  recovered, every call ends;
- sessions and daemon: one turn at a time and within the cap, no event
  disappears, no turn under the kill switch, a client never has a gap behind it;
- discussions, tasks, boundaries: a closed discussion has a decision, a task is
  posted once and settled once, a report was true when it was read;
- transactions and managed skills: all or nothing whatever dies, a refusal hides
  nothing half done, no stale plan takes bytes that nobody recorded;
- hosts: records and what is there agree, users' entries survive, verification
  ends, a score says nothing that never was so;
- packages: an answer says what it lacks, growth is measured, evidence comes
  from a reviewed commit, a choice has reasons and keeps to its limit, a version
  does not change.

## 2. The modules

    Registry  <-- refines --  CoordLog  <-- refines --  CoordWriters (CoordLock as its callers see it)
                                 |                         |
                           CoordLogProofs            CoordWritersProofs
    TaskBoard <-- refines --  DesignRoom -- RoomProofs       Daemon, Boundaries (the log as its readers see it;
                                                        Boundaries' proofs are in RoomProofs)
    CoordLock, FileLock, BridgeLease, Daemon -- LocksProofs
    Sessions -- CoordWritersProofs      Outbox -- CoordLogProofs
    Transaction (FileLock as its callers see it) -- TransactionProofs
    InstallState <-- extends -- Managed (Transaction as its callers see it) -- ManagedProofs
    RuntimeTools, Scheduler, HostConfig, Handshake, Credentials, HealthScore -- HostsProofs
    Connector, Discovery, Candidates, Selection, PackageRegistry, Provenance, Alerts -- DiscoveryProofs
    Manifest

A module below takes what is modelled above it as one step: that step is what the
module above shows of it. The MC modules `MCCoordWriters`, `MCLocks`, `MCDesignRoom`,
`MCServers`, `MCHosts` and `MCDiscovery` each hold instances of several modules that share no
state; a variable `focus` picks, once and for all, which of them a behaviour is
about, so that the run is the union of the instances and not their product.

### Coordination

**Registry** is what agents are promised: who owns which path, which revision of
a contract is published, who took a decision; it has never heard of a log.

**CoordLog** has one action per critical section. `log` is the set of valid
events; the order of the file is the order of `seq`, because an append takes the
highest number plus one and compaction sorts. `lastSeq` is a history variable.
`OwnerOf`, `RevisionOf`, `DecidedBy` and `UnackedFor` are the views of
`ownershipFromEvents`, `latestContract`, `snapshot` and `unacked`. That reading
the owner off the last claim equals the event-by-event replay of the code is the
invariant `OwnershipIsReplayed`. `Compact(keepFrom)` leaves the choice of the
cut free, so that it covers both the count and the age limit. All events that
no view looks at are one kind, `task`.

**CoordWriters** opens the critical section: `Check` is `assertCoordinationEnabled`,
`Read`, `AppendLine`, `TearLine`, `Chmod` are `readCoordLog` and the append,
`Archive`, `WriteTmp`, `RenameTmp` are the three writes of `compact`. The file is
a sequence of lines; `cut` says that the last line has no newline, and `Extend`
glues the next append onto it, as `writeFile(..., {flag: "a"})` does. A claim
reads the log before it looks at the kill switch, emit and compaction after.
The lock is taken as granted: one holder, freed when its call ends or dies.
This is where CoordLock's recovery race is left out: it is shown in `coord_lock_stale`.

**CoordLock** is `withLocalLock` (a queue per process) around `withFileLock`
(one action per system call: open, write, verify, probe, judge, stat, rename,
release, unlink). `Crash(p)` ends a process anywhere, `Throws(c)` fails a file operation
and the call with it, and `Misjudges(c)` is an error that the code takes for something
else. A lock file whose record was not written becomes old (`Age`) once the call that
created it has died or failed: while it writes, it is done well within 30 s.
`LeftBehind` starts with a dead process's lock; `Reused` are the processes whose pid
a stranger may have once they are dead. The history variable `raced` is set when two
calls recover at one time, or when a process ends while another has read its record
and is about to look whether it lives.

**BridgeLease** has the same grain for `acquireBridgeLease`: open, write, read the
holder, probe it, unlink, try again once; `release` reads before it unlinks.

**Sessions** is the session manager of one provider session. A task is one
asynchronous call; a step runs to the next `await`. `Main` attaches (`bridge`) or
resumes (`send`), each router is one call of `handleEvents`. `Gate` is the look at
the kill switch, the steps after `Decide` are the rest of `submitEvents` up to the
provider's answer. The end of a provider turn and what `submitEvents` does with it
are one step, since nothing but promise callbacks runs between them. `Save`
serialises the sessions, `Store` renames the file and flushes the queue. `Die`
loses everything but `sessions.json` and the log.

**Daemon** starts against the pid file, the token file and the port
(`StartDaemon`, `Starts`), is stopped by `CallDaemon` ... `RemovePidFile`, watches
the log (`CheckForUpdates` is one read that may overlap with others,
`BroadcastToClients` what comes of it) and gives a client its backlog in two
steps (`ReadBacklog`, `SendBacklog`), between which broadcasts arrive.

**DesignRoom** leads one discussion emit by emit (`StartDiscussion` to the result, a
failure record, or the kill switch), reads its decision back, plans the implementation
from the ownership of that moment and sends its tasks one append at a time,
each under the handoff lock. **TaskBoard** is what it refines: a job is posted
once however often its dispatch is retried, and settled once.

**Boundaries** has the commands that read several views and append several times:
quick start, ownership from git, the preview of conflicts, and the detection of
contracts. `claims` and `contracts` are the views CoordLog gives. A request may be
spelled in other ways than the claims of the log (`Spellings`): a claim normalises
it, the preview compares it as it stands.
`clean` is true of a command as long as nobody has changed what it read, nor published
text that is old or of a file that nobody imports any more, which may carry the name of
another file's contract.

**Outbox** is `loadout handoff`: the template, the pickup block in the
receiver's and the sender's file, the bundle, the append and, when that fails,
the withdrawal of the bundle. A file is a sequence of parts, of which `start` and
`end` are the markers of the block.

### Installing

**FileLock** is `acquireFileLock` and `reclaimIfAbandoned`, one system call a step.
`PidReused` are the processes whose pid belongs to a stranger once they are dead.

**Transaction** has `disk`, `snaps` and `staging` (what is persisted), and for
every process what it does next. `staging` tells a preparing journal, a
published one, a committing one and a torn one apart. Restoring removes every
target and then writes every target, one file a step, as `restoreSnapshot` does.
`committed` is the content as the last completed operation left it, a history
variable. `strayed` is set when a process goes on without the lock or when
`loadout rollback` stops halfway; the code makes no promise after either, so the
invariants are stated up to then, and `NoStaleBytes` shows the first as a finding.
`StopAtStray` is only a bound: no new command starts once one has strayed.

**InstallState** has the records of `state.json` and the pure functions that make
the next one; **Managed** has every command that uses them. A command plans
(`plans[x]`: what it saw, file by file) and later applies in one step, with the
re-checks of that command's own code and no others: an update compares the files of
its planned targets with the package's record, so that one the record does not name
must be empty and is then filled; a sync does not look. `Drop` is the plan that is
refused, fails or was a preview. A tree of files is one value, and hashes are faithful. Whether static analysis
lets a download through is a free choice. `Over(new, old)` is the merge by key of
`mergeActivationRecords` and of the spread of the records that are written.

**RuntimeTools**, **Scheduler** and **HostConfig** are what is installed elsewhere.
In RuntimeTools every file operation of an installation or removal is a step, each
can fail (a restore and a recursive `rm` half-way), and the failure path is the code's
own: a rollback whose restore fails goes on, a removal that fails stops where it is.
`mishaps` remembers that one of them happened. In Scheduler the files come back
by the transaction and the jobs only by the rollback commands the code issues, on
three platforms whose commands differ. HostConfig has the entries by name in each
file, with the base a plan was made on, and is checked for what the user wrote.
**Handshake** is `verifyMcpRecipeConnection`, a race between an answer, an
error, the server's exit, too much output, the user's abort and the timeout, over
lines that come in chunks. The credentials come first, each from a child process that
neither the signal nor the timer reaches.

**Credentials** runs one child process per operation; an answer has a size, and a
name is the sequence of its parts, so that two names may meet in one target.

**HealthScore** reads its sources one after the other while each of them changes.
`facts` is what is so, `pass` what has been read, `report` the result with the
facts as they were when the collection began. Points are integers, hundredths.

### Discovering and choosing

**Connector** walks over pages: a listing is a sequence of pages of records, good,
invalid or repeated; each request may fail or be redirected. **Discovery** has the
one star count of one repository on a clock of half days, and the three files that
count it, each with its own rules for a day that is repeated or missed.
**Candidates** has the dossier, the proposal and the cached directory, which a
fetch removes and puts back while others read it; `git status` does not list files that
git ignores, and the inspection reads them (`"extra"`, `littered`). **Provenance** builds the index
package by package and matches skills with it; **Alerts** has the alerts of a
moment against the decisions kept from earlier ones. **Selection** scores, ranks
and takes skills, and applies the choice later under the lock. **Manifest** edits
`loadout.json`, and expands and orders it as functions of the file.
**PackageRegistry** stores a version file by file and then its record; a fetch imports
into a directory of its own and removes the cached one file by file, in whatever
directory is at that path by then, before it renames (`torn` marks what one that gave
up has left).

## 3. The runs

Passing runs; a name joined by `+` is a part of the property before it:

| Run | Instance | Shows |
|---|---|---|
| `coord_log` | 2 agents, a directory and a file in it, 4 numbers, 2 revisions, exclusive claims | `OwnershipSound` (types + `ExclusiveOwnership`), `OwnershipIsReplayed`, `NumbersKept` (`SeqUnique` + `WatermarkKept`), `CompactionKeepsOwnership`, `NewEventsAreUnacked`; CoordLog implements Registry |
| `coord_writers` | 2 agents, 1 path, 2 numbers, 1 failure; or a session: 3 events, one of them passive, 2 routers, cap of 2 turns, 2 deaths, 1 kill | `WritersSound` (types + `LogOrdered` + `NothingReadIsLost`), `HaltedCallsWriteNothing`; CoordWriters implements CoordLog; `SessionSound` (types + `OneTurnAtATime` + `TurnsCapped` + `NothingVanishes`), `NoTurnWhileKilled` |
| `locks` | 3 calls of 2 processes, 1 crash, 1 failure, 1 back-off, 1 reused pid; or 3 processes, 2 ends, 1 reused pid | `SafeUntilRace` and `EveryCallEnds` of the coordination lock, `SafeUntilExit` of the file lock, `LeftLocksGo` of both |
| `servers` | 2 daemons and a controller; or a daemon, its client and 2 events; or 3 bridges | `DaemonSound` (types + `TokenAgrees` + `NoGap`), `OneBridgeUntilDeath`, `ServersAnswer` (`EveryEventArrives` + `AcquireEnds`) |
| `design_room` | 2 decisions, 1 path, 2 pipelines, 2 workers, 2 tries, 1 fault; or 4 directories, 3 files of which two share a contract name, 2 owners, 2 commands; or 3 packages of a manifest, 2 editors | `RoomSound` (types + `ClosedHasDecision` + `DispatchIsComplete`), `ReportsHold`, `PlansFollowDependencies`, `RoomIsLeft`; DesignRoom implements TaskBoard |
| `transaction` | 2 processes, 2 files, 2 snapshots, 2 crashes, 1 failure | `TransactionSound` (types + `AllOrNothing` + `RefusalHidesNothing`), `OnlyHolderWrites`, `RollbackUndoesOnlyItsOwn`, `LockIsReleased` |
| `managed` | 2 packages that provide one unit for one agent, a second unit of one of them, 2 revisions, 2 commands, 2 edits | `ManagedSound` (types + `DisabledHashesAgree`), `UnrecordedBytesSurvive`, `LateStepsAreExact` (`UpdateNeverReactivates` + `OwnStepsNeverDrift`) |
| `hosts` | 2 commands over a tool; 2 jobs on 3 platforms; 3 files, 2 names; a server with 3 lines; 2 senders; 2 packages rated; 2 names of secrets | `HostsSound` (types + `ToolStateAgrees` + `JobsMatchUnits` + `CredentialsAgree`), `UserEntriesSurvive`, `VerificationEnds`, `HandoffsAreWhole`, `ReportsStayInRange` |
| `discovery` | listings of up to 3 pages; a clock of 2 days; 2 commits; 2 hosts with 4 skills; 2 publishers and 2 fetchers; 2 indexers; 3 alerts | `AnswersHold` (types + `AnswersAddUp` + `DecisionsStand`), `GrowthIsMeasured`, `EvidenceHolds` (types + `AdmittedOnEvidence` + `ProvenanceJustified`), `VersionsAreKept`, `SelectionHolds` (types + `SelectionJustified` + `LimitHolds`) |

Runs that refute what the repository says of itself; `PROJECT.json` quotes the lines:

| Run | Property | The behaviour |
|---|---|---|
| `coord_lock_stale` | `MutualExclusion` | two contenders judge one stale file, the slower one renames the faster one's new lock |
| `daemon_killed` | `QuietWhileKilled` | an event is appended, the kill switch comes on, and the watcher reads and broadcasts it all the same |
| `transaction_stale` | `NoStaleBytes` | a journal cannot be removed: the lock is released first, the old snapshot restored after |

The modules define some more properties that the code does not have; none is in a
configuration, and each is described in section 6: `NeverMissed` (Sessions),
`OneDaemon` (Daemon), `OneBridge` with deaths (BridgeLease), `ActiveUnitsAreBacked`
(Managed), `PreviewShowsOwners` (Boundaries), and `CompactionKeepsOwnership` with shared
claims (CoordLog).

### Bounds, and why they are enough

Bounds are constants that only guards use; their names begin with `Max`, but for
`Rounds` and `Growth`. Two agents suffice for every conflict over the log. Four
numbers allow a claim, its release, another agent's claim and a compaction of any
prefix, twice. In `locks`, one of two processes may die holding the coordination
lock, which leaves one to recover it, or a call may fail and leave an empty lock,
which leaves two: exclusion is checked for contention inside and
between processes and for recoverers one after the other, and it does not hold when
they meet (`coord_lock_stale`); for the file lock, three processes are a holder that dies and
two that recover its lock. Two snapshots allow a mutation to overtake another's
recovery and to be rolled back. Three events allow one in a turn, one queued and one
still in a batch. Three bridges are a dead holder and two recoverers.
In `servers` each instance has what it is about: two daemons without clients, one
daemon with clients, the lease alone.

A stale plan needs two commands and something that moves between them, which is
what `managed`, `hosts` and `discovery` give: two commands (or one and a user), and
one or two edits or failures of each kind. In `managed` two packages of one unit make
one target contended, and the other (`w`) shows what a command touches beside it.
Two edits let a record lose a target whose unit stays active (the user deletes it,
an additive install gives it to the other package) and an update find that target
empty again, so that `UpdateNeverReactivates` meets both kinds of change; with more
agents the same arises from an install for a second agent, and the theorem covers it. A clock of two days in half days has every order of a repeated run, a
missed day, and an expired count. `MCLayouts` has a page with a record that is
not valid, a repeated record, an empty listing, and a first page without records.
`MCShelves` has a missing package, two versions, a cycle, a chain. `MCStarts` has an
agent in good order, one with evidence missing, and one of which nothing is
known. The sizes in `hosts` lie on both sides of every limit by one.

Every action and every disjunct fires within the bounds; the theorems of section 4
do not depend on them.

### Fairness and deadlock

CoordLock, FileLock, Transaction, BridgeLease and Daemon make the steps of a live
process weakly fair: Node runs every callback that is ready, and each step is one
such callback. Timers of a live watcher fire, and its reads come back. `Age` is
fair because the clock runs. DesignRoom is fair to the next step of the discussion
(its turns have a timeout of their own, and giving up is a step), Handshake to
starting, reading a line that has come and its timer, not to the server and not to
the child that gives a credential (credentials.ts:390-398): `VerificationEnds` is
about the verifications that do not wait for one for ever.
Deciding to call, timing out of a lock, failing, dying, and what users, servers and
other programs do are never fair. Every other specification is for safety alone.

`CHECK_DEADLOCK FALSE` is given where the model really comes to rest: when the
numbers, calls, commands, edits and deaths are used up and everyone is idle. That
nobody waits for ever before that is what the liveness properties say (`EveryCallEnds`,
`LockIsReleased`, `RoomIsLeft`, `ServersAnswer`, `VerificationEnds`).

## 4. The proofs

- `CoordLogProofs`: `TypeCorrect`, `NumbersNeverFallBack` and `NewEventsUnacked`.
  The inductive invariant `IndInv` adds to the types and to unique numbers that some
  event carries `lastSeq` and none a higher number (`Watermark`), that an
  acknowledgement names a number below its own (`AcksLookBack`), and that a
  contract's revisions rise with the numbers (`RevisionsRise`). It is needed because
  compaction removes events: uniqueness survives only since the summary takes the
  number of an event that goes, and the watermark only since the last removed number
  stays in the log. `AppendInv` and `CompactInv` are the two cases; every action is an
  append or a compaction (`NextAppendsOrCompacts`).
  With exclusive claims, `OwnershipIsExclusive`, `CompactionKeepsOwners` and
  `LogImplementsRegistry` (every step is a step of Registry, or none). `OwnerInv` adds
  `HolderClaimedLast`: an agent whose last word about a path is a claim was the last of
  all to claim it, so that what a compaction removes cannot make an older claim count.
  The hypothesis is `"shared" \notin ClaimModes`: with shared claims all three are
  false (section 6), so that nothing weaker can be assumed.
  `ReplayFindsOwners`: the views by the last claim are what the code's replay comes to,
  event by event. `LineByLine` is one event of it, `ExtendOwner` what an event at the end
  of a log does to a path's owner. What a fold of the community modules goes through
  is `FoldExists`, and induction over it `InductionOnNat`, which says of a set of numbers what
  the library's theorem says of an operator; it follows from the pigeonhole principle.
  Of Outbox, which needs the same for the sum of the bundled files (`SumOfMore`):
  `HandoffsStayWhole`. `OutboxInv` says what a sender has in hand at each step
  (`ParcelSound`: what it has read of the pages, its plan, and as many files as fit),
  that the identifiers of bundles are never used again (`BundlesSound`), and that
  a task that was sent carries what its bundle is (`TasksSound`).
- `RoomProofs`: `RoomIsSound` and `RoomImplementsTaskBoard` (every step posts one job that
  was not on the board, settles one posted job once, or leaves the board alone).
  `RoomInv` adds to the types that a thread about to be closed has its decision in the
  log (`ThreadInv`), which a compaction keeps since it keeps the last event of every decision
  (`CompactKeeps`); that who sends holds the lock, that what it has left to send is not
  posted and all else of its plan is, unless lines are corrupt (`DispatchInv`); and that only
  posted tasks are verified and settled (`TasksInv`). The board is a view of the
  readable lines, in their order: `PickedIs` and `PickedMore` say what such a view holds and
  what one more line adds to it, `NumbersAre` that two tasks never have one number.
  Of Boundaries: `ReportsStayTrue`. `BoundaryInv` relates each command to what it has
  read: what a setup suggests is held or still to be claimed (`SetupSound`), which a claim
  keeps since an exclusive one of its own takes nothing from its agent; and while nothing
  is old, a detection's owners and texts are those there are, what it knows of has a
  current contract, and what it has not yet published is all that lacks one (`DetectSound`).
  `PublishIsCurrent`: to publish what is current makes no other file's contract old, but of
  files that share the name, which the property excepts.
- `CoordWritersProofs`: `LogStaysOrdered`, `LogStaysWhole`, `HaltedWriteNothing` and
  `WritersImplementLog`. `WInv` relates the file, the temporary file and what the
  holder of the lock has read: the readable lines rise in number and nothing that was
  read or answered for is lost (`FileInv`), and what the holder has read is what the file
  holds (`HolderKnows`), which is what makes reading, archiving and renaming one step
  of CoordLog. `HaltedWait` adds that a call which began under the kill switch
  never passes its look at it. `LogStaysWhole` and the refinement assume
  `"line" \notin Tears`: an append that loses just its newline keeps its event, which
  the next append destroys (section 6). The other tears, deaths and failures are in.
  Of Sessions: `SessionTypeCorrect`, `SessionsAreSound` (one turn at a time, within
  the cap, nothing vanishes) and `KillSwitchStopsTurns`. `SInv` adds who is busy with
  the turn of the session (`Busy`), that the count a call read before its turn is still
  the count (`Counted`), what a call may carry at each step (`Carried`), that nothing is
  taken up before a session is attached (`Fresh`), and that a call which decides under
  the kill switch looked at it before (`Warned`): each is what one of the awaits in
  `submitEvents` relies on when it comes back.
- `TransactionProofs`: `TransactionTypeCorrect`, `TransactionInvariant`,
  `EveryMutationIsAllOrNothing`, `NoStaleBytesWhileLocked`, `HolderWrites` and
  `RollbackIsExact`, for any number of files, transactions, processes, deaths and
  failures. `TransactionInv` says of each step of a process what the disk, its
  snapshot and the one pending journal are at that step (`Phase`, `Journals`): while
  nobody works, restoring the pending journal gives `committed`. All of it is up to
  the moment a process goes on without the lock or a rollback stops halfway
  (`strayed`); beyond it, `transaction_stale` shows what happens. So `NoStaleBytes`, which
  that run refutes, is proved up to then.
- `ManagedProofs`: `ManagedIsSound`, `UnrecordedBytesAreKept` and `LateStepsDoAsPlanned`.
  `MInv` adds to the types that what is recorded was there (no record names a missing
  tree), and that a plan may be applied whenever its turn comes (`PlanOK`: a batch
  holds trees at targets, an additive plan retires nothing, a download records the
  revision it copies). What each writer of `state.json` makes of a state is a lemma
  about any state (`RecordInstallIs`, `ReconciliationIs`, `RecordLibraryInstallIs`,
  `ForgetInstallIs`), then one lemma for each command says that it keeps `MInv`
  (`...Keeps`), what it takes away (`...Survives`), and that a package which was what
  its record says still is (`...Exact`). The last needs `SoleOwner` before and after
  the step: a package that shares a target drifts when the other one moves.
- `LocksProofs`, of CoordLock: `LockTypeCorrect` and `LocalExclusion` (the queue lets one
  call of a process at a time into `withFileLock`) hold with crashes.
  `LockIsSafeUntilRace` says the rest, with deaths, reused pids, failures and locks that
  were left behind: `RecoversJudged` adds that whoever is about to recover is alone with
  that and finds the lock it judged, which is `Stale` and so nobody's who lives
  (`RecovererIsAlone`). Beyond `raced` exclusion is false, as `coord_lock_stale` shows.
  Of FileLock: `FileLockTypeCorrect`, `FileLockSafeUntilExit` (exclusion, and a
  live holder keeps its file, until a process has gone) and `RecoveryIsGuarded`
  (one recoverer at a time, always). The invariant `LockFileFollowsHolder` relates the
  lock file to what each process is about to do.
  Of BridgeLease: `LeaseTypeCorrect` and `LeaseExclusive`. Exclusion alone is
  not inductive: `OwnerOnFile` adds that, until a bridge has died, whoever has
  created the file and not yet removed it is the one on file, and nobody comes to
  remove a file as stale; `JudgedHasOwner`, that only a file which names somebody
  leads to the judgement of a process, which then is a living one.
  Of Daemon: `DaemonsAreSound`. `OneToken` adds that the token file is empty while the
  one process that created it has not written it, and that whoever is past the token
  has the one on file. `NoGap` is not inductive since a client is registered before
  its backlog is read: `BacklogMeets` adds that, once the backlog is read, the client has
  what was broadcast of the events after it, which needs that no daemon is ahead
  of the log (`Within`) and that a client is connected to a daemon that serves (`Attached`).
- `HostsProofs`, of HostConfig: `HostTypesCorrect` and `UserEntriesAreKept`. An application is the
  obvious case; a removal needs that Loadout records only values of its own
  (`OwnRecords`), and a rollback that the last mutation put no user's value where
  there had been another (`NewUserValues`), both for plans of any age (`OwnPlans`).
  What users write and what plans write are told apart by `HostConstantsOK`: a user
  who writes by hand exactly what a plan would is not seen as a user.
  Of RuntimeTools: `ToolsAreRecorded`. `ToolInv` says what each of the seven steps of
  a plan has behind it and has yet to undo (`ToolPhase`), up to a rollback or a removal
  that itself fails (`mishaps`), and that plans which
  overlap, or edited skills, end the calm in which the property is stated.
  Of Scheduler: `JobsFollowUnits`. `JobInv` gives, for the three platforms, what is
  loaded as a function of how many of the system's commands have worked
  (`Scheduling`, `Unscheduling`), on the way forward and on the way back. A death, or an
  unloading that fails unseen, sets `stuck`, beyond which nothing is claimed.
  Of Credentials: `AnswersAboutSecrets`. `CredentialInv` says that the answer of a child
  process is explained by what was in the store at some moment of the call (`Explained`).
  Of HealthScore: `ReportsAreInRange`. `Lower` is the order of the facts in which damage
  goes down; every dimension, a rounded quotient of two sums, is monotone in it
  (`ContributionsGetLess`, by cross-multiplication), and so are the score and, while no
  observation is lost, the rating. `HealthInv` says that what was seen lies, in that
  order, between what held when the collection began and what holds now (`Sound`): a
  reading takes each part from one of two moments (`MixedIsBetween`), a change of the
  facts goes on downwards or is marked as a mend. The library's sums are over sets of
  any finite size, and its induction theorems cannot be used: `NumbersByInduction`
  derives induction from the pigeonhole principle, and `SumByElement` the sums from it.
  `HostsAreSound` puts the first three and Credentials together, with the types of
  Handshake: it is `HostsSound` of the instance that TLC checks, for all constants.
- `DiscoveryProofs`. `AnswersAreHonest` and `EvidenceIsHeld` are two of the properties of
  `MCDiscovery`, for all constants; each component has a theorem of its own:
  - `GrowthIsReal`. `GrowthInv` says that every count in the three files, and every count
    that a process carries from one of them to another, is one GitHub had on that
    day (`FilesSound`, `FinderSound`), and that a queue whose known counts are a day apart
    has a measurement (`SoundQueue`);
  - `AnswersAreWhole`. `ConnectorInv` says what a search has collected as a function of
    where it stands and of the records it had to drop (`SearchSound`), and that what
    the cache holds is an answer that was complete (`KeptSound`);
  - `ProposalsHaveEvidence`. `ReviewInv` adds that while nobody disturbs a directory, the
    reviewer that reads it has found it whole, or whole with ignored files (`CalmReview`);
  - `ActivationsFit`. `LimitInv` adds that what a planner is about to copy fits beside what
    it found under the mutation lock (`Roomy`);
  - `VersionsAreImmutable`. `RegistryInv` follows a publisher from its look for the version
    to its record (`ShelfInv`), and a fetcher from its archive to the cache (`RemoteInv`);
    before the record is there, nobody can have resolved the version, and a cached
    directory that lacks files has a fetcher at work on it or marks of one (`CacheKept`);
  - `SourcesAreJustified`. `ProvenanceInv` says of an index, also of one that is being
    built, that it has no record which its catalog does not justify (`Truthful`) and
    misses none but of packages it names (`Covers`);
  - `UsersDecide`. `AlertsInv` relates the file to the history of what users were told had
    been decided (`IgnoresStand`, `PinsStand`), and what a command has read to the
    file as long as no other overlaps with it (`DecidedAlone`).

They hold for any number of agents, paths, calls, processes and bridges and for every
value of the bounds, under the assumptions named in the modules (`ConstantsOK`,
`WritersConstantsOK`, `CorruptIsNoEvent`, `OutboxAssumption`, `DesignRoomConstantsOK`,
`BoundariesAssumption`, `SessionsConstantsOK`, `TransactionConstantsOK`,
`InstallStateConstantsOK`, `ManagedConstantsOK`, `LockConstantsOK`, `FileLockConstantsOK`,
`BridgeLeaseConstantsOK`, `DaemonConstantsOK`, `HostConstantsOK`, `JobsAssumption`,
`CredentialAssumption`, `HealthAssumption`, `GrowthAssumption`, `ConnectorAssumption`, `CandidatesAssumption`,
`SelectionAssumption`, `RegistryAssumption`, `ProvenanceAssumption`, `AlertsAssumption`): null values
are not agents, processes, packages, values or records; bounds, sizes and counts are
numbers; jobs, skills and rated packages are finite sets, the agent that is scored is not
among the others, and the facts to begin with are such as may be stored; what is claimed
or suggested are directories that may be claimed; a package that is reviewed has a
revision; a listing is a sequence of pages; a record's file is no file of a package; and there is a bridge.

Only model-checked:

- liveness, since TLAPS does not reason about ENABLED: fairness stays with TLC;
- `SelectionJustified`, the part of `SelectionHolds` that says what a ranking by folds has
  taken, and `PlansFollowDependencies`, which walks over packages by RECURSIVE operators,
  of which the provers see nothing;
- `EveryEventArrives` of Daemon.

## 5. What is not modelled

Formatting, redaction of secrets (but that it changes a published body), size limits
and validation of event fields; file modes and symbolic links; notifications that
`fs.watch` drops; the heartbeat's clock beyond "a live holder's file stays fresh".
In components that are listed as partly modelled:

- Sessions: several sessions in one manager, `startSession`, the user's own turns,
  two managers over one `sessions.json`;
- CoordWriters: release and publish, which append by the same steps as a claim;
- Daemon: the log's compaction, the routes that only call the coordinator, the page;
- HostConfig: a check and the write that follows it are one step; reading the
  manifests of packages; requests to providers;
- Credentials: environment references and `status`, which keep nothing. That every
  call ends is not claimed: the timeout of a child process only sends a signal and
  then waits, so that a child which ignores it holds the call, and with it the
  handshake that asked (the run `hosts` without that exception finds the wait);
- Growth, Candidates, Manifest: how searches are worded, git sources elsewhere than on
  GitHub, policy checks, development dependencies, the lock file of a manifest.

What `PROJECT.json` lists as `not_modelled` either keeps no state (reports, text
filters, rankings, rules over skill text, argument parsing, schemas) or is a
primitive that is one step wherever it is used (`atomic-file.ts`).

Some steps are coarser than the code: a managed command's application is one step,
because Transaction shows that it is all or nothing; the final `rm` of an uninstall,
which is outside the lock, belongs to it. `OwnStepsNeverDrift` exempts
`ForgetsAccepted`: a download that forgets the accepted edit of a unit it leaves active,
or that records a unit which was active without a record (install.ts:500-548,
state.ts:278-393), against CHANGELOG.md:7-12.

## 6. What modelling showed

Behaviours of the code that a reader of the properties should know, because a property
is stated so as to leave them out, or because it is defined and does not hold.

**Log and locks.** With shared claims a compaction changes ownership: two agents
share a path, one releases it, nobody owns it; after a compaction the other does again
(coordinator.ts:361, against CHANGELOG.md:111-113); `coord_log` has exclusive claims
only. An agent that shares a path may claim it exclusively when the last claim of it
was its own (coordinator.ts:347). An append cut off by a crash takes the next event with it: its
caller is told it is recorded and nobody can read it (coordinator.ts:288, against
docs/LIVE_COLLABORATION.md:254; when just the newline is missing, the next append even
destroys an event that could be read, so `coord_writers` tears inside the event). A
holder of the file lock that releases and exits between a contender's read and its
judgement may lose the next holder's file (file-lock.ts:91, 101); a process that dies in
`.reclaim` ends all recovery (file-lock.ts:67).
A coordination lock whose record could not be written (lock.ts:114) stays, empty, though
its process lives; it is stale after 30 s, and two calls that find it so may both get in.
One whose file could not be closed names a process that lives, and stays until that has
ended, as the lock of a dead process does for good when its pid has been given to another
one. A waiter that reads a record, is overtaken by a release and the exit of
its owner, and then finds the owner dead, renames the next owner's lock (lock.ts:43-44, 142);
so does one that cannot read a lock older than 30 s for want of descriptors (lock.ts:46-52).

**Sessions and servers.** If event 1 reaches an agent before event 0, the process
dies and the agent acknowledges 1, no way to reconnect submits 0 (`NeverMissed`,
session-manager.ts:403, against CHANGELOG.md:193-194). A turn that fails does not flush what
is queued behind it (session-manager.ts:393). Two daemons may serve at once
(`OneDaemon`): one's pid file is removed by another's stop or status. A crash between
creating and writing the token, or the lease, blocks every later start. A broadcast
may overtake the backlog, so that a client which resumes from its highest number
misses what it never got; a failed read leaves a client without backlog. The kill
switch does not silence the watcher, against what its comment says (run
`daemon_killed`); `EveryEventArrives` therefore counts events delivered under it. Two bridges that
recover a dead one's lease may both hold it (`OneBridge`).

**Discussions and boundaries.** A compaction during a discussion drops its start, so
that the result cannot be read back although the decision stands. `discuss implement`
looks at the kill switch only with its last event; when ownership changes
between two tries the plan has another id and its tasks are sent again. The preview of
conflicts neither normalises a path nor knows that a claim of "." covers everything
(conflict-preview.ts:158-173): "./api" is called safe while another agent owns "api",
against what conflict-preview.ts:38-40 says it is for (`PreviewShowsOwners`), and a claim
of it is then refused (coordinator.ts:185-195). `ReportsHold` speaks of paths in normal
form and other than ".", and no owner of "."; a quick start that stops halfway is never completed; `src/a/b.ts` and `src/a-b.ts`
give one contract name; an older detection may publish over a newer one, and over
another file's contract of that name, though nobody imports its own file any more
(auto-contract.ts:378 reads the owners once, coordinate.ts:187 publishes later).

**Handoff.** Pickup blocks of an older form are never replaced, since both callers skip
`applyPickup` when there is one; a stray end marker makes every send append another
block; users' edits between plan and apply are lost.

**Managed skills.** Installing a package for a second agent orphans the record of the
first (`ActiveUnitsAreBacked`, state.ts:402, active-set.ts:407, against docs/TESTING.md:306-307).
A sync does not check that its targets are free, nor an update what the catalog says
by then; an update installs every unit that is active for some agent at every agent
the record names, also where the user never had it (update.ts:721-733 refuses only
an occupied target); adopting and reconciling one skill gives it two owners. `loadout rollback` has
no journal (lifecycle.ts:399), and a snapshot file is written in place (snapshot.ts:91).

**Tools, jobs, configuration.** Of two installations of one tool, the one that fails
removes the other's runtime; a crash between restoring and recording makes both
installing and removing refuse from then on; the runtime is not part of the snapshot
the text promises. When a removal fails at the runtime or at the record, the skills are
restored and the record stays: another removal is refused, because they are not as
recorded. A rollback of a job may leave a running one unloaded. A recipe written
to a second file orphans the entry in the first.

**Credentials.** On macOS a secret of the maximum size is stored and cannot be read;
each read strips one newline; on Windows two names may be one target
(credentials.ts:239); any failure of `secret-tool` reads as "not found".

**Discovery.** A cached answer stands in for another query's or limit's; skills.sh's `next`
cannot be given back. A refresh records a bundled count as today's when only one of its
requests fails (catalog.ts:257, against docs/CATALOG.md:77). A fetch removes the cached
directory under its readers, so that a verification may admit partial evidence, and
an ignored file that somebody puts into it is read by inspection and verification
alike, although source.ts:310 means to fetch a modified cache anew;
`promote` does not verify again and writes the catalog before it may fail. An index
built while packages failed is kept under the current digest. An ignored
`materially-stale` alert comes back the next day, because its id has the age in days
(freshness-alerts.ts:136-140); overlapping decisions lose one.

**Selection, manifest, registry, score.** A unit that is active from another package blocks the
whole proposal; a unit pinned twice fails when it is applied. A dependency that is
reached again keeps the agents of its first visit; dependencies of a disabled package are
installed; overlapping edits of `loadout.json` lose one. Overlapping publishers of
different contents overwrite a version that was resolved already. Fetchers that overlap
may remove files of a directory which another has just renamed into the cache, and
leave a part of it until the next fetch (against registry.ts:449: a failed import
"cannot leave the cache holding a half-written package"); a crash after the
record is stored leaves a version that publishing again never repairs. A score of
"excellent" cannot be reached through the commands, which collect no benchmarks; losing a failing
observation may raise the rating (against agent-health-score.ts:786); exactly 80 % or 40 % of
the caps 14 and 12 falls short, by the rounding of doubles.

## 7. Plan

1. Proofs: `PlansFollowDependencies`, once the walk is a recursive function.
2. Compositions: Sessions with two managers and the bridge lease between them;
   Daemon over a log that is compacted; Managed over Transaction, so that a death
   within an application is seen by the next plan.
3. Reading package manifests for MCP servers, and the policy checks of a plan.
