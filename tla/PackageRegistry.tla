--------------------------- MODULE PackageRegistry ---------------------------
(***************************************************************************)
(* One version of a package in the local registry, and what is fetched of  *)
(* it from a remote one (src/core/catalog/registry.ts).  A publisher packs *)
(* the author's directory, looks whether the version exists, copies the    *)
(* files into a directory of its own, and that into place, entry by entry; *)
(* there is no lock.  The digest of a version is a hash of its files: here *)
(* it is the files.                                                        *)
(***************************************************************************)
EXTENDS Naturals, FiniteSets

CONSTANTS
  PackageFiles, \* the files a package may have
  FileTexts,    \* what they may hold
  Publishers, Resolvers, Fetchers, \* processes
  MaxPublishes, MaxResolves, MaxRemoteMoves, MaxHarms \* bounds; harms: crashes and edits

(* The inventory of a package leaves this name out: it is the record's. *)
RecordName == ".loadout-record.json"
ASSUME RegistryAssumption == RecordName \notin PackageFiles

NoFile == "no file"
Contents == [PackageFiles -> FileTexts \cup {NoFile}]
ShelfEntries == PackageFiles \cup {RecordName}

VARIABLES
  work,      \* the author's directory
  shelved,   \* the files of the version
  record,    \* its record: {} or {digest}
  press,     \* what each publisher does
  lookup,    \* and each resolver: {} or {what it has read}
  remote,    \* what the remote registry has for the version
  cached,    \* the cached directories: [digest, files, touched: by a user, torn: by a fetcher]
  fetch,     \* what each fetcher does
  reported,  \* history: the digests whose publication was reported
  served,    \* history: the digests that were resolved
  contested, \* history: two publishers were at work on different contents
  harmed,    \* history: a publisher died, or files were edited under it
  publishes, resolves, remoteMoves, harms

shelfVars == <<work, shelved, record, press, lookup, reported, served, contested, harmed, publishes, resolves>>
remoteVars == <<remote, cached, fetch, remoteMoves>>
registryVars == <<shelfVars, remoteVars, harms>>

AtPress == [pc |-> "idle"]
AtRemote == [pc |-> "idle"]

RegistryInit ==
  /\ work \in [PackageFiles -> FileTexts] /\ shelved = [f \in PackageFiles |-> NoFile] /\ record = {}
  /\ press = [p \in Publishers |-> AtPress] /\ lookup = [r \in Resolvers |-> {}]
  /\ remote \in [PackageFiles -> FileTexts] /\ cached = {} /\ fetch = [g \in Fetchers |-> AtRemote]
  /\ reported = {} /\ served = {} /\ contested = FALSE /\ harmed = FALSE
  /\ publishes = 0 /\ resolves = 0 /\ remoteMoves = 0 /\ harms = 0

Harm == harms < MaxHarms /\ harms' = harms + 1

-----------------------------------------------------------------------------
(* publishLocalPackage *)

FilesOf(content) == {f \in PackageFiles : content[f] # NoFile}
AtWork(p) == press[p].pc \in {"stage", "store"}

PackPackage(p) ==
  /\ press[p].pc = "idle" /\ publishes < MaxPublishes /\ publishes' = publishes + 1
  /\ press' = [press EXCEPT ![p] = [pc |-> "check", packed |-> work]]
  /\ UNCHANGED <<work, shelved, record, lookup, reported, served, contested, harmed, resolves, remoteVars, harms>>

(* Mutant: a version may be published again. *)
AnyVersion(packed) == TRUE
NewVersion(packed) == record = {}
CheckPublished(p) ==
  /\ press[p].pc = "check"
  /\ LET packed == press[p].packed IN
     IF NewVersion(packed)
     THEN /\ press' = [press EXCEPT ![p] = [pc |-> "stage", packed |-> packed, left |-> FilesOf(packed),
                                            temporary |-> [f \in PackageFiles |-> NoFile]]]
          /\ contested' = (contested \/ \E q \in Publishers : AtWork(q) /\ press[q].packed # packed)
          /\ UNCHANGED reported
     ELSE /\ press' = [press EXCEPT ![p] = AtPress]
          /\ reported' = reported \cup (record \cap {packed}) /\ UNCHANGED contested
  /\ UNCHANGED <<work, shelved, record, lookup, served, harmed, publishes, resolves, remoteVars, harms>>

(* A file that is gone by now ends it. *)
StageFile(p) ==
  /\ press[p].pc = "stage" /\ \E f \in press[p].left :
       press' = [press EXCEPT ![p] =
         IF work[f] = NoFile THEN AtPress ELSE [press[p] EXCEPT !.left = @ \ {f}, !.temporary[f] = work[f]]]
  /\ UNCHANGED <<work, shelved, record, lookup, reported, served, contested, harmed, publishes, resolves, remoteVars, harms>>
BeginStore(p) ==
  /\ press[p].pc = "stage" /\ press[p].left = {}
  /\ press' = [press EXCEPT ![p].pc = "store", ![p].left = FilesOf(press[p].packed) \cup (ShelfEntries \ PackageFiles)]
  /\ UNCHANGED <<work, shelved, record, lookup, reported, served, contested, harmed, publishes, resolves, remoteVars, harms>>
(* cp, which overwrites what is there *)
StoreEntry(p) ==
  /\ press[p].pc = "store" /\ \E e \in press[p].left :
       /\ IF e \in PackageFiles
          THEN shelved' = [shelved EXCEPT ![e] = press[p].temporary[e]] /\ UNCHANGED record
          ELSE record' = {press[p].packed} /\ UNCHANGED shelved
       /\ press' = [press EXCEPT ![p].left = @ \ {e}]
  /\ UNCHANGED <<work, lookup, reported, served, contested, harmed, publishes, resolves, remoteVars, harms>>
EndPublish(p) ==
  /\ press[p].pc = "store" /\ press[p].left = {}
  /\ reported' = reported \cup {press[p].packed} /\ press' = [press EXCEPT ![p] = AtPress]
  /\ UNCHANGED <<work, shelved, record, lookup, served, contested, harmed, publishes, resolves, remoteVars, harms>>

(* A copy that fails, or a process that dies, leaves what it has stored. *)
PublisherStops(p) ==
  /\ press[p].pc # "idle" /\ Harm /\ harmed' = TRUE /\ press' = [press EXCEPT ![p] = AtPress]
  /\ UNCHANGED <<work, shelved, record, lookup, reported, served, contested, publishes, resolves, remoteVars>>
EditWork ==
  /\ Harm /\ \E f \in PackageFiles, t \in FileTexts \cup {NoFile} : t # work[f] /\ work' = [work EXCEPT ![f] = t]
  /\ harmed' = (harmed \/ \E p \in Publishers : press[p].pc # "idle")
  /\ UNCHANGED <<shelved, record, press, lookup, reported, served, contested, publishes, resolves, remoteVars>>
EditShelved ==
  /\ Harm /\ \E f \in PackageFiles, t \in FileTexts : t # shelved[f] /\ shelved' = [shelved EXCEPT ![f] = t]
  /\ harmed' = TRUE
  /\ UNCHANGED <<work, record, press, lookup, reported, served, contested, publishes, resolves, remoteVars>>

-----------------------------------------------------------------------------
(* resolveRegistryPackage: the record, then every file, then the comparison. *)

ReadRecord(r) ==
  /\ lookup[r] = {} /\ record # {} /\ resolves < MaxResolves /\ resolves' = resolves + 1
  /\ \E digest \in record :
       lookup' = [lookup EXCEPT ![r] = {[digest |-> digest, left |-> PackageFiles, found |-> shelved]}]
  /\ UNCHANGED <<work, shelved, record, press, reported, served, contested, harmed, publishes, remoteVars, harms>>
ReadFile(r) ==
  /\ \E look \in lookup[r] : \E f \in look.left :
       lookup' = [lookup EXCEPT ![r] = {[look EXCEPT !.left = @ \ {f}, !.found[f] = shelved[f]]}]
  /\ UNCHANGED <<work, shelved, record, press, reported, served, contested, harmed, publishes, resolves, remoteVars, harms>>
Resolve(r) ==
  /\ \E look \in lookup[r] :
       look.left = {} /\ served' = served \cup (IF look.found = look.digest THEN {look.digest} ELSE {})
  /\ lookup' = [lookup EXCEPT ![r] = {}]
  /\ UNCHANGED <<work, shelved, record, press, reported, contested, harmed, publishes, resolves, remoteVars, harms>>

ShelfNext ==
  \/ EditWork \/ EditShelved
  \/ \E p \in Publishers : \/ PackPackage(p) \/ CheckPublished(p) \/ StageFile(p) \/ BeginStore(p)
                           \/ StoreEntry(p) \/ EndPublish(p) \/ PublisherStops(p)
  \/ \E r \in Resolvers : ReadRecord(r) \/ ReadFile(r) \/ Resolve(r)

-----------------------------------------------------------------------------
(* fetchRemoteRegistryPackage: the answer names its digest, which is the name of *)
(* its directory in the cache; a request that fails changes nothing.             *)

Fetches(g, to) == fetch' = [fetch EXCEPT ![g] = to]
Answered(g) ==
  /\ fetch[g].pc = "idle"
  /\ ~\E c \in cached : c.digest = remote /\ c.files = remote
  /\ Fetches(g, [pc |-> "import", digest |-> remote, staging |-> [f \in PackageFiles |-> NoFile],
                 left |-> FilesOf(remote)])
  /\ UNCHANGED <<shelfVars, remote, cached, remoteMoves, harms>>
(* importRegistryBundle *)
ImportFile(g) ==
  /\ fetch[g].pc = "import" /\ \E f \in fetch[g].left :
       Fetches(g, [fetch[g] EXCEPT !.left = @ \ {f}, !.staging[f] = fetch[g].digest[f]])
  /\ UNCHANGED <<shelfVars, remote, cached, remoteMoves, harms>>
(* rm lists the directory, unlinks what it listed by its path, in whatever directory *)
(* is there by then, and removes that, which fails when it holds something.          *)
Cached(digest) == {c \in cached : c.digest = digest}
Occupied(digest) == \E c \in Cached(digest) : FilesOf(c.files) # {}
BeginRemove(g) ==
  /\ fetch[g].pc = "import" /\ fetch[g].left = {}
  /\ Fetches(g, [fetch[g] EXCEPT !.pc = "remove", !.left = UNION {FilesOf(c.files) : c \in Cached(fetch[g].digest)}])
  /\ UNCHANGED <<shelfVars, remote, cached, remoteMoves, harms>>
RemoveFile(g) ==
  /\ fetch[g].pc = "remove" /\ \E f \in fetch[g].left :
       /\ Fetches(g, [fetch[g] EXCEPT !.left = @ \ {f}])
       /\ cached' = (cached \ Cached(fetch[g].digest)) \cup {[c EXCEPT !.files[f] = NoFile] : c \in Cached(fetch[g].digest)}
  /\ UNCHANGED <<shelfVars, remote, remoteMoves, harms>>
(* What a fetcher that gives up leaves of a directory. *)
GivesUp(g) ==
  LET digest == fetch[g].digest IN
  /\ Fetches(g, AtRemote)
  /\ cached' = (cached \ Cached(digest)) \cup {[c EXCEPT !.torn = @ \/ c.files # digest] : c \in Cached(digest)}
RemoveCached(g) ==
  /\ fetch[g].pc = "remove" /\ fetch[g].left = {}
  /\ IF Occupied(fetch[g].digest) THEN GivesUp(g)
     ELSE Fetches(g, [fetch[g] EXCEPT !.pc = "rename"]) /\ cached' = cached \ Cached(fetch[g].digest)
  /\ UNCHANGED <<shelfVars, remote, remoteMoves, harms>>
(* An empty directory is replaced; one that holds something is not: the fetch fails. *)
RenameImported(g) ==
  /\ fetch[g].pc = "rename" /\ Fetches(g, AtRemote)
  /\ LET digest == fetch[g].digest IN
     cached' = IF Occupied(digest) THEN cached
               ELSE (cached \ Cached(digest)) \cup
                    {[digest |-> digest, files |-> fetch[g].staging, touched |-> FALSE, torn |-> FALSE]}
  /\ UNCHANGED <<shelfVars, remote, remoteMoves, harms>>
(* A step that fails, or a process that dies. *)
FetcherStops(g) ==
  /\ fetch[g].pc # "idle" /\ Harm
  /\ IF fetch[g].pc = "remove" THEN GivesUp(g) ELSE Fetches(g, AtRemote) /\ UNCHANGED cached
  /\ UNCHANGED <<shelfVars, remote, remoteMoves>>
RemoteMoves ==
  /\ remoteMoves < MaxRemoteMoves /\ remoteMoves' = remoteMoves + 1
  /\ remote' \in [PackageFiles -> FileTexts] \ {remote} /\ UNCHANGED <<shelfVars, cached, fetch, harms>>
EditCached ==
  /\ Harm /\ \E c \in cached, f \in PackageFiles, t \in FileTexts :
       c.files[f] # t /\ cached' = (cached \ {c}) \cup {[c EXCEPT !.files[f] = t, !.touched = TRUE]}
  /\ UNCHANGED <<shelfVars, remote, fetch, remoteMoves>>

RemoteNext ==
  \/ RemoteMoves \/ EditCached
  \/ \E g \in Fetchers : \/ Answered(g) \/ ImportFile(g) \/ BeginRemove(g) \/ RemoveFile(g) \/ RemoveCached(g)
                          \/ RenameImported(g) \/ FetcherStops(g)

RegistryNext == ShelfNext \/ RemoteNext
RegistrySpec == RegistryInit /\ [][RegistryNext]_registryVars

-----------------------------------------------------------------------------
(* Properties. *)

(* A cached directory no user changed has under its digest that very content, or  *)
(* what is left of it: a fetcher is removing it, or gave up removing it.          *)
CacheKept(c) ==
  /\ ~c.touched => \A f \in PackageFiles : c.files[f] \in {c.digest[f], NoFile}
  /\ c.files = c.digest \/ c.touched \/ c.torn \/ \E g \in Fetchers : fetch[g].pc = "remove" /\ fetch[g].digest = c.digest

(* A version is immutable: whoever resolves it, at whatever moment, gets the same *)
(* files, unless publishers of different contents overlapped; what was reported   *)
(* as published is there, once nobody is storing and nothing went wrong; and the  *)
(* cache mixes no contents under a digest, and lacks files of it only where the   *)
(* removal of a directory is under way, was cut short or met the directory that   *)
(* another fetcher had just renamed there, unless a user changed them             *)
(* ("registry package content does not match its immutable digest").              *)
VersionsAreKept ==
  /\ Cardinality(served) > 1 => contested
  /\ \A digest \in reported :
       \/ record = {digest} /\ shelved = digest
       \/ contested \/ harmed \/ \E p \in Publishers : press[p].pc = "store"
  /\ \A c \in cached : CacheKept(c)
  /\ \A c \in cached, other \in cached : c.digest = other.digest => c = other
=============================================================================
