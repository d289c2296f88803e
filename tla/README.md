# Formal models of offbeat

offbeat keeps a local music library in step with a Spotify account: a daemon
(`offbeatd`) learns the desired tracks from a Spicetify extension, acquires the
missing audio with external tools, and serves the result to the desktop and to
phones. This directory holds TLA+ models of the daemon, the TLC configurations
that check them on small instances, and theorems checked by TLAPS.

## 1. The system

| Part | State it keeps | Operations | Talks to |
|---|---|---|---|
| Acquisition queue and workers (`db/acquisition_work.go`, `app/acquisition.go`) | table `acquisition_work`, one goroutine per configured worker | `acquire`, `acquire.missing`, `acquire.retry`, `acquire.retry.unresolved`, claim, complete, fail, unresolve, recover | managed files, source selection, desired state, external tools |
| Source selection (`app/select_youtube.go`, `app/selection_receipt.go`, `app/manual_mapping.go`, `db/select_youtube.go`) | manual mappings and their revision counters, a signing key | set and remove a mapping, inspect, select with a receipt | queue, resolver |
| Managed files (`managed/files.go`) | files below the managed root, table `managed_tracks` | publish, open, adopt, replace, reconcile playlists | the file system, which other programs write too |
| Desired Spotify state (`db/desired_state.go`) | playlists, liked songs, tracks, a revision | apply a snapshot | adapter session |
| Adapter session (`app/adapter.go`) | session slot, reservation, pending request, open connections | hello, snapshot request and response, liveness, timeout, shutdown | the extension over WebSocket, `spotify.sync` callers |
| Metadata refresh (`app/metadata.go`) | replacement intent of each managed track | refresh, recover an interrupted replacement | managed files, tagging, artwork |
| Playlists (`app/playlists.go`) | `.m3u8` files, a "pending" flag, `playlistMu` | materialize at startup and after commits | desired state, managed files |
| Missing listing, review (`app/managed.go`, `app/review.go`) | none (cursor and revision are with the client) | page | desired state, managed files |
| LAN sync (`app/sync.go`, `lansync`) | identity and credential, version cache, four slots | manifest, download, setup, reset | managed files |
| Lifecycle (`app/daemon.go`, `app/lifecycle.go`) | lock, control socket, listeners, wait groups | start, serve, shut down | everything |
| Control protocol (`ipc`), CLI (`cmd/offbeat`) | none | one request and one response per connection | handlers |
| Resolver, retriever, tagging, artwork | a bounded artwork cache | pure scoring, processes, HTTP | workers, refresh |
| Configuration, logging | read at start | | |

What is hard about it:

* **Three kinds of mutual exclusion.** SQLite has one connection, so a statement
  or transaction is atomic; `managedMu` serialises the handlers that touch the
  library; `adapterMu` protects the session slot. A worker holds `managedMu` only
  for its first checks and for publication: choosing a source and the download,
  which may take minutes, interleave with every handler.
* **A database and a file system without a common transaction.** A crash may fall
  between publishing a file and committing its mapping.
* **Another writer.** The managed root is an ordinary directory.
* **Six ways to end a request.** A snapshot request ends by its response, a failed
  write, a timeout, its caller, the liveness check, a disconnect or the shutdown.
* **Old promises.** Receipts, mappings and responses may be used long after the
  state they were made for; so may the probe a playlist is rendered from, the
  digest a download was admitted with, and the revision a listing began at.
* **More than one process.** A second daemon may be started at any moment, and a
  dead one leaves its socket, its intents and its temporary files behind.

What should hold of each part: the queue loses, repeats and redirects no work;
sources are durable and are not changed under a retrieval; files are never
overwritten or lost, and the row tells the truth of them; one adapter session, each
request completed once, no stale snapshot over a newer one; playlists that are out
of date are owed a projection; a listing is whole; a phone gets the bytes it asked
for; one daemon owns the data, and it closes nothing that is in use.

`PROJECT.json` lists the hazards one by one, each at its line, with the properties
that cover it, or a note why none does.

## 2. Modules

| Module | What it is |
|---|---|
| `Acquisition` | the queue, the workers, source selection, and the part of the managed library they write |
| `WorkLedger` | an abstract specification: what the queue promises, without workers, locks, sources and files |
| `AdapterSession` | the daemon's side of the Spotify adapter |
| `SnapshotCalls` | an abstract specification: what `spotify.sync` promises, without loops, locks, timers and channels |
| `MetadataRefresh` | one track's metadata replacement and its repair, beside another writer |
| `Library` | Desired state, playlists, and the client that pages the missing tracks |
| `LanSync` | concurrent phone requests beside a changing library, and the server's start and stop |
| `Lifecycle` | several daemon processes: lock, socket, resources, work, and the phone credential |
| `MCAcquisition`, `MCAdapterSession`, `MCMetadataRefresh`, `MCLibrary`, `MCLanSync`, `MCLifecycle` | constants and symmetry sets for TLC |
| `AcquisitionProofs`, `AcquisitionSelectionProofs`, `AcquisitionFilesProofs`, `AdapterSessionProofs`, `MetadataRefreshProofs`, `LibraryProofs`, `LanSyncProofs`, `LifecycleProofs` | theorems checked by TLAPS |

The modules meet at `managedMu` and at commits. Each has the part of its neighbours
that it can observe, as coarse steps: a refresh is one step (`Refresh`) in `Library`
and a protocol of twenty in `MetadataRefresh`; a published file is one step in
`LanSync` and six in `Acquisition`; `Lifecycle` sees handlers and workers only as
work that has to end.

### Acquisition

Rows are records `[track, kind, url, state]` indexed by their AUTOINCREMENT ID;
error messages and times are left out. A URL is a value of `Urls`; `Videos` are
the URLs of YouTube watch pages, so a mapping's video ID and its URL are one
value. `disk[t][e]` is what the managed path of track `t` with extension `e`
holds: `Absent`, `Blocked` (cannot be opened as bounded audio), `Junk` (not
playable), `Ours` (the staged bytes) or some other playable file.

A handler is one step, enabled while `managedMu` is free (`mu = NoWorker`). This
is sound because a handler holds `managedMu` from its first read to its commit:
what it reads before its transaction changes only under the same mutex, or on
disk by another program, and a change on disk may then as well be taken to
follow the commit. Refused requests change nothing and are no steps.

A worker goes through `runAcquisition` statement by statement:

    idle -Claim-> check -> choose -> resolve -> persist -> retrieve -> relock -> publish -> inspect -> commit -> idle
                       \-> verify -> adopt -> idle          (a sole orphan file)
    any error -> failing, no acceptable video -> unresolving; RecordOutcome or LoseOutcome -> idle

`mu` is held in `verify` and `adopt`, and from `relock` on; an error in the second
section records its outcome with the mutex still held, as the deferred unlock
does. Reading the desired track and reading the mapping are one step, because
the first only decides whether the worker goes on. `Restart` is a shutdown or a
crash between any two steps with the startup that follows: locals, the mutex,
receipts (the signing key is new) and running inspections are gone, and
`RecoverAcquisitions` requeues what was running. `ApplyDesired` replaces the
desired tracks and their metadata, as a committed snapshot does.

Left out: status and list reads, error texts, the playlist reconciliation after a
commit (a component of its own, started after `managedMu` is released), the
tagging columns, and `RegisterSyntheticTrackFixture`, a test seam.

### AdapterSession

Each connection is served by one goroutine (`loop`), which also applies the
snapshot it has read; while it applies it reads nothing, pongs included. Each run
of `handleSpotifySync` is a request (`ask`); requests are numbered in the order in
which they take the pending slot, so the number stands for the random request ID.
A critical section of `adapterMu` is one step. Whoever takes the request from the
slot still has to cancel its context and send its completion after unlocking;
`due` holds what is to be sent and `Deliver` sends it. `applier` is the
connection that holds `managedMu`. A commit has two steps: it starts only under a
live context, and once started a cancellation does not stop it. `ExpireSession`
may happen whenever the session is in the slot, which covers an adapter that does
not answer and a goroutine too busy to read the answer. `Disconnect` and `Abandon`
are the environment's.

Left out: log messages, message syntax (a message is accepted or a violation),
the write mutex, and the playlist reconciliation inside the apply, during which
the loop is in `reporting`.

### MetadataRefresh

`pc` follows `refreshTrack` and `ReplaceManaged`:

    idle -Start-> reconcile | discard | decide          (what the recorded intent asks for)
    reconcile -> finishOld -> decide,  or restore -> idle
    decide -> stage -> begin -> create -> copy -> check -> exchange -> verify -> sync -> remove -> finish -> idle
    check, exchange -> cleanup -> idle                   (the destination is another file)
    verify -> rollback -> cleanup                        (what was displaced is another file)

A file is a record of audio, text tags and cover, and stands for its own digest;
`Fragment` is a copy that was cut short. The intent in the row has both digests and
the outcome to record. `Fail` is an error of the current step and takes its error
path; `Crash` is possible anywhere. `ForeignWrite` and `ForeignDelete` are other
programs at the managed path. `ApplyDesired` and `Reacquire` come between two runs,
because the command holds `managedMu` from first to last.

Two exceptions are part of the properties, named, and as small as they can be:
`Unwatched`, the windows in which the command cannot see that a new file arrived
(docs/tagging-compatibility.md asks other programs not to write there), and
`CutShort`, the renaming of section 5. History variables: `owed`, foreign audio
that must still exist, `used`, and `strayed`, whether someone else changed the file.

Left out: the comparison of decoded audio by the helper, free space, permissions,
several tracks in one command (each has its own row and files), and loss of power
- a process crash loses nothing that was written.

### Library

`Apply` commits a snapshot (with the no-op detection of `ApplyDesiredSpotifyState`), `Acquire`
a finished acquisition, `Refresh` a whole metadata refresh, which may end with an
intent left in a row. A refresh then, with `managedMu` released, leaves its note
(`NoteChange`) or looks for one (`CheckNote`), and clears it after a good projection
(`ClearPending`); the note is one for all refreshes. Whoever committed then projects: `LockPlaylists`, `Snapshot`,
probing each file with `managedMu` released, `Replace` and `RemoveStale` file by file under it,
with failures and a daemon that dies between any two. A file's number changes with
its bytes, which is what a probe is keyed by. `Filename` is the naming rule with
its collisions. `shown` is the directory of playlists. The client of the missing
listing keeps the revision of its first page and starts again when it moves.

`excused` records that a projection failed, or that files vanished with nothing
due, which the code repairs only at the next start or commit. It also records the
window between two refreshes of section 5: `failed` is the history variable that tells
whether the note a refresh clears may be that of another whose projection failed.

### LanSync

A file is an inode with its bytes; what `stat` tells changes when it is edited or
loses its name, and inode numbers are used again. A request authenticates, takes
a slot or is refused, opens its files under `managedMu`, finds each version in the
cache or by hashing, compares `stat` before and after, answers or streams, closes
and gives its slot back; it may be aborted at any point. The server stops (`stopLANSync`),
dies, and starts.

### Lifecycle

`phase` is the next step of a process's main goroutine through `NewDaemon`, `Run` and
`releaseResources`; each step of a start may fail and then releases what was acquired.
The kernel drops a dead process's lock and listeners, but not its socket's directory
entry. Handlers, a phone request and a worker are `work`. A credential is a number;
setup and reset of the phone credential are steps of a handler that holds `syncMu`,
with the save to disk and its use apart.

## 3. Model checking

| Run | Instance | What it shows |
|---|---|---|
| `AcquisitionQueue` | 2 tracks, 2 workers, 3 rows, 1 video and 1 direct URL | `TypeOK`; `OneActivePerTrack`; `RunningIsOwned`; the refinement `ImplementsLedger` |
| `AcquisitionSelection` | 1 track, 2 videos, 4 mapping revisions, 2 receipts, 1 worker, 2 rows; 926,000 states | `OneOpenYouTubePerTrack`; `RetrievesDurableSource`; `SourceFrozen` (ADR 13); `SpentReceiptStartsNothing` |
| `AcquisitionFiles` | 1 track, 2 extensions, 5 kinds of foreign edit | `RegisteredFileExists`; `OneFilePerTrack`; `OrphanIsRecoverable`; `NeverOverwrites`; `PublishesOnlyMissing` |
| `AcquisitionLive` | 2 tracks, 2 workers, 2 rows, fairness | `PendingIsClaimed`; `RunningIsDecided` |
| `AdapterSession` | 2 connections, 2 requests | `TypeOK`; `CompletedOnce`; `PendingHasSession`; `OneSession`; `AnswersItsRequest`; `NewestSnapshotWins`; the refinement `ImplementsCalls` |
| `AdapterLive` | 2 connections, 1 request, fairness | `CallerIsAnswered`; `SlotIsFreed` |
| `AdapterCommitReport` | 1 connection, 1 request | expects the violation of `CommitIsReported` (section 5) |
| `MetadataRefresh` | 1 text and 1 cover presentation (and none), 2 foreign files, fairness; 724,000 states | `TypeOK`; `ForeignSurvives`; `BooksMatchBytes`; `AudioStaysAvailable`; `RecoversAfterCrash` |
| `MetadataFragment` | the same with 2 texts | expects the violation of `NeverPublishesFragment` (section 5) |
| `LanSync` | 3 requests, 2 slots, 1 track, 2 versions, 4 inodes; 396,000 states | `ServesRequestedVersion`; `SlotsAreCounted`; `NothingServedAfterStop` |
| `Lifecycle` | 2 processes, 2 clients, 3 credentials, fairness; 10,000 states | `OneOwner`; `NothingUsedAfterClose`; `ServingIsReachable`; `CredentialHolds`; `ShutdownEnds` |
| `Library` | 2 tracks, 2 desired states between which playlists are renamed and take over names, 2 revisions, 2 refreshers, pages of at most 2; 2,970,000 states | `StaleIsOwed`; `PlaylistNotLost`; `MissingIsWhole` |

Every property of a passing run has a mutant: a slip in one modelled definition
(kept beside it, marked *Slip*) with which TLC finds the property violated.

**Bounds.** `MaxWork` bounds rows ever inserted: three rows on two tracks give two
attempts of one track beside another, enough for every conflict between two rows,
since rows interact only through their track and through the order of claims.
Two workers give every race between workers, which share no more than the row
table and the mutex. `MaxRevision = 4` (mappings) gives set, remove and set again,
the case the revision counter exists for, with room for the selection that a spent
receipt, replayed after any of these, must not make. `MaxReceipts` bounds the receipts
held at the same time, not those issued. A track has one version of its metadata: a
change of it only refuses receipts (with two versions and these bounds, 5,300,000
states, the same holds; the proofs are for any number). Two connections and two requests give every race
between an old session or request and a new one. Two foreign files let one be
displaced while another arrives; a second text presentation (8,100,000 states)
changes no result and is left to the violation run. Three requests on two slots fill the
server and refuse one; four inodes are a current file, a replaced one, a removed
one that is still open or cached, and a new one. Two processes give the
running daemon and the one that starts beside it or after it; `MaxCred = 3` gives a
setup and two resets. In `Library`, `MaxBytes` lets the first track be acquired and
retagged and keeps the second missing; a page holds both tracks, or the first alone
if the frame is full, so that a listing has two pages; two revisions let the Desired
state change while anything is under way. Two refreshers reach the window between two
refreshes: without either half of the exception (`ClearPending`, `ProjectionFails`)
TLC finds `StaleIsOwed` violated, in 29 and 30 steps. Runs that concern
one aspect shrink the others to a single value.

**Deadlock** is checked everywhere but in the adapter runs, which stop after a
shutdown with every connection served and every request used, as the daemon does.

**Fairness.** `Acquisition!Fairness` is weak fairness of each worker as a whole: its
goroutine is scheduled, its tools run under deadlines or end, and it polls every
100 ms. Nothing is assumed of handlers, of the other writer or of restarts, except
in `Calm`: from some point on nobody resubmits rows or restarts the daemon. It is
needed because the oldest row is claimed first: a row that is retried for ever
starves younger ones, and a daemon restarted again and again decides nothing.
`RunningIsDecided` excepts rows whose outcome could not be recorded (`lost`); they
stay running until the next start.

`AdapterSession!Fairness` is weak fairness of each goroutine at its own steps and of
the timers; nothing is assumed of the adapter, which may stay silent, and nothing of
the caller. `MetadataRefresh!FairSpec` is weak fairness of `Start` and of the
command's steps: the command is repeated, which its own diagnostics and the
documentation ask the user to do, and it runs in one goroutine to its end.
`RecoversAfterCrash` speaks of a state in which failures and other writers have
ceased (`calm`). `Lifecycle!Fairness` is that of a process that is stopping: its
main goroutine goes on, and control clients, phone requests, workers and resets
end, each of which has a deadline or a cancelled context there. Of a process that
serves nothing is assumed. `LanSync` and `Library` claim safety only.

## 4. Proofs

Each module below is proved for all values of its constants, from the named ASSUMEs
of the component it extends (finiteness, null values outside the sets they stand
beside, bounds that are naturals), which TLC evaluates on every run.

**`AcquisitionProofs`** - any finite set of tracks, any number of workers, rows, videos,
extensions and foreign contents.
* `TypeCorrect`; `OneActive`: `OneActivePerTrack` is inductive with `TypeOK`: handlers
  and batches make a row active only where none of its track is (`NoNewActive`,
  `OneNewActive`), and a worker never makes one active. The batch of
  `acquire.missing` uses that `queued` is a bijection; that the batch fits `WorkIds`
  uses `BatchSize`, a cardinality fact.
* `RunningOwned`: not inductive alone: a lost row must have no worker, or a later
  claim could not be told from it, so `RunningIsOwned /\ LostIsUnowned` is proved.
  Its last part, `LockIsHeld`, is what the deadlock of section 1 would break: every
  return path of `runAcquisition` gives `managedMu` back.

**`AcquisitionSelectionProofs`** builds on these. `HandlerRow` says what any handler may do
to a row - make it pending, if it is neither active nor complete, with its track and
kind kept - and `OthersKeep` that a worker leaves the rows and locals of the others alone.
* `RetrievesDurableSourceCorrect`, from `SourceInv`: a worker's copy of the URL is the
  row's at the first lock, exists when it is persisted, and is the row's again from
  the retrieval on. `SourceFrozenCorrect`: handlers leave active rows alone and of the
  workers' steps only `PersistSource` writes a URL, into its own row.
* `OneOpenYouTubeCorrect`: inserting a row for a track without an open one, and
  reusing an open one, are the only ways in (`InsertOpen`, `NoNewOpen`).
* `SpentReceiptCorrect`, from `SpentInv`: an accepted receipt is behind the mapping
  revision of its track for good, so it passes only while there is active work.

**`AcquisitionFilesProofs`** - what a worker knows of its track's files, step by step.
* `FilesInv` has, for each worker, what it has locked and carries (`StageOK`), that
  its track is desired and missing when it publishes, unless an edit made it
  available meanwhile (`DueOK`), and that until then
  the track has no file and is not registered (`TrackOK`); the latter holds with
  `managedMu` released because rows of one track are never active together
  (`SoleOwner`), so that is where `OneActivePerTrack` and `RunningIsOwned` are needed.
  With `Untouched` (other files than the daemon's are at edited tracks only) it is
  inductive together with the three invariants it proves: `RegisteredFileExistsCorrect`,
  `OneFileCorrect`, `OrphanIsRecoverableCorrect`. The last needs that no step but its
  completion takes a row from where it can be resumed (`ResumableKept`).
* `NeverOverwritesCorrect` and `PublishesOnlyMissingCorrect` from `StageOK` and `DueOK`.
* `ImplementsLedgerCorrect`: the refinement of `WorkLedger`, from all of the above. A
  handler is a `Submit` of the rows it made pending, or a wish; a worker's step is a
  `Start`, `GiveUp`, `Publish`, `Fulfil` or a stutter; a restart is an `Interrupt`; an edit is a
  `Tamper`. Tampered tracks keep their promise about who works on them; how far they
  have come is then somebody else's doing.

**`AdapterSessionProofs`** - any finite sets of connections and requests. All
properties of run `AdapterSession`. The invariant is
`IInv == TypeOK /\ HandlingFits /\ SlotFits /\ AcceptingFits /\ CompletionFits`: what a loop
may be doing in each state, that session and pending request are set and cleared
together, and that a completion is due or sent exactly for requests that have left
the slot. `NewestSnapshotWins` needs in addition that requests start in the order of
their numbers, that the pending one is the newest, and that what was taken from
the slot is cancelled or about to be (`OrderInv`).
`CompletedOnce` (the half that says a completion comes) and `OneSession` (the half
that says nothing is leaked) need `CallInv`: a reservation and a session have a
goroutine that gives them up, an accepted answer stays with its loop until it is
reported, and where the caller is says where its completion is. On the same
invariant rests `ImplementsCallsCorrect`, the refinement of `SnapshotCalls`: the life
of a call is that of its request in the slot, then what its completion says;
`undecided` are the requests that failed while a loop still had their answer. Every
way to empty the slot is one abstract failure (`TakenFails`, `EmptiesIsCallStep`).
`NothingStartsAfterStopCorrect` has no run of its own: `SnapshotCalls` says the same.

**`MetadataRefreshProofs`** - any presentations and any foreign files. `TypeCorrect`,
`BooksMatchBytesCorrect`, `ForeignSurvivesCorrect`, `AudioStaysAvailableCorrect`. Three layers:
`TypeInv` adds to the types what intent, locals and temporary entry are at each
step; `BooksInv` adds `Faithful`: while only the daemon writes, the file is the old
or the new one of the intent, exactly as far as the command has come, and the row
claims what the old one has; `SurvivalInv` adds `Covered`: at each step, which other
place has the audio that the step may remove. That restoring a fragment destroys
audio only under `CutShort` is where the third layer needs the second.

**`LibraryProofs`** - any tracks, states, page sizes and bounds.
`PlaylistNotLostCorrect`; `MissingIsWholeCorrect`, whose invariant `ListingInv` ties
the count of a listing to the tracks that were desired before its last page;
`StaleIsOwedCorrect` for any number of concurrent refreshes, with the window that the
property names (section 5): `OwedInv` says that a projection's probe differs from the
files only where somebody will still note it, and that a note nobody else acts on is
being cleared only when a failure on record excuses it.

**`LanSyncProofs`** - any requests, slots, versions and inodes. `SlotsAreCountedCorrect`
and `NothingServedAfterStopCorrect` from the counts; `ServesRequestedVersionCorrect`
from `VersionInv`: two files with the same `stat` result are the same unedited file,
and the cache, the versions found, and a digest under way are those of a file.

**`LifecycleProofs`** - any processes, clients and credentials. `OneOwnerCorrect`,
`NothingUsedAfterCloseCorrect`, `ServingIsReachableCorrect` from an invariant that gives
for each phase what the process holds, runs and has locked; `CredentialHoldsCorrect`
from `CredInv`: the credentials on disk, in use and in the phone, along a reset.

Every safety property and both refinements that a passing run checks are proved.
Only model-checked: the liveness properties (`PendingIsClaimed`, `RunningIsDecided`,
`CallerIsAnswered`, `SlotIsFreed`, `RecoversAfterCrash`, `ShutdownEnds`), which rest on
fairness and are out of the prover's reach. What can be said of them without
fairness is proved: whoever is waited for exists (`RunningIsOwned`, `CompletedOnce`,
`OneSession`). TLC evaluated the inductive invariants on small instances before they
were proved.

## 5. Findings

**A committed snapshot may be reported as failed** (`adapter.go:870`, run
`AdapterCommitReport`). The comment at `adapter.go:347` says of an accepted response
that "persistence owns completion and must be allowed to report its committed
result". The timeout path tests `pending.applying` for that; `invalidateAdapterSession`,
which serves the liveness check and a caller's hang-up, does not, and neither does
the shutdown. In the shortest counterexample the loop has committed the snapshot and
is still writing playlists, so it reads no pong; the liveness check expires the
session and completes the request with "became unresponsive"; the caller is told
that the synchronization failed although the Desired state has changed.

**A fragment may be restored over good audio** (`files.go:546`, run `MetadataFragment`).
When the staged copy is equal to the file - its tags are there, only the row says
otherwise - the intent has equal old and new digests. If the daemon dies while that
copy is written, the next refresh takes the replacement for published and the
truncated copy for the displaced file, and renames it over the managed path.
`ForeignSurvives` and `AudioStaysAvailable` except this renaming (`CutShort`) and no other.

Seen while modelling, where no document promises otherwise or the model does not
reach, so there is no run:

* *An ended request may win a last race.* `NewestSnapshotWins` names the only window
  in which an older snapshot could replace a newer one: between taking a request from
  the slot and cancelling its context, two statements apart.
* *Two concurrent metadata refreshes may forget a projection* (`metadata.go:39`). The
  first projects well and releases both mutexes; the second changes a file and sets
  `metadataPlaylistPending`; the first clears it; the projection of the second fails,
  before that or after, and nothing is pending although the playlists are stale.
  `metadata_playlist_test.go:126` asserts of one refresh that a failed projection stays
  pending. `StaleIsOwed` excepts this window by name and no other.
* *A playlist may be off the disk until the next projection* when another one takes over
  its name: `ReconcilePlaylists` renames in the order of file names, and may be cut off
  after the old file was replaced and before the new one of its former owner is there.
  `PlaylistNotLost` is about files that are removed; `StaleIsOwed` has the rest owed.
* A crash while the temporary copy is written leaves a partial file; a later refresh
  with different digests reports it and waits for inspection, as documented.
* Restoring checks the destination before it renames (`files.go:544`): a file that
  arrives between the two is overwritten. This is one of the `Unwatched` windows.
* A track whose artwork URL has gone, and whose staging fails, is recorded as
  "unavailable" with the new fingerprint (`metadata.go:140,152,173`), so its old
  cover is not removed later.
* A credential reset whose `Save` fails after its rename reports failure; the old
  credential stays in use until the restart, and the new one is used after it
  (`doubtful` in `Lifecycle`).
* ADR 4 describes a shutdown order in which the socket is removed later than the code
  does it, and removal is by path, whatever file is there. The lock is in the state
  directory, while ADR 1 speaks of the data directory.

## 6. Not modelled, and what is left

Not modelled, or in part: the resolver's scoring and evaluation (pure functions over
the text of search results), the artwork cache (a lost race costs a repeated fetch),
decoding and validation of control messages and snapshots (what is refused changes
nothing), the CLI's formatting, review prompts and `capture_batch`, the phone's
client, configuration, logging, migrations, and the helper processes for download
and tagging. The Spicetify extension runs inside another program; `AdapterSession`
lets an adapter answer, stay silent or disconnect at any time.

Adapter goroutines: `http.Server.Shutdown` does not wait for upgraded connections, so
one may outlive the release of the lock by the time its cancelled context needs.
`Lifecycle` counts only work that has a wait group.

Crashes are those of a process. What a file system may lose with the power, and the
`fsync` calls against it, are outside the models.

Left to do: abstract specifications that `MetadataRefresh` and `Lifecycle` implement; the
artwork cache; a model of the extension's reconnects and paged collection composed
with `AdapterSession`; the thresholds of the resolver as operators.
