----------------------------- MODULE Acquisition -----------------------------
(***************************************************************************)
(* The acquisition queue of the daemon: the durable work rows              *)
(* (internal/db/acquisition_work.go), the manual mappings and inspection   *)
(* receipts that choose a source (internal/db/select_youtube.go,           *)
(* internal/app/select_youtube.go), the worker goroutines that retrieve    *)
(* and publish (internal/app/acquisition.go), and the part of the managed  *)
(* library they write (internal/managed/files.go).                         *)
(*                                                                         *)
(* SQLite runs on one connection, so each database operation or            *)
(* transaction is one step.  managedMu serialises the Control handlers and *)
(* two sections of a worker; what a worker does outside it interleaves     *)
(* with everything.  A handler is one step taken while managedMu is free:  *)
(* what it reads before its transaction (desired tracks, registered files) *)
(* only changes under managedMu, or outside the daemon, and then the       *)
(* change can as well be taken to follow the transaction.                  *)
(***************************************************************************)
EXTENDS Integers, FiniteSets, Functions

CONSTANTS
  Tracks,        \* Spotify track URIs
  Urls,          \* source URLs
  Videos,        \* the URLs that are YouTube watch pages, one per video ID
  Metas,         \* versions of a track's Spotify metadata
  Exts,          \* audio extensions, one managed path each
  Workers,       \* acquisition goroutines (config acquisition.concurrency)
  MaxWork,       \* bound: work rows ever inserted
  MaxRevision,   \* bound: mapping revisions of a track
  MaxReceipts,   \* bound: receipts clients hold at the same time
  EditContents,  \* what somebody else may leave at a managed path
  Absent,        \* no file at the path
  Blocked,       \* something there that cannot be opened as bounded audio
  Junk,          \* a readable file that is not playable audio
  Ours,          \* exactly the bytes the daemon staged and published
  NoTrack, NoUrl, NoExt, NoWorker, NoInspection

ASSUME TracksAssumption == IsFiniteSet(Tracks) /\ NoTrack \notin Tracks
ASSUME UrlsAssumption == Videos \subseteq Urls /\ NoUrl \notin Urls
ASSUME ExtsAssumption == NoExt \notin Exts
ASSUME WorkersAssumption == NoWorker \notin Workers
ASSUME BoundsAssumption ==
  MaxWork \in Nat /\ MaxRevision \in Nat /\ MaxReceipts \in Nat
ASSUME ContentAssumption ==
  /\ Ours \notin EditContents
  /\ Ours # Absent /\ Ours # Blocked /\ Ours # Junk
  /\ Absent # Blocked /\ Absent # Junk /\ Blocked # Junk

VARIABLES
  work,        \* table acquisition_work: row of each ID
  nextId,      \* the next AUTOINCREMENT ID
  desired,     \* the tracks of Desired Spotify state
  meta,        \* their current metadata
  mapping,     \* table manual_youtube_mappings
  mapRev,      \* table manual_youtube_mapping_revisions
  managed,     \* table managed_tracks: extension of the registered path
  disk,        \* what each managed path holds
  inspecting,  \* the inspection whose YouTube search is in progress
  receipts,    \* signed receipts that clients still hold
  used,        \* those of them that were accepted by acquire.select
  mu,          \* the worker that holds managedMu
  pc, job, src, ext, seen,  \* the workers' control state and locals
  lost,        \* rows whose outcome could not be recorded
  edited       \* tracks whose files somebody else has touched

rowVars == <<work, nextId>>
mapVars == <<mapping, mapRev>>
wishVars == <<desired, meta>>
fileVars == <<managed, disk>>
clientVars == <<inspecting, receipts, used>>
workerVars == <<pc, job, src, ext, seen, lost>>
vars == <<rowVars, mapVars, wishVars, fileVars, clientVars, mu, workerVars, edited>>

WorkIds == 1..MaxWork
Contents == EditContents \cup {Absent, Blocked, Junk, Ours}
States == {"none", "pending", "running", "unresolved", "failed", "complete"}
Kinds == {"none", "direct", "youtube"}
Rows == [track : Tracks \cup {NoTrack}, kind : Kinds, url : Urls \cup {NoUrl}, state : States]
NoRow == [track |-> NoTrack, kind |-> "none", url |-> NoUrl, state |-> "none"]
Receipts == [track : Tracks, video : Videos, meta : Metas, rev : 0..MaxRevision]
Inspections == [track : Tracks, meta : Metas]
Pcs == {"idle", "check", "verify", "adopt", "choose", "resolve", "persist", "retrieve",
        "relock", "publish", "inspect", "commit", "failing", "unresolving"}

-----------------------------------------------------------------------------
(* What the handlers and the workers look up.                              *)

Active(row) == row.state \in {"pending", "running"}
\* Slip: a queued row is not counted as active.
ActiveForRunningOnly(t) == {i \in WorkIds : work[i].track = t /\ work[i].state = "running"}
ActiveFor(t) == {i \in WorkIds : work[i].track = t /\ Active(work[i])}
YouTubeFor(t) == {i \in WorkIds : work[i].track = t /\ work[i].kind = "youtube"}
PendingIds == {i \in WorkIds : work[i].state = "pending"}

\* A registered path counts as available when it opens as a non-empty file.
Available(t) == managed[t] # NoExt /\ disk[t][managed[t]] \notin {Absent, Blocked}
\* Slip: a track that was removed still counts as missing.
MissingUndesired(t) == ~Available(t)
Missing(t) == t \in desired /\ ~Available(t)
FilesOf(t) == {e \in Exts : disk[t][e] # Absent}

JobTrack(w) == work[job[w]].track

Init ==
  /\ work = [i \in WorkIds |-> NoRow] /\ nextId = 1
  /\ desired \in SUBSET Tracks /\ meta \in [Tracks -> Metas]
  /\ mapping = [t \in Tracks |-> NoUrl] /\ mapRev = [t \in Tracks |-> 0]
  /\ managed = [t \in Tracks |-> NoExt]
  /\ disk = [t \in Tracks |-> [e \in Exts |-> Absent]]
  /\ inspecting = NoInspection /\ receipts = {} /\ used = {}
  /\ mu = NoWorker
  /\ pc = [w \in Workers |-> "idle"] /\ job = [w \in Workers |-> 0]
  /\ src = [w \in Workers |-> NoUrl] /\ ext = [w \in Workers |-> NoExt]
  /\ seen = [w \in Workers |-> Absent]
  /\ lost = {} /\ edited = {}

-----------------------------------------------------------------------------
(* Control handlers.  Each runs with managedMu held.                       *)

Insert(row) ==
  /\ nextId \in WorkIds
  /\ work' = [work EXCEPT ![nextId] = row]
  /\ nextId' = nextId + 1

PendingRow(t, k, u) == [track |-> t, kind |-> k, url |-> u, state |-> "pending"]

\* "acquire": an active row makes the request a no-op or a conflict.
Acquire(t, u) ==
  /\ mu = NoWorker
  /\ Missing(t)
  /\ ActiveFor(t) = {}
  /\ Insert(PendingRow(t, "direct", u))
  /\ UNCHANGED <<mapVars, wishVars, fileVars, clientVars, mu, workerVars, edited>>

\* "acquire.missing": one transaction queues every missing track that is not
\* active and has never had YouTube work.
NeverTried == {t \in Tracks : Missing(t) /\ ActiveFor(t) = {} /\ YouTubeFor(t) = {}}

AcquireMissing ==
  LET new == nextId .. (nextId + Cardinality(NeverTried) - 1)
  IN  /\ mu = NoWorker
      /\ NeverTried # {}
      /\ new \subseteq WorkIds
      /\ \E queued \in Bijection(new, NeverTried) :
           work' = [i \in WorkIds |-> IF i \in new
                                      THEN PendingRow(queued[i], "youtube", NoUrl)
                                      ELSE work[i]]
      /\ nextId' = nextId + Cardinality(NeverTried)
      /\ UNCHANGED <<mapVars, wishVars, fileVars, clientVars, mu, workerVars, edited>>

\* Slip: a direct request loses its URL too.
RequeuedWithoutUrl(row) == [row EXCEPT !.state = "pending", !.url = NoUrl]

\* A retried row is pending again; YouTube work selects its source anew.
Requeued(row) ==
  [row EXCEPT !.state = "pending", !.url = IF row.kind = "youtube" THEN NoUrl ELSE row.url]

\* "acquire.retry"
Retry(i) ==
  /\ mu = NoWorker
  /\ work[i].state = "failed"
  /\ Missing(work[i].track)
  /\ ActiveFor(work[i].track) = {}
  /\ work' = [work EXCEPT ![i] = Requeued(work[i])]
  /\ UNCHANGED <<nextId, mapVars, wishVars, fileVars, clientVars, mu, workerVars, edited>>

\* "acquire.retry.unresolved": rows in ID order, so the first eligible row of a
\* track makes its track active and the loop skips the later ones.
Retryable(i) ==
  /\ work[i].state = "unresolved" /\ work[i].kind = "youtube"
  /\ Missing(work[i].track)
  /\ ActiveFor(work[i].track) = {}

FirstRetryable(i) ==
  Retryable(i) /\ \A j \in WorkIds : j < i /\ Retryable(j) => work[j].track # work[i].track

RetryUnresolved ==
  /\ mu = NoWorker
  /\ \E i \in WorkIds : Retryable(i)
  /\ work' = [i \in WorkIds |-> IF FirstRetryable(i) THEN Requeued(work[i]) ELSE work[i]]
  /\ UNCHANGED <<nextId, mapVars, wishVars, fileVars, clientVars, mu, workerVars, edited>>

\* The triggers of migration 7 count every insert, update and delete of a mapping.
Remap(t, v) ==
  /\ mapRev[t] < MaxRevision
  /\ mapping' = [mapping EXCEPT ![t] = v]
  /\ mapRev' = [mapRev EXCEPT ![t] = @ + 1]

\* "acquire.mapping.set" and "acquire.mapping.remove", with the optional video
\* the caller expects to replace.
SetMapping(t, v, expected) ==
  /\ mu = NoWorker
  /\ expected \in {NoUrl, mapping[t]}
  /\ Remap(t, v)
  /\ UNCHANGED <<rowVars, wishVars, fileVars, clientVars, mu, workerVars, edited>>

RemoveMapping(t, expected) ==
  /\ mu = NoWorker
  /\ mapping[t] # NoUrl
  /\ expected \in {NoUrl, mapping[t]}
  /\ Remap(t, NoUrl)
  /\ UNCHANGED <<rowVars, wishVars, fileVars, clientVars, mu, workerVars, edited>>

\* "acquire.inspect" reads the metadata, searches with managedMu released, then
\* reads the mapping revision and signs a receipt for each candidate.
InspectStart(t) ==
  /\ mu = NoWorker
  /\ inspecting = NoInspection
  /\ t \in desired
  /\ inspecting' = [track |-> t, meta |-> meta[t]]
  /\ UNCHANGED <<rowVars, mapVars, wishVars, fileVars, receipts, used, mu, workerVars, edited>>

InspectFinish(candidates) ==
  LET signed == {[track |-> inspecting.track, video |-> v, meta |-> inspecting.meta,
                  rev |-> mapRev[inspecting.track]] : v \in candidates}
  IN  /\ mu = NoWorker
      /\ inspecting # NoInspection
      /\ Cardinality(receipts \cup signed) <= MaxReceipts
      /\ receipts' = receipts \cup signed
      /\ inspecting' = NoInspection
      /\ UNCHANGED <<rowVars, mapVars, wishVars, fileVars, used, mu, workerVars, edited>>

\* A receipt is refused ten minutes after it was issued.
ExpireReceipt(r) ==
  /\ receipts' = receipts \ {r}
  /\ used' = used \ {r}
  /\ UNCHANGED <<rowVars, mapVars, wishVars, fileVars, inspecting, mu, workerVars, edited>>

\* "acquire.select" (handleYouTubeSelection and db.SelectYouTube).
\* Slip: failed attempts are not reused.
ReusableUnresolved(t) == {i \in YouTubeFor(t) : work[i].state = "unresolved"}
Reusable(t) == {i \in YouTubeFor(t) : work[i].state \in {"unresolved", "failed"}}

QueueSelected(t, v) ==
  \/ /\ ActiveFor(t) # {}
     /\ UNCHANGED rowVars
  \/ /\ ActiveFor(t) = {}
     /\ \E i \in Reusable(t) :
          /\ \A j \in Reusable(t) : j <= i
          /\ work' = [work EXCEPT ![i].url = v, ![i].state = "pending"]
     /\ UNCHANGED nextId
  \/ /\ ActiveFor(t) = {} /\ Reusable(t) = {}
     /\ Insert(PendingRow(t, "youtube", v))

\* Slip: the same video is taken for the same mapping revision.
ReceiptSameVideo(r) == r.rev = mapRev[r.track] \/ mapping[r.track] = r.video

ReceiptCurrent(r) ==
  \/ r.rev = mapRev[r.track]
  \/ mapping[r.track] = r.video /\ ActiveFor(r.track) # {}

SelectYouTube(r) ==
  /\ mu = NoWorker
  /\ Missing(r.track)
  /\ r.meta = meta[r.track]
  /\ \A i \in ActiveFor(r.track) : work[i].kind = "youtube" /\ work[i].url = r.video
  /\ ReceiptCurrent(r)
  /\ QueueSelected(r.track, r.video)
  /\ Remap(r.track, r.video)
  /\ used' = used \cup {r}
  /\ UNCHANGED <<wishVars, fileVars, inspecting, receipts, mu, workerVars, edited>>

\* A Spotify snapshot replaces the Desired tracks and their metadata.
ApplyDesired(tracks, metadata) ==
  /\ mu = NoWorker
  /\ desired' = tracks
  /\ meta' = metadata
  /\ UNCHANGED <<rowVars, mapVars, fileVars, clientVars, mu, workerVars, edited>>

-----------------------------------------------------------------------------
(* A worker: runAcquisition, from the claim to the recorded outcome.       *)

\* ClaimAcquisition takes the oldest pending row.
Claim(w) ==
  /\ pc[w] = "idle"
  /\ \E i \in PendingIds :
       /\ \A j \in PendingIds : i <= j
       /\ work' = [work EXCEPT ![i].state = "running"]
       /\ job' = [job EXCEPT ![w] = i]
       /\ src' = [src EXCEPT ![w] = work[i].url]
  /\ pc' = [pc EXCEPT ![w] = "check"]
  /\ UNCHANGED <<nextId, mapVars, wishVars, fileVars, clientVars, mu, ext, seen, lost, edited>>

\* Slip: an error path returns without unlocking.
ReleaseForgotten(w) == mu' = IF pc[w] = "failing" THEN mu ELSE IF mu = w THEN NoWorker ELSE mu

\* Leave managedMu if this worker holds it.
Release(w) == mu' = IF mu = w THEN NoWorker ELSE mu

Goto(w, label) == pc' = [pc EXCEPT ![w] = label]

\* Slip: the orphan of an interrupted commit is not looked for.
CheckWithoutOrphan(w) ==
  /\ pc[w] = "check" /\ mu = NoWorker
  /\ Missing(JobTrack(w))
  /\ Goto(w, IF src[w] = NoUrl THEN "choose" ELSE "retrieve")
  /\ UNCHANGED <<rowVars, mapVars, wishVars, fileVars, clientVars, mu, job, src, ext, seen, lost, edited>>

\* First section under managedMu: no file for the track, go and get one.
CheckNoFile(w) ==
  /\ pc[w] = "check" /\ mu = NoWorker
  /\ Missing(JobTrack(w))
  /\ FilesOf(JobTrack(w)) = {}
  /\ Goto(w, IF src[w] = NoUrl THEN "choose" ELSE "retrieve")
  /\ UNCHANGED <<rowVars, mapVars, wishVars, fileVars, clientVars, mu, job, src, ext, seen, lost, edited>>

\* A sole unregistered file is opened for adoption; managedMu stays held.
CheckOrphan(w) ==
  /\ pc[w] = "check" /\ mu = NoWorker
  /\ Missing(JobTrack(w))
  /\ \E e \in Exts :
       /\ FilesOf(JobTrack(w)) = {e}
       /\ disk[JobTrack(w)][e] # Blocked
       /\ ext' = [ext EXCEPT ![w] = e]
       /\ seen' = [seen EXCEPT ![w] = disk[JobTrack(w)][e]]
  /\ mu' = w
  /\ Goto(w, "verify")
  /\ UNCHANGED <<rowVars, mapVars, wishVars, fileVars, clientVars, job, src, lost, edited>>

\* Not desired, already available, ambiguous or blocked files, or an I/O error.
CheckRefused(w) ==
  /\ pc[w] = "check" /\ mu = NoWorker
  /\ Goto(w, "failing")
  /\ UNCHANGED <<rowVars, mapVars, wishVars, fileVars, clientVars, mu, job, src, ext, seen, lost, edited>>

\* VerifyOrphan on the open descriptor, then OrphanUnchanged on the path.
VerifyOrphan(w) ==
  /\ pc[w] = "verify"
  /\ seen[w] # Junk
  /\ disk[JobTrack(w)][ext[w]] = seen[w]
  /\ Goto(w, "adopt")
  /\ UNCHANGED <<rowVars, mapVars, wishVars, fileVars, clientVars, mu, job, src, ext, seen, lost, edited>>

\* Any error with managedMu held for the first section releases it first.
AdoptionFails(w) ==
  /\ pc[w] \in {"verify", "adopt"}
  /\ Goto(w, "failing")
  /\ Release(w)
  /\ UNCHANGED <<rowVars, mapVars, wishVars, fileVars, clientVars, job, src, ext, seen, lost, edited>>

\* Slip: the goroutine ends with its first request instead of polling on.
ReturnAndExit(w) ==
  /\ Goto(w, "stopped")
  /\ job' = [job EXCEPT ![w] = 0]
  /\ src' = [src EXCEPT ![w] = NoUrl]
  /\ ext' = [ext EXCEPT ![w] = NoExt]
  /\ seen' = [seen EXCEPT ![w] = Absent]

\* The worker's locals are gone when runAcquisition returns.
Return(w) ==
  /\ Goto(w, "idle")
  /\ job' = [job EXCEPT ![w] = 0]
  /\ src' = [src EXCEPT ![w] = NoUrl]
  /\ ext' = [ext EXCEPT ![w] = NoExt]
  /\ seen' = [seen EXCEPT ![w] = Absent]

\* Slip: the row is completed without its managed_tracks mapping.
CompleteUnregistered(w) ==
  /\ pc[w] \in {"adopt", "commit"}
  /\ work' = [work EXCEPT ![job[w]].state = "complete"]
  /\ Release(w)
  /\ Return(w)
  /\ UNCHANGED <<nextId, mapVars, wishVars, fileVars, clientVars, lost, edited>>

\* Complete...Acquisition: mapping and terminal state in one transaction.  The
\* orphan path ("adopt") and the publication path ("commit") both end here.
Complete(w) ==
  /\ pc[w] \in {"adopt", "commit"}
  /\ work[job[w]].state = "running"
  /\ JobTrack(w) \in desired
  /\ managed' = [managed EXCEPT ![JobTrack(w)] = ext[w]]
  /\ work' = [work EXCEPT ![job[w]].state = "complete"]
  /\ Release(w)
  /\ Return(w)
  /\ UNCHANGED <<nextId, mapVars, wishVars, disk, clientVars, lost, edited>>

\* Source choice, outside managedMu: the desired track and the manual mapping
\* are read, and only without a mapping does the resolver search.
ReadMapping(w) ==
  /\ pc[w] = "choose"
  /\ JobTrack(w) \in desired
  /\ src' = [src EXCEPT ![w] = mapping[JobTrack(w)]]
  /\ Goto(w, IF mapping[JobTrack(w)] = NoUrl THEN "resolve" ELSE "persist")
  /\ UNCHANGED <<rowVars, mapVars, wishVars, fileVars, clientVars, mu, job, ext, seen, lost, edited>>

Resolve(w, v) ==
  /\ pc[w] = "resolve"
  /\ src' = [src EXCEPT ![w] = v]
  /\ Goto(w, "persist")
  /\ UNCHANGED <<rowVars, mapVars, wishVars, fileVars, clientVars, mu, job, ext, seen, lost, edited>>

ResolveNone(w) ==
  /\ pc[w] = "resolve"
  /\ Goto(w, "unresolving")
  /\ UNCHANGED <<rowVars, mapVars, wishVars, fileVars, clientVars, mu, job, src, ext, seen, lost, edited>>

\* Slip: retrieval starts before the choice is durable.
PersistNothing(w) ==
  /\ pc[w] = "persist"
  /\ Goto(w, "retrieve")
  /\ UNCHANGED <<rowVars, mapVars, wishVars, fileVars, clientVars, mu, job, src, ext, seen, lost, edited>>

\* SetAcquisitionSource: the choice is durable before anything is retrieved.
PersistSource(w) ==
  /\ pc[w] = "persist"
  /\ work[job[w]].kind = "youtube" /\ work[job[w]].state = "running"
  /\ work[job[w]].url = NoUrl
  /\ work' = [work EXCEPT ![job[w]].url = src[w]]
  /\ Goto(w, "retrieve")
  /\ UNCHANGED <<nextId, mapVars, wishVars, fileVars, clientVars, mu, job, src, ext, seen, lost, edited>>

\* The tools decide the extension of what they downloaded.
Retrieve(w, e) ==
  /\ pc[w] = "retrieve"
  /\ ext' = [ext EXCEPT ![w] = e]
  /\ Goto(w, "relock")
  /\ UNCHANGED <<rowVars, mapVars, wishVars, fileVars, clientVars, mu, job, src, seen, lost, edited>>

\* A database, resolver or tool error outside managedMu.
SourceFails(w) ==
  /\ pc[w] \in {"choose", "resolve", "persist", "retrieve"}
  /\ Goto(w, "failing")
  /\ UNCHANGED <<rowVars, mapVars, wishVars, fileVars, clientVars, mu, job, src, ext, seen, lost, edited>>

\* Slip: the track is not checked again after the retrieval.
RelockUnchecked(w) ==
  /\ pc[w] = "relock" /\ mu = NoWorker
  /\ mu' = w
  /\ Goto(w, "publish")
  /\ UNCHANGED <<rowVars, mapVars, wishVars, fileVars, clientVars, job, src, ext, seen, lost, edited>>

\* Slip: the mapping is committed before the file is published.
RelockCommitFirst(w) ==
  /\ pc[w] = "relock" /\ mu = NoWorker
  /\ mu' = w
  /\ Missing(JobTrack(w)) /\ Goto(w, "commit")
  /\ UNCHANGED <<rowVars, mapVars, wishVars, fileVars, clientVars, job, src, ext, seen, lost, edited>>

\* Second section under managedMu, held to the recorded outcome.
Relock(w) ==
  /\ pc[w] = "relock" /\ mu = NoWorker
  /\ mu' = w
  /\ \/ Missing(JobTrack(w)) /\ Goto(w, "publish")
     \/ Goto(w, "failing")
  /\ UNCHANGED <<rowVars, mapVars, wishVars, fileVars, clientVars, job, src, ext, seen, lost, edited>>

\* Slip: rename replaces whatever is at the path.
PublishRename(w) ==
  /\ pc[w] = "publish"
  /\ disk' = [disk EXCEPT ![JobTrack(w)][ext[w]] = Ours]
  /\ Goto(w, "inspect")
  /\ UNCHANGED <<rowVars, mapVars, wishVars, managed, clientVars, mu, job, src, ext, seen, lost, edited>>

\* PublishNew links the staged file only where nothing is; the directory sync
\* that follows may still report an error.
Publish(w) ==
  /\ pc[w] = "publish"
  /\ disk[JobTrack(w)][ext[w]] = Absent
  /\ disk' = [disk EXCEPT ![JobTrack(w)][ext[w]] = Ours]
  /\ Goto(w, "inspect") \/ Goto(w, "failing")
  /\ UNCHANGED <<rowVars, mapVars, wishVars, managed, clientVars, mu, job, src, ext, seen, lost, edited>>

\* The published path is opened again and its digest compared with the staged one.
InspectPublished(w) ==
  /\ pc[w] = "inspect"
  /\ disk[JobTrack(w)][ext[w]] = Ours
  /\ Goto(w, "commit")
  /\ UNCHANGED <<rowVars, mapVars, wishVars, fileVars, clientVars, mu, job, src, ext, seen, lost, edited>>

\* An error in the second section: managedMu stays held by the deferred unlock.
PublicationFails(w) ==
  /\ pc[w] \in {"publish", "inspect", "commit"}
  /\ Goto(w, "failing")
  /\ UNCHANGED <<rowVars, mapVars, wishVars, fileVars, clientVars, mu, job, src, ext, seen, lost, edited>>

\* FailAcquisition or UnresolveAcquisition, then the deferred unlock.
RecordOutcome(w) ==
  /\ pc[w] \in {"failing", "unresolving"}
  /\ work[job[w]].state = "running"
  /\ work' = [work EXCEPT ![job[w]].state = IF pc[w] = "failing" THEN "failed" ELSE "unresolved"]
  /\ Release(w)
  /\ Return(w)
  /\ UNCHANGED <<nextId, mapVars, wishVars, fileVars, clientVars, lost, edited>>

\* The record itself fails (a database error, a message over 1024 bytes): it is
\* logged and the worker moves on, so the row stays running without an owner.
LoseOutcome(w) ==
  /\ pc[w] \in {"failing", "unresolving"}
  /\ lost' = lost \cup {job[w]}
  /\ Release(w)
  /\ Return(w)
  /\ UNCHANGED <<rowVars, mapVars, wishVars, fileVars, clientVars, edited>>

WorkerStep(w) ==
  \/ Claim(w) \/ CheckNoFile(w) \/ CheckOrphan(w) \/ CheckRefused(w)
  \/ VerifyOrphan(w) \/ AdoptionFails(w) \/ Complete(w)
  \/ ReadMapping(w) \/ (\E v \in Videos : Resolve(w, v)) \/ ResolveNone(w)
  \/ PersistSource(w) \/ (\E e \in Exts : Retrieve(w, e)) \/ SourceFails(w)
  \/ Relock(w) \/ Publish(w) \/ InspectPublished(w) \/ PublicationFails(w)
  \/ RecordOutcome(w) \/ LoseOutcome(w)

-----------------------------------------------------------------------------
(* The rest of the world.                                                  *)

\* Shutdown or crash between any two steps, and the startup that follows: the
\* signing key and the goroutines are new, RecoverAcquisitions requeues.
\* Slip: interrupted work is left as it was.
NotRecovered(row) == row
\* Slip: interrupted work selects its source again.
RecoveredAnew(row) == IF row.state = "running" THEN Requeued(row) ELSE row
Recovered(row) == IF row.state = "running" THEN [row EXCEPT !.state = "pending"] ELSE row

Restart ==
  /\ work' = [i \in WorkIds |-> Recovered(work[i])]
  /\ inspecting' = NoInspection /\ receipts' = {} /\ used' = {}
  /\ mu' = NoWorker
  /\ pc' = [w \in Workers |-> "idle"] /\ job' = [w \in Workers |-> 0]
  /\ src' = [w \in Workers |-> NoUrl] /\ ext' = [w \in Workers |-> NoExt]
  /\ seen' = [w \in Workers |-> Absent]
  /\ lost' = {}
  /\ UNCHANGED <<nextId, mapVars, wishVars, fileVars, edited>>

\* Somebody else changes, adds or removes a file below the managed root.
ExternalEdit(t, e, c) ==
  /\ disk[t][e] # c
  /\ disk' = [disk EXCEPT ![t][e] = c]
  /\ edited' = edited \cup {t}
  /\ UNCHANGED <<rowVars, mapVars, wishVars, managed, clientVars, mu, workerVars>>

Resubmit == (\E i \in WorkIds : Retry(i)) \/ RetryUnresolved \/ (\E r \in receipts : SelectYouTube(r))

Handler ==
  \/ \E t \in Tracks, u \in Urls : Acquire(t, u)
  \/ AcquireMissing
  \/ Resubmit
  \/ \E t \in Tracks, v \in Videos, x \in Videos \cup {NoUrl} : SetMapping(t, v, x)
  \/ \E t \in Tracks, x \in Videos \cup {NoUrl} : RemoveMapping(t, x)
  \/ \E t \in Tracks : InspectStart(t)
  \/ \E candidates \in SUBSET Videos : InspectFinish(candidates)
  \/ \E r \in receipts : ExpireReceipt(r)
  \/ \E tracks \in SUBSET Tracks, metadata \in [Tracks -> Metas] : ApplyDesired(tracks, metadata)

Next ==
  \/ Handler
  \/ \E w \in Workers : WorkerStep(w)
  \/ Restart
  \/ \E t \in Tracks, e \in Exts, c \in EditContents : ExternalEdit(t, e, c)

Spec == Init /\ [][Next]_vars

\* A goroutine that can take its next step is eventually scheduled: a worker
\* polls for rows every 100 ms, every external tool runs under a deadline or
\* ends, and a mutex that stays free is acquired by a goroutine waiting for it.
Fairness == \A w \in Workers : WF_vars(WorkerStep(w))

\* Nobody resubmits rows or restarts the daemon for ever: the oldest row is
\* claimed first, so a row resubmitted again and again starves younger ones.
Calm == <>[][~Resubmit /\ ~Restart]_vars

FairSpec == Spec /\ Fairness /\ Calm

-----------------------------------------------------------------------------
(* Safety.                                                                 *)

\* The shape of every variable.  Rows are inserted in ID order and satisfy the
\* CHECK constraints of the table: a row without a URL is a YouTube row.
RowsOK ==
  /\ work \in [WorkIds -> Rows] /\ nextId \in 1..(MaxWork + 1)
  /\ \A i \in WorkIds :
       /\ i < nextId <=> work[i].state # "none"
       /\ work[i].state # "none" => work[i].track \in Tracks
       /\ work[i].state = "none" <=> work[i].kind = "none"
       /\ work[i].kind = "direct" => work[i].url # NoUrl

ChoicesOK ==
  /\ desired \subseteq Tracks /\ meta \in [Tracks -> Metas]
  /\ mapping \in [Tracks -> Videos \cup {NoUrl}] /\ mapRev \in [Tracks -> 0..MaxRevision]

LibraryOK ==
  /\ managed \in [Tracks -> Exts \cup {NoExt}] /\ disk \in [Tracks -> [Exts -> Contents]]
  /\ edited \subseteq Tracks

ClientsOK ==
  /\ inspecting \in Inspections \cup {NoInspection}
  /\ receipts \subseteq Receipts /\ used \subseteq receipts

WorkersOK ==
  /\ mu \in Workers \cup {NoWorker}
  /\ pc \in [Workers -> Pcs] /\ job \in [Workers -> 0..MaxWork]
  /\ src \in [Workers -> Urls \cup {NoUrl}] /\ ext \in [Workers -> Exts \cup {NoExt}]
  /\ seen \in [Workers -> Contents]
  /\ \A w \in Workers : pc[w] # "idle" => job[w] \in WorkIds
  /\ lost \subseteq WorkIds

TypeOK == RowsOK /\ ChoicesOK /\ LibraryOK /\ ClientsOK /\ WorkersOK

\* At most one row of a track is pending or running, whatever the handlers and
\* batches that queue and requeue rows (the promise of the partial unique index
\* of migration 5, which no statement may ever hit).
OneActivePerTrack ==
  \A i, j \in WorkIds :
    Active(work[i]) /\ Active(work[j]) /\ work[i].track = work[j].track => i = j

\* Selection reuses "the most recent reusable YouTube attempt": a track never
\* has two YouTube rows that are not complete.
OneOpenYouTubePerTrack ==
  \A i, j \in WorkIds :
    /\ work[i].kind = "youtube" /\ work[i].state # "complete"
    /\ work[j].kind = "youtube" /\ work[j].state # "complete"
    /\ work[i].track = work[j].track
    => i = j

\* managedMu is held by a worker between its locks and unlocks, whichever of the
\* return paths of runAcquisition it takes: never by one that has returned, or
\* that has still to lock it.
LockIsHeld ==
  mu # NoWorker => pc[mu] \in {"verify", "adopt", "publish", "inspect", "commit", "failing"}

\* Nothing is processed twice or forgotten: two workers never share a row, a busy
\* worker's row is running, a running row has a worker, unless recording its
\* outcome failed since the last start, and so has the mutex when it is locked.
RunningIsOwned ==
  /\ \A w \in Workers : pc[w] # "idle" => job[w] \in WorkIds /\ work[job[w]].state = "running"
  /\ \A v, w \in Workers : pc[v] # "idle" /\ pc[w] # "idle" /\ job[v] = job[w] => v = w
  /\ \A i \in WorkIds : work[i].state = "running" =>
       i \in lost \/ \E w \in Workers : pc[w] # "idle" /\ job[w] = i
  /\ LockIsHeld

\* A selected URL is durable before retrieval: a worker only retrieves, and only
\* publishes what came from, the URL in its row.
RetrievesDurableSource ==
  \A w \in Workers : pc[w] \in {"retrieve", "relock", "publish", "inspect", "commit"} =>
    src[w] # NoUrl /\ work[job[w]].url = src[w]

\* A registered path holds the published audio: no crash or failed transaction
\* leaves a mapping to a file that was never there (files nobody else touched).
RegisteredFileExists ==
  \A t \in Tracks \ edited : managed[t] # NoExt => disk[t][managed[t]] = Ours

\* Retrying after any interruption never leaves a second file for a track, even
\* when the tools return another extension (files nobody else touched).
OneFilePerTrack ==
  \A t \in Tracks \ edited : \A e, f \in FilesOf(t) : e = f

\* A published file whose mapping was not committed still has a row that can be
\* retried or recovered, so the file can be adopted.
OrphanIsRecoverable ==
  \A t \in Tracks : managed[t] = NoExt /\ (\E e \in Exts : disk[t][e] = Ours) =>
    \E i \in WorkIds : work[i].track = t /\ work[i].state \in {"pending", "running", "failed", "unresolved"}

-----------------------------------------------------------------------------
(* What a step may never do.                                               *)

\* ADR 13: "A source URL already selected and persisted on active Acquisition
\* work is immutable."  And a source is only chosen for a row without one, while
\* it runs: nothing redirects a pending resolver.
SourceFrozen ==
  [][\A i \in WorkIds :
       Active(work[i]) /\ Active(work'[i]) /\ work'[i].url # work[i].url
       => work[i].state = "running" /\ work[i].url = NoUrl]_vars

\* A receipt that was accepted once may be confirmed again while its work is
\* active, but never starts work a second time ("an older receipt must not
\* restart work after any edit").
SpentReceiptStartsNothing ==
  [][\A r \in used : SelectYouTube(r) =>
       \A i \in WorkIds : Active(work'[i]) => Active(work[i])]_vars

\* Acquisition never replaces or removes a file: the daemon's steps only create
\* files at paths where there is none.
NeverOverwrites ==
  [][\/ \E t \in Tracks, e \in Exts, c \in EditContents : ExternalEdit(t, e, c)
     \/ \A t \in Tracks, e \in Exts : disk[t][e] \in {Absent, disk'[t][e]}]_vars

\* "A track removed from Desired Spotify state during retrieval is not
\* published", nor is a second file for a track that has become available.
PublishesOnlyMissing ==
  [][\A t \in Tracks, e \in Exts :
       disk[t][e] # Ours /\ disk'[t][e] = Ours
       => t \in desired /\ (Available(t) => t \in edited)]_vars

-----------------------------------------------------------------------------
(* The abstract specification this one implements.                         *)

LibraryOf(t) ==
  IF managed[t] # NoExt THEN "registered"
  ELSE IF \E e \in Exts : disk[t][e] = Ours THEN "published" ELSE "none"

Ledger == INSTANCE WorkLedger WITH
  Ids <- WorkIds,
  wanted <- desired,
  owner <- [i \in WorkIds |-> work[i].track],
  state <- [i \in WorkIds |-> work[i].state],
  library <- [t \in Tracks |-> LibraryOf(t)],
  tampered <- edited

\* Workers, handlers, crashes and failed transactions together behave like the
\* ledger: one request in progress per track, publication before registration,
\* and only for a running request of a track that is desired at that moment.
ImplementsLedger == Ledger!Spec

-----------------------------------------------------------------------------
(* Liveness, under FairSpec.                                               *)

\* Every queued row is eventually claimed.
PendingIsClaimed == \A i \in WorkIds : work[i].state = "pending" ~> work[i].state # "pending"

\* Every claimed row reaches an outcome, unless recording it fails.
RunningIsDecided ==
  \A i \in WorkIds : work[i].state = "running" ~> (work[i].state # "running" \/ i \in lost)
=============================================================================
