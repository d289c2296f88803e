---------------------- MODULE AcquisitionSelectionProofs ----------------------
(***************************************************************************)
(* Proofs about the choice of a source in Acquisition: what a worker       *)
(* retrieves, when a source may change, and what an accepted receipt may   *)
(* still do, for any tracks, videos, workers and bounds.                   *)
(***************************************************************************)
EXTENDS AcquisitionProofs

\* A handler changes a row only by making it pending, and only one that is
\* neither active nor complete; an existing row keeps its track and its kind.
LEMMA HandlerRow ==
  ASSUME TypeOK, Handler, NEW i \in WorkIds
  PROVE  \/ work'[i] = work[i]
         \/ /\ work[i].state \notin {"pending", "running", "complete"}
            /\ work'[i].state = "pending"
            /\ work[i].state # "none" =>
                 work'[i].track = work[i].track /\ work'[i].kind = work[i].kind
<1> DEFINE Goal == \/ work'[i] = work[i]
                   \/ /\ work[i].state \notin {"pending", "running", "complete"}
                      /\ work'[i].state = "pending"
                      /\ work[i].state # "none" =>
                           work'[i].track = work[i].track /\ work'[i].kind = work[i].kind
<1> USE DEF TypeOK
<1>1. ASSUME NEW row, row.state = "pending", Insert(row) PROVE Goal
  <2>1. work[nextId].state = "none"
    BY <1>1 DEF Insert, RowsOK, WorkIds
  <2> QED
    BY <1>1, <2>1 DEF Insert, RowsOK
<1>2. CASE AcquireMissing
  <2>1. work'[i] = work[i] \/ (~(i < nextId) /\ work'[i].state = "pending")
    BY <1>2 DEF AcquireMissing, PendingRow, RowsOK, WorkIds
  <2>2. ~(i < nextId) => work[i].state = "none"
    BY DEF RowsOK
  <2> QED
    BY <2>1, <2>2
<1>3. ASSUME NEW j \in WorkIds, Retry(j) PROVE Goal
  BY <1>3 DEF Retry, Requeued, RowsOK, Rows
<1>4. CASE RetryUnresolved
  <2>1. work'[i] = IF FirstRetryable(i) THEN Requeued(work[i]) ELSE work[i]
    BY <1>4 DEF RetryUnresolved
  <2> QED
    BY <2>1 DEF FirstRetryable, Retryable, Requeued, RowsOK, Rows
<1>5. ASSUME NEW t \in Tracks, NEW v \in Videos, QueueSelected(t, v) PROVE Goal
  <2>1. CASE UNCHANGED rowVars
    BY <2>1 DEF rowVars
  <2>2. ASSUME NEW j \in Reusable(t), work' = [work EXCEPT ![j].url = v, ![j].state = "pending"]
        PROVE  Goal
    BY <2>2 DEF Reusable, YouTubeFor, RowsOK, Rows
  <2>3. CASE Insert(PendingRow(t, "youtube", v))
    BY <1>1, <2>3 DEF PendingRow
  <2> QED
    BY <1>5, <2>1, <2>2, <2>3 DEF QueueSelected
<1>6. \A r \in receipts : r.track \in Tracks /\ r.video \in Videos
  BY DEF ClientsOK, Receipts
<1>7. ASSUME NEW t \in Tracks, NEW u \in Urls, Acquire(t, u) PROVE Goal
  BY <1>1, <1>7 DEF Acquire, PendingRow
<1>8. CASE UNCHANGED rowVars
  BY <1>8 DEF rowVars
<1> QED
  BY <1>2, <1>3, <1>4, <1>5, <1>6, <1>7, <1>8
  DEF Handler, Resubmit, SelectYouTube, SetMapping, RemoveMapping, InspectStart,
      InspectFinish, ExpireReceipt, ApplyDesired

\* Two workers that are busy hold different rows, of different tracks.
LEMMA SoleOwner ==
  ASSUME TypeOK, OneActivePerTrack, RunningIsOwned,
         NEW v \in Workers, NEW w \in Workers, v # w, pc[v] # "idle", pc[w] # "idle"
  PROVE  job[v] # job[w] /\ JobTrack(v) # JobTrack(w)
BY DEF OneActivePerTrack, RunningIsOwned, Active, JobTrack

\* A worker's step leaves the locals of the others alone, and their rows.
LEMMA OthersKeep ==
  ASSUME TypeOK, RunningIsOwned, NEW w \in Workers, WorkerStep(w), NEW v \in Workers, v # w
  PROVE  /\ pc'[v] = pc[v] /\ job'[v] = job[v] /\ src'[v] = src[v]
         /\ ext'[v] = ext[v] /\ seen'[v] = seen[v]
         /\ pc[v] # "idle" => work'[job[v]] = work[job[v]]
<1> USE DEF TypeOK, WorkersOK
<1>1. pc[v] # "idle" /\ pc[w] # "idle" => job[v] # job[w]
  BY DEF RunningIsOwned
<1>2. pc[v] # "idle" => job[v] \in WorkIds /\ work[job[v]].state = "running"
  BY DEF RunningIsOwned
<1>3. CASE Claim(w)
  BY <1>2, <1>3 DEF Claim, PendingIds, RowsOK
<1>4. CASE CheckNoFile(w) \/ CheckOrphan(w) \/ CheckRefused(w) \/ VerifyOrphan(w) \/ AdoptionFails(w)
  BY <1>4 DEF CheckNoFile, CheckOrphan, CheckRefused, VerifyOrphan, AdoptionFails, Goto, rowVars
<1>5. CASE Complete(w) \/ RecordOutcome(w)
  BY <1>1, <1>2, <1>5 DEF Complete, RecordOutcome, Return, Goto, RowsOK
<1>6. CASE LoseOutcome(w)
  BY <1>6 DEF LoseOutcome, Return, Goto, rowVars
<1>7. CASE PersistSource(w)
  BY <1>1, <1>2, <1>7 DEF PersistSource, Goto, RowsOK
<1>8. CASE ReadMapping(w) \/ (\E u \in Videos : Resolve(w, u)) \/ ResolveNone(w) \/ SourceFails(w)
  BY <1>8 DEF ReadMapping, Resolve, ResolveNone, SourceFails, Goto, rowVars
<1>9. CASE \/ (\E e \in Exts : Retrieve(w, e)) \/ Relock(w) \/ Publish(w)
           \/ InspectPublished(w) \/ PublicationFails(w)
  BY <1>9 DEF Retrieve, Relock, Publish, InspectPublished, PublicationFails, Goto, rowVars
<1> QED
  BY <1>3, <1>4, <1>5, <1>6, <1>7, <1>8, <1>9 DEF WorkerStep

-----------------------------------------------------------------------------
(* The durable source.                                                     *)

Retrieving == {"retrieve", "relock", "publish", "inspect", "commit"}

\* The source a worker holds: before the first lock it is the row's, a chosen one
\* exists, and from the retrieval on it is the one in the row.
HeldSource(w) ==
  /\ pc[w] = "check" => src[w] = work[job[w]].url
  /\ pc[w] = "persist" => src[w] # NoUrl
  /\ pc[w] \in Retrieving => src[w] # NoUrl /\ work[job[w]].url = src[w]
SourceInv == \A w \in Workers : HeldSource(w)

\* The worker that moves keeps its source in step with its row.
LEMMA MoverKeepsSource ==
  ASSUME TypeOK, RunningIsOwned, NEW w \in Workers, HeldSource(w), WorkerStep(w)
  PROVE  HeldSource(w)'
<1> USE DEF HeldSource, Retrieving, Goto, TypeOK, WorkersOK
<1>1. CASE Claim(w)
  <2>1. PICK i \in PendingIds :
          /\ work' = [work EXCEPT ![i].state = "running"]
          /\ job' = [job EXCEPT ![w] = i]
          /\ src' = [src EXCEPT ![w] = work[i].url]
    BY <1>1 DEF Claim
  <2>2. work'[i].url = work[i].url
    BY <2>1 DEF PendingIds, RowsOK, Rows
  <2> QED
    BY <1>1, <2>1, <2>2 DEF Claim
<1>2. CASE CheckNoFile(w) \/ CheckOrphan(w) \/ CheckRefused(w) \/ VerifyOrphan(w) \/ AdoptionFails(w)
  BY <1>2 DEF CheckNoFile, CheckOrphan, CheckRefused, VerifyOrphan, AdoptionFails, rowVars
<1>3. CASE Complete(w) \/ RecordOutcome(w) \/ LoseOutcome(w)
  BY <1>3 DEF Complete, RecordOutcome, LoseOutcome, Return
<1>4. CASE ReadMapping(w)
  BY <1>4 DEF ReadMapping
<1>5. ASSUME NEW v \in Videos, Resolve(w, v) PROVE HeldSource(w)'
  BY <1>5, UrlsAssumption DEF Resolve
<1>6. CASE ResolveNone(w) \/ SourceFails(w)
  BY <1>6 DEF ResolveNone, SourceFails
<1>7. CASE PersistSource(w)
  <2>1. job[w] \in WorkIds
    BY <1>7 DEF PersistSource
  <2>2. work'[job[w]].url = src[w]
    BY <1>7, <2>1 DEF PersistSource, RowsOK, Rows
  <2> QED
    BY <1>7, <2>2 DEF PersistSource
<1>8. CASE (\E e \in Exts : Retrieve(w, e)) \/ Relock(w) \/ Publish(w) \/ InspectPublished(w) \/ PublicationFails(w)
  BY <1>8 DEF Retrieve, Relock, Publish, InspectPublished, PublicationFails, rowVars
<1> QED
  BY <1>1, <1>2, <1>3, <1>4, <1>5, <1>6, <1>7, <1>8 DEF WorkerStep

\* A worker retrieves and publishes only what came from the URL that its row
\* already holds, whatever is mapped, selected, retried or restarted meanwhile.
THEOREM RetrievesDurableSourceCorrect == Spec => []RetrievesDurableSource
<1>1. Init => SourceInv
  BY DEF Init, SourceInv, HeldSource, Retrieving
<1>2. TypeOK /\ RunningIsOwned /\ SourceInv /\ [Next]_vars => SourceInv'
  <2> SUFFICES ASSUME TypeOK, RunningIsOwned, SourceInv, [Next]_vars, NEW v \in Workers
               PROVE  HeldSource(v)'
    BY DEF SourceInv
  <2>0. HeldSource(v)
    BY DEF SourceInv
  <2>1. CASE Handler
    <3>1. UNCHANGED <<pc, job, src>>
      BY <2>1, HandlerWorkers DEF workerVars
    <3>2. pc[v] # "idle" => work'[job[v]] = work[job[v]]
      BY <2>1, HandlerKeepsRunning DEF RunningIsOwned
    <3> QED
      BY <2>0, <3>1, <3>2 DEF HeldSource, Retrieving
  <2>2. ASSUME NEW w \in Workers, WorkerStep(w) PROVE HeldSource(v)'
    <3>1. CASE v = w
      BY <2>0, <2>2, <3>1, MoverKeepsSource
    <3>2. CASE v # w
      BY <2>0, <2>2, <3>2, OthersKeep DEF HeldSource, Retrieving
    <3> QED
      BY <3>1, <3>2
  <2>3. CASE Restart
    BY <2>3 DEF Restart, HeldSource, Retrieving
  <2>4. CASE UNCHANGED <<rowVars, workerVars>>
    BY <2>0, <2>4 DEF rowVars, workerVars, HeldSource, Retrieving
  <2> QED
    BY <2>1, <2>2, <2>3, <2>4 DEF Next, ExternalEdit, vars
<1>3. SourceInv => RetrievesDurableSource
  BY DEF SourceInv, HeldSource, Retrieving, RetrievesDurableSource
<1> QED
  BY <1>1, <1>2, <1>3, TypeCorrect, RunningOwned, PTL DEF Spec

\* No mapping, receipt, retry, batch or crash redirects active work: its URL
\* changes once, from none to the chosen one, while the row is running (ADR 13).
THEOREM SourceFrozenCorrect == Spec => SourceFrozen
<1> DEFINE Frozen == \A i \in WorkIds :
                       Active(work[i]) /\ Active(work'[i]) /\ work'[i].url # work[i].url
                       => work[i].state = "running" /\ work[i].url = NoUrl
<1>1. TypeOK /\ [Next]_vars => Frozen
  <2> SUFFICES ASSUME TypeOK, [Next]_vars, NEW i \in WorkIds,
                      Active(work[i]), work'[i].url # work[i].url
               PROVE  work[i].state = "running" /\ work[i].url = NoUrl
    OBVIOUS
  <2>1. CASE Handler
    BY <2>1, HandlerRow DEF Active
  <2>2. ASSUME NEW w \in Workers, WorkerStep(w)
        PROVE  work[i].state = "running" /\ work[i].url = NoUrl
    <3>1. PersistSource(w) /\ i = job[w]
      BY <2>2, WorkerRow
    <3> QED
      BY <3>1 DEF PersistSource
  <2>3. CASE Restart
    BY <2>3 DEF Restart, Recovered, TypeOK, RowsOK, Rows
  <2>4. CASE UNCHANGED rowVars
    BY <2>4 DEF rowVars
  <2> QED
    BY <2>1, <2>2, <2>3, <2>4 DEF Next, ExternalEdit, vars
<1> QED
  BY <1>1, TypeCorrect, PTL DEF Spec, SourceFrozen

-----------------------------------------------------------------------------
(* One open YouTube row per track.                                         *)

OpenYouTube(row) == row.kind = "youtube" /\ row.state # "complete"

\* Steps that open no YouTube row keep the invariant ...
LEMMA NoNewOpen ==
  ASSUME OneOpenYouTubePerTrack,
         \A i \in WorkIds : OpenYouTube(work'[i]) => OpenYouTube(work[i]) /\ work'[i].track = work[i].track
  PROVE  OneOpenYouTubePerTrack'
BY DEF OneOpenYouTubePerTrack, OpenYouTube

\* ... and so does an insertion, of a direct row or for a track without an open one.
LEMMA InsertOpen ==
  ASSUME RowsOK, OneOpenYouTubePerTrack, NEW row, Insert(row),
         \/ row.kind = "direct"
         \/ \A i \in YouTubeFor(row.track) : work[i].state = "complete"
  PROVE  OneOpenYouTubePerTrack'
<1>1. nextId \in WorkIds /\ work'[nextId] = row /\ \A i \in WorkIds : i # nextId => work'[i] = work[i]
  BY DEF Insert, RowsOK
<1> QED
  BY <1>1 DEF OneOpenYouTubePerTrack, YouTubeFor

\* A batch queues only tracks that never had YouTube work; a selection inserts a
\* row only when every earlier one of the track is complete.
LEMMA HandlerOneOpen ==
  ASSUME TypeOK, OneOpenYouTubePerTrack, Handler
  PROVE  OneOpenYouTubePerTrack'
<1> USE DEF TypeOK
<1>1. ASSUME NEW t \in Tracks, NEW u \in Urls, Acquire(t, u) PROVE OneOpenYouTubePerTrack'
  BY <1>1, InsertOpen DEF Acquire, PendingRow
<1>2. CASE AcquireMissing
  <2> DEFINE new == nextId .. (nextId + Cardinality(NeverTried) - 1)
  <2>1. PICK queued \in Bijection(new, NeverTried) :
          work' = [i \in WorkIds |-> IF i \in new
                                     THEN PendingRow(queued[i], "youtube", NoUrl)
                                     ELSE work[i]]
    BY <1>2 DEF AcquireMissing
  <2> HIDE DEF new
  <2>2. \A i \in new : queued[i] \in NeverTried
    BY <2>1 DEF Bijection, Injection, Surjection
  <2>3. \A i, j \in new : queued[i] = queued[j] => i = j
    BY <2>1 DEF Bijection, Injection, IsInjective
  <2>4. \A i \in new, j \in WorkIds : work[j].kind = "youtube" => work[j].track # queued[i]
    BY <2>2 DEF NeverTried, YouTubeFor
  <2>5. \A i \in WorkIds : i \in new => work'[i].track = queued[i]
    <3> SUFFICES ASSUME NEW i \in WorkIds, i \in new PROVE work'[i].track = queued[i]
      OBVIOUS
    <3>1. work'[i] = PendingRow(queued[i], "youtube", NoUrl)
      BY <2>1
    <3> QED
      BY <3>1 DEF PendingRow
  <2>6. \A i \in WorkIds : i \notin new => work'[i] = work[i]
    BY <2>1
  <2> SUFFICES ASSUME NEW i \in WorkIds, NEW j \in WorkIds, OpenYouTube(work'[i]), OpenYouTube(work'[j]),
                      work'[i].track = work'[j].track
               PROVE  i = j
    BY DEF OneOpenYouTubePerTrack, OpenYouTube
  <2>7. CASE i \in new /\ j \in new
    BY <2>3, <2>5, <2>7
  <2>8. CASE i \in new /\ j \notin new
    BY <2>4, <2>5, <2>6, <2>8 DEF OpenYouTube
  <2>9. CASE i \notin new /\ j \in new
    BY <2>4, <2>5, <2>6, <2>9 DEF OpenYouTube
  <2>10. CASE i \notin new /\ j \notin new
    BY <2>6, <2>10 DEF OneOpenYouTubePerTrack, OpenYouTube
  <2> QED
    BY <2>7, <2>8, <2>9, <2>10
<1>3. ASSUME \A i \in WorkIds : work[i].state = "none" => work'[i] = work[i]
      PROVE  OneOpenYouTubePerTrack'
  <2>1. \A i \in WorkIds : OpenYouTube(work'[i]) => OpenYouTube(work[i]) /\ work'[i].track = work[i].track
    BY <1>3, HandlerRow DEF OpenYouTube
  <2> QED
    BY <2>1, NoNewOpen
<1>4. ASSUME NEW i \in WorkIds, Retry(i) PROVE OneOpenYouTubePerTrack'
  BY <1>3, <1>4 DEF Retry, RowsOK
<1>5. CASE RetryUnresolved
  BY <1>3, <1>5 DEF RetryUnresolved, FirstRetryable, Retryable
<1>6. ASSUME NEW r \in receipts, SelectYouTube(r) PROVE OneOpenYouTubePerTrack'
  <2>1. CASE UNCHANGED rowVars
    BY <1>3, <2>1 DEF rowVars
  <2>2. ASSUME NEW i \in Reusable(r.track), work' = [work EXCEPT ![i].url = r.video, ![i].state = "pending"]
        PROVE  OneOpenYouTubePerTrack'
    BY <1>3, <2>2 DEF Reusable, YouTubeFor, RowsOK
  <2>3. ASSUME ActiveFor(r.track) = {}, Reusable(r.track) = {}, Insert(PendingRow(r.track, "youtube", r.video))
        PROVE  OneOpenYouTubePerTrack'
    <3>1. \A i \in YouTubeFor(r.track) : work[i].state = "complete"
      BY <2>3 DEF Reusable, ActiveFor, Active, YouTubeFor, RowsOK, Rows, States
    <3> QED
      BY <2>3, <3>1, InsertOpen DEF PendingRow
  <2> QED
    BY <1>6, <2>1, <2>2, <2>3 DEF SelectYouTube, QueueSelected
<1>7. CASE UNCHANGED rowVars
  BY <1>3, <1>7 DEF rowVars
<1> QED
  BY <1>1, <1>2, <1>4, <1>5, <1>6, <1>7
  DEF Handler, Resubmit, SetMapping, RemoveMapping, InspectStart, InspectFinish, ExpireReceipt, ApplyDesired

\* A track never has two YouTube rows that are not complete, so "the most recent
\* reusable attempt" that a selection takes up is the only one there is.
THEOREM OneOpenYouTubeCorrect == Spec => []OneOpenYouTubePerTrack
<1>1. Init => OneOpenYouTubePerTrack
  BY DEF Init, OneOpenYouTubePerTrack, NoRow
<1>2. TypeOK /\ OneOpenYouTubePerTrack /\ [Next]_vars => OneOpenYouTubePerTrack'
  <2> SUFFICES ASSUME TypeOK, OneOpenYouTubePerTrack, [Next]_vars PROVE OneOpenYouTubePerTrack'
    OBVIOUS
  <2>1. CASE Handler
    BY <2>1, HandlerOneOpen
  <2>2. ASSUME NEW w \in Workers, WorkerStep(w) PROVE OneOpenYouTubePerTrack'
    <3>1. \A i \in WorkIds : OpenYouTube(work'[i]) => OpenYouTube(work[i]) /\ work'[i].track = work[i].track
      BY <2>2, WorkerRows DEF OpenYouTube
    <3> QED
      BY <3>1, NoNewOpen
  <2>3. CASE Restart
    <3>1. \A i \in WorkIds : OpenYouTube(work'[i]) => OpenYouTube(work[i]) /\ work'[i].track = work[i].track
      BY <2>3 DEF Restart, Recovered, OpenYouTube, TypeOK, RowsOK, Rows
    <3> QED
      BY <3>1, NoNewOpen
  <2>4. CASE UNCHANGED rowVars
    BY <2>4, NoNewOpen DEF rowVars, OpenYouTube
  <2> QED
    BY <2>1, <2>2, <2>3, <2>4 DEF Next, ExternalEdit, vars
<1> QED
  BY <1>1, <1>2, TypeCorrect, PTL DEF Spec

-----------------------------------------------------------------------------
(* Accepted receipts.                                                      *)

\* Accepting a receipt moves the mapping past the revision it was signed for.
SpentInv ==
  /\ \A r \in receipts : r.rev <= mapRev[r.track]
  /\ \A r \in used : r.rev < mapRev[r.track]

\* Only a selection spends a receipt; everything else keeps or raises revisions.
LEMMA SpentInductive ==
  ASSUME TypeOK, SpentInv, [Next]_vars
  PROVE  SpentInv'
<1> USE DEF TypeOK
<1>0. /\ mapRev \in [Tracks -> Int]
      /\ \A r \in receipts : r \in Receipts /\ r.track \in Tracks /\ r.rev \in Int
      /\ used \subseteq receipts
  BY BoundsAssumption DEF ChoicesOK, ClientsOK, Receipts
<1>1. ASSUME UNCHANGED <<receipts, used, mapRev>> PROVE SpentInv'
  BY <1>1 DEF SpentInv
<1>2. ASSUME NEW t \in Tracks, NEW v \in Videos \cup {NoUrl}, Remap(t, v), UNCHANGED clientVars
      PROVE  SpentInv'
  <2>1. \A s \in Tracks : mapRev'[s] \in Int /\ mapRev'[s] >= mapRev[s]
    BY <1>0, <1>2 DEF Remap
  <2> QED
    BY <1>0, <1>2, <2>1 DEF SpentInv, clientVars
<1>3. ASSUME NEW r \in receipts, SelectYouTube(r) PROVE SpentInv'
  <2>1. mapRev' = [mapRev EXCEPT ![r.track] = @ + 1] /\ used' = used \cup {r} /\ UNCHANGED receipts
    BY <1>3 DEF SelectYouTube, Remap
  <2>2. \A s \in Tracks : mapRev'[s] \in Int /\ mapRev'[s] >= mapRev[s]
    BY <1>0, <2>1
  <2>3. r.rev < mapRev'[r.track]
    BY <1>0, <2>1 DEF SpentInv
  <2> QED
    BY <1>0, <2>1, <2>2, <2>3 DEF SpentInv
<1>4. ASSUME NEW candidates \in SUBSET Videos, InspectFinish(candidates) PROVE SpentInv'
  <2>1. UNCHANGED <<mapRev, used>>
    BY <1>4 DEF InspectFinish, mapVars
  <2>2. inspecting \in Inspections
    BY <1>4 DEF InspectFinish, ClientsOK
  <2>3. inspecting.track \in Tracks
    BY <2>2 DEF Inspections
  <2>4. \A r \in receipts' :
          r \in receipts \/ (r.track = inspecting.track /\ r.rev = mapRev[inspecting.track])
    BY <1>4 DEF InspectFinish
  <2> QED
    BY <1>0, <2>1, <2>3, <2>4 DEF SpentInv
<1>5. ASSUME NEW r \in receipts, ExpireReceipt(r) PROVE SpentInv'
  BY <1>5 DEF ExpireReceipt, SpentInv, mapVars
<1>6. CASE Restart
  BY <1>6 DEF Restart, SpentInv
<1>7. ASSUME NEW w \in Workers, WorkerStep(w) PROVE SpentInv'
  BY <1>1, <1>7 DEF WorkerStep, Claim, CheckNoFile, CheckOrphan,
     CheckRefused, VerifyOrphan, AdoptionFails, Complete, ReadMapping, Resolve, ResolveNone,
     PersistSource, Retrieve, SourceFails, Relock, Publish, InspectPublished, PublicationFails,
     RecordOutcome, LoseOutcome, mapVars, clientVars
<1>8. CASE Handler
  BY <1>1, <1>2, <1>3, <1>4, <1>5, <1>8
  DEF Handler, Resubmit, Acquire, AcquireMissing, Retry, RetryUnresolved, SetMapping, RemoveMapping,
      InspectStart, ApplyDesired, mapVars, clientVars
<1> QED
  BY <1>1, <1>6, <1>7, <1>8 DEF Next, ExternalEdit, vars, mapVars, clientVars

\* A receipt that was accepted once may be confirmed while its work is active, but
\* starts nothing again: its revision is behind, so it needs active work to pass.
THEOREM SpentReceiptCorrect == Spec => SpentReceiptStartsNothing
<1> DEFINE Quiet == \A r \in used : SelectYouTube(r) =>
                      \A i \in WorkIds : Active(work'[i]) => Active(work[i])
<1>1. Init => SpentInv
  BY DEF Init, SpentInv
<1>2. TypeOK /\ SpentInv /\ [Next]_vars => SpentInv'
  BY SpentInductive
<1>3. TypeOK /\ SpentInv => Quiet
  <2> SUFFICES ASSUME TypeOK, SpentInv, NEW r \in used, SelectYouTube(r)
               PROVE  \A i \in WorkIds : Active(work'[i]) => Active(work[i])
    OBVIOUS
  <2>1. r \in Receipts /\ mapRev \in [Tracks -> Int]
    BY BoundsAssumption DEF TypeOK, ClientsOK, ChoicesOK
  <2>2. r.rev # mapRev[r.track]
    BY <2>1, BoundsAssumption DEF SpentInv, Receipts
  <2>3. ActiveFor(r.track) # {}
    BY <2>2 DEF SelectYouTube, ReceiptCurrent
  <2>4. UNCHANGED work
    BY <2>3 DEF SelectYouTube, QueueSelected, rowVars
  <2> QED
    BY <2>4
<1> QED
  BY <1>1, <1>2, <1>3, TypeCorrect, PTL DEF Spec, SpentReceiptStartsNothing
=============================================================================
