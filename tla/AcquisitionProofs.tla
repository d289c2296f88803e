-------------------------- MODULE AcquisitionProofs --------------------------
(***************************************************************************)
(* Proofs about Acquisition, for any tracks, URLs, workers and bounds.     *)
(***************************************************************************)
EXTENDS Acquisition, FiniteSetTheorems, TLAPS

\* How many rows a batch of "acquire.missing" takes, and that they are in the table.
LEMMA BatchSize ==
  ASSUME ChoicesOK, RowsOK, NeverTried # {},
         nextId .. (nextId + Cardinality(NeverTried) - 1) \subseteq WorkIds
  PROVE  /\ Cardinality(NeverTried) \in Nat
         /\ nextId + Cardinality(NeverTried) \in 1..(MaxWork + 1)
<1>1. IsFiniteSet(NeverTried)
  <2>1. NeverTried \subseteq Tracks
    BY DEF NeverTried
  <2> QED
    BY <2>1, TracksAssumption, FS_Subset
<1>2. Cardinality(NeverTried) \in Nat /\ Cardinality(NeverTried) # 0
  BY <1>1, FS_CardinalityType, FS_EmptySet
<1>3. nextId + Cardinality(NeverTried) - 1 \in WorkIds
  BY <1>2 DEF RowsOK
<1> QED
  BY <1>2, <1>3, BoundsAssumption DEF RowsOK, WorkIds

\* A row the table may hold (its CHECK constraints).
RowOK(row) ==
  /\ row \in Rows
  /\ row.state # "none" /\ row.kind # "none"
  /\ row.track \in Tracks
  /\ row.kind = "direct" => row.url # NoUrl

\* Changing one row of the table to a valid row keeps the table valid.
LEMMA RowUpdate ==
  ASSUME RowsOK, NEW i \in WorkIds, work[i].state # "none", NEW row, RowOK(row),
         work' = [work EXCEPT ![i] = row], UNCHANGED nextId
  PROVE  RowsOK'
BY DEF RowsOK, RowOK

\* So does inserting a valid row at the next ID.
LEMMA RowInsert ==
  ASSUME RowsOK, NEW row, RowOK(row), Insert(row)
  PROVE  RowsOK'
<1>1. nextId' \in 1..(MaxWork + 1)
  BY BoundsAssumption DEF Insert, WorkIds, RowsOK
<1>2. \A i \in WorkIds : i < nextId' <=> i < nextId \/ i = nextId
  BY DEF Insert, WorkIds, RowsOK
<1> QED
  BY <1>1, <1>2 DEF Insert, RowsOK, RowOK

\* The empty queue and library have their types.
LEMMA InitType == Init => TypeOK
<1> SUFFICES ASSUME Init PROVE TypeOK
  OBVIOUS
<1>1. RowsOK
  BY BoundsAssumption DEF Init, RowsOK, NoRow, Rows, States, Kinds, WorkIds
<1>2. ChoicesOK
  BY BoundsAssumption DEF Init, ChoicesOK
<1>3. LibraryOK
  BY DEF Init, LibraryOK, Contents
<1>4. ClientsOK
  BY DEF Init, ClientsOK
<1>5. WorkersOK
  BY BoundsAssumption DEF Init, WorkersOK, Pcs, Contents
<1> QED
  BY <1>1, <1>2, <1>3, <1>4, <1>5 DEF TypeOK

\* No Control handler, batch or selection breaks a type or a CHECK constraint.
LEMMA HandlerType == TypeOK /\ Handler => TypeOK'
<1> SUFFICES ASSUME TypeOK, Handler PROVE TypeOK'
  OBVIOUS
<1> USE DEF TypeOK
<1>1. ASSUME NEW t \in Tracks, NEW u \in Urls, Acquire(t, u) PROVE TypeOK'
  <2>1. RowOK(PendingRow(t, "direct", u))
    BY UrlsAssumption DEF RowOK, PendingRow, Rows, States, Kinds
  <2>2. RowsOK'
    BY <1>1, <2>1, RowInsert DEF Acquire
  <2> QED
    BY <1>1, <2>2 DEF Acquire, ChoicesOK, LibraryOK, ClientsOK, WorkersOK,
       mapVars, wishVars, fileVars, clientVars, workerVars
<1>2. CASE AcquireMissing
  <2> DEFINE new == nextId .. (nextId + Cardinality(NeverTried) - 1)
  <2>1. nextId' \in 1..(MaxWork + 1)
    BY <1>2, BatchSize DEF AcquireMissing
  <2>2. PICK queued \in Bijection(new, NeverTried) :
          work' = [i \in WorkIds |-> IF i \in new
                                     THEN PendingRow(queued[i], "youtube", NoUrl)
                                     ELSE work[i]]
    BY <1>2 DEF AcquireMissing
  <2>3. \A i \in new : RowOK(PendingRow(queued[i], "youtube", NoUrl))
    BY <2>2 DEF Bijection, Injection, Surjection, NeverTried, RowOK, PendingRow, Rows, States, Kinds
  <2>4. \A i \in WorkIds : i < nextId' <=> i < nextId \/ i \in new
    BY <1>2, BatchSize DEF AcquireMissing, WorkIds, RowsOK
  <2>5. \A i \in new : i \in WorkIds /\ ~(i < nextId)
    BY <1>2 DEF AcquireMissing, RowsOK, WorkIds
  <2> HIDE DEF new
  <2>6. RowsOK'
    BY <2>1, <2>2, <2>3, <2>4, <2>5 DEF RowsOK, RowOK
  <2> QED
    BY <1>2, <2>6 DEF AcquireMissing, ChoicesOK, LibraryOK, ClientsOK, WorkersOK,
       mapVars, wishVars, fileVars, clientVars, workerVars
<1>3. ASSUME NEW i \in WorkIds, Retry(i) PROVE TypeOK'
  <2>1. RowOK(Requeued(work[i]))
    BY <1>3 DEF Retry, Requeued, RowOK, RowsOK, Rows, States, Kinds
  <2>2. RowsOK'
    BY <1>3, <2>1, RowUpdate DEF Retry, RowsOK
  <2> QED
    BY <1>3, <2>2 DEF Retry, ChoicesOK, LibraryOK, ClientsOK, WorkersOK,
       mapVars, wishVars, fileVars, clientVars, workerVars
<1>4. CASE RetryUnresolved
  <2>1. \A i \in WorkIds :
          FirstRetryable(i) => work[i].state # "none" /\ RowOK(Requeued(work[i]))
    BY DEF FirstRetryable, Retryable, Requeued, RowOK, RowsOK, Rows, States, Kinds
  <2>2. RowsOK'
    BY <1>4, <2>1 DEF RetryUnresolved, RowsOK, RowOK
  <2> QED
    BY <1>4, <2>2 DEF RetryUnresolved, ChoicesOK, LibraryOK, ClientsOK, WorkersOK,
       mapVars, wishVars, fileVars, clientVars, workerVars
<1>5. ASSUME NEW r \in receipts, SelectYouTube(r) PROVE TypeOK'
  <2>1. r.track \in Tracks /\ r.video \in Videos
    BY DEF ClientsOK, Receipts
  <2>2. RowsOK'
    <3>1. CASE UNCHANGED rowVars
      BY <3>1 DEF rowVars, RowsOK
    <3>2. ASSUME NEW i \in Reusable(r.track), UNCHANGED nextId,
                 work' = [work EXCEPT ![i].url = r.video, ![i].state = "pending"]
          PROVE  RowsOK'
      <4>1. RowOK([work[i] EXCEPT !.url = r.video, !.state = "pending"])
        BY <2>1, <3>2, UrlsAssumption DEF Reusable, YouTubeFor, RowOK, RowsOK, Rows, States, Kinds
      <4>2. work' = [work EXCEPT ![i] = [work[i] EXCEPT !.url = r.video, !.state = "pending"]]
        BY <3>2 DEF RowsOK, Rows, Reusable, YouTubeFor
      <4> QED
        BY <3>2, <4>1, <4>2, RowUpdate DEF Reusable, YouTubeFor
    <3>3. ASSUME Insert(PendingRow(r.track, "youtube", r.video)) PROVE RowsOK'
      <4>1. RowOK(PendingRow(r.track, "youtube", r.video))
        BY <2>1, UrlsAssumption DEF RowOK, PendingRow, Rows, States, Kinds
      <4> QED
        BY <3>3, <4>1, RowInsert
    <3> QED
      BY <1>5, <3>1, <3>2, <3>3 DEF SelectYouTube, QueueSelected
  <2>3. ChoicesOK'
    BY <1>5, <2>1, BoundsAssumption DEF SelectYouTube, Remap, ChoicesOK, wishVars
  <2> QED
    BY <1>5, <2>2, <2>3 DEF SelectYouTube, LibraryOK, ClientsOK, WorkersOK, fileVars, workerVars
<1>6. ASSUME NEW t \in Tracks, NEW v \in Videos \cup {NoUrl},
             mu = NoWorker, Remap(t, v),
             UNCHANGED <<rowVars, wishVars, fileVars, clientVars, mu, workerVars, edited>>
      PROVE TypeOK'
  BY <1>6, BoundsAssumption DEF Remap, RowsOK, ChoicesOK, LibraryOK, ClientsOK, WorkersOK,
     rowVars, wishVars, fileVars, clientVars, workerVars
<1>7. ASSUME NEW t \in Tracks, InspectStart(t) PROVE TypeOK'
  BY <1>7 DEF InspectStart, Inspections, RowsOK, ChoicesOK, LibraryOK, ClientsOK, WorkersOK,
     rowVars, mapVars, wishVars, fileVars, workerVars
<1>8. ASSUME NEW candidates \in SUBSET Videos, InspectFinish(candidates) PROVE TypeOK'
  <2>1. ClientsOK'
    BY <1>8 DEF InspectFinish, ClientsOK, ChoicesOK, Inspections, Receipts
  <2> QED
    BY <1>8, <2>1 DEF InspectFinish, RowsOK, ChoicesOK, LibraryOK, WorkersOK,
       rowVars, mapVars, wishVars, fileVars, workerVars
<1>9. ASSUME NEW r \in receipts, ExpireReceipt(r) PROVE TypeOK'
  BY <1>9 DEF ExpireReceipt, RowsOK, ChoicesOK, LibraryOK, ClientsOK, WorkersOK,
     rowVars, mapVars, wishVars, fileVars, workerVars
<1>10. ASSUME NEW tracks \in SUBSET Tracks, NEW metadata \in [Tracks -> Metas],
              ApplyDesired(tracks, metadata)
       PROVE TypeOK'
  BY <1>10 DEF ApplyDesired, RowsOK, ChoicesOK, LibraryOK, ClientsOK, WorkersOK,
     rowVars, mapVars, fileVars, clientVars, workerVars
<1> QED
  BY <1>1, <1>2, <1>3, <1>4, <1>5, <1>6, <1>7, <1>8, <1>9, <1>10
  DEF Handler, Resubmit, SetMapping, RemoveMapping

\* Neither does any step of a worker.
LEMMA WorkerType ==
  ASSUME TypeOK, NEW w \in Workers, WorkerStep(w)
  PROVE  TypeOK'
<1> USE DEF TypeOK, Goto
<1>1. CASE Claim(w)
  <2>1. PICK i \in PendingIds :
          /\ work' = [work EXCEPT ![i].state = "running"]
          /\ job' = [job EXCEPT ![w] = i]
          /\ src' = [src EXCEPT ![w] = work[i].url]
    BY <1>1 DEF Claim
  <2>2. i \in WorkIds /\ i \in 0..MaxWork
    BY BoundsAssumption DEF PendingIds, WorkIds
  <2>3. RowOK([work[i] EXCEPT !.state = "running"])
    BY <2>1, <2>2 DEF PendingIds, RowOK, RowsOK, Rows, States
  <2>4. RowsOK'
    BY <1>1, <2>1, <2>2, <2>3, RowUpdate DEF Claim, RowsOK, PendingIds
  <2>5. work[i].url \in Urls \cup {NoUrl}
    BY <2>2 DEF RowsOK, Rows
  <2>6. WorkersOK'
    BY <1>1, <2>1, <2>2, <2>5 DEF Claim, WorkersOK, Pcs
  <2> QED
    BY <1>1, <2>4, <2>6 DEF Claim, ChoicesOK, LibraryOK, ClientsOK, mapVars, wishVars, fileVars, clientVars
<1>2. CASE CheckNoFile(w) \/ CheckRefused(w) \/ VerifyOrphan(w) \/ AdoptionFails(w)
  BY <1>2 DEF CheckNoFile, CheckRefused, VerifyOrphan, AdoptionFails, Release, RowsOK, ChoicesOK,
     LibraryOK, ClientsOK, WorkersOK, Pcs, rowVars, mapVars, wishVars, fileVars, clientVars
<1>3. CASE CheckOrphan(w)
  <2>1. JobTrack(w) \in Tracks
    BY <1>3 DEF CheckOrphan, Missing, ChoicesOK
  <2>2. WorkersOK'
    BY <1>3, <2>1 DEF CheckOrphan, WorkersOK, LibraryOK, Pcs
  <2> QED
    BY <1>3, <2>2 DEF CheckOrphan, RowsOK, ChoicesOK, LibraryOK, ClientsOK,
       rowVars, mapVars, wishVars, fileVars, clientVars
<1>4. CASE Complete(w)
  <2>1. job[w] \in WorkIds
    BY <1>4 DEF Complete, WorkersOK
  <2>2. RowOK([work[job[w]] EXCEPT !.state = "complete"])
    BY <1>4, <2>1 DEF Complete, RowOK, RowsOK, Rows, States
  <2>3. RowsOK'
    BY <1>4, <2>1, <2>2, RowUpdate DEF Complete, RowsOK
  <2>4. LibraryOK'
    BY <1>4 DEF Complete, LibraryOK, WorkersOK
  <2>5. WorkersOK'
    BY <1>4, BoundsAssumption DEF Complete, Return, Release, WorkersOK, Pcs, Contents
  <2> QED
    BY <1>4, <2>3, <2>4, <2>5 DEF Complete, ChoicesOK, ClientsOK, mapVars, wishVars, clientVars
<1>5. CASE ReadMapping(w)
  <2>1. mapping[JobTrack(w)] \in Urls \cup {NoUrl}
    BY <1>5, UrlsAssumption DEF ReadMapping, ChoicesOK
  <2>2. WorkersOK'
    BY <1>5, <2>1 DEF ReadMapping, WorkersOK, Pcs
  <2> QED
    BY <1>5, <2>2 DEF ReadMapping, RowsOK, ChoicesOK, LibraryOK, ClientsOK,
       rowVars, mapVars, wishVars, fileVars, clientVars
<1>6. ASSUME NEW v \in Videos, Resolve(w, v) PROVE TypeOK'
  BY <1>6, UrlsAssumption DEF Resolve, RowsOK, ChoicesOK, LibraryOK, ClientsOK, WorkersOK, Pcs,
     rowVars, mapVars, wishVars, fileVars, clientVars
<1>7. CASE PersistSource(w)
  <2>1. job[w] \in WorkIds
    BY <1>7 DEF PersistSource, WorkersOK
  <2>2. RowOK([work[job[w]] EXCEPT !.url = src[w]])
    BY <1>7, <2>1 DEF PersistSource, RowOK, RowsOK, WorkersOK, Rows
  <2>3. RowsOK'
    BY <1>7, <2>1, <2>2, RowUpdate DEF PersistSource, RowsOK
  <2> QED
    BY <1>7, <2>3 DEF PersistSource, ChoicesOK, LibraryOK, ClientsOK, WorkersOK, Pcs,
       mapVars, wishVars, fileVars, clientVars
<1>8. ASSUME NEW e \in Exts, Retrieve(w, e) PROVE TypeOK'
  BY <1>8 DEF Retrieve, RowsOK, ChoicesOK, LibraryOK, ClientsOK, WorkersOK, Pcs,
     rowVars, mapVars, wishVars, fileVars, clientVars
<1>9. CASE ResolveNone(w) \/ SourceFails(w) \/ Relock(w) \/ InspectPublished(w) \/ PublicationFails(w)
  BY <1>9 DEF ResolveNone, SourceFails, Relock, InspectPublished, PublicationFails, RowsOK, ChoicesOK,
     LibraryOK, ClientsOK, WorkersOK, Pcs, rowVars, mapVars, wishVars, fileVars, clientVars
<1>10. CASE Publish(w)
  <2>1. LibraryOK'
    BY <1>10 DEF Publish, LibraryOK, Contents
  <2>2. WorkersOK'
    BY <1>10 DEF Publish, WorkersOK, Pcs
  <2> QED
    BY <1>10, <2>1, <2>2 DEF Publish, RowsOK, ChoicesOK, ClientsOK, rowVars, mapVars, wishVars, clientVars
<1>11. CASE RecordOutcome(w)
  <2>1. job[w] \in WorkIds
    BY <1>11 DEF RecordOutcome, WorkersOK
  <2>2. PICK s \in {"failed", "unresolved"} :
          work' = [work EXCEPT ![job[w]].state = s] /\ UNCHANGED nextId
    BY <1>11 DEF RecordOutcome
  <2>3. RowOK([work[job[w]] EXCEPT !.state = s])
    BY <1>11, <2>1 DEF RecordOutcome, RowOK, RowsOK, Rows, States
  <2>4. RowsOK'
    BY <1>11, <2>1, <2>2, <2>3, RowUpdate DEF RowsOK, RecordOutcome
  <2>5. WorkersOK'
    BY <1>11, BoundsAssumption DEF RecordOutcome, Return, Release, WorkersOK, Pcs, Contents
  <2> QED
    BY <1>11, <2>4, <2>5 DEF RecordOutcome, ChoicesOK, LibraryOK, ClientsOK,
       mapVars, wishVars, fileVars, clientVars
<1>12. CASE LoseOutcome(w)
  <2>1. WorkersOK'
    BY <1>12, BoundsAssumption DEF LoseOutcome, Return, Release, WorkersOK, Pcs, Contents
  <2> QED
    BY <1>12, <2>1 DEF LoseOutcome, RowsOK, ChoicesOK, LibraryOK, ClientsOK,
       rowVars, mapVars, wishVars, fileVars, clientVars
<1> QED
  BY <1>1, <1>2, <1>3, <1>4, <1>5, <1>6, <1>7, <1>8, <1>9, <1>10, <1>11, <1>12 DEF WorkerStep

\* Every variable keeps its shape, and no row ever breaks a CHECK constraint of
\* the table, for any number of tracks, workers and rows.
THEOREM TypeCorrect == Spec => []TypeOK
<1>1. TypeOK /\ [Next]_vars => TypeOK'
  <2> SUFFICES ASSUME TypeOK, [Next]_vars PROVE TypeOK'
    OBVIOUS
  <2>1. CASE Handler
    BY <2>1, HandlerType
  <2>2. ASSUME NEW w \in Workers, WorkerStep(w) PROVE TypeOK'
    BY <2>2, WorkerType
  <2>3. CASE Restart
    <3>1. RowsOK'
      BY <2>3 DEF Restart, Recovered, TypeOK, RowsOK, Rows, States
    <3>2. WorkersOK'
      BY <2>3, BoundsAssumption DEF Restart, TypeOK, WorkersOK, Pcs, Contents
    <3>3. ChoicesOK' /\ LibraryOK'
      BY <2>3 DEF Restart, TypeOK, ChoicesOK, LibraryOK, mapVars, wishVars, fileVars
    <3>4. ClientsOK'
      BY <2>3 DEF Restart, TypeOK, ClientsOK
    <3> QED
      BY <3>1, <3>2, <3>3, <3>4 DEF TypeOK
  <2>4. ASSUME NEW t \in Tracks, NEW e \in Exts, NEW c \in EditContents, ExternalEdit(t, e, c)
        PROVE TypeOK'
    BY <2>4 DEF ExternalEdit, Contents, TypeOK, RowsOK, ChoicesOK, LibraryOK, ClientsOK, WorkersOK,
       rowVars, mapVars, wishVars, clientVars, workerVars
  <2>5. CASE UNCHANGED vars
    BY <2>5 DEF vars, rowVars, mapVars, wishVars, fileVars, clientVars, workerVars,
       TypeOK, RowsOK, ChoicesOK, LibraryOK, ClientsOK, WorkersOK, ActiveFor
  <2> QED
    BY <2>1, <2>2, <2>3, <2>4, <2>5 DEF Next
<1> QED
  BY <1>1, InitType, PTL DEF Spec
-----------------------------------------------------------------------------
(* One active row per track.                                               *)

\* Steps that make no row active keep the invariant ...
LEMMA NoNewActive ==
  ASSUME OneActivePerTrack,
         \A i \in WorkIds : Active(work'[i]) => Active(work[i]) /\ work'[i].track = work[i].track
  PROVE  OneActivePerTrack'
BY DEF OneActivePerTrack

\* ... and so does one that activates a row of a track with no active row.
LEMMA OneNewActive ==
  ASSUME OneActivePerTrack, NEW k \in WorkIds, ActiveFor(work'[k].track) = {},
         \A i \in WorkIds : i # k => work'[i] = work[i]
  PROVE  OneActivePerTrack'
BY DEF OneActivePerTrack, ActiveFor

\* Every handler either activates nothing or checks the track it activates.
LEMMA HandlerOneActive ==
  ASSUME TypeOK, OneActivePerTrack, Handler
  PROVE  OneActivePerTrack'
<1> USE DEF TypeOK
<1>1. ASSUME NEW t \in Tracks, NEW u \in Urls, Acquire(t, u) PROVE OneActivePerTrack'
  <2>1. nextId \in WorkIds /\ work'[nextId].track = t
        /\ \A i \in WorkIds : i # nextId => work'[i] = work[i]
    BY <1>1 DEF Acquire, Insert, PendingRow, RowsOK
  <2> QED
    BY <1>1, <2>1, OneNewActive DEF Acquire
<1>2. CASE AcquireMissing
  <2> DEFINE new == nextId .. (nextId + Cardinality(NeverTried) - 1)
  <2>1. PICK queued \in Bijection(new, NeverTried) :
          work' = [i \in WorkIds |-> IF i \in new
                                     THEN PendingRow(queued[i], "youtube", NoUrl)
                                     ELSE work[i]]
    BY <1>2 DEF AcquireMissing
  <2> HIDE DEF new
  <2>2. \A i \in new : queued[i] \in NeverTried
    BY <2>1 DEF Bijection, Injection, Surjection
  <2>3. \A i, j \in new : queued[i] = queued[j] => i = j
    BY <2>1 DEF Bijection, Injection, IsInjective
  <2>4. \A i \in new, j \in WorkIds : Active(work[j]) => work[j].track # queued[i]
    BY <2>2 DEF NeverTried, ActiveFor
  <2>6. \A i \in WorkIds : i \in new => work'[i].track = queued[i]
    <3> SUFFICES ASSUME NEW i \in WorkIds, i \in new PROVE work'[i].track = queued[i]
      OBVIOUS
    <3>1. work'[i] = PendingRow(queued[i], "youtube", NoUrl)
      BY <2>1
    <3> QED
      BY <3>1 DEF PendingRow
  <2>7. \A i \in WorkIds : i \notin new => work'[i] = work[i]
    BY <2>1
  <2> SUFFICES ASSUME NEW i \in WorkIds, NEW j \in WorkIds, Active(work'[i]), Active(work'[j]),
                      work'[i].track = work'[j].track
               PROVE  i = j
    BY DEF OneActivePerTrack
  <2>8. CASE i \in new /\ j \in new
    BY <2>3, <2>6, <2>8
  <2>9. CASE i \in new /\ j \notin new
    BY <2>4, <2>6, <2>7, <2>9
  <2>10. CASE i \notin new /\ j \in new
    BY <2>4, <2>6, <2>7, <2>10
  <2>11. CASE i \notin new /\ j \notin new
    BY <2>7, <2>11 DEF OneActivePerTrack
  <2> QED
    BY <2>8, <2>9, <2>10, <2>11
<1>3. ASSUME NEW i \in WorkIds, Retry(i) PROVE OneActivePerTrack'
  <2>1. work'[i].track = work[i].track /\ \A j \in WorkIds : j # i => work'[j] = work[j]
    BY <1>3 DEF Retry, Requeued, RowsOK, Rows
  <2> QED
    BY <1>3, <2>1, OneNewActive DEF Retry
<1>4. CASE RetryUnresolved
  <2>1. \A i \in WorkIds : work'[i] = IF FirstRetryable(i) THEN Requeued(work[i]) ELSE work[i]
    BY <1>4 DEF RetryUnresolved
  <2>2. \A i \in WorkIds : work'[i].track = work[i].track
    BY <2>1 DEF Requeued, RowsOK, Rows
  <2>3. \A i, j \in WorkIds : FirstRetryable(i) /\ Active(work[j]) => work[j].track # work[i].track
    BY DEF FirstRetryable, Retryable, ActiveFor
  <2>4. \A i, j \in WorkIds :
          FirstRetryable(i) /\ FirstRetryable(j) /\ work[i].track = work[j].track => i = j
    BY DEF FirstRetryable, WorkIds
  <2> QED
    BY <2>1, <2>2, <2>3, <2>4 DEF OneActivePerTrack
<1>5. ASSUME NEW r \in receipts, SelectYouTube(r) PROVE OneActivePerTrack'
  <2>1. CASE UNCHANGED rowVars
    BY <2>1, NoNewActive DEF rowVars
  <2>2. ASSUME ActiveFor(r.track) = {}, NEW i \in Reusable(r.track),
               work' = [work EXCEPT ![i].url = r.video, ![i].state = "pending"]
        PROVE  OneActivePerTrack'
    <3>1. i \in WorkIds /\ work'[i].track = r.track /\ \A j \in WorkIds : j # i => work'[j] = work[j]
      BY <2>2 DEF Reusable, YouTubeFor, RowsOK, Rows
    <3> QED
      BY <2>2, <3>1, OneNewActive
  <2>3. ASSUME ActiveFor(r.track) = {}, Insert(PendingRow(r.track, "youtube", r.video))
        PROVE  OneActivePerTrack'
    <3>1. nextId \in WorkIds /\ work'[nextId].track = r.track
          /\ \A i \in WorkIds : i # nextId => work'[i] = work[i]
      BY <2>3 DEF Insert, PendingRow, RowsOK
    <3> QED
      BY <2>3, <3>1, OneNewActive
  <2> QED
    BY <1>5, <2>1, <2>2, <2>3 DEF SelectYouTube, QueueSelected
<1>6. CASE UNCHANGED rowVars
  BY <1>6, NoNewActive DEF rowVars
<1> QED
  BY <1>1, <1>2, <1>3, <1>4, <1>5, <1>6
  DEF Handler, Resubmit, SetMapping, RemoveMapping, InspectStart, InspectFinish, ExpireReceipt, ApplyDesired

\* A worker's step changes at most one row, and one column of it: the state of a row
\* it claims, completes or gives up, or the URL of a row without one.
LEMMA WorkerRow ==
  ASSUME TypeOK, NEW w \in Workers, WorkerStep(w), NEW i \in WorkIds
  PROVE  /\ work'[i].track = work[i].track /\ work'[i].kind = work[i].kind
         /\ work'[i].url = work[i].url \/ (PersistSource(w) /\ i = job[w])
         /\ \/ work'[i].state = work[i].state
            \/ work[i].state = "pending" /\ work'[i].state = "running"
            \/ Complete(w) /\ i = job[w] /\ work[i].state = "running" /\ work'[i].state = "complete"
            \/ work[i].state = "running" /\ work'[i].state \in {"failed", "unresolved"}
<1>1. work \in [WorkIds -> Rows] /\ work[i] \in Rows
  BY DEF TypeOK, RowsOK
<1> USE DEF Rows
<1>2. CASE Claim(w)
  BY <1>1, <1>2 DEF Claim, PendingIds
<1>3. CASE Complete(w)
  BY <1>1, <1>3 DEF Complete
<1>4. CASE PersistSource(w)
  BY <1>1, <1>4 DEF PersistSource
<1>5. CASE RecordOutcome(w)
  BY <1>1, <1>5 DEF RecordOutcome
<1>6. CASE ~(Claim(w) \/ Complete(w) \/ PersistSource(w) \/ RecordOutcome(w))
  <2>1. UNCHANGED work
    BY <1>6 DEF WorkerStep, CheckNoFile, CheckOrphan, CheckRefused, VerifyOrphan, AdoptionFails, ReadMapping,
       Resolve, ResolveNone, Retrieve, SourceFails, Relock, Publish, InspectPublished, PublicationFails,
       LoseOutcome, rowVars
  <2> QED
    BY <2>1
<1> QED
  BY <1>2, <1>3, <1>4, <1>5, <1>6

\* A worker only takes a row from pending to running, writes the source of a
\* running row, or ends it.
LEMMA WorkerRows ==
  ASSUME TypeOK, NEW w \in Workers, WorkerStep(w), NEW i \in WorkIds
  PROVE  /\ work'[i].track = work[i].track /\ work'[i].kind = work[i].kind
         /\ Active(work'[i]) => Active(work[i])
         /\ work'[i].state # "complete" => work[i].state # "complete"
BY WorkerRow DEF Active

\* At most one row of a track is pending or running: no interleaving of handlers,
\* batches, selections, workers and restarts ever runs into the unique index.
THEOREM OneActive == Spec => []OneActivePerTrack
<1>1. Init => OneActivePerTrack
  BY DEF Init, OneActivePerTrack, Active, NoRow
<1>2. TypeOK /\ OneActivePerTrack /\ [Next]_vars => OneActivePerTrack'
  <2> SUFFICES ASSUME TypeOK, OneActivePerTrack, [Next]_vars PROVE OneActivePerTrack'
    OBVIOUS
  <2>1. CASE Handler
    BY <2>1, HandlerOneActive
  <2>2. ASSUME NEW w \in Workers, WorkerStep(w) PROVE OneActivePerTrack'
    BY <2>2, WorkerRows, NoNewActive
  <2>3. CASE Restart
    <3>1. \A i \in WorkIds : Active(work'[i]) => Active(work[i]) /\ work'[i].track = work[i].track
      BY <2>3 DEF Restart, Recovered, Active, TypeOK, RowsOK, Rows
    <3> QED
      BY <3>1, NoNewActive
  <2>4. CASE UNCHANGED rowVars
    BY <2>4, NoNewActive DEF rowVars
  <2> QED
    BY <2>1, <2>2, <2>3, <2>4 DEF Next, ExternalEdit, vars
<1> QED
  BY <1>1, <1>2, TypeCorrect, PTL DEF Spec
-----------------------------------------------------------------------------
(* Ownership of running rows.                                              *)

\* What RunningIsOwned needs to be inductive: a row whose outcome was lost is still
\* running, and has no owner any more.
LostIsUnowned ==
  /\ \A i \in lost : work[i].state = "running"
  /\ \A w \in Workers : pc[w] # "idle" => job[w] \notin lost
Ownership == RunningIsOwned /\ LostIsUnowned

\* No handler starts, stops or reuses a running row.
LEMMA HandlerKeepsRunning ==
  ASSUME TypeOK, Handler, NEW i \in WorkIds
  PROVE  work'[i] = work[i] \/ (work[i].state # "running" /\ work'[i].state # "running")
<1> USE DEF TypeOK
<1>1. ASSUME NEW row, row.state = "pending", Insert(row)
      PROVE  work'[i] = work[i] \/ (work[i].state # "running" /\ work'[i].state # "running")
  BY <1>1 DEF Insert, RowsOK, WorkIds
<1>2. CASE AcquireMissing
  <2>1. work'[i] = work[i] \/ (~(i < nextId) /\ work'[i].state = "pending")
    BY <1>2 DEF AcquireMissing, PendingRow, RowsOK, WorkIds
  <2> QED
    BY <2>1 DEF RowsOK
<1>3. ASSUME NEW j \in WorkIds, Retry(j)
      PROVE  work'[i] = work[i] \/ (work[i].state # "running" /\ work'[i].state # "running")
  BY <1>3 DEF Retry, Requeued, RowsOK, Rows
<1>4. CASE RetryUnresolved
  <2>1. work'[i] = IF FirstRetryable(i) THEN Requeued(work[i]) ELSE work[i]
    BY <1>4 DEF RetryUnresolved
  <2> QED
    BY <2>1 DEF FirstRetryable, Retryable, Requeued, RowsOK, Rows
<1>5. ASSUME NEW t \in Tracks, NEW v \in Videos, QueueSelected(t, v)
      PROVE  work'[i] = work[i] \/ (work[i].state # "running" /\ work'[i].state # "running")
  BY <1>1, <1>5 DEF QueueSelected, Reusable, YouTubeFor, PendingRow, rowVars, RowsOK, Rows
<1>6. \A r \in receipts : r.track \in Tracks /\ r.video \in Videos
  BY DEF ClientsOK, Receipts
<1> QED
  BY <1>1, <1>2, <1>3, <1>4, <1>5, <1>6
  DEF Handler, Resubmit, Acquire, PendingRow, SelectYouTube, SetMapping, RemoveMapping, InspectStart,
      InspectFinish, ExpireReceipt, ApplyDesired, rowVars

\* Handlers do not touch what the workers hold.
LEMMA HandlerWorkers == Handler => UNCHANGED <<workerVars, mu>>
BY DEF Handler, Resubmit, Acquire, AcquireMissing, Retry, RetryUnresolved, SelectYouTube, SetMapping,
   RemoveMapping, InspectStart, InspectFinish, ExpireReceipt, ApplyDesired

\* A worker keeps managedMu from its lock to the unlock of the same section, and
\* every way out of a section unlocks.
LEMMA WorkerLock ==
  ASSUME TypeOK, LockIsHeld, NEW w \in Workers, WorkerStep(w)
  PROVE  LockIsHeld'
<1> USE WorkersAssumption DEF TypeOK, WorkersOK, LockIsHeld, Goto
<1>1. CASE Claim(w)
  BY <1>1 DEF Claim
<1>2. CASE CheckNoFile(w) \/ CheckOrphan(w) \/ CheckRefused(w)
  BY <1>2 DEF CheckNoFile, CheckOrphan, CheckRefused
<1>3. CASE VerifyOrphan(w) \/ AdoptionFails(w)
  BY <1>3 DEF VerifyOrphan, AdoptionFails, Release
<1>4. CASE Complete(w) \/ RecordOutcome(w) \/ LoseOutcome(w)
  BY <1>4 DEF Complete, RecordOutcome, LoseOutcome, Return, Release
<1>5. CASE ReadMapping(w) \/ (\E v \in Videos : Resolve(w, v)) \/ ResolveNone(w) \/ PersistSource(w) \/ SourceFails(w)
  BY <1>5 DEF ReadMapping, Resolve, ResolveNone, PersistSource, SourceFails
<1>6. CASE (\E e \in Exts : Retrieve(w, e)) \/ Relock(w)
  BY <1>6 DEF Retrieve, Relock
<1>7. CASE Publish(w) \/ InspectPublished(w) \/ PublicationFails(w)
  BY <1>7 DEF Publish, InspectPublished, PublicationFails
<1> QED
  BY <1>1, <1>2, <1>3, <1>4, <1>5, <1>6, <1>7 DEF WorkerStep

\* A step inside runAcquisition keeps every row's state, ...
LEMMA Advance ==
  ASSUME WorkersOK, Ownership, LockIsHeld', NEW w \in Workers, pc[w] # "idle",
         NEW p \in Pcs, p # "idle", pc' = [pc EXCEPT ![w] = p], UNCHANGED <<job, lost>>,
         \A i \in WorkIds : work'[i].state = work[i].state
  PROVE  Ownership'
BY DEF WorkersOK, Ownership, RunningIsOwned, LostIsUnowned

\* ... and its last one ends the row, or leaves it running and lost.
LEMMA Finish ==
  ASSUME WorkersOK, Ownership, LockIsHeld', NEW w \in Workers, pc[w] # "idle", Return(w),
         \A i \in WorkIds : i # job[w] => work'[i] = work[i],
         \/ work'[job[w]].state # "running" /\ UNCHANGED lost
         \/ work' = work /\ lost' = lost \cup {job[w]}
  PROVE  Ownership'
<1>1. pc' = [pc EXCEPT ![w] = "idle"] /\ job' = [job EXCEPT ![w] = 0]
  BY DEF Return, Goto
<1> QED
  BY <1>1 DEF WorkersOK, Ownership, RunningIsOwned, LostIsUnowned

\* A worker takes a row nobody has, keeps its own, and gives it up for good.
LEMMA WorkerOwnership ==
  ASSUME TypeOK, Ownership, NEW w \in Workers, WorkerStep(w)
  PROVE  Ownership'
<1> USE DEF TypeOK
<1>0. LockIsHeld'
  BY WorkerLock DEF Ownership, RunningIsOwned
<1>1. CASE Claim(w)
  <2>1. PICK i \in PendingIds :
          /\ work' = [work EXCEPT ![i].state = "running"]
          /\ job' = [job EXCEPT ![w] = i]
    BY <1>1 DEF Claim
  <2>2. i \in WorkIds /\ work[i].state = "pending" /\ work'[i].state = "running"
        /\ \A k \in WorkIds : k # i => work'[k] = work[k]
    BY <2>1 DEF PendingIds, RowsOK, Rows
  <2>3. \A v \in Workers : pc[v] # "idle" => job[v] # i
    BY <2>2 DEF Ownership, RunningIsOwned
  <2>4. i \notin lost
    BY <2>2 DEF Ownership, LostIsUnowned
  <2>5. UNCHANGED lost /\ pc' = [pc EXCEPT ![w] = "check"] /\ pc[w] = "idle"
    BY <1>1 DEF Claim
  <2> QED
    BY <1>0, <2>1, <2>2, <2>3, <2>4, <2>5 DEF Ownership, RunningIsOwned, LostIsUnowned, WorkersOK
<1>2. CASE Complete(w) \/ RecordOutcome(w)
  <2>1. pc[w] # "idle" /\ Return(w) /\ UNCHANGED lost
    BY <1>2 DEF Complete, RecordOutcome
  <2>2. job[w] \in WorkIds
    BY <2>1 DEF WorkersOK
  <2>3. work'[job[w]].state # "running" /\ \A i \in WorkIds : i # job[w] => work'[i] = work[i]
    BY <1>2, <2>2 DEF Complete, RecordOutcome, RowsOK, Rows
  <2> QED
    BY <1>0, <2>1, <2>3, Finish
<1>3. CASE LoseOutcome(w)
  <2>1. pc[w] # "idle" /\ Return(w) /\ lost' = lost \cup {job[w]} /\ work' = work
    BY <1>3 DEF LoseOutcome, rowVars
  <2> QED
    BY <1>0, <2>1, Finish
<1>4. ASSUME NEW p \in Pcs \ {"idle"}, pc[w] # "idle", Goto(w, p), UNCHANGED <<job, lost>>,
             \A i \in WorkIds : work'[i].state = work[i].state
      PROVE  Ownership'
  BY <1>0, <1>4, Advance DEF Goto
<1>5. CASE PersistSource(w)
  <2>1. \A i \in WorkIds : work'[i].state = work[i].state
    BY <1>5 DEF PersistSource, RowsOK, Rows
  <2> QED
    BY <1>4, <1>5, <2>1 DEF PersistSource, Pcs
<1>6. CASE UNCHANGED <<rowVars, job, lost>> /\ \E p \in Pcs \ {"idle"} : pc[w] # "idle" /\ Goto(w, p)
  BY <1>4, <1>6 DEF rowVars
<1>7. CASE CheckNoFile(w) \/ CheckOrphan(w) \/ CheckRefused(w) \/ VerifyOrphan(w) \/ AdoptionFails(w)
  BY <1>6, <1>7 DEF CheckNoFile, CheckOrphan, CheckRefused, VerifyOrphan, AdoptionFails, Pcs
<1>8. CASE ReadMapping(w) \/ (\E v \in Videos : Resolve(w, v)) \/ ResolveNone(w) \/ SourceFails(w)
  BY <1>6, <1>8 DEF ReadMapping, Resolve, ResolveNone, SourceFails, Pcs
<1>9. CASE \/ (\E e \in Exts : Retrieve(w, e)) \/ Relock(w) \/ Publish(w)
           \/ InspectPublished(w) \/ PublicationFails(w)
  BY <1>6, <1>9 DEF Retrieve, Relock, Publish, InspectPublished, PublicationFails, Pcs
<1> QED
  BY <1>1, <1>2, <1>3, <1>5, <1>7, <1>8, <1>9 DEF WorkerStep

\* Two workers never process the same row, and a running row is in the hands of a
\* worker unless recording its outcome failed: nothing else strands a row, and no
\* return path of runAcquisition leaves managedMu locked behind it.
THEOREM RunningOwned == Spec => []RunningIsOwned
<1>1. Init => Ownership
  BY DEF Init, Ownership, RunningIsOwned, LockIsHeld, LostIsUnowned, NoRow
<1>2. TypeOK /\ Ownership /\ [Next]_vars => Ownership'
  <2> SUFFICES ASSUME TypeOK, Ownership, [Next]_vars PROVE Ownership'
    OBVIOUS
  <2>1. CASE Handler
    <3>1. UNCHANGED <<pc, job, lost, mu>>
      BY <2>1, HandlerWorkers DEF workerVars
    <3>2. \A i \in WorkIds : work'[i].state = "running" <=> work[i].state = "running"
      BY <2>1, HandlerKeepsRunning
    <3> QED
      BY <3>1, <3>2 DEF Ownership, RunningIsOwned, LockIsHeld, LostIsUnowned, TypeOK, WorkersOK
  <2>2. ASSUME NEW w \in Workers, WorkerStep(w) PROVE Ownership'
    BY <2>2, WorkerOwnership
  <2>3. CASE Restart
    <3>1. \A w \in Workers : pc'[w] = "idle"
      BY <2>3 DEF Restart
    <3>2. \A i \in WorkIds : work'[i].state # "running"
      BY <2>3 DEF Restart, Recovered, TypeOK, RowsOK, Rows
    <3>3. lost' = {} /\ mu' = NoWorker
      BY <2>3 DEF Restart
    <3> QED
      BY <3>1, <3>2, <3>3 DEF Ownership, RunningIsOwned, LockIsHeld, LostIsUnowned
  <2>4. CASE UNCHANGED <<rowVars, workerVars, mu>>
    BY <2>4 DEF rowVars, workerVars, Ownership, RunningIsOwned, LockIsHeld, LostIsUnowned
  <2> QED
    BY <2>1, <2>2, <2>3, <2>4 DEF Next, ExternalEdit, vars
<1> QED
  BY <1>1, <1>2, TypeCorrect, PTL DEF Spec, Ownership
=============================================================================
