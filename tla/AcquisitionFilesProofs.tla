------------------------ MODULE AcquisitionFilesProofs ------------------------
(***************************************************************************)
(* Proofs about what Acquisition does to the managed files: what a worker  *)
(* knows of its track's files at each step, what it may publish and        *)
(* register, and that the queue implements WorkLedger, for any tracks,     *)
(* extensions, workers and foreign contents.                               *)
(***************************************************************************)
EXTENDS AcquisitionSelectionProofs

Locking == {"verify", "adopt", "publish", "inspect", "commit"}
Carrying == {"verify", "adopt", "relock", "publish", "inspect", "commit"}
Seeking == {"choose", "resolve", "persist", "retrieve", "relock", "publish"}
Holding == {"adopt", "inspect", "commit"}

\* What a worker has locked and carries, whoever else touches its files.
StageOK(w) ==
  /\ pc[w] \in Locking => mu = w
  /\ pc[w] \in Carrying => ext[w] \in Exts
  /\ pc[w] = "verify" => seen[w] # Absent

\* Before it publishes, its track is desired, and available only to an edit.
DueOK(w) ==
  pc[w] = "publish" =>
    JobTrack(w) \in desired /\ (Available(JobTrack(w)) => JobTrack(w) \in edited)

\* Unless somebody else touches them: from the first check to the publication the
\* track has no file, until it is registered nothing is, and what a worker is
\* about to register is the published audio.
TrackOK(w) ==
  pc[w] \in Seeking \cup Carrying /\ JobTrack(w) \notin edited =>
    /\ managed[JobTrack(w)] = NoExt
    /\ pc[w] \in Seeking => FilesOf(JobTrack(w)) = {}
    /\ pc[w] \in Holding => disk[JobTrack(w)][ext[w]] = Ours

\* Only the daemon's own audio is at a path that nobody else has touched.
Untouched == \A t \in Tracks \ edited : \A e \in Exts : disk[t][e] \in {Absent, Ours}

\* A row the queue may still work on or be asked to resume.
Resumable(row) == row.state \in {"pending", "running", "failed", "unresolved"}

FilesInv ==
  /\ \A w \in Workers : StageOK(w) /\ DueOK(w) /\ TrackOK(w)
  /\ Untouched
  /\ RegisteredFileExists
  /\ OneFilePerTrack
  /\ OrphanIsRecoverable

-----------------------------------------------------------------------------
(* What a step leaves alone.                                               *)

\* A handler touches neither files nor workers, and waits for managedMu before it
\* changes what is desired.
LEMMA HandlerFrame ==
  ASSUME Handler
  PROVE  UNCHANGED <<managed, disk, edited, mu, workerVars>> /\ (mu = NoWorker \/ UNCHANGED desired)
BY DEF Handler, Resubmit, Acquire, AcquireMissing, Retry, RetryUnresolved, SelectYouTube, SetMapping,
   RemoveMapping, InspectStart, InspectFinish, ExpireReceipt, ApplyDesired, fileVars, wishVars, workerVars

\* A worker takes managedMu only when it is free and releases only its own; it
\* registers in Complete and writes in Publish, nowhere else.
LEMMA WorkerFrame ==
  ASSUME NEW w \in Workers, WorkerStep(w)
  PROVE  /\ UNCHANGED <<desired, edited>>
         /\ \A v \in Workers : v # w /\ mu = v => mu' = v
         /\ Complete(w) \/ UNCHANGED managed
         /\ Publish(w) \/ UNCHANGED disk
BY WorkersAssumption DEF WorkerStep, Claim, CheckNoFile, CheckOrphan, CheckRefused, VerifyOrphan, AdoptionFails,
   Complete, ReadMapping, Resolve, ResolveNone, PersistSource, Retrieve, SourceFails, Relock, Publish,
   InspectPublished, PublicationFails, RecordOutcome, LoseOutcome, Release, fileVars, wishVars

\* A busy worker has a row, and its row a track.
LEMMA BusyRow ==
  ASSUME TypeOK, RunningIsOwned, NEW w \in Workers, pc[w] # "idle"
  PROVE  job[w] \in WorkIds /\ work[job[w]].state = "running" /\ JobTrack(w) \in Tracks
BY DEF TypeOK, RowsOK, RunningIsOwned, JobTrack

\* Registration and publication concern the track of the worker that does them.
LEMMA OtherTracks ==
  ASSUME TypeOK, RunningIsOwned, NEW w \in Workers, WorkerStep(w), NEW t \in Tracks,
         pc[w] # "idle" => t # JobTrack(w)
  PROVE  managed'[t] = managed[t] /\ disk'[t] = disk[t]
<1>1. CASE Complete(w)
  BY <1>1, WorkerFrame DEF Complete, TypeOK, LibraryOK
<1>2. CASE Publish(w)
  BY <1>2, WorkerFrame DEF Publish, TypeOK, LibraryOK
<1> QED
  BY <1>1, <1>2, WorkerFrame

\* No row that can be resumed is lost, but by its own completion.
LEMMA ResumableKept ==
  ASSUME TypeOK, [Next]_vars, NEW i \in WorkIds, Resumable(work[i])
  PROVE  \/ Resumable(work'[i]) /\ work'[i].track = work[i].track
         \/ \E w \in Workers : Complete(w) /\ i = job[w]
<1> USE DEF Resumable
<1>1. CASE Handler
  BY <1>1, HandlerRow
<1>2. ASSUME NEW w \in Workers, WorkerStep(w), ~(Complete(w) /\ i = job[w])
      PROVE  Resumable(work'[i]) /\ work'[i].track = work[i].track
  BY <1>2, WorkerRow
<1>3. CASE Restart
  BY <1>3 DEF Restart, Recovered, TypeOK, RowsOK, Rows
<1>4. CASE UNCHANGED rowVars
  BY <1>4 DEF rowVars
<1> QED
  BY <1>1, <1>2, <1>3, <1>4 DEF Next, ExternalEdit, vars

-----------------------------------------------------------------------------
(* The worker that moves.                                                  *)

\* It holds managedMu where it must, and knows its extension when it needs it.
LEMMA MoverStage ==
  ASSUME TypeOK, RunningIsOwned, NEW w \in Workers, StageOK(w), WorkerStep(w)
  PROVE  StageOK(w)'
<1> USE DEF StageOK, Locking, Carrying, Goto, TypeOK, WorkersOK
<1>1. CASE Claim(w)
  BY <1>1 DEF Claim
<1>2. CASE CheckNoFile(w) \/ CheckRefused(w) \/ VerifyOrphan(w) \/ AdoptionFails(w)
  BY <1>2 DEF CheckNoFile, CheckRefused, VerifyOrphan, AdoptionFails
<1>3. CASE CheckOrphan(w)
  <2>1. PICK e \in Exts :
          /\ FilesOf(JobTrack(w)) = {e}
          /\ ext' = [ext EXCEPT ![w] = e]
          /\ seen' = [seen EXCEPT ![w] = disk[JobTrack(w)][e]]
    BY <1>3 DEF CheckOrphan
  <2>2. disk[JobTrack(w)][e] # Absent
    BY <2>1 DEF FilesOf
  <2> QED
    BY <1>3, <2>1, <2>2 DEF CheckOrphan
<1>4. CASE Complete(w) \/ RecordOutcome(w) \/ LoseOutcome(w)
  BY <1>4 DEF Complete, RecordOutcome, LoseOutcome, Return
<1>5. CASE ReadMapping(w) \/ (\E v \in Videos : Resolve(w, v)) \/ ResolveNone(w) \/ PersistSource(w) \/ SourceFails(w)
  BY <1>5 DEF ReadMapping, Resolve, ResolveNone, PersistSource, SourceFails
<1>6. CASE (\E e \in Exts : Retrieve(w, e)) \/ Relock(w)
  BY <1>6 DEF Retrieve, Relock
<1>7. CASE Publish(w) \/ InspectPublished(w) \/ PublicationFails(w)
  BY <1>7 DEF Publish, InspectPublished, PublicationFails
<1> QED
  BY <1>1, <1>2, <1>3, <1>4, <1>5, <1>6, <1>7 DEF WorkerStep

\* It goes on to publish only after it has looked again, with managedMu held.
LEMMA MoverDue ==
  ASSUME TypeOK, RunningIsOwned, NEW w \in Workers, WorkerStep(w)
  PROVE  DueOK(w)'
<1> USE DEF DueOK, Goto, TypeOK, WorkersOK
<1>1. CASE Relock(w)
  <2>1. UNCHANGED <<work, job, desired, edited, managed, disk>>
    BY <1>1 DEF Relock, rowVars, wishVars, fileVars
  <2>2. pc'[w] = "publish" => Missing(JobTrack(w))
    BY <1>1 DEF Relock
  <2> QED
    BY <2>1, <2>2 DEF Missing, Available, JobTrack
<1>2. CASE ~Relock(w)
  <2>1. pc'[w] # "publish"
    BY <1>2 DEF WorkerStep, Claim, CheckNoFile, CheckOrphan, CheckRefused, VerifyOrphan, AdoptionFails,
       Complete, ReadMapping, Resolve, ResolveNone, PersistSource, Retrieve, SourceFails, Publish,
       InspectPublished, PublicationFails, RecordOutcome, LoseOutcome, Return
  <2> QED
    BY <2>1
<1> QED
  BY <1>1, <1>2

\* What it knows of its track's files stays true as it goes on.
LEMMA MoverTrack ==
  ASSUME TypeOK, RunningIsOwned, Untouched, RegisteredFileExists,
         NEW w \in Workers, StageOK(w), TrackOK(w), WorkerStep(w)
  PROVE  TrackOK(w)'
<1> USE DEF TrackOK, Seeking, Carrying, Holding, Goto, TypeOK, WorkersOK
<1>a. pc[w] # "idle" => JobTrack(w) \in Tracks /\ job[w] \in WorkIds
  BY BusyRow
<1>b. Missing(JobTrack(w)) /\ pc[w] # "idle" /\ JobTrack(w) \notin edited => managed[JobTrack(w)] = NoExt
  <2> SUFFICES ASSUME pc[w] # "idle", JobTrack(w) \notin edited, managed[JobTrack(w)] # NoExt
               PROVE  ~Missing(JobTrack(w))
    OBVIOUS
  <2>1. disk[JobTrack(w)][managed[JobTrack(w)]] = Ours
    BY <1>a DEF RegisteredFileExists
  <2> QED
    BY <2>1, ContentAssumption DEF Missing, Available
<1>c. ASSUME UNCHANGED <<rowVars, job, fileVars, edited>>
      PROVE  JobTrack(w)' = JobTrack(w) /\ FilesOf(JobTrack(w))' = FilesOf(JobTrack(w))
             /\ UNCHANGED <<managed, disk, edited>>
  BY <1>c DEF JobTrack, FilesOf, rowVars, fileVars
<1>1. CASE Claim(w)
  BY <1>1 DEF Claim
<1>2. CASE CheckNoFile(w)
  BY <1>2, <1>b, <1>c DEF CheckNoFile
<1>3. CASE CheckOrphan(w)
  BY <1>3, <1>b, <1>c DEF CheckOrphan
<1>4. CASE CheckRefused(w) \/ AdoptionFails(w) \/ SourceFails(w) \/ ResolveNone(w) \/ PublicationFails(w)
  BY <1>4 DEF CheckRefused, AdoptionFails, SourceFails, ResolveNone, PublicationFails
<1>5. CASE VerifyOrphan(w)
  <2>1. JobTrack(w)' = JobTrack(w) /\ UNCHANGED <<managed, disk, edited, ext>> /\ pc[w] = "verify" /\ pc'[w] = "adopt"
    BY <1>5, <1>c DEF VerifyOrphan
  <2>2. disk[JobTrack(w)][ext[w]] # Absent /\ ext[w] \in Exts
    BY <1>5 DEF VerifyOrphan, StageOK
  <2>3. JobTrack(w) \notin edited => disk[JobTrack(w)][ext[w]] = Ours
    BY <1>a, <2>1, <2>2 DEF Untouched
  <2> QED
    BY <2>1, <2>3
<1>6. CASE Complete(w) \/ RecordOutcome(w) \/ LoseOutcome(w)
  BY <1>6 DEF Complete, RecordOutcome, LoseOutcome, Return
<1>7. CASE ReadMapping(w) \/ (\E v \in Videos : Resolve(w, v)) \/ (\E e \in Exts : Retrieve(w, e))
  BY <1>7, <1>c DEF ReadMapping, Resolve, Retrieve
<1>8. CASE PersistSource(w)
  <2>1. UNCHANGED <<job, managed, disk, edited>> /\ pc[w] = "persist" /\ pc'[w] = "retrieve"
    BY <1>8 DEF PersistSource, fileVars
  <2>2. JobTrack(w)' = JobTrack(w)
    BY <1>8, <1>a, <2>1 DEF PersistSource, JobTrack, RowsOK, Rows
  <2> QED
    BY <2>1, <2>2 DEF FilesOf
<1>9. CASE Relock(w)
  BY <1>9, <1>c DEF Relock
<1>10. CASE Publish(w)
  <2>1. JobTrack(w)' = JobTrack(w) /\ UNCHANGED <<managed, edited, ext>> /\ pc[w] = "publish" /\ pc'[w] \notin Seeking
    BY <1>10 DEF Publish, JobTrack, rowVars
  <2>2. disk'[JobTrack(w)][ext[w]] = Ours
    BY <1>10, <1>a, <2>1 DEF Publish, StageOK, LibraryOK
  <2> QED
    BY <2>1, <2>2
<1>11. CASE InspectPublished(w)
  <2>1. JobTrack(w)' = JobTrack(w) /\ UNCHANGED <<managed, disk, edited, ext>> /\ pc[w] = "inspect" /\ pc'[w] = "commit"
    BY <1>11, <1>c DEF InspectPublished
  <2> QED
    BY <1>11, <2>1 DEF InspectPublished
<1> QED
  BY <1>1, <1>2, <1>3, <1>4, <1>5, <1>6, <1>7, <1>8, <1>9, <1>10, <1>11 DEF WorkerStep

-----------------------------------------------------------------------------
(* One step and every worker, every track.                                 *)

\* What the steps rely on besides the files.
QueueInv == TypeOK /\ OneActivePerTrack /\ RunningIsOwned

\* Whoever moves, the other workers keep what they have and what they know.
LEMMA OthersFiles ==
  ASSUME QueueInv, NEW w \in Workers, WorkerStep(w),
         NEW v \in Workers, v # w, StageOK(v), DueOK(v), TrackOK(v)
  PROVE  StageOK(v)' /\ DueOK(v)' /\ TrackOK(v)'
<1> USE DEF QueueInv
<1>1. /\ pc'[v] = pc[v] /\ job'[v] = job[v] /\ ext'[v] = ext[v] /\ seen'[v] = seen[v]
      /\ pc[v] # "idle" => work'[job[v]] = work[job[v]]
  BY OthersKeep
<1>2. StageOK(v)'
  <2>1. mu = v => mu' = v
    BY WorkerFrame
  <2> QED
    BY <1>1, <2>1 DEF StageOK
<1>3. ASSUME pc[v] # "idle" PROVE DueOK(v)' /\ TrackOK(v)'
  <2>1. JobTrack(v)' = JobTrack(v)
    BY <1>1, <1>3 DEF JobTrack
  <2>2. JobTrack(v) \in Tracks
    BY <1>3, BusyRow
  <2>3. pc[w] # "idle" => JobTrack(v) # JobTrack(w)
    BY <1>3, SoleOwner
  <2>4. managed'[JobTrack(v)] = managed[JobTrack(v)] /\ disk'[JobTrack(v)] = disk[JobTrack(v)]
    BY <2>2, <2>3, OtherTracks
  <2>5. UNCHANGED <<desired, edited>>
    BY WorkerFrame
  <2> QED
    BY <1>1, <2>1, <2>4, <2>5 DEF DueOK, TrackOK, Available, FilesOf
<1>4. CASE pc[v] = "idle"
  BY <1>1, <1>2, <1>4 DEF DueOK, TrackOK, Seeking, Carrying
<1> QED
  BY <1>2, <1>3, <1>4

\* A step of a worker keeps every worker's part.
LEMMA WorkerFiles ==
  ASSUME QueueInv, FilesInv, NEW w \in Workers, WorkerStep(w), NEW v \in Workers
  PROVE  StageOK(v)' /\ DueOK(v)' /\ TrackOK(v)'
<1>1. CASE v = w
  BY <1>1, MoverStage, MoverDue, MoverTrack DEF QueueInv, FilesInv
<1>2. CASE v # w
  BY <1>2, OthersFiles DEF FilesInv
<1> QED
  BY <1>1, <1>2

\* So does a handler, which runs only while nobody is about to publish, or leaves
\* the desired tracks alone.
LEMMA HandlerFiles ==
  ASSUME QueueInv, FilesInv, Handler, NEW v \in Workers
  PROVE  StageOK(v)' /\ DueOK(v)' /\ TrackOK(v)'
<1>1. UNCHANGED <<managed, disk, edited, mu, pc, job, ext, seen>> /\ (mu = NoWorker \/ UNCHANGED desired)
  BY HandlerFrame DEF workerVars
<1>2. StageOK(v) /\ DueOK(v) /\ TrackOK(v)
  BY DEF FilesInv
<1>3. StageOK(v)'
  BY <1>1, <1>2 DEF StageOK
<1>4. pc[v] # "idle" => work'[job[v]] = work[job[v]]
  BY HandlerKeepsRunning DEF QueueInv, RunningIsOwned
<1>5. CASE pc[v] = "idle"
  BY <1>1, <1>3, <1>5 DEF DueOK, TrackOK, Seeking, Carrying
<1>6. CASE pc[v] # "idle"
  <2>1. JobTrack(v)' = JobTrack(v)
    BY <1>1, <1>4, <1>6 DEF JobTrack
  <2>2. pc[v] = "publish" => UNCHANGED desired
    BY <1>1, <1>2, WorkersAssumption DEF StageOK, Locking
  <2> QED
    BY <1>1, <1>2, <1>3, <2>1, <2>2 DEF DueOK, TrackOK, Available, FilesOf
<1> QED
  BY <1>5, <1>6

\* An edit by somebody else excuses exactly the track whose file it changes.
LEMMA EditFiles ==
  ASSUME QueueInv, FilesInv, NEW t \in Tracks, NEW e \in Exts, NEW c \in EditContents, ExternalEdit(t, e, c)
  PROVE  FilesInv'
<1>1. /\ edited' = edited \cup {t} /\ disk' = [disk EXCEPT ![t][e] = c]
      /\ UNCHANGED <<work, managed, desired, mu, pc, job, ext, seen>>
  BY DEF ExternalEdit, rowVars, wishVars, workerVars
<1>2. \A s \in Tracks : s # t => disk'[s] = disk[s]
  BY <1>1 DEF QueueInv, TypeOK, LibraryOK
<1>3. ASSUME NEW v \in Workers PROVE StageOK(v)' /\ DueOK(v)' /\ TrackOK(v)'
  <2>1. StageOK(v) /\ DueOK(v) /\ TrackOK(v)
    BY DEF FilesInv
  <2>2. JobTrack(v)' = JobTrack(v)
    BY <1>1 DEF JobTrack
  <2>3. StageOK(v)'
    BY <1>1, <2>1 DEF StageOK
  <2>4. CASE pc[v] = "idle"
    BY <1>1, <2>3, <2>4 DEF DueOK, TrackOK, Seeking, Carrying
  <2>5. CASE pc[v] # "idle" /\ JobTrack(v) = t
    BY <1>1, <2>1, <2>2, <2>3, <2>5 DEF DueOK, TrackOK
  <2>6. CASE pc[v] # "idle" /\ JobTrack(v) # t
    <3>1. JobTrack(v) \in Tracks
      BY <2>6, BusyRow DEF QueueInv
    <3> QED
      BY <1>1, <1>2, <2>1, <2>2, <2>3, <2>6, <3>1 DEF DueOK, TrackOK, Available, FilesOf
  <2> QED
    BY <2>4, <2>5, <2>6
<1>4. (Untouched /\ RegisteredFileExists /\ OneFilePerTrack)'
  BY <1>1, <1>2 DEF FilesInv, Untouched, RegisteredFileExists, OneFilePerTrack, FilesOf
<1>5. \A s \in Tracks, f \in Exts : disk'[s][f] = Ours => disk[s][f] = Ours
  BY <1>1, ContentAssumption DEF QueueInv, TypeOK, LibraryOK
<1>6. OrphanIsRecoverable'
  BY <1>1, <1>5 DEF FilesInv, OrphanIsRecoverable
<1> QED
  BY <1>3, <1>4, <1>6 DEF FilesInv

\* What a worker publishes or registers is right for its track.
LEMMA WorkerLibrary ==
  ASSUME QueueInv, FilesInv, NEW w \in Workers, WorkerStep(w)
  PROVE  (Untouched /\ RegisteredFileExists /\ OneFilePerTrack)'
<1> DEFINE T == JobTrack(w)
<1> USE DEF QueueInv, TypeOK, LibraryOK, Untouched, RegisteredFileExists, OneFilePerTrack, FilesOf
<1>0. UNCHANGED edited
  BY WorkerFrame
<1>1. StageOK(w) /\ TrackOK(w)
  BY DEF FilesInv
<1>2. CASE Complete(w)
  <2>1. UNCHANGED disk
    BY <1>2 DEF Complete
  <2>2. T \in Tracks /\ managed' = [managed EXCEPT ![T] = ext[w]]
    BY <1>2, BusyRow DEF Complete
  <2>3. T \notin edited => disk[T][ext[w]] = Ours
    BY <1>1, <1>2 DEF Complete, TrackOK, Carrying, Holding
  <2>4. \A t \in Tracks : t # T => managed'[t] = managed[t]
    BY <2>2
  <2>5. managed'[T] = ext[w]
    BY <2>2
  <2> HIDE DEF T
  <2> QED
    BY <1>0, <2>1, <2>3, <2>4, <2>5 DEF FilesInv
<1>3. CASE Publish(w)
  <2>1. T \in Tracks /\ ext[w] \in Exts
    BY <1>1, <1>3, BusyRow DEF Publish, StageOK, Carrying
  <2>2. UNCHANGED managed /\ disk' = [disk EXCEPT ![T][ext[w]] = Ours]
    BY <1>3 DEF Publish
  <2>3. T \notin edited => managed[T] = NoExt /\ FilesOf(T) = {}
    BY <1>1, <1>3 DEF Publish, TrackOK, Seeking
  <2>4. \A t \in Tracks : t # T => disk'[t] = disk[t]
    BY <2>2
  <2>5. \A e \in Exts : disk'[T][e] = IF e = ext[w] THEN Ours ELSE disk[T][e]
    BY <2>1, <2>2
  <2> HIDE DEF T
  <2>6. \A t \in Tracks \ edited : t # T => FilesOf(t)' = FilesOf(t)
    BY <2>4
  <2>7. T \notin edited => \A e \in Exts : disk'[T][e] # Absent => e = ext[w]
    BY <2>3, <2>5
  <2>8. OneFilePerTrack'
    BY <1>0, <2>6, <2>7 DEF FilesInv
  <2> QED
    BY <1>0, <2>2, <2>3, <2>4, <2>5, <2>8 DEF FilesInv
<1>4. CASE UNCHANGED <<managed, disk>>
  BY <1>0, <1>4 DEF FilesInv
<1> QED
  BY <1>2, <1>3, <1>4, WorkerFrame

\* A worker that publishes has a running row for the track; one that completes
\* has registered the file.
LEMMA WorkerOrphan ==
  ASSUME QueueInv, FilesInv, NEW w \in Workers, WorkerStep(w)
  PROVE  OrphanIsRecoverable'
<1> USE DEF QueueInv
<1> SUFFICES ASSUME NEW t \in Tracks, managed'[t] = NoExt, NEW e \in Exts, disk'[t][e] = Ours
             PROVE  \E i \in WorkIds : Resumable(work'[i]) /\ work'[i].track = t
  BY DEF OrphanIsRecoverable, Resumable
<1>1. CASE pc[w] # "idle" /\ t = JobTrack(w) /\ Complete(w)
  <2>1. ext[w] \in Exts
    BY <1>1 DEF Complete, FilesInv, StageOK, Carrying
  <2>2. managed'[t] = ext[w]
    BY <1>1 DEF Complete, TypeOK, LibraryOK
  <2>3. managed'[t] # NoExt
    BY <2>1, <2>2, ExtsAssumption
  <2> QED
    BY <2>3
<1>2. CASE pc[w] # "idle" /\ t = JobTrack(w) /\ ~Complete(w)
  <2>1. job[w] \in WorkIds /\ Resumable(work[job[w]]) /\ work[job[w]].track = t
    BY <1>2, BusyRow DEF Resumable, JobTrack
  <2>2. Resumable(work'[job[w]]) \/ \E v \in Workers : Complete(v) /\ job[w] = job[v]
    BY <2>1, ResumableKept DEF Next
  <2>3. ASSUME NEW v \in Workers, Complete(v), job[w] = job[v] PROVE FALSE
    <3>1. pc[v] # "idle"
      BY <2>3 DEF Complete
    <3>2. v = w
      BY <1>2, <2>3, <3>1 DEF RunningIsOwned
    <3> QED
      BY <1>2, <2>3, <3>2
  <2> QED
    BY <2>1, <2>2, <2>3, WorkerRows
<1>3. CASE pc[w] # "idle" => t # JobTrack(w)
  <2>1. managed[t] = NoExt /\ disk[t][e] = Ours
    BY <1>3, OtherTracks
  <2>2. PICK i \in WorkIds : Resumable(work[i]) /\ work[i].track = t
    BY <2>1 DEF FilesInv, OrphanIsRecoverable, Resumable
  <2>3. ASSUME NEW v \in Workers, Complete(v), i = job[v] PROVE FALSE
    <3>1. pc[v] # "idle" /\ work'[i].state = "complete"
      BY <2>3 DEF Complete, TypeOK, RowsOK, Rows
    <3>2. CASE v = w
      BY <1>3, <2>2, <2>3, <3>1, <3>2 DEF JobTrack
    <3>3. CASE v # w
      <4>1. work'[i] = work[i]
        BY <2>3, <3>1, <3>3, OthersKeep
      <4> QED
        BY <2>2, <3>1, <4>1 DEF Resumable
    <3> QED
      BY <3>2, <3>3
  <2>4. Resumable(work'[i]) /\ work'[i].track = work[i].track
    BY <2>2, <2>3, ResumableKept DEF Next
  <2> QED
    BY <2>2, <2>4
<1> QED
  BY <1>1, <1>2, <1>3

\* Nothing but a worker changes what is published or registered, or completes a row.
LEMMA LibraryKept ==
  ASSUME QueueInv, FilesInv, Handler \/ Restart \/ UNCHANGED vars
  PROVE  (Untouched /\ RegisteredFileExists /\ OneFilePerTrack /\ OrphanIsRecoverable)'
<1>1. UNCHANGED <<managed, disk, edited>>
  BY HandlerFrame DEF Restart, fileVars, vars
<1>2. (Untouched /\ RegisteredFileExists /\ OneFilePerTrack)'
  BY <1>1 DEF FilesInv, Untouched, RegisteredFileExists, OneFilePerTrack, FilesOf
<1>3. ASSUME NEW i \in WorkIds, Resumable(work[i])
      PROVE  Resumable(work'[i]) /\ work'[i].track = work[i].track
  <2>1. CASE Handler
    BY <1>3, <2>1, HandlerRow DEF QueueInv, Resumable
  <2>2. CASE Restart
    BY <1>3, <2>2 DEF Restart, Recovered, Resumable, QueueInv, TypeOK, RowsOK, Rows
  <2>3. CASE UNCHANGED vars
    BY <1>3, <2>3 DEF vars, rowVars
  <2> QED
    BY <2>1, <2>2, <2>3
<1>4. OrphanIsRecoverable'
  BY <1>1, <1>3 DEF FilesInv, OrphanIsRecoverable, Resumable
<1> QED
  BY <1>2, <1>4

\* The invariant of the files is inductive.
LEMMA FilesInductive ==
  ASSUME QueueInv, FilesInv, [Next]_vars
  PROVE  FilesInv'
<1>1. CASE Handler
  BY <1>1, HandlerFiles, LibraryKept DEF FilesInv
<1>2. ASSUME NEW w \in Workers, WorkerStep(w) PROVE FilesInv'
  BY <1>2, WorkerFiles, WorkerLibrary, WorkerOrphan DEF FilesInv
<1>3. CASE Restart
  <2>1. ASSUME NEW v \in Workers PROVE StageOK(v)' /\ DueOK(v)' /\ TrackOK(v)'
    BY <1>3 DEF Restart, StageOK, DueOK, TrackOK, Locking, Carrying, Seeking
  <2> QED
    BY <1>3, <2>1, LibraryKept DEF FilesInv
<1>4. ASSUME NEW t \in Tracks, NEW e \in Exts, NEW c \in EditContents, ExternalEdit(t, e, c)
      PROVE  FilesInv'
  BY <1>4, EditFiles
<1>5. CASE UNCHANGED vars
  <2>1. ASSUME NEW v \in Workers PROVE StageOK(v)' /\ DueOK(v)' /\ TrackOK(v)'
    BY <1>5 DEF FilesInv, StageOK, DueOK, TrackOK, JobTrack, Available, FilesOf,
       vars, rowVars, wishVars, fileVars, workerVars
  <2> QED
    BY <1>5, <2>1, LibraryKept DEF FilesInv
<1> QED
  BY <1>1, <1>2, <1>3, <1>4, <1>5 DEF Next

\* It holds of an empty queue and library.
LEMMA FilesInit == Init => FilesInv
<1> SUFFICES ASSUME Init PROVE FilesInv
  OBVIOUS
<1>1. \A w \in Workers : StageOK(w) /\ DueOK(w) /\ TrackOK(w)
  BY DEF Init, StageOK, DueOK, TrackOK, Locking, Carrying, Seeking
<1>2. \A t \in Tracks : managed[t] = NoExt /\ \A e \in Exts : disk[t][e] = Absent
  BY DEF Init
<1> QED
  BY <1>1, <1>2, ContentAssumption
  DEF FilesInv, Untouched, RegisteredFileExists, OneFilePerTrack, OrphanIsRecoverable, FilesOf

\* So it holds always, beside the types, the unique index and the ownership of rows.
LEMMA FilesCorrect == Spec => [](QueueInv /\ FilesInv)
<1>1. Init => FilesInv
  BY FilesInit
<1>2. QueueInv /\ FilesInv /\ [Next]_vars => FilesInv'
  BY FilesInductive
<1> QED
  BY <1>1, <1>2, TypeCorrect, OneActive, RunningOwned, PTL DEF Spec, QueueInv

-----------------------------------------------------------------------------
(* The properties.                                                         *)

\* No crash, failure or race registers a path that does not hold the published
\* audio: publication and verification precede the committing transaction.
THEOREM RegisteredFileExistsCorrect == Spec => []RegisteredFileExists
<1>1. QueueInv /\ FilesInv => RegisteredFileExists
  BY DEF FilesInv
<1> QED
  BY <1>1, FilesCorrect, PTL

\* Retries after any interruption, whatever extension the tools return, never
\* leave two files for a track: whoever publishes has seen that there is none and
\* is the only one working on the track.
THEOREM OneFileCorrect == Spec => []OneFilePerTrack
<1>1. QueueInv /\ FilesInv => OneFilePerTrack
  BY DEF FilesInv
<1> QED
  BY <1>1, FilesCorrect, PTL

\* A published file that was not registered has a row by which it can be adopted.
THEOREM OrphanIsRecoverableCorrect == Spec => []OrphanIsRecoverable
<1>1. QueueInv /\ FilesInv => OrphanIsRecoverable
  BY DEF FilesInv
<1> QED
  BY <1>1, FilesCorrect, PTL

\* The daemon creates files only where there is none: no step of the queue
\* replaces or removes one.
THEOREM NeverOverwritesCorrect == Spec => NeverOverwrites
<1> DEFINE Edit == \E t \in Tracks, e \in Exts, c \in EditContents : ExternalEdit(t, e, c)
           Kept == \A t \in Tracks, e \in Exts : disk[t][e] \in {Absent, disk'[t][e]}
<1>1. QueueInv /\ FilesInv /\ [Next]_vars => Edit \/ Kept
  <2> SUFFICES ASSUME QueueInv, FilesInv, [Next]_vars, ~Edit PROVE Kept
    OBVIOUS
  <2>1. CASE UNCHANGED disk
    BY <2>1
  <2>2. ASSUME NEW w \in Workers, Publish(w) PROVE Kept
    BY <2>2 DEF Publish, QueueInv, TypeOK, LibraryOK
  <2>3. ASSUME NEW w \in Workers, WorkerStep(w), ~Publish(w) PROVE UNCHANGED disk
    BY <2>3, WorkerFrame
  <2>4. Handler \/ Restart \/ UNCHANGED vars => UNCHANGED disk
    BY HandlerFrame DEF Restart, fileVars, vars
  <2> QED
    BY <2>1, <2>2, <2>3, <2>4 DEF Next
<1> QED
  BY <1>1, FilesCorrect, PTL DEF Spec, NeverOverwrites

\* A track removed from Desired Spotify state while it is retrieved is not
\* published, nor one that has become available: the worker looks again with
\* managedMu held, and nobody changes either before it publishes.
THEOREM PublishesOnlyMissingCorrect == Spec => PublishesOnlyMissing
<1> DEFINE Due == \A t \in Tracks, e \in Exts :
                    disk[t][e] # Ours /\ disk'[t][e] = Ours
                    => t \in desired /\ (Available(t) => t \in edited)
<1>1. QueueInv /\ FilesInv /\ [Next]_vars => Due
  <2> SUFFICES ASSUME QueueInv, FilesInv, [Next]_vars, NEW t \in Tracks, NEW e \in Exts,
                      disk[t][e] # Ours, disk'[t][e] = Ours
               PROVE  t \in desired /\ (Available(t) => t \in edited)
    OBVIOUS
  <2>1. ~(Handler \/ Restart \/ UNCHANGED vars)
    BY HandlerFrame DEF Restart, fileVars, vars
  <2>2. ASSUME NEW s \in Tracks, NEW f \in Exts, NEW c \in EditContents, ExternalEdit(s, f, c)
        PROVE  FALSE
    BY <2>2, ContentAssumption DEF ExternalEdit, QueueInv, TypeOK, LibraryOK
  <2>3. PICK w \in Workers : WorkerStep(w)
    BY <2>1, <2>2 DEF Next
  <2>4. Publish(w)
    BY <2>3, WorkerFrame
  <2>5. t = JobTrack(w)
    BY <2>3, <2>4, OtherTracks DEF QueueInv
  <2>6. DueOK(w) /\ pc[w] = "publish"
    BY <2>4 DEF Publish, FilesInv
  <2> QED
    BY <2>5, <2>6 DEF DueOK
<1> QED
  BY <1>1, FilesCorrect, PTL DEF Spec, PublishesOnlyMissing

-----------------------------------------------------------------------------
(* The queue implements the ledger.                                        *)

\* A row that was never inserted belongs to no track.
EmptyRows == \A i \in WorkIds : work[i].state = "none" => work[i].track = NoTrack

\* Rows are inserted with their track, and never emptied.
LEMMA EmptyInductive ==
  ASSUME TypeOK, EmptyRows, [Next]_vars
  PROVE  EmptyRows'
<1>1. CASE Handler
  BY <1>1, HandlerRow DEF EmptyRows
<1>2. ASSUME NEW w \in Workers, WorkerStep(w) PROVE EmptyRows'
  <2>1. UNCHANGED nextId
    BY <1>2 DEF WorkerStep, Claim, CheckNoFile, CheckOrphan, CheckRefused, VerifyOrphan, AdoptionFails,
       Complete, ReadMapping, Resolve, ResolveNone, PersistSource, Retrieve, SourceFails, Relock, Publish,
       InspectPublished, PublicationFails, RecordOutcome, LoseOutcome, rowVars
  <2>2. TypeOK'
    BY <1>2, WorkerType
  <2>3. \A i \in WorkIds : work'[i].state = "none" => work[i].state = "none"
    BY <2>1, <2>2 DEF TypeOK, RowsOK
  <2> QED
    BY <1>2, <2>3, WorkerRows DEF EmptyRows
<1>3. CASE Restart
  BY <1>3 DEF Restart, Recovered, EmptyRows, TypeOK, RowsOK, Rows
<1>4. CASE UNCHANGED rowVars
  BY <1>4 DEF rowVars, EmptyRows
<1> QED
  BY <1>1, <1>2, <1>3, <1>4 DEF Next, ExternalEdit, vars

\* What the steps of the refinement start from.
LedgerInv == QueueInv /\ FilesInv /\ EmptyRows

\* A missing track is not registered, unless somebody else has touched its files.
LEMMA MissingIsUnregistered ==
  ASSUME LedgerInv, NEW t \in Tracks, Missing(t)
  PROVE  t \in desired /\ (LibraryOf(t) = "registered" => t \in edited)
<1>1. t \notin edited => managed[t] = NoExt
  <2> SUFFICES ASSUME t \notin edited, managed[t] # NoExt PROVE FALSE
    OBVIOUS
  <2>1. disk[t][managed[t]] = Ours
    BY DEF LedgerInv, FilesInv, RegisteredFileExists
  <2> QED
    BY <2>1, ContentAssumption DEF Missing, Available
<1> QED
  BY <1>1 DEF Missing, LibraryOf

\* Every row that a handler changes is queued for a missing track.
LEMMA QueuedIsMissing ==
  ASSUME TypeOK, Handler, NEW i \in WorkIds, work'[i] # work[i]
  PROVE  Missing(work'[i].track)
<1> USE DEF TypeOK
<1>1. ASSUME NEW row, Missing(row.track), Insert(row) PROVE Missing(work'[i].track)
  BY <1>1 DEF Insert, RowsOK
<1>2. ASSUME NEW t \in Tracks, NEW u \in Urls, Acquire(t, u) PROVE Missing(work'[i].track)
  BY <1>1, <1>2 DEF Acquire, PendingRow
<1>3. CASE AcquireMissing
  <2> DEFINE new == nextId .. (nextId + Cardinality(NeverTried) - 1)
  <2>1. PICK queued \in Bijection(new, NeverTried) :
          work' = [k \in WorkIds |-> IF k \in new
                                     THEN PendingRow(queued[k], "youtube", NoUrl)
                                     ELSE work[k]]
    BY <1>3 DEF AcquireMissing
  <2> HIDE DEF new
  <2>2. i \in new /\ work'[i] = PendingRow(queued[i], "youtube", NoUrl)
    BY <2>1
  <2>3. queued[i] \in NeverTried
    BY <2>1, <2>2 DEF Bijection, Injection, Surjection
  <2> QED
    BY <2>2, <2>3 DEF NeverTried, PendingRow
<1>4. ASSUME NEW j \in WorkIds, Retry(j) PROVE Missing(work'[i].track)
  BY <1>4 DEF Retry, Requeued, RowsOK, Rows
<1>5. CASE RetryUnresolved
  <2>1. work'[i] = IF FirstRetryable(i) THEN Requeued(work[i]) ELSE work[i]
    BY <1>5 DEF RetryUnresolved
  <2> QED
    BY <2>1 DEF FirstRetryable, Retryable, Requeued, RowsOK, Rows
<1>6. ASSUME NEW r \in receipts, SelectYouTube(r) PROVE Missing(work'[i].track)
  <2>1. Missing(r.track)
    BY <1>6 DEF SelectYouTube
  <2>2. ASSUME NEW j \in Reusable(r.track), work' = [work EXCEPT ![j].url = r.video, ![j].state = "pending"]
        PROVE  Missing(work'[i].track)
    BY <2>1, <2>2 DEF Reusable, YouTubeFor, RowsOK, Rows
  <2>3. CASE Insert(PendingRow(r.track, "youtube", r.video))
    BY <1>1, <2>1, <2>3 DEF PendingRow
  <2> QED
    BY <1>6, <2>2, <2>3 DEF SelectYouTube, QueueSelected, rowVars
<1> QED
  BY <1>2, <1>3, <1>4, <1>5, <1>6
  DEF Handler, Resubmit, SetMapping, RemoveMapping, InspectStart, InspectFinish, ExpireReceipt,
      ApplyDesired, rowVars

\* A handler is a batch of submissions, a change of wishes, or nothing.
LEMMA HandlerIsLedgerStep ==
  ASSUME LedgerInv, Handler
  PROVE  [Ledger!Next]_(Ledger!vars)
<1> USE DEF LedgerInv, QueueInv
<1>0. PICK batch \in SUBSET WorkIds : batch = {i \in WorkIds : work'[i] # work[i]}
  OBVIOUS
<1>1. TypeOK' /\ OneActivePerTrack'
  BY HandlerType, HandlerOneActive
<1>2. UNCHANGED <<managed, disk, edited>>
  BY HandlerFrame
<1>3. UNCHANGED <<edited, [t \in Tracks |-> LibraryOf(t)]>>
  BY <1>2 DEF LibraryOf
<1>4. UNCHANGED desired \/ UNCHANGED work
  BY DEF Handler, Resubmit, Acquire, AcquireMissing, Retry, RetryUnresolved, SelectYouTube, SetMapping,
     RemoveMapping, InspectStart, InspectFinish, ExpireReceipt, ApplyDesired, rowVars, wishVars
<1>5. CASE UNCHANGED work
  <2>1. desired' \in SUBSET Tracks
    BY <1>1 DEF TypeOK, ChoicesOK
  <2>2. Ledger!Wish
    BY <1>3, <1>5, <2>1 DEF Ledger!Wish
  <2> QED
    BY <2>2 DEF Ledger!Next
<1>6. CASE UNCHANGED desired /\ batch = {}
  <2>1. work' = work
    BY <1>0, <1>1, <1>6 DEF TypeOK, RowsOK
  <2> QED
    BY <1>5, <2>1
<1>7. CASE UNCHANGED desired /\ batch # {}
  <2>1. /\ [i \in WorkIds |-> work[i].track]' \in [WorkIds -> Tracks \cup {NoTrack}]
        /\ [i \in WorkIds |-> work[i].state]' \in [WorkIds -> States]
    BY <1>1 DEF TypeOK, RowsOK, Rows
  <2>2. ASSUME NEW i \in batch
        PROVE  /\ work[i].state \in {"none", "failed", "unresolved"} /\ work'[i].state = "pending"
               /\ work[i].track \in {NoTrack, work'[i].track}
               /\ work'[i].track \in Tracks /\ Missing(work'[i].track)
               /\ \A j \in WorkIds \ {i} :
                    work'[j].track = work'[i].track => work'[j].state \notin {"pending", "running"}
    <3>1. /\ work[i].state \notin {"pending", "running", "complete"} /\ work'[i].state = "pending"
          /\ work[i].state # "none" => work'[i].track = work[i].track
      BY <1>0, <2>2, HandlerRow
    <3>2. work[i].state \in States
      BY DEF TypeOK, RowsOK, Rows
    <3>3. work'[i].track \in Tracks
      BY <1>1, <3>1 DEF TypeOK, RowsOK
    <3>4. Missing(work'[i].track)
      BY <1>0, <2>2, QueuedIsMissing
    <3>5. \A j \in WorkIds \ {i} :
            work'[j].track = work'[i].track => work'[j].state \notin {"pending", "running"}
      BY <1>1, <3>1 DEF OneActivePerTrack, Active
    <3> QED
      BY <3>1, <3>2, <3>3, <3>4, <3>5 DEF EmptyRows, States
  <2>3. \A t \in Tracks : Missing(t) => t \in desired /\ (LibraryOf(t) = "registered" => t \in edited)
    BY MissingIsUnregistered
  <2>4. \A i \in WorkIds \ batch : work'[i] = work[i]
    BY <1>0
  <2>5. ASSUME NEW i \in batch
        PROVE  /\ work'[i].track \in desired
               /\ [t \in Tracks |-> LibraryOf(t)][work'[i].track] = "registered" => work'[i].track \in edited
    <3>1. PICK t \in Tracks : t = work'[i].track /\ Missing(t)
      BY <2>2, <2>5
    <3>2. [s \in Tracks |-> LibraryOf(s)][t] = LibraryOf(t)
      OBVIOUS
    <3> QED
      BY <2>3, <3>1, <3>2
  <2>6. Ledger!Submit(batch)
    BY <1>3, <1>7, <2>1, <2>2, <2>4, <2>5 DEF Ledger!Submit, Ledger!InProgress, Ledger!States, States
  <2> QED
    BY <2>6 DEF Ledger!Next
<1> QED
  BY <1>4, <1>5, <1>6, <1>7

\* A worker claims, gives up, publishes or fulfils a request, or does nothing that
\* the ledger sees.
LEMMA WorkerIsLedgerStep ==
  ASSUME LedgerInv, NEW w \in Workers, WorkerStep(w)
  PROVE  [Ledger!Next]_(Ledger!vars)
<1> USE DEF LedgerInv, QueueInv
<1>1. CASE Claim(w)
  <2>1. PICK i \in WorkIds : work[i].state = "pending" /\ work' = [work EXCEPT ![i].state = "running"]
    BY <1>1 DEF Claim, PendingIds
  <2>2. UNCHANGED <<desired, edited, managed, disk>>
    BY <1>1 DEF Claim, wishVars, fileVars
  <2>3. UNCHANGED <<desired, edited, [t \in Tracks |-> LibraryOf(t)]>>
    BY <2>2 DEF LibraryOf
  <2>4. \A k \in WorkIds : /\ work'[k].track = work[k].track
                           /\ work'[k].state = IF k = i THEN "running" ELSE work[k].state
    BY <2>1 DEF TypeOK, RowsOK, Rows
  <2>5. Ledger!Start(i)
    BY <2>1, <2>3, <2>4 DEF Ledger!Start
  <2> QED
    BY <2>5 DEF Ledger!Next
<1>2. CASE RecordOutcome(w)
  <2>1. PICK k \in WorkIds : k = job[w] /\ work[k].state = "running"
    BY <1>2, BusyRow DEF RecordOutcome
  <2>2. PICK s \in {"failed", "unresolved"} : work' = [work EXCEPT ![job[w]].state = s]
    BY <1>2 DEF RecordOutcome
  <2>3. UNCHANGED <<desired, edited, managed, disk>>
    BY <1>2 DEF RecordOutcome, wishVars, fileVars
  <2>4. UNCHANGED <<desired, edited, [t \in Tracks |-> LibraryOf(t)]>>
    BY <2>3 DEF LibraryOf
  <2>5. \A i \in WorkIds : /\ work'[i].track = work[i].track
                           /\ work'[i].state = IF i = k THEN s ELSE work[i].state
    BY <2>1, <2>2 DEF TypeOK, RowsOK, Rows
  <2> DEFINE states == [i \in WorkIds |-> work[i].state]
             tracks == [i \in WorkIds |-> work[i].track]
  <2>6. states' = [states EXCEPT ![k] = s] /\ tracks' = tracks /\ states[k] = "running"
    BY <2>1, <2>5
  <2>7. Ledger!GiveUp(k)
    BY <2>2, <2>4, <2>6 DEF Ledger!GiveUp
  <2> QED
    BY <2>1, <2>7 DEF Ledger!Next
<1>3. CASE Publish(w)
  <2> DEFINE T == JobTrack(w)
  <2>1. PICK k \in WorkIds : k = job[w] /\ work[k].state = "running" /\ T \in Tracks
    BY <1>3, BusyRow DEF Publish
  <2>2. StageOK(w) /\ DueOK(w) /\ TrackOK(w) /\ pc[w] = "publish"
    BY <1>3 DEF Publish, FilesInv
  <2>3. T \in desired /\ ext[w] \in Exts /\ (T \notin edited => managed[T] = NoExt /\ FilesOf(T) = {})
    BY <2>2 DEF StageOK, DueOK, TrackOK, Carrying, Seeking
  <2>4. LibraryOf(T) = "none" \/ T \in edited
    BY <2>3, ContentAssumption DEF LibraryOf, FilesOf
  <2>5. UNCHANGED <<desired, edited, work, managed>> /\ disk' = [disk EXCEPT ![T][ext[w]] = Ours]
    BY <1>3 DEF Publish, rowVars, wishVars
  <2>6. \A t \in Tracks : t # T => disk'[t] = disk[t]
    BY <2>5 DEF TypeOK, LibraryOK
  <2>7. disk'[T][ext[w]] = Ours
    BY <2>1, <2>3, <2>5 DEF TypeOK, LibraryOK
  <2>8. T = work[k].track
    BY <2>1 DEF JobTrack
  <2> HIDE DEF T
  <2>9. \A t \in Tracks : LibraryOf(t)' = IF t = T /\ LibraryOf(t) # "registered" THEN "published" ELSE LibraryOf(t)
    BY <2>3, <2>5, <2>6, <2>7 DEF LibraryOf
  <2>10. Ledger!Publish(k)
    BY <2>1, <2>3, <2>4, <2>5, <2>8, <2>9 DEF Ledger!Publish
  <2> QED
    BY <2>1, <2>10 DEF Ledger!Next
<1>4. CASE Complete(w)
  <2> DEFINE T == JobTrack(w)
  <2>1. PICK k \in WorkIds : k = job[w] /\ work[k].state = "running" /\ T \in Tracks
    BY <1>4, BusyRow DEF Complete
  <2>2. StageOK(w) /\ TrackOK(w) /\ pc[w] \in {"adopt", "commit"}
    BY <1>4 DEF Complete, FilesInv
  <2>3. ext[w] \in Exts /\ (T \notin edited => managed[T] = NoExt /\ disk[T][ext[w]] = Ours)
    BY <2>2 DEF StageOK, TrackOK, Carrying, Holding
  <2>4. LibraryOf(T) = "published" \/ T \in edited
    BY <2>3 DEF LibraryOf
  <2>5. /\ T \in desired /\ UNCHANGED <<desired, edited, disk>>
        /\ managed' = [managed EXCEPT ![T] = ext[w]]
        /\ work' = [work EXCEPT ![job[w]].state = "complete"]
    BY <1>4 DEF Complete, wishVars
  <2>6. \A t \in Tracks : managed'[t] = IF t = T THEN ext[w] ELSE managed[t]
    BY <2>5 DEF TypeOK, LibraryOK
  <2>7. \A i \in WorkIds : /\ work'[i].track = work[i].track
                           /\ work'[i].state = IF i = k THEN "complete" ELSE work[i].state
    BY <2>1, <2>5 DEF TypeOK, RowsOK, Rows
  <2>8. T = work[k].track
    BY <2>1 DEF JobTrack
  <2> HIDE DEF T
  <2>9. \A t \in Tracks : LibraryOf(t)' = IF t = T THEN "registered" ELSE LibraryOf(t)
    BY <2>3, <2>5, <2>6, ExtsAssumption DEF LibraryOf
  <2>10. Ledger!Fulfil(k)
    BY <2>1, <2>4, <2>5, <2>7, <2>8, <2>9 DEF Ledger!Fulfil
  <2> QED
    BY <2>1, <2>10 DEF Ledger!Next
<1>5. CASE ~(Claim(w) \/ RecordOutcome(w) \/ Publish(w) \/ Complete(w))
  <2>1. UNCHANGED <<desired, edited, managed, disk>>
    BY <1>5, WorkerFrame
  <2>2. \A i \in WorkIds : work'[i].track = work[i].track /\ work'[i].state = work[i].state
    BY <1>5 DEF TypeOK, RowsOK, Rows, WorkerStep, CheckNoFile, CheckOrphan, CheckRefused, VerifyOrphan,
       AdoptionFails, ReadMapping, Resolve, ResolveNone, PersistSource, Retrieve, SourceFails, Relock,
       InspectPublished, PublicationFails, LoseOutcome, rowVars
  <2> QED
    BY <2>1, <2>2 DEF Ledger!vars, LibraryOf
<1> QED
  BY <1>1, <1>2, <1>3, <1>4, <1>5

\* Somebody else tampers with the track, who at most makes published audio vanish.
LEMMA EditIsLedgerStep ==
  ASSUME LedgerInv, NEW t \in Tracks, NEW e \in Exts, NEW c \in EditContents, ExternalEdit(t, e, c)
  PROVE  [Ledger!Next]_(Ledger!vars)
<1>1. /\ edited' = edited \cup {t} /\ disk' = [disk EXCEPT ![t][e] = c]
      /\ UNCHANGED <<desired, work, managed>>
  BY DEF ExternalEdit, rowVars, wishVars
<1>2. \A s \in Tracks : s # t => disk'[s] = disk[s]
  BY <1>1 DEF LedgerInv, QueueInv, TypeOK, LibraryOK
<1>3. \A f \in Exts : disk'[t][f] = Ours => disk[t][f] = Ours
  BY <1>1, ContentAssumption DEF LedgerInv, QueueInv, TypeOK, LibraryOK
<1>4. \A s \in Tracks : s # t => LibraryOf(s)' = LibraryOf(s)
  BY <1>1, <1>2 DEF LibraryOf
<1>5. LibraryOf(t)' = LibraryOf(t) \/ (LibraryOf(t) = "published" /\ LibraryOf(t)' = "none")
  BY <1>1, <1>3 DEF LibraryOf
<1>6. Ledger!Tamper(t)
  BY <1>1, <1>4, <1>5 DEF Ledger!Tamper
<1> QED
  BY <1>6 DEF Ledger!Next

\* The queue implements the ledger: its workers, locks, sources, crashes and failed
\* transactions together do nothing but submit, start, give up, publish, fulfil and
\* interrupt, whatever somebody else does to the files.
THEOREM ImplementsLedgerCorrect == Spec => ImplementsLedger
<1>1. Init => Ledger!Init /\ EmptyRows
  <2> SUFFICES ASSUME Init PROVE Ledger!Init /\ EmptyRows
    OBVIOUS
  <2>1. /\ [i \in WorkIds |-> work[i].track] = [i \in WorkIds |-> NoTrack]
        /\ [i \in WorkIds |-> work[i].state] = [i \in WorkIds |-> "none"]
    BY DEF Init, NoRow
  <2>2. \A t \in Tracks : LibraryOf(t) = "none"
    BY ContentAssumption DEF Init, LibraryOf
  <2> QED
    BY <2>1, <2>2 DEF Init, Ledger!Init, EmptyRows, NoRow
<1>2. TypeOK /\ EmptyRows /\ [Next]_vars => EmptyRows'
  BY EmptyInductive
<1>3. QueueInv /\ FilesInv /\ EmptyRows /\ [Next]_vars => [Ledger!Next]_(Ledger!vars)
  <2> SUFFICES ASSUME LedgerInv, [Next]_vars PROVE [Ledger!Next]_(Ledger!vars)
    BY DEF LedgerInv
  <2>1. CASE Handler
    BY <2>1, HandlerIsLedgerStep
  <2>2. ASSUME NEW w \in Workers, WorkerStep(w) PROVE [Ledger!Next]_(Ledger!vars)
    BY <2>2, WorkerIsLedgerStep
  <2>3. CASE Restart
    <3>1. UNCHANGED <<desired, edited, managed, disk>> /\ work' = [i \in WorkIds |-> Recovered(work[i])]
      BY <2>3 DEF Restart, wishVars, fileVars
    <3>2. \A i \in WorkIds :
            /\ work'[i].track = work[i].track
            /\ work'[i].state = IF work[i].state = "running" THEN "pending" ELSE work[i].state
      BY <3>1 DEF Recovered, LedgerInv, QueueInv, TypeOK, RowsOK, Rows
    <3>3. Ledger!Interrupt
      BY <3>1, <3>2 DEF Ledger!Interrupt, LibraryOf
    <3> QED
      BY <3>3 DEF Ledger!Next
  <2>4. ASSUME NEW t \in Tracks, NEW e \in Exts, NEW c \in EditContents, ExternalEdit(t, e, c)
        PROVE  [Ledger!Next]_(Ledger!vars)
    BY <2>4, EditIsLedgerStep
  <2>5. CASE UNCHANGED vars
    <3>1. UNCHANGED <<desired, edited, work, managed, disk>>
      BY <2>5 DEF vars, rowVars, wishVars, fileVars
    <3> QED
      BY <3>1 DEF Ledger!vars, LibraryOf
  <2> QED
    BY <2>1, <2>2, <2>3, <2>4, <2>5 DEF Next
<1> QED
  BY <1>1, <1>2, <1>3, TypeCorrect, FilesCorrect, PTL DEF Spec, ImplementsLedger, Ledger!Spec
=============================================================================
