------------------------------- MODULE Library -------------------------------
(***************************************************************************)
(* What a listener sees of Desired Spotify state: the M3U8 files that      *)
(* internal/app/playlists.go projects from it and from the managed files,  *)
(* and the paged listing of missing tracks (internal/app/managed.go,       *)
(* cmd/offbeat/missing.go).                                                *)
(*                                                                         *)
(* Snapshots of the adapter, finished acquisitions and metadata refreshes  *)
(* commit under managedMu; whoever committed projects afterwards.          *)
(* playlistMu serialises projections: a projection looks at the files,     *)
(* probes them with managedMu released, and publishes under managedMu.     *)
(* Where a commit is one step, managedMu is free before and after it.      *)
(***************************************************************************)
EXTENDS Integers, FiniteSets

CONSTANTS
  MaxTrack,     \* tracks, in the order of their URIs, are 1..MaxTrack
  Candidates,   \* the desired states that snapshots may bring
  Refreshers,   \* concurrent metadata.refresh requests
  MaxRevision,  \* bound: state revisions
  MaxBytes,     \* bound: for each track, how often its file gets other bytes
  PageSize,     \* tracks on a page of the missing listing
  None

Tracks == 1..MaxTrack

Actors == {"start", "adapter", "worker"} \cup Refreshers

\* A candidate has the liked tracks, and of each playlist its name and tracks.
ASSUME LibraryAssumption ==
  /\ Refreshers \cap {"start", "adapter", "worker"} = {} /\ None \notin Actors
  /\ MaxTrack \in Nat /\ MaxBytes \in [Tracks -> Nat] /\ PageSize \in Nat \ {0}
  /\ \A s \in Candidates :
       s.liked \subseteq Tracks /\ \A q \in DOMAIN s.playlists : s.playlists[q].tracks \subseteq Tracks

VARIABLES
  stage,      \* of the daemon: down, starting, ready
  desired,    \* Desired Spotify state
  revision,   \* state_metadata.revision
  file,       \* each managed file: 0 if missing, a number that changes with its bytes
  intents,    \* tracks whose row still has a refresh_intent
  shown,      \* managed playlists: whose each file is, and its lines
  pending,    \* metadataPlaylistPending
  managedMu,  \* held across steps only by a projection that publishes
  pc,         \* where the projection of each actor is
  probe,      \* of the projection that holds playlistMu: the bytes it probed
  listing,    \* the client that collects the missing listing: its last page, and what was desired at first
  failed,     \* the projection of a refresh has failed since one last ended well
  excused     \* a projection failed for good, or files vanished, since one began to publish

histVars == <<failed, excused>>
stateVars == <<desired, revision, file, intents>>
runVars == <<stage, shown, pending, managedMu, pc, probe>>
vars == <<stateVars, runVars, listing, histVars>>

Unprobed == -1
NoProbe == [t \in {} |-> 0]
NoListing == [revision |-> 0, after |-> 0, count |-> 0, want |-> {}]
Nothing == [liked |-> {}, playlists |-> [q \in {} |-> None]]

DesiredTracks == desired.liked \cup UNION {desired.playlists[q].tracks : q \in DOMAIN desired.playlists}
Available(t) == file[t] # 0

LikedSongs == "Liked Songs"

\* playlistFilenames: a name that two playlists share, or that is taken by the
\* liked songs, gets the digest of the playlist's URI.
Filename(q) ==
  LET name == desired.playlists[q].name
      shared == \E r \in DOMAIN desired.playlists \ {q} : desired.playlists[r].name = name
  IN IF shared \/ name = LikedSongs THEN <<name, q>> ELSE <<name>>

\* Who each wanted file is for, and the tracks it lists.
Wanted ==
  {[name |-> <<LikedSongs>>, of |-> "liked", tracks |-> desired.liked]} \cup
  {[name |-> Filename(q), of |-> q, tracks |-> desired.playlists[q].tracks] : q \in DOMAIN desired.playlists}

\* A line per available track, with the bytes its duration was probed from, 0 for none.
Render(w, durations) ==
  [name |-> w.name, of |-> w.of, lines |-> {<<t, durations[t]>> : t \in w.tracks \cap DOMAIN durations}]

Names(files) == {f.name : f \in files}

\* The playlists list what is desired and available, with current durations.
Current ==
  /\ Names(shown) = Names(Wanted)
  /\ \A w \in Wanted, f \in shown : f.name = w.name =>
       /\ f.of = w.of
       /\ {l[1] : l \in f.lines} = {t \in w.tracks : Available(t)}
       /\ \A l \in f.lines : l[2] \in {0, file[l[1]]}

Init ==
  /\ stage = "down" /\ desired = Nothing /\ revision = 0
  /\ file = [t \in Tracks |-> 0] /\ intents = {} /\ shown = {}
  /\ pending = FALSE /\ managedMu = None /\ pc = [a \in Actors |-> "idle"]
  /\ probe = NoProbe /\ listing = NoListing /\ failed = FALSE /\ excused = FALSE

-----------------------------------------------------------------------------
(* Commits.  Each leaves its actor owing a projection.                      *)

Commit(a) == stage = "ready" /\ managedMu = None /\ pc[a] = "idle"
Owe(a) == pc' = [pc EXCEPT ![a] = "owed"]

\* ApplyDesiredSpotifyState: one transaction; a snapshot equal to the current
\* state changes nothing, except that the first one is always counted.
Apply(s) ==
  /\ Commit("adapter") /\ revision < MaxRevision /\ (s # desired \/ revision = 0)
  /\ desired' = s /\ revision' = revision + 1
  /\ Owe("adapter")
  /\ UNCHANGED <<file, intents, stage, shown, pending, managedMu, probe, listing, histVars>>

\* A new file is not taken for one that was probed and is gone.
Seen(t) == IF t \in DOMAIN probe THEN {probe[t]} ELSE {}

\* A worker publishes and registers a desired track that was missing.
Acquire(t) ==
  /\ Commit("worker") /\ t \in DesiredTracks /\ ~Available(t)
  /\ \E bytes \in 1..MaxBytes[t] \ Seen(t) : file' = [file EXCEPT ![t] = bytes]
  /\ Owe("worker")
  /\ UNCHANGED <<desired, revision, intents, stage, shown, pending, managedMu, probe, listing, histVars>>

\* Slip: an intent left by an earlier run is not taken for a change.
RefreshForgetting(a, replaced, cut) ==
  /\ Commit(a) /\ replaced \cup cut \subseteq {t \in DesiredTracks : Available(t)}
  /\ file' = [t \in Tracks |-> IF t \in replaced \cup cut THEN file[t] + 1 ELSE file[t]]
  /\ \A t \in Tracks : file'[t] <= MaxBytes[t]
  /\ intents' = {t \in intents : t \notin DesiredTracks \/ ~Available(t)} \cup cut
  /\ pc' = [pc EXCEPT ![a] = IF replaced # {} THEN "noting" ELSE "checking"]
  /\ UNCHANGED <<desired, revision, stage, shown, pending, managedMu, probe, listing, histVars>>

\* handleMetadataRefresh: some files are replaced; of some the exchange was made
\* but not reported, and only the intent in their row knows.  An intent found
\* by this run counts as a change.
Refresh(a, replaced, cut) ==
  LET considered == {t \in DesiredTracks : Available(t)}
      changed == replaced # {} \/ intents \cap considered # {}
  IN
  /\ Commit(a) /\ replaced \cup cut \subseteq considered
  /\ file' = [t \in Tracks |-> IF t \in replaced \cup cut THEN file[t] + 1 ELSE file[t]]
  /\ \A t \in Tracks : file'[t] <= MaxBytes[t]
  /\ intents' = (intents \ considered) \cup cut
  /\ pc' = [pc EXCEPT ![a] = IF changed THEN "noting" ELSE "checking"]
  /\ UNCHANGED <<desired, revision, stage, shown, pending, managedMu, probe, listing, histVars>>

\* With managedMu released: who changed files leaves a note and owes a
\* projection; who did not owes one if there is a note.
NoteChange(a) ==
  /\ pc[a] = "noting" /\ pending' = TRUE /\ Owe(a)
  /\ UNCHANGED <<stateVars, stage, shown, managedMu, probe, listing, histVars>>

CheckNote(a) ==
  /\ pc[a] = "checking"
  /\ pc' = [pc EXCEPT ![a] = IF pending THEN "owed" ELSE "idle"]
  /\ UNCHANGED <<stateVars, stage, shown, pending, managedMu, probe, listing, histVars>>

-----------------------------------------------------------------------------
(* materializePlaylists.                                                   *)

Goto(a, from, to) == pc[a] = from /\ pc' = [pc EXCEPT ![a] = to]
Projecting == {"snapshot", "probing", "publishing"}

LockPlaylists(a) ==
  /\ \A b \in Actors : pc[b] \notin Projecting
  /\ Goto(a, "owed", "snapshot")
  /\ UNCHANGED <<stateVars, stage, shown, pending, managedMu, probe, listing, histVars>>

\* Under managedMu: the desired tracks whose file is there, none probed yet.
Snapshot(a) ==
  /\ managedMu = None
  /\ Goto(a, "snapshot", "probing")
  /\ probe' = [t \in {u \in DesiredTracks : Available(u)} |-> Unprobed]
  /\ UNCHANGED <<stateVars, stage, shown, pending, managedMu, listing, histVars>>

\* The open descriptor is stat'ed and probed; a file that is gone stays at 0.
Probe(a, t) ==
  /\ pc[a] = "probing" /\ t \in DOMAIN probe /\ probe[t] = Unprobed
  /\ probe' = [probe EXCEPT ![t] = file[t]]
  /\ UNCHANGED <<stateVars, stage, shown, pending, managedMu, pc, listing, histVars>>

Probed == DOMAIN probe # {} => \A t \in DOMAIN probe : probe[t] # Unprobed

\* managedMu is taken and kept while the current state is read, the files are
\* looked at again and everything that changed is staged.
BeginPublish(a) ==
  /\ managedMu = None /\ Probed
  /\ Goto(a, "probing", "publishing")
  /\ managedMu' = a /\ excused' = FALSE
  /\ UNCHANGED <<stateVars, stage, shown, pending, probe, listing, failed>>

\* The available tracks whose file was not replaced since it was probed; one
\* that has appeared since has no duration.
Durations ==
  LET known(t) == t \in DOMAIN probe /\ probe[t] # 0
  IN [t \in {u \in Tracks : Available(u) /\ (known(u) => probe[u] = file[u])} |->
        IF known(t) THEN probe[t] ELSE 0]

Projection == {Render(w, Durations) : w \in Wanted}

\* ReconcilePlaylists renames the staged files into place one by one ...
Replace(a) ==
  /\ pc[a] = "publishing"
  /\ \E f \in Projection \ shown : shown' = {g \in shown : g.name # f.name} \cup {f}
  /\ UNCHANGED <<stateVars, stage, pending, managedMu, pc, probe, listing, histVars>>

\* Slip: obsolete files are removed first.
RemoveStaleFirst(a, f) ==
  /\ pc[a] = "publishing"
  /\ f \in shown /\ f.name \notin Names(Wanted)
  /\ shown' = shown \ {f}
  /\ UNCHANGED <<stateVars, stage, pending, managedMu, pc, probe, listing, histVars>>

\* ... and removes the obsolete ones when all are.
RemoveStale(a, f) ==
  /\ pc[a] = "publishing" /\ Names(Wanted) \subseteq Names(shown) /\ Projection \subseteq shown
  /\ f \in shown /\ f.name \notin Names(Wanted)
  /\ shown' = shown \ {f}
  /\ UNCHANGED <<stateVars, stage, pending, managedMu, pc, probe, listing, histVars>>

\* A refresh then forgets what was pending; a start becomes ready.
Finish(a) ==
  /\ Goto(a, "publishing", IF a \in Refreshers THEN "clearing" ELSE "idle")
  /\ shown = Projection
  /\ stage' = IF a = "start" THEN "ready" ELSE stage
  /\ managedMu' = None /\ probe' = NoProbe /\ failed' = FALSE
  /\ UNCHANGED <<stateVars, shown, pending, listing, excused>>

\* managedMu and playlistMu are free by now, and the note is one for all
\* refreshes: it may be that of one whose projection has failed meanwhile.
ClearPending(a) ==
  /\ Goto(a, "clearing", "idle")
  /\ pending' = FALSE
  /\ excused' = (excused \/ failed)
  /\ UNCHANGED <<stateVars, stage, shown, managedMu, probe, listing, failed>>

\* A cancelled context or an I/O error, between any two of these steps.  After a
\* snapshot or an acquisition it is only logged; a start fails; a refresh leaves
\* its note for the next one - unless another refresh has cleared it already.
ProjectionFails(a) ==
  /\ pc[a] \in Projecting
  /\ pc' = [pc EXCEPT ![a] = "idle"]
  /\ managedMu' = IF managedMu = a THEN None ELSE managedMu
  /\ stage' = IF a = "start" THEN "down" ELSE stage
  /\ failed' = (failed \/ a \in Refreshers)
  /\ excused' = (excused \/ a \in {"adapter", "worker"} \/ (a \in Refreshers /\ ~pending))
  /\ probe' = NoProbe
  /\ UNCHANGED <<stateVars, shown, pending, listing>>

-----------------------------------------------------------------------------
(* The process, and the disk.                                              *)

Start ==
  /\ stage = "down" /\ stage' = "starting" /\ Owe("start")
  /\ UNCHANGED <<stateVars, shown, pending, managedMu, probe, listing, histVars>>

Crash ==
  /\ stage # "down" /\ stage' = "down"
  /\ pc' = [a \in Actors |-> "idle"] /\ managedMu' = None /\ pending' = FALSE
  /\ probe' = NoProbe /\ failed' = FALSE
  /\ UNCHANGED <<stateVars, shown, listing, excused>>

Vanish(t) ==
  /\ Available(t) /\ file' = [file EXCEPT ![t] = 0]
  /\ excused' = TRUE
  /\ UNCHANGED <<desired, revision, intents, runVars, listing, failed>>

-----------------------------------------------------------------------------
(* collectMissing, page by page.                                           *)

\* Slip: later pages are taken whatever the revision.
SameRevisionAlways == TRUE
SameRevision == listing.after = 0 \/ listing.revision = revision

After == {t \in DesiredTracks : t > listing.after}

\* handleMissing: the next tracks in URI order, as many as the page and the
\* frame have room for, at least one; the last page is the one that is not full.
Page(tracks) ==
  /\ tracks \subseteq After /\ Cardinality(tracks) <= PageSize
  /\ \A t \in tracks, u \in After \ tracks : t < u
  /\ tracks = {} => After = {}

LastPage(tracks) == tracks = After /\ Cardinality(tracks) < PageSize

MissingPage(tracks) ==
  /\ stage = "ready" /\ managedMu = None
  /\ SameRevision /\ Page(tracks)
  /\ listing' =
       IF LastPage(tracks) THEN NoListing
       ELSE [revision |-> revision,
             after |-> CHOOSE t \in tracks : \A u \in tracks : u <= t,
             count |-> listing.count + Cardinality(tracks),
             want |-> IF listing.after = 0 THEN DesiredTracks ELSE listing.want]
  /\ UNCHANGED <<stateVars, runVars, histVars>>

\* The revision changed, or the daemon is gone: the client gives up.
MissingEnds ==
  /\ listing # NoListing
  /\ ~SameRevision \/ stage # "ready"
  /\ listing' = NoListing
  /\ UNCHANGED <<stateVars, runVars, histVars>>

-----------------------------------------------------------------------------
Project(a) ==
  \/ LockPlaylists(a) \/ Snapshot(a) \/ BeginPublish(a) \/ Replace(a) \/ Finish(a) \/ ProjectionFails(a)
  \/ \E t \in Tracks : Probe(a, t)
  \/ \E f \in shown : RemoveStale(a, f)

Next ==
  \/ \E s \in Candidates : Apply(s)
  \/ \E t \in Tracks : Acquire(t) \/ Vanish(t)
  \/ \E a \in Refreshers :
       NoteChange(a) \/ CheckNote(a) \/ ClearPending(a) \/ \E replaced, cut \in SUBSET Tracks : Refresh(a, replaced, cut)
  \/ \E a \in Actors : Project(a)
  \/ Start \/ Crash
  \/ MissingEnds \/ \E tracks \in SUBSET Tracks : MissingPage(tracks)

Spec == Init /\ [][Next]_vars

-----------------------------------------------------------------------------
(* Properties. *)

\* "A concurrent commit cannot publish a stale projection after its own
\* reconciliation": when nobody projects any more, the playlists are those of
\* the newest state and files - unless the last projection failed, or files
\* vanished, with nothing due - or a metadata refresh left a note, in memory or
\* in the track's row, that the next one follows.  The note in memory is one for
\* all refreshes, and excepted is the window this leaves between two of them: one
\* whose projection was good clears it after the other has set it, and the
\* projection of the other fails, before or after that (ProjectionFails,
\* ClearPending).
StaleIsOwed ==
  stage = "ready" /\ ~excused =>
    pending \/ intents # {} \/ (\E a \in Actors : pc[a] # "idle") \/ Current

\* A playlist that is renamed, or gets a namesake, is on disk under its new name
\* before its old file is removed, wherever the projection is cut off.  An old
\* file whose name passes to another playlist is not removed but replaced, maybe
\* before the new file of the first is there: then that is only owed (StaleIsOwed).
PlaylistNotLost ==
  [][\A f \in shown : f.name \notin Names(shown') /\ f.of \in DOMAIN desired.playlists =>
       \E g \in shown' : g.of = f.of]_vars

\* A missing listing that ends has counted every track that was desired when it
\* began exactly once, however the library moved between its pages.
MissingIsWhole ==
  [][\A tracks \in SUBSET Tracks : listing # NoListing /\ MissingPage(tracks) /\ LastPage(tracks) =>
       listing.count + Cardinality(tracks) = Cardinality(listing.want)]_vars
=============================================================================
