----------------------------- MODULE LibraryProofs -----------------------------
(***************************************************************************)
(* Proofs about Library, for any tracks, desired states and page size.     *)
(***************************************************************************)
EXTENDS Library, FiniteSetTheorems, WellFoundedInduction, TLAPS

\* A playlist that is renamed, or gets a namesake, is on disk under its new name
\* before its old file goes (files.go, ReconcilePlaylists): what the removal of
\* an obsolete file waits for contains the file of every desired playlist.
THEOREM PlaylistNotLostCorrect == Spec => PlaylistNotLost
<1> DEFINE Kept(f) ==
      f.name \notin Names(shown') /\ f.of \in DOMAIN desired.playlists => \E g \in shown' : g.of = f.of
<1>1. ASSUME UNCHANGED shown, NEW f \in shown PROVE Kept(f)
  BY <1>1 DEF Names
<1>2. ASSUME NEW a \in Actors, Replace(a), NEW f \in shown PROVE Kept(f)
  BY <1>2 DEF Replace, Names
<1>3. ASSUME NEW a \in Actors, NEW g \in shown, RemoveStale(a, g), NEW f \in shown PROVE Kept(f)
  <2> SUFFICES ASSUME f.name \notin Names(shown'), f.of \in DOMAIN desired.playlists
               PROVE \E h \in shown' : h.of = f.of
    OBVIOUS
  <2> DEFINE w == [name |-> Filename(f.of), of |-> f.of, tracks |-> desired.playlists[f.of].tracks]
  <2>1. w \in Wanted
    BY DEF Wanted
  <2>2. Render(w, Durations) \in shown
    BY <1>3, <2>1 DEF RemoveStale, Projection
  <2>3. Render(w, Durations).of = f.of /\ Render(w, Durations).name \in Names(Wanted)
    BY <2>1 DEF Render, Names
  <2> HIDE DEF w
  <2>4. Render(w, Durations) # g
    BY <1>3, <2>3 DEF RemoveStale
  <2> QED
    BY <1>3, <2>2, <2>3, <2>4 DEF RemoveStale
<1>4. ASSUME NEW a \in Actors, Project(a), NEW f \in shown PROVE Kept(f)
  <2>1. CASE UNCHANGED shown
    BY <2>1, <1>1
  <2>2. CASE Replace(a)
    BY <2>2, <1>2
  <2>3. CASE \E g \in shown : RemoveStale(a, g)
    BY <2>3, <1>3
  <2> QED
    BY <1>4, <2>1, <2>2, <2>3
    DEF Project, LockPlaylists, Snapshot, BeginPublish, Finish, ProjectionFails, Probe
<1>5. ASSUME [Next]_vars, NEW f \in shown PROVE Kept(f)
  <2>1. CASE UNCHANGED vars
    BY <2>1, <1>1 DEF vars, runVars
  <2>2. CASE \E a \in Actors : Project(a)
    BY <2>2, <1>4
  <2>3. CASE UNCHANGED shown
    BY <2>3, <1>1
  <2> QED
    BY <1>5, <2>1, <2>2, <2>3
    DEF Next, Apply, Acquire, Vanish, Refresh, NoteChange, CheckNote, ClearPending, Start, Crash, MissingEnds,
      MissingPage, runVars
<1>6. [Next]_vars => [\A f \in shown : Kept(f)]_vars
  BY <1>5
<1> QED
  BY <1>6, PTL DEF Spec, PlaylistNotLost

-----------------------------------------------------------------------------
(* The missing listing.                                                    *)

Listed == {t \in DesiredTracks : t <= listing.after}

\* Between its pages, and while the revision has not moved, a listing has counted
\* the desired tracks up to its cursor.
ListingInv ==
  /\ desired \in Candidates \cup {Nothing} /\ revision \in Nat
  /\ listing = NoListing \/
       /\ listing.after \in Tracks /\ listing.revision \in 0..revision
       /\ listing.revision = revision =>
            listing.want = DesiredTracks /\ listing.count = Cardinality(Listed)

\* The tracks are finitely many positive numbers.
LEMMA TracksFinite == IsFiniteSet(Tracks) /\ Tracks \subseteq Nat \ {0}
BY LibraryAssumption, FS_Interval DEF Tracks

\* A page has a last track.
LEMMA LastTrack == \A S \in SUBSET Tracks : S # {} => \E t \in S : \A u \in S : u <= t
<1> SUFFICES ASSUME NEW S \in SUBSET Tracks, S # {} PROVE \E t \in S : \A u \in S : u <= t
  OBVIOUS
<1> DEFINE Above(t) == {u \in S : u > t}
           T == {Above(t) : t \in S}
           R == StrictSubsetOrdering(S)
<1>1. IsFiniteSet(S)
  BY TracksFinite, FS_Subset
<1>2. T \subseteq FiniteSubsetsOf(S)
  BY <1>1, FS_Subset DEF FiniteSubsetsOf
<1>3. IsWellFoundedOn(R, FiniteSubsetsOf(S))
  BY FS_StrictSubsetOrderingWellFounded
<1>4. T # {}
  OBVIOUS
<1>5. \E A \in T : \A B \in T : ~(<<B, A>> \in R)
  <2> HIDE DEF R, T
  <2> QED
    BY <1>2, <1>3, <1>4, WFMin
<1>6. PICK t \in S : \A B \in T : ~(<<B, Above(t)>> \in R)
  BY <1>5
<1>7. ASSUME NEW u \in S, u > t PROVE FALSE
  <2>0. S \subseteq Nat
    BY TracksFinite
  <2>1. (\A x \in S : x > u => x > t) /\ ~(u > u)
    BY <1>7, <2>0
  <2>2. Above(u) \subseteq Above(t) /\ u \in Above(t) /\ u \notin Above(u)
    BY <1>7, <2>1
  <2>3. <<Above(u), Above(t)>> \in R
    BY <2>2 DEF StrictSubsetOrdering
  <2> QED
    BY <1>6, <2>3
<1> QED
  BY <1>7, TracksFinite

\* A Desired state names tracks only.
LEMMA DesiredAreTracks == desired \in Candidates \cup {Nothing} => DesiredTracks \subseteq Tracks
BY LibraryAssumption DEF DesiredTracks, Nothing

\* What the cursor has passed and the page that follows make what the new one has passed.
LEMMA PageCounts ==
  ASSUME desired \in Candidates \cup {Nothing}, listing.after \in Nat, NEW tracks, Page(tracks),
         NEW last \in Nat, \A t \in DesiredTracks : t <= last <=> (t <= listing.after \/ t \in tracks)
  PROVE  Cardinality({t \in DesiredTracks : t <= last}) = Cardinality(Listed) + Cardinality(tracks)
<1>0. DesiredTracks \subseteq Nat
  BY DesiredAreTracks, TracksFinite
<1>1. tracks \subseteq DesiredTracks /\ Listed \cap tracks = {}
  <2>1. tracks \subseteq DesiredTracks /\ \A t \in tracks : t > listing.after
    BY DEF Page, After
  <2>2. ASSUME NEW t \in tracks, t \in Listed PROVE FALSE
    BY <1>0, <2>1, <2>2 DEF Listed
  <2> QED
    BY <2>1, <2>2
<1>2. {t \in DesiredTracks : t <= last} = Listed \cup tracks
  BY <1>1 DEF Listed
<1>3. IsFiniteSet(Listed) /\ IsFiniteSet(tracks)
  BY <1>1, DesiredAreTracks, TracksFinite, FS_Subset DEF Listed
<1>4. Cardinality(Listed \cap tracks) = 0 /\ Cardinality(Listed) \in Nat /\ Cardinality(tracks) \in Nat
  BY <1>1, <1>3, FS_EmptySet, FS_CardinalityType
<1>5. Cardinality(Listed \cup tracks) = Cardinality(Listed) + Cardinality(tracks) - Cardinality(Listed \cap tracks)
  BY <1>3, FS_Union
<1> HIDE DEF Listed
<1>6. Cardinality(Listed \cup tracks) = Cardinality(Listed) + Cardinality(tracks)
  BY <1>4, <1>5
<1> QED
  BY <1>2, <1>6

\* A page that is not the last moves the cursor to its last track.
LEMMA NextPage ==
  \A tracks \in SUBSET Tracks : ListingInv /\ MissingPage(tracks) => ListingInv'
<1> SUFFICES ASSUME NEW tracks \in SUBSET Tracks, ListingInv, MissingPage(tracks), ~LastPage(tracks)
             PROVE ListingInv'
  BY DEF ListingInv, MissingPage, stateVars, NoListing
<1> DEFINE last == CHOOSE t \in tracks : \A u \in tracks : u <= t
<1>0. UNCHANGED <<desired, revision>> /\ Page(tracks) /\ SameRevision
  BY DEF MissingPage, stateVars
<1>1. listing' = [revision |-> revision, after |-> last, count |-> listing.count + Cardinality(tracks),
                  want |-> IF listing.after = 0 THEN DesiredTracks ELSE listing.want]
  BY DEF MissingPage
<1>2. tracks # {}
  <2>1. Cardinality({}) < PageSize
    BY LibraryAssumption, FS_EmptySet
  <2> QED
    BY <1>0, <2>1 DEF Page, LastPage
<1>3. last \in tracks /\ \A u \in tracks : u <= last
  BY <1>2, LastTrack
<1> HIDE DEF last
<1>4. listing.after \in Nat /\ Cardinality(Listed) \in Nat
  <2>1. listing.after \in Nat
    <3>1. NoListing.after = 0
      BY DEF NoListing
    <3>2. listing = NoListing \/ listing.after \in Nat \ {0}
      BY TracksFinite DEF ListingInv
    <3> QED
      BY <3>1, <3>2
  <2>2. IsFiniteSet(Listed)
    BY DesiredAreTracks, TracksFinite, FS_Subset DEF Listed, ListingInv
  <2> QED
    BY <2>1, <2>2, FS_CardinalityType
<1>5. last \in Nat \ {0} /\ DesiredTracks \subseteq Nat
  BY <1>3, DesiredAreTracks, TracksFinite DEF ListingInv
<1>6. listing.count = Cardinality(Listed) /\ (listing.after # 0 => listing.want = DesiredTracks)
  <2>1. CASE listing = NoListing
    <3>0. listing.after = 0 /\ DesiredTracks \subseteq Nat \ {0}
      BY <2>1, DesiredAreTracks, TracksFinite DEF ListingInv, NoListing
    <3>1. Listed = {}
      <4>1. ASSUME NEW t \in DesiredTracks, t <= listing.after PROVE FALSE
        BY <3>0, <4>1
      <4> QED
        BY <4>1 DEF Listed
    <3> QED
      BY <2>1, <3>1, FS_EmptySet DEF NoListing
  <2>2. CASE listing # NoListing
    BY <1>0, <2>2, TracksFinite DEF ListingInv, SameRevision
  <2> QED
    BY <2>1, <2>2
<1>7. ASSUME NEW t \in DesiredTracks PROVE t <= last <=> (t <= listing.after \/ t \in tracks)
  <2>1. tracks \subseteq After /\ \A u \in After \ tracks : last < u
    BY <1>0, <1>3 DEF Page
  <2>2. t > listing.after => t \in After
    BY DEF After
  <2>3. last > listing.after
    BY <1>3, <2>1 DEF After
  <2> QED
    BY <1>3, <1>4, <1>5, <2>1, <2>2, <2>3
<1>8. Cardinality({t \in DesiredTracks : t <= last}) = Cardinality(Listed) + Cardinality(tracks)
  BY <1>0, <1>4, <1>5, <1>7, PageCounts DEF ListingInv
<1>9. DesiredTracks' = DesiredTracks
  BY <1>0 DEF DesiredTracks
<1>10. Listed' = {t \in DesiredTracks : t <= last}
  BY <1>1, <1>9 DEF Listed
<1>11. listing'.count = Cardinality(Listed')
  BY <1>1, <1>6, <1>8, <1>10
<1> QED
  BY <1>0, <1>1, <1>3, <1>6, <1>9, <1>11 DEF ListingInv

\* Every step keeps the listing invariant.
LEMMA StepListing == ListingInv /\ [Next]_vars => ListingInv'
<1> SUFFICES ASSUME ListingInv, [Next]_vars PROVE ListingInv'
  OBVIOUS
<1>1. ASSUME UNCHANGED <<desired, revision>>, listing' \in {listing, NoListing} PROVE ListingInv'
  BY <1>1 DEF ListingInv, DesiredTracks, Listed
<1>2. ASSUME NEW s \in Candidates, Apply(s) PROVE ListingInv'
  <2>1. desired' \in Candidates /\ revision' = revision + 1 /\ listing' = listing
    BY <1>2 DEF Apply
  <2> QED
    BY <2>1 DEF ListingInv
<1>3. ASSUME NEW tracks \in SUBSET Tracks, MissingPage(tracks) PROVE ListingInv'
  BY <1>3, NextPage
<1>4. CASE UNCHANGED vars
  BY <1>4, <1>1 DEF vars, stateVars
<1>5. ASSUME NEW a \in Actors, Project(a) PROVE ListingInv'
  <2>1. UNCHANGED <<desired, revision, listing>>
    BY <1>5 DEF Project, LockPlaylists, Snapshot, BeginPublish, Finish, ProjectionFails, Probe,
                Replace, RemoveStale, stateVars
  <2> QED
    BY <2>1, <1>1
<1>6. CASE /\ UNCHANGED <<desired, revision>>
           /\ listing' \in {listing, NoListing}
  BY <1>6, <1>1
<1> QED
  BY <1>2, <1>3, <1>4, <1>5, <1>6
  DEF Next, Acquire, Vanish, Refresh, NoteChange, CheckNote, ClearPending, Start, Crash, MissingEnds,
      stateVars, runVars

\* A listing that ends has counted the desired tracks of its first page, each
\* once: pages follow one another in URI order (managed.go, handleMissing) and
\* the client gives up when the revision moved (missing.go, collectMissing).
THEOREM MissingIsWholeCorrect == Spec => MissingIsWhole
<1>1. Init => ListingInv
  BY DEF Init, ListingInv
<1>2. ASSUME ListingInv, NEW tracks \in SUBSET Tracks, listing # NoListing, MissingPage(tracks), LastPage(tracks)
      PROVE  listing.count + Cardinality(tracks) = Cardinality(listing.want)
  <2>1. listing.after \in Nat \ {0} /\ listing.want = DesiredTracks /\ listing.count = Cardinality(Listed)
    BY <1>2, TracksFinite DEF ListingInv, MissingPage, SameRevision
  <2>2. DesiredTracks \subseteq Tracks /\ MaxTrack \in Nat
    BY <1>2, DesiredAreTracks, LibraryAssumption DEF ListingInv
  <2>3. ASSUME NEW t \in DesiredTracks PROVE t <= MaxTrack <=> (t <= listing.after \/ t \in tracks)
    BY <1>2, <2>1, <2>2 DEF LastPage, After, Tracks
  <2>4. Page(tracks) /\ listing.after \in Nat
    BY <1>2, <2>1 DEF MissingPage
  <2>5. Cardinality({t \in DesiredTracks : t <= MaxTrack}) = Cardinality(Listed) + Cardinality(tracks)
    BY <1>2, <2>2, <2>3, <2>4, PageCounts DEF ListingInv
  <2>6. DesiredTracks = {t \in DesiredTracks : t <= MaxTrack}
    <3>1. ASSUME NEW t \in DesiredTracks PROVE t <= MaxTrack
      BY <2>2 DEF Tracks
    <3> QED
      BY <3>1
  <2> QED
    BY <2>1, <2>5, <2>6
<1>3. ListingInv /\ [Next]_vars =>
        [\A tracks \in SUBSET Tracks : listing # NoListing /\ MissingPage(tracks) /\ LastPage(tracks) =>
           listing.count + Cardinality(tracks) = Cardinality(listing.want)]_vars
  BY <1>2
<1> QED
  BY <1>1, <1>3, StepListing, PTL DEF Spec, MissingIsWhole

-----------------------------------------------------------------------------
(* Stale playlists are owed a projection.                                  *)

LibType ==
  /\ stage \in {"down", "starting", "ready"} /\ desired \in Candidates \cup {Nothing}
  /\ file \in [Tracks -> Nat] /\ intents \subseteq Tracks
  /\ pending \in BOOLEAN /\ failed \in BOOLEAN
  /\ pc \in [Actors -> {"idle", "noting", "checking", "owed", "clearing"} \cup Projecting]
  /\ DOMAIN probe \subseteq Tracks /\ probe = [t \in DOMAIN probe |-> probe[t]]

OneProjection == \A a, b \in Actors : pc[a] \in Projecting /\ pc[b] \in Projecting => a = b

\* A change that a projection has to follow.
Noted == intents # {} \/ \E b \in Actors : pc[b] \in {"noting", "owed"}

\* What was probed is what is there, or whoever changed it will project next.
ProbeFits ==
  \A a \in Actors :
    /\ pc[a] \in {"probing", "publishing"} =>
         Noted \/ \A t \in DOMAIN probe : Available(t) => probe[t] \in {Unprobed, 0, file[t]}
    /\ pc[a] = "publishing" => \A t \in DOMAIN probe : probe[t] # Unprobed

\* StaleIsOwed, told apart by who still acts on what: who is about to look for a
\* note will only act if there is one, and who clears the note must not be the
\* one it is left for - unless a failure is on record, which then excuses it.
Owed ==
  stage = "ready" /\ ~excused =>
    \/ Current \/ intents # {}
    \/ \E a \in Actors : pc[a] \notin {"idle", "checking", "clearing"}
    \/ pending /\ (failed \/ \A r \in Refreshers : pc[r] # "clearing")

OwedInv == LibType /\ OneProjection /\ ProbeFits /\ Owed

\* No two files are wanted under one name (playlists.go, playlistFilenames).
LEMMA WantedNames == \A v, w \in Wanted : v.name = w.name => v.of = w.of /\ v.tracks = w.tracks
<1>1. \A x, y, p, q : <<x>> # <<y, q>> /\ (<<x>> = <<y>> => x = y) /\ (<<x, p>> = <<y, q>> => p = q)
  OBVIOUS
<1>2. ASSUME NEW p \in DOMAIN desired.playlists PROVE Filename(p) # <<LikedSongs>>
  BY <1>1 DEF Filename
<1>3. ASSUME NEW p \in DOMAIN desired.playlists, NEW q \in DOMAIN desired.playlists, Filename(p) = Filename(q)
      PROVE  p = q
  BY <1>1, <1>3 DEF Filename
<1> QED
  BY <1>2, <1>3 DEF Wanted

\* A projection that published what it probed shows what there is.
LEMMA FinishedIsCurrent ==
  ASSUME LibType, shown = Projection, \A t \in DOMAIN probe : Available(t) => probe[t] \in {0, file[t]}
  PROVE  Current
<1>1. DOMAIN Durations = {t \in Tracks : Available(t)}
  BY DEF Durations
<1>2. ASSUME NEW t \in DOMAIN Durations PROVE Durations[t] \in {0, file[t]}
  BY <1>2 DEF Durations
<1>3. \A v \in Wanted : v.tracks \subseteq Tracks
  BY LibraryAssumption DEF Wanted, LibType, Nothing
<1>4. Names(shown) = Names(Wanted)
  <2>1. \A w \in Wanted : Render(w, Durations).name = w.name
    BY DEF Render
  <2> HIDE DEF Wanted
  <2> QED
    BY <2>1 DEF Names, Projection
<1>5. ASSUME NEW w \in Wanted, NEW f \in shown, f.name = w.name
      PROVE  /\ f.of = w.of /\ {l[1] : l \in f.lines} = {t \in w.tracks : Available(t)}
             /\ \A l \in f.lines : l[2] \in {0, file[l[1]]}
  <2>1. PICK v \in Wanted : f = Render(v, Durations)
    BY DEF Projection
  <2>2. v.of = w.of /\ v.tracks = w.tracks /\ f.of = v.of
    BY <1>5, <2>1, WantedNames DEF Render
  <2>3. f.lines = {<<t, Durations[t]>> : t \in w.tracks \cap DOMAIN Durations}
    BY <2>1, <2>2 DEF Render
  <2>4. w.tracks \cap DOMAIN Durations = {t \in w.tracks : Available(t)}
    BY <1>1, <1>3
  <2>5. {l[1] : l \in f.lines} = w.tracks \cap DOMAIN Durations
    <3>1. \A t \in w.tracks \cap DOMAIN Durations : <<t, Durations[t]>> \in f.lines /\ <<t, Durations[t]>>[1] = t
      BY <2>3
    <3>2. \A l \in f.lines : l[1] \in w.tracks \cap DOMAIN Durations
      BY <2>3
    <3> DEFINE D == w.tracks \cap DOMAIN Durations
               L == f.lines
    <3> HIDE DEF D, L
    <3>3. \A t \in D : \E l \in L : t = l[1]
      BY <3>1 DEF D, L
    <3>4. \A l \in L : l[1] \in D
      BY <3>2 DEF D, L
    <3>5. {l[1] : l \in L} = D
      BY <3>3, <3>4
    <3> QED
      BY <3>5 DEF D, L
  <2>6. \A l \in f.lines : l[2] \in {0, file[l[1]]}
    BY <1>2, <2>3
  <2> QED
    BY <2>2, <2>4, <2>5, <2>6
<1> QED
  BY <1>4, <1>5 DEF Current

\* A state directory without playlists owes nothing.
LEMMA InitOwed == Init => OwedInv
<1> SUFFICES ASSUME Init PROVE OwedInv
  OBVIOUS
<1>1. DOMAIN probe = {} /\ probe = [t \in DOMAIN probe |-> probe[t]]
  BY DEF Init, NoProbe
<1>2. LibType
  BY <1>1 DEF Init, LibType
<1>3. \A a \in Actors : pc[a] = "idle"
  BY DEF Init
<1>4. OneProjection /\ ProbeFits
  BY <1>3 DEF OneProjection, ProbeFits, Projecting
<1> QED
  BY <1>2, <1>4 DEF Init, OwedInv, Owed

\* A reconciliation keeps the types.
LEMMA RefreshType == ASSUME LibType, NEW a \in Refreshers, NEW replaced, NEW cut, Refresh(a, replaced, cut) PROVE LibType'
<1> a \in Actors /\ replaced \cup cut \subseteq Tracks
  BY DesiredAreTracks DEF Actors, Refresh, LibType
<1> QED
  BY DEF LibType, Refresh, histVars

\* Every step keeps the types.
LEMMA StepLibType == LibType /\ [Next]_vars => LibType'
<1> SUFFICES ASSUME LibType, [Next]_vars PROVE LibType'
  OBVIOUS
<1>1. ASSUME NEW s \in Candidates, Apply(s) PROVE LibType'
  BY <1>1 DEF LibType, Apply, Owe, Actors, histVars
<1>2. ASSUME NEW t \in Tracks, Acquire(t) PROVE LibType'
  BY <1>2, LibraryAssumption DEF LibType, Acquire, Owe, Actors, histVars
<1>3. ASSUME NEW t \in Tracks, Vanish(t) PROVE LibType'
  BY <1>3 DEF LibType, Vanish, runVars
<1>4. ASSUME NEW a \in Refreshers, NoteChange(a) \/ CheckNote(a) \/ ClearPending(a) PROVE LibType'
  BY <1>4 DEF LibType, NoteChange, CheckNote, ClearPending, Owe, stateVars, Goto, Actors, histVars
<1>5. ASSUME NEW a \in Actors, Project(a) PROVE LibType'
  <2> USE DEF LibType, stateVars, histVars, Goto, Projecting
  <2>1. CASE LockPlaylists(a)
    BY <2>1 DEF LockPlaylists
  <2>2. CASE Snapshot(a)
    BY <2>2, DesiredAreTracks DEF Snapshot
  <2>3. CASE BeginPublish(a)
    BY <2>3 DEF BeginPublish
  <2>4. CASE Finish(a)
    BY <2>4 DEF Finish, NoProbe
  <2>5. CASE ProjectionFails(a)
    BY <2>5 DEF ProjectionFails, NoProbe
  <2>6. ASSUME NEW t \in Tracks, Probe(a, t) PROVE LibType'
    BY <2>6 DEF Probe
  <2>7. ASSUME NEW f, Replace(a) \/ RemoveStale(a, f) PROVE LibType'
    BY <2>7 DEF Replace, RemoveStale
  <2> QED
    BY <1>5, <2>1, <2>2, <2>3, <2>4, <2>5, <2>6, <2>7 DEF Project
<1>6. CASE Start
  BY <1>6 DEF LibType, Start, Owe, stateVars, Actors, histVars
<1>7. CASE Crash
  BY <1>7 DEF LibType, Crash, stateVars, NoProbe
<1>8. CASE MissingEnds \/ \E tracks \in SUBSET Tracks : MissingPage(tracks)
  BY <1>8 DEF LibType, MissingEnds, MissingPage, stateVars, runVars, histVars
<1>9. CASE UNCHANGED vars
  BY <1>9 DEF LibType, vars, stateVars, runVars, histVars
<1> QED
  BY <1>1, <1>2, <1>3, <1>4, <1>5, <1>6, <1>7, <1>8, <1>9, RefreshType DEF Next

\* Whoever commits will project.
LEMMA CommitOwed ==
  ASSUME OwedInv, NEW a \in Actors, pc[a] = "idle", NEW to \in {"noting", "owed"},
         pc' = [pc EXCEPT ![a] = to], UNCHANGED probe
  PROVE  (OneProjection /\ ProbeFits /\ Owed)'
<1> USE DEF OwedInv, LibType
<1>1. pc'[a] = to /\ \A b \in Actors \ {a} : pc'[b] = pc[b]
  OBVIOUS
<1>2. OneProjection'
  BY <1>1 DEF OneProjection, Projecting
<1>3. Noted'
  BY <1>1 DEF Noted
<1>4. ProbeFits'
  BY <1>1, <1>3 DEF ProbeFits
<1>5. Owed'
  BY <1>1 DEF Owed
<1> QED
  BY <1>2, <1>4, <1>5

\* The playlists are as current as the files and the Desired state let them be.
LEMMA SameCurrent == UNCHANGED <<desired, file, shown>> => Current' = Current
BY DEF Current, Wanted, Filename, Available

\* A refresh that found nothing to do has left alone what is stale, or an intent.
LEMMA RefreshOwed ==
  ASSUME OwedInv, NEW a \in Refreshers, NEW replaced, NEW cut, Refresh(a, replaced, cut)
  PROVE  (OneProjection /\ ProbeFits /\ Owed)'
<1> a \in Actors /\ replaced \cup cut \subseteq Tracks
  BY DesiredAreTracks DEF Actors, Refresh, OwedInv, LibType
<1> USE DEF OwedInv, LibType
<1>1. pc[a] = "idle" /\ UNCHANGED <<desired, stage, shown, pending, probe, failed, excused>>
  BY DEF Refresh, Commit, histVars
<1>2. CASE pc' = [pc EXCEPT ![a] = "noting"]
  BY <1>1, <1>2, CommitOwed
<1>3. CASE pc' # [pc EXCEPT ![a] = "noting"]
  <2>1. pc' = [pc EXCEPT ![a] = "checking"] /\ replaced = {} /\ intents \subseteq intents' /\ cut \subseteq intents'
    BY <1>3 DEF Refresh
  <2>2. pc'[a] = "checking" /\ \A b \in Actors \ {a} : pc'[b] = pc[b]
    BY <2>1
  <2>3. cut = {} => file' = file
    BY <2>1 DEF Refresh
  <2>4. OneProjection'
    BY <1>1, <2>2 DEF OneProjection, Projecting
  <2>5. Noted => Noted'
    BY <1>1, <2>1, <2>2 DEF Noted
  <2>6. ProbeFits'
    <3>1. CASE cut # {}
      BY <1>1, <2>1, <2>2, <3>1 DEF ProbeFits, Noted
    <3>2. CASE cut = {}
      BY <1>1, <2>2, <2>3, <2>5, <3>2 DEF ProbeFits, Available
    <3> QED
      BY <3>1, <3>2
  <2>7. Owed'
    <3>1. CASE cut # {}
      BY <2>1, <3>1 DEF Owed
    <3>2. CASE cut = {}
      <4>1. Current' = Current
        BY <1>1, <2>3, <3>2, SameCurrent
      <4>2. \A b \in Actors : pc[b] \notin {"idle", "checking", "clearing"} => pc'[b] = pc[b]
        BY <1>1, <2>2
      <4>3. (\A r \in Refreshers : pc[r] # "clearing") => \A r \in Refreshers : pc'[r] # "clearing"
        BY <2>2 DEF Actors
      <4> QED
        BY <1>1, <2>1, <4>1, <4>2, <4>3 DEF Owed
    <3> QED
      BY <3>1, <3>2
  <2> QED
    BY <2>4, <2>6, <2>7
<1> QED
  BY <1>2, <1>3

\* A note is left before its projection is due, and found by who looks for it.
LEMMA NoteOwed ==
  ASSUME OwedInv, NEW a \in Refreshers, NoteChange(a) \/ CheckNote(a)
  PROVE  (OneProjection /\ ProbeFits /\ Owed)'
<1> a \in Actors
  BY DEF Actors
<1> USE DEF OwedInv, LibType
<1>1. UNCHANGED <<desired, file, intents, shown, stage, probe, failed, excused>>
  BY DEF NoteChange, CheckNote, stateVars, histVars
<1>2. pc[a] \in {"noting", "checking"} /\ pc'[a] \in {"idle", "owed"} /\ \A b \in Actors \ {a} : pc'[b] = pc[b]
  BY DEF NoteChange, CheckNote, Owe
<1>3. OneProjection'
  BY <1>2 DEF OneProjection, Projecting
<1>4. pc[a] = "noting" \/ pending => pc'[a] = "owed"
  BY DEF NoteChange, CheckNote, Owe
<1>5. Noted => Noted'
  BY <1>1, <1>2, <1>4 DEF Noted
<1>6. ProbeFits'
  BY <1>1, <1>2, <1>5 DEF ProbeFits, Available
<1>7. Owed'
  <2>1. CASE pc'[a] = "owed"
    BY <2>1 DEF Owed
  <2>2. CASE pc'[a] # "owed"
    <3>1. ~pending /\ pc[a] = "checking"
      BY <1>2, <1>4, <2>2
    <3>2. Current' = Current
      BY <1>1, SameCurrent
    <3>3. \A b \in Actors : pc[b] \notin {"idle", "checking", "clearing"} => pc'[b] = pc[b]
      BY <1>2, <3>1
    <3> QED
      BY <1>1, <3>1, <3>2, <3>3 DEF Owed
  <2> QED
    BY <2>1, <2>2
<1> QED
  BY <1>3, <1>6, <1>7

\* The steps of a projection up to its end.
LEMMA ProjectingOwed ==
  ASSUME OwedInv, NEW a \in Actors,
         \/ LockPlaylists(a) \/ Snapshot(a) \/ BeginPublish(a) \/ Replace(a)
         \/ \E t \in Tracks : Probe(a, t)
         \/ \E f : RemoveStale(a, f)
  PROVE  (OneProjection /\ ProbeFits /\ Owed)'
<1> USE DEF OwedInv, LibType
<1>0. pc' \in [Actors -> {"idle", "noting", "checking", "owed", "clearing"} \cup Projecting] /\ pc'[a] \in Projecting
      /\ \A b \in Actors \ {a} : pc'[b] = pc[b]
  BY DEF LockPlaylists, Snapshot, BeginPublish, Probe, Replace, RemoveStale, Goto, Projecting
<1>1. OneProjection'
  BY <1>0 DEF OneProjection, LockPlaylists, Snapshot, BeginPublish, Probe, Replace, RemoveStale, Goto, Projecting
<1>3. Owed'
  BY <1>0 DEF Owed, Projecting
<1>4. ProbeFits'
  <2>1. CASE LockPlaylists(a)
    <3>1. \A b \in Actors : pc'[b] \notin {"probing", "publishing"}
      BY <2>1 DEF LockPlaylists, Goto, Projecting
    <3> QED
      BY <3>1 DEF ProbeFits
  <2>2. CASE Snapshot(a)
    <3>1. \A b \in Actors : pc'[b] # "publishing"
      BY <2>2 DEF Snapshot, Goto, OneProjection, Projecting
    <3>2. \A t \in DOMAIN probe' : probe'[t] = Unprobed
      BY <2>2 DEF Snapshot
    <3> QED
      BY <3>1, <3>2 DEF ProbeFits, Unprobed
  <2>3. CASE BeginPublish(a)
    <3>1. UNCHANGED <<file, intents, probe>> /\ pc[a] = "probing" /\ pc'[a] = "publishing"
      BY <2>3 DEF BeginPublish, stateVars, Goto
    <3>2. \A t \in DOMAIN probe : probe[t] # Unprobed
      BY <2>3 DEF BeginPublish, Probed
    <3>3. \A b \in Actors : pc[b] \in {"noting", "owed"} => pc'[b] = pc[b]
      BY <2>3 DEF BeginPublish, Goto
    <3> QED
      BY <1>0, <3>1, <3>2, <3>3 DEF ProbeFits, Noted, Available
  <2>4. ASSUME NEW t \in Tracks, Probe(a, t) PROVE ProbeFits'
    <3>1. UNCHANGED <<file, intents, pc>> /\ pc[a] = "probing"
      BY <2>4 DEF Probe, stateVars
    <3>2. \A b \in Actors : pc[b] # "publishing"
      BY <3>1 DEF OneProjection, Projecting
    <3>3. DOMAIN probe' = DOMAIN probe /\ \A u \in DOMAIN probe : probe'[u] = IF u = t THEN file[t] ELSE probe[u]
      BY <2>4 DEF Probe
    <3> QED
      BY <3>1, <3>2, <3>3 DEF ProbeFits, Noted, Available
  <2>5. ASSUME NEW f, Replace(a) \/ RemoveStale(a, f) PROVE ProbeFits'
    BY <2>5 DEF Replace, RemoveStale, stateVars, ProbeFits, Noted, Available
  <2> QED
    BY <2>1, <2>2, <2>3, <2>4, <2>5
<1> QED
  BY <1>1, <1>3, <1>4

\* After a projection nobody else is in the middle of one.
LEMMA NoneProjecting ==
  ASSUME OwedInv, NEW a \in Actors, pc[a] \in Projecting, NEW to \in {"idle", "clearing"},
         pc' = [pc EXCEPT ![a] = to]
  PROVE  (OneProjection /\ ProbeFits)'
<1>1. \A b \in Actors : pc'[b] \notin Projecting
  BY DEF OwedInv, LibType, OneProjection, Projecting
<1> QED
  BY <1>1 DEF OneProjection, ProbeFits, Projecting

\* The end of a reconciliation keeps account of what is stale.
LEMMA FinishOwed ==
  ASSUME OwedInv, NEW a \in Actors, Finish(a)
  PROVE  (OneProjection /\ ProbeFits /\ Owed)'
<1> USE DEF OwedInv, LibType
<1>1. pc[a] = "publishing" /\ UNCHANGED <<desired, file, shown, intents, pending>>
  BY DEF Finish, Goto, stateVars
<1>2. (OneProjection /\ ProbeFits)'
  <2>1. PICK to \in {"idle", "clearing"} : pc' = [pc EXCEPT ![a] = to]
    BY DEF Finish, Goto
  <2> QED
    BY <1>1, <2>1, NoneProjecting DEF Projecting
<1>3. CASE \E b \in Actors : pc[b] \in {"noting", "owed"}
  <2>1. \E b \in Actors : pc'[b] \in {"noting", "owed"}
    BY <1>1, <1>3 DEF Finish, Goto
  <2> QED
    BY <1>2, <2>1 DEF Owed
<1>4. CASE intents # {}
  BY <1>1, <1>2, <1>4 DEF Owed
<1>5. CASE ~Noted
  <2>1. \A t \in DOMAIN probe : Available(t) => probe[t] \in {0, file[t]}
    BY <1>1, <1>5 DEF ProbeFits
  <2>2. shown = Projection
    BY DEF Finish
  <2>3. Current
    BY <2>1, <2>2, FinishedIsCurrent
  <2>4. Current'
    BY <1>1, <2>3, SameCurrent
  <2> QED
    BY <1>2, <2>4 DEF Owed
<1> QED
  BY <1>3, <1>4, <1>5 DEF Noted

\* A projection that fails keeps account of what is stale: that of a refresh
\* leaves its note, unless another refresh has cleared it.
LEMMA FailOwed ==
  ASSUME OwedInv, NEW a \in Actors, ProjectionFails(a)
  PROVE  (OneProjection /\ ProbeFits /\ Owed)'
<1> USE DEF OwedInv, LibType
<1>1. pc[a] \in Projecting /\ pc' = [pc EXCEPT ![a] = "idle"] /\ pending' = pending
  BY DEF ProjectionFails
<1>2. (OneProjection /\ ProbeFits)'
  BY <1>1, NoneProjecting
<1>3. CASE a \in {"start", "adapter", "worker"}
  BY <1>2, <1>3 DEF ProjectionFails, Owed
<1>4. CASE a \in Refreshers
  <2>1. CASE pending
    <3>1. failed' /\ pending'
      BY <1>1, <1>4, <2>1 DEF ProjectionFails
    <3> QED
      BY <1>2, <3>1 DEF Owed
  <2>2. CASE ~pending
    <3>1. excused'
      BY <1>4, <2>2 DEF ProjectionFails
    <3> QED
      BY <1>2, <3>1 DEF Owed
  <2> QED
    BY <2>1, <2>2
<1> QED
  BY <1>3, <1>4 DEF Actors

\* A refresh that clears the note does not clear what is still stale, unless it
\* was the note of one that has failed.
LEMMA ClearOwed ==
  ASSUME OwedInv, NEW r \in Refreshers, ClearPending(r)
  PROVE  (OneProjection /\ ProbeFits /\ Owed)'
<1> USE DEF OwedInv, LibType
<1>1. r \in Actors /\ pc[r] = "clearing" /\ pc' = [pc EXCEPT ![r] = "idle"]
      /\ UNCHANGED <<desired, file, shown, intents, probe, stage>> /\ excused' = (excused \/ failed)
  BY DEF ClearPending, Goto, stateVars, Actors
<1>2. \A b \in Actors : pc[b] \notin {"idle", "checking", "clearing"} => pc'[b] = pc[b]
  BY <1>1
<1>3. OneProjection'
  BY <1>1 DEF OneProjection, Projecting
<1>4. ProbeFits'
  <2>1. Noted => Noted'
    BY <1>1, <1>2 DEF Noted
  <2> QED
    BY <1>1, <2>1 DEF ProbeFits, Available
<1>5. Owed'
  <2>1. CASE failed
    BY <1>1, <2>1 DEF Owed
  <2>2. CASE ~failed
    <3>1. Current' = Current
      BY <1>1, SameCurrent
    <3> QED
      BY <1>1, <1>2, <2>2, <3>1 DEF Owed
  <2> QED
    BY <2>1, <2>2
<1> QED
  BY <1>3, <1>4, <1>5

\* A file that vanishes keeps account of what is stale.
LEMMA VanishOwed ==
  ASSUME OwedInv, NEW t \in Tracks, Vanish(t)
  PROVE  (OneProjection /\ ProbeFits /\ Owed)'
<1> USE DEF OwedInv, LibType
<1>1. UNCHANGED <<pc, pending, probe, intents>> /\ file' = [file EXCEPT ![t] = 0] /\ excused'
  BY DEF Vanish, runVars
<1>2. \A u \in Tracks : Available(u)' => Available(u) /\ file'[u] = file[u]
  BY <1>1 DEF Available
<1>3. ProbeFits'
  BY <1>1, <1>2 DEF ProbeFits, Noted
<1> QED
  BY <1>1, <1>3 DEF OneProjection, Owed

\* Every step keeps account of what is stale.
LEMMA StepOwed == OwedInv /\ [Next]_vars => OwedInv'
<1> SUFFICES ASSUME OwedInv, [Next]_vars PROVE (OneProjection /\ ProbeFits /\ Owed)'
  BY StepLibType DEF OwedInv
<1> DEFINE Good == OneProjection /\ ProbeFits /\ Owed
<1>1. ASSUME NEW s \in Candidates, Apply(s) PROVE Good'
  BY <1>1, CommitOwed DEF Apply, Commit, Owe, Actors
<1>2. ASSUME NEW t \in Tracks, Acquire(t) PROVE Good'
  BY <1>2, CommitOwed DEF Acquire, Commit, Owe, Actors
<1>3. ASSUME NEW a \in Actors, Project(a) PROVE Good'
  BY <1>3, ProjectingOwed, FinishOwed, FailOwed DEF Project
<1>4. CASE Start
  <2>1. stage' = "starting" /\ pc' = [pc EXCEPT !["start"] = "owed"]
    BY <1>4 DEF Start, Owe
  <2>2. Noted' /\ Owed' /\ OneProjection'
    BY <2>1 DEF OwedInv, LibType, Noted, Owed, OneProjection, Projecting, Actors
  <2>3. ProbeFits'
    BY <1>4, <2>1, <2>2 DEF Start, ProbeFits, OwedInv, LibType, stateVars
  <2> QED
    BY <2>2, <2>3
<1>5. CASE Crash
  <2>1. \A a \in Actors : pc'[a] = "idle"
    BY <1>5 DEF Crash
  <2>2. stage' = "down"
    BY <1>5 DEF Crash
  <2> QED
    BY <2>1, <2>2 DEF OneProjection, ProbeFits, Owed, Projecting
<1>6. CASE UNCHANGED <<stateVars, stage, shown, pending, pc, probe, histVars>>
  <2>1. Current' = Current
    BY <1>6, SameCurrent DEF stateVars
  <2> QED
    BY <1>6, <2>1 DEF OwedInv, OneProjection, ProbeFits, Owed, Noted, Available, stateVars, histVars
<1>7. CASE (MissingEnds \/ \E tracks \in SUBSET Tracks : MissingPage(tracks)) \/ UNCHANGED vars
  BY <1>6, <1>7 DEF MissingEnds, MissingPage, vars, runVars
<1> QED
  BY <1>1, <1>2, <1>3, <1>4, <1>5, <1>7, RefreshOwed, NoteOwed, ClearOwed, VanishOwed DEF Next

\* "A concurrent commit cannot publish a stale projection after its own
\* reconciliation" (playlists.go, materializePlaylists), for any desired states
\* and tracks and any number of concurrent metadata refreshes, but for the window
\* between two of them that StaleIsOwed names.
THEOREM StaleIsOwedCorrect == Spec => []StaleIsOwed
<1>1. OwedInv => StaleIsOwed
  <2>1. (\E a \in Actors : pc[a] \notin {"idle", "checking", "clearing"}) => \E a \in Actors : pc[a] # "idle"
    OBVIOUS
  <2> QED
    BY <2>1 DEF OwedInv, Owed, StaleIsOwed
<1>2. OwedInv /\ [Next]_vars => OwedInv'
  BY StepOwed
<1> QED
  BY InitOwed, <1>1, <1>2, PTL DEF Spec
=============================================================================
