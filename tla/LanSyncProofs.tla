---------------------------- MODULE LanSyncProofs ----------------------------
(***************************************************************************)
(* Proofs about LanSync, for any number of tracks, requests and slots.     *)
(***************************************************************************)
EXTENDS LanSync, FiniteSetTheorems, TLAPS

PCs == Slotted \cup {"idle", "admitted", "leaving"}
Counted == {r \in Requests : pc[r] # "idle"}
InSlot == {r \in Requests : pc[r] \in Slotted}

\* syncHandlers and syncSlots count what they stand for.
IInv ==
  /\ pc \in [Requests -> PCs] /\ held = [r \in Requests |-> held[r]]
  /\ active = Cardinality(Counted)
  /\ slots = Cardinality(InSlot) /\ slots <= Slots
  /\ stage = "down" => active = 0
  /\ \A r \in Requests : pc[r] \notin Slotted \ {"unslotting"} => held[r] = Empty

\* Sets of requests can be counted.
LEMMA CountFinite ==
  /\ IsFiniteSet(Counted) /\ IsFiniteSet(InSlot)
  /\ Cardinality(Counted) \in Nat /\ Cardinality(InSlot) \in Nat
  /\ Cardinality(Counted) = 0 <=> Counted = {}
  /\ Cardinality(InSlot) = 0 <=> InSlot = {}
<1>1. IsFiniteSet(Counted) /\ IsFiniteSet(InSlot)
  BY SyncAssumption, FS_Subset DEF SyncAssumption, Counted, InSlot
<1> QED
  BY <1>1, FS_EmptySet, FS_CardinalityType

\* A server without requests satisfies the invariant.
LEMMA InitInv == Init => IInv
<1> SUFFICES ASSUME Init PROVE IInv
  OBVIOUS
<1>1. Counted = {} /\ InSlot = {}
  BY DEF Init, Counted, InSlot, Slotted
<1> QED
  BY <1>1, FS_EmptySet, SyncAssumption DEF Init, IInv, PCs, Slotted, SyncAssumption

\* What one request that moves does to the two sets.
LEMMA MoveCounts ==
  \A r \in Requests, to \in PCs :
    pc \in [Requests -> PCs] /\ pc' = [pc EXCEPT ![r] = to] =>
      /\ pc' \in [Requests -> PCs]
      /\ pc[r] = "idle" /\ to # "idle" => Cardinality(Counted') = Cardinality(Counted) + 1
      /\ pc[r] # "idle" /\ to = "idle" => Cardinality(Counted') = Cardinality(Counted) - 1
      /\ (pc[r] = "idle" <=> to = "idle") => Cardinality(Counted') = Cardinality(Counted)
      /\ pc[r] \notin Slotted /\ to \in Slotted => Cardinality(InSlot') = Cardinality(InSlot) + 1
      /\ pc[r] \in Slotted /\ to \notin Slotted => Cardinality(InSlot') = Cardinality(InSlot) - 1
      /\ (pc[r] \in Slotted <=> to \in Slotted) => Cardinality(InSlot') = Cardinality(InSlot)
<1> SUFFICES ASSUME NEW r \in Requests, NEW to \in PCs,
                    pc \in [Requests -> PCs], pc' = [pc EXCEPT ![r] = to]
             PROVE  /\ pc[r] = "idle" /\ to # "idle" => Cardinality(Counted') = Cardinality(Counted) + 1
                    /\ pc[r] # "idle" /\ to = "idle" => Cardinality(Counted') = Cardinality(Counted) - 1
                    /\ (pc[r] = "idle" <=> to = "idle") => Cardinality(Counted') = Cardinality(Counted)
                    /\ pc[r] \notin Slotted /\ to \in Slotted => Cardinality(InSlot') = Cardinality(InSlot) + 1
                    /\ pc[r] \in Slotted /\ to \notin Slotted => Cardinality(InSlot') = Cardinality(InSlot) - 1
                    /\ (pc[r] \in Slotted <=> to \in Slotted) => Cardinality(InSlot') = Cardinality(InSlot)
  OBVIOUS
<1>1. Counted' = IF to = "idle" THEN Counted \ {r} ELSE Counted \cup {r}
  BY DEF Counted
<1>2. InSlot' = IF to \in Slotted THEN InSlot \cup {r} ELSE InSlot \ {r}
  BY DEF InSlot
<1>3. (r \in Counted <=> pc[r] # "idle") /\ (r \in InSlot <=> pc[r] \in Slotted)
  BY DEF Counted, InSlot
<1> QED
  BY <1>1, <1>2, <1>3, CountFinite, FS_AddElement, FS_RemoveElement

\* The steps of a request keep the slots balanced.
LEMMA RequestInv ==
  \A r \in Requests : IInv /\ (Arrive(r) \/ Step(r) \/ Abort(r)) => IInv'
<1> SUFFICES ASSUME NEW r \in Requests, IInv, Arrive(r) \/ Step(r) \/ Abort(r) PROVE IInv'
  OBVIOUS
<1> USE SyncAssumption, CountFinite DEF SyncAssumption, IInv, Slotted, PCs, At, Close, serverVars, reqVars
<1>1. CASE Arrive(r)
  <2> PICK to \in {"admitted", "leaving"} : pc' = [pc EXCEPT ![r] = to]
    BY <1>1 DEF Arrive
  <2> QED
    BY <1>1, MoveCounts DEF Arrive
<1>2. CASE TakeSlot(r)
  BY <1>2, MoveCounts DEF TakeSlot
<1>3. CASE Open(r)
  BY <1>3, MoveCounts DEF Open
<1>4. CASE Look(r)
  BY <1>4, MoveCounts DEF Look
<1>5. CASE Store(r)
  BY <1>5, MoveCounts DEF Store
<1>6. CASE Prune(r)
  BY <1>6, MoveCounts DEF Prune
<1>7. CASE AnswerAtOnce(r)
  BY <1>7, MoveCounts DEF AnswerAtOnce
<1>8. CASE Stream(r)
  BY <1>8, MoveCounts DEF Stream
<1>9. CASE Unslot(r)
  <2>1. /\ pc[r] = "unslotting" /\ pc' = [pc EXCEPT ![r] = "leaving"] /\ slots' = slots - 1
        /\ UNCHANGED <<stage, active, held>>
    BY <1>9 DEF Unslot
  <2>2. /\ Cardinality(InSlot') = Cardinality(InSlot) - 1 /\ Cardinality(Counted') = Cardinality(Counted)
        /\ pc' \in [Requests -> PCs]
    BY <2>1, MoveCounts
  <2>3. slots' = Cardinality(InSlot') /\ slots' <= Slots
    BY <2>1, <2>2
  <2> QED
    BY <2>1, <2>2, <2>3
<1>10. CASE Leave(r)
  <2>1. r \in Counted
    BY <1>10 DEF Leave, Counted
  <2>2. stage # "down"
    BY <2>1
  <2> QED
    BY <1>10, <2>2, MoveCounts DEF Leave
<1>11. CASE Abort(r)
  BY <1>11, MoveCounts DEF Abort
<1> QED
  BY <1>1, <1>2, <1>3, <1>4, <1>5, <1>6, <1>7, <1>8, <1>9, <1>10, <1>11 DEF Step

\* Every step keeps the invariant.
LEMMA StepInv == IInv /\ [Next]_vars => IInv'
<1> SUFFICES ASSUME IInv, [Next]_vars PROVE IInv'
  OBVIOUS
<1> USE DEF IInv, serverVars, reqVars
<1>1. UNCHANGED pc => Counted' = Counted /\ InSlot' = InSlot
  BY DEF Counted, InSlot
<1>2. ASSUME NEW r \in Requests, NEW t \in Tracks, NEW v \in Versions, AnswerFile(r, t, v) PROVE IInv'
  BY <1>2, MoveCounts, CountFinite DEF AnswerFile, At, Slotted, PCs
<1>3. ASSUME NEW t \in Tracks, Remove(t) \/ \E v \in Versions : Publish(t, v) PROVE IInv'
  BY <1>1, <1>3 DEF Remove, Publish
<1>4. ASSUME NEW t \in Tracks, NEW v \in Versions, EditInPlace(t, v) PROVE IInv'
  <2>1. \A r \in Requests : held[r] = Empty => held'[r] = Empty
    BY <1>4 DEF EditInPlace, Empty
  <2> QED
    BY <1>1, <1>4, <2>1 DEF EditInPlace
<1>5. CASE Start \/ Stop
  BY <1>1, <1>5 DEF Start, Stop
<1>6. CASE Stopped
  <2>1. Counted = {}
    BY <1>6, CountFinite DEF Stopped
  <2>2. InSlot = {}
    BY <2>1 DEF Counted, InSlot, Slotted
  <2> QED
    BY <1>1, <1>6, <2>1, <2>2, FS_EmptySet, SyncAssumption DEF Stopped, SyncAssumption
<1>7. CASE Crash
  <2>1. Counted' = {} /\ InSlot' = {}
    BY <1>7 DEF Crash, Counted, InSlot, Slotted
  <2> QED
    BY <1>7, <2>1, FS_EmptySet, SyncAssumption DEF Crash, SyncAssumption, PCs
<1>8. CASE UNCHANGED vars
  BY <1>1, <1>8 DEF vars
<1> QED
  BY <1>2, <1>3, <1>4, <1>5, <1>6, <1>7, <1>8, RequestInv DEF Next

\* The counts of slots and of requests in progress fit the requests that hold
\* them, for any number of requests and slots (sync.go, serveSync, stopLANSync).
THEOREM Invariant == Spec => []IInv
<1> QED
  BY InitInv, StepInv, PTL DEF Spec

\* However requests end, they give their slot back, and a full server admits no
\* more than its capacity (sync.go, serveSync and its deferred calls).
THEOREM SlotsAreCountedCorrect == Spec => []SlotsAreCounted
<1>1. IInv => SlotsAreCounted
  BY DEF IInv, InSlot, SlotsAreCounted
<1> QED
  BY <1>1, Invariant, PTL

\* stopLANSync waits for every request that was counted (sync.go, stopLANSync).
THEOREM NothingServedAfterStopCorrect == Spec => []NothingServedAfterStop
<1>1. IInv => NothingServedAfterStop
  BY CountFinite DEF IInv, Counted, Slotted, NothingServedAfterStop
<1> QED
  BY <1>1, Invariant, PTL

-----------------------------------------------------------------------------
\* The versions a request finds.
FileRecord == [inode : Inodes, bytes : Versions, edited : BOOLEAN]

\* Every file that is named or open.
Files == ({disk[t] : t \in Tracks} \ {None}) \cup UNION {Opened(r) : r \in Requests}

Typed ==
  /\ disk \in [Tracks -> FileRecord \cup {None}]
  /\ \A r \in Requests :
       DOMAIN held[r] \subseteq Tracks /\ \A t \in DOMAIN held[r] : held[r][t] \in FileRecord
  /\ DOMAIN vers = Requests /\ DOMAIN look = Requests /\ DOMAIN req = Requests /\ DOMAIN sent = Requests

\* An inode number in use is one file, under at most one managed path.
InodesFit ==
  /\ \A f, g \in Files : f.inode = g.inode => f = g
  /\ \A t, u \in Tracks :
       disk[t] # None /\ disk[u] # None /\ disk[t].inode = disk[u].inode => t = u

\* What is known of a file from an earlier stat and digest of that inode.
Knows(info, version, f) ==
  f.inode = info.inode =>
    (info.edited => f.edited) /\ (f.edited = info.edited => f.bytes = version)

CacheFits == \A t \in DOMAIN cache, f \in Files : Knows(cache[t].info, cache[t].version, f)

\* Of each request: where it has versions, what it hashes, what it sends.
Observing == {"looking", "hashing", "answering"}

VersionsFit(r) ==
  /\ pc[r] \notin Observing \cup {"streaming"} => DOMAIN vers[r] = {}
  /\ pc[r] \in Observing => DOMAIN vers[r] \subseteq DOMAIN held[r]
  /\ r \notin tainted => \A t \in DOMAIN vers[r] \cap DOMAIN held[r] : vers[r][t] = held[r][t].bytes

LookFits(r) ==
  pc[r] = "hashing" =>
    /\ look[r].track \in DOMAIN held[r]
    /\ held[r][look[r].track].inode = look[r].info.inode
    /\ Knows(look[r].info, look[r].digest, held[r][look[r].track])

SendFits(r) ==
  /\ pc[r] = "streaming" =>
       req[r].track \in DOMAIN held[r] \cap DOMAIN vers[r] /\ vers[r][req[r].track] = req[r].version
  /\ sent[r] # None => pc[r] = "unslotting" /\ (r \notin tainted => sent[r] = req[r].version)

VersionInv ==
  /\ Typed /\ InodesFit /\ CacheFits
  /\ \A r \in Requests : VersionsFit(r) /\ LookFits(r) /\ SendFits(r)

\* Before the first digest the cache says nothing.
LEMMA InitVersions == Init => VersionInv
<1> SUFFICES ASSUME Init PROVE VersionInv
  OBVIOUS
<1>1. \A r \in Requests : DOMAIN held[r] = {} /\ DOMAIN vers[r] = {}
  BY DEF Init, Empty
<1>2. Files = {}
  BY <1>1 DEF Init, Files, Opened
<1>3. DOMAIN cache = {}
  BY DEF Init, Empty
<1>4. Typed
  BY <1>1 DEF Init, Typed
<1>5. InodesFit /\ CacheFits
  BY <1>2, <1>3 DEF Init, InodesFit, CacheFits
<1>6. ASSUME NEW r \in Requests PROVE VersionsFit(r) /\ LookFits(r) /\ SendFits(r)
  BY <1>1 DEF Init, VersionsFit, LookFits, SendFits, Observing
<1> QED
  BY <1>4, <1>5, <1>6 DEF VersionInv

\* Closing descriptors and forgetting cached versions is always safe.
LEMMA FewerFiles ==
  /\ InodesFit /\ CacheFits /\ Files' \subseteq Files
  /\ \A t \in Tracks : disk'[t] \in {disk[t], None}
  /\ \A t \in DOMAIN cache' : t \in DOMAIN cache /\ cache'[t] = cache[t]
  => InodesFit' /\ CacheFits'
BY DEF InodesFit, CacheFits, Knows

\* A request that does nothing leaves what is known of it true.
LEMMA OthersFit ==
  \A r \in Requests :
    /\ VersionsFit(r) /\ LookFits(r) /\ SendFits(r)
    /\ pc'[r] = pc[r] /\ held'[r] = held[r] /\ vers'[r] = vers[r] /\ look'[r] = look[r]
    /\ req'[r] = req[r] /\ sent'[r] = sent[r] /\ (r \in tainted' <=> r \in tainted)
    => VersionsFit(r)' /\ LookFits(r)' /\ SendFits(r)'
BY DEF VersionsFit, LookFits, SendFits, Knows

\* A step that removes and closes files makes no new one.
LEMMA StillFiles ==
  /\ \A t \in Tracks : disk'[t] \in {disk[t], None}
  /\ \A r \in Requests : \A t \in DOMAIN held'[r] : held'[r][t] \in Files
  => Files' \subseteq Files
BY DEF Files, Opened

\* An open file is one of the files ever made.
LEMMA HeldIsFile ==
  /\ \A r \in Requests : \A t \in DOMAIN held[r] : held[r][t] \in Files
  /\ \A t \in Tracks : disk[t] # None => disk[t] \in Files
BY DEF Files, Opened

\* A step of one request that closes descriptors, or none, and stores nothing.
Closes(r) ==
  /\ UNCHANGED disk /\ DOMAIN held'[r] \subseteq DOMAIN held[r]
  /\ \A t \in DOMAIN held'[r] : held'[r][t] = held[r][t]
  /\ \A t \in DOMAIN cache' : t \in DOMAIN cache /\ cache'[t] = cache[t]

\* The other requests.
Alone(r) ==
  \A q \in Requests \ {r} :
    /\ pc'[q] = pc[q] /\ held'[q] = held[q] /\ vers'[q] = vers[q] /\ look'[q] = look[q]
    /\ req'[q] = req[q] /\ sent'[q] = sent[q] /\ (q \in tainted' <=> q \in tainted)

DomainsKept == DOMAIN vers' = Requests /\ DOMAIN look' = Requests /\ DOMAIN req' = Requests /\ DOMAIN sent' = Requests

\* A step that closes files keeps the versions true.
LEMMA ClosesVersions ==
  \A r \in Requests :
    /\ VersionInv /\ Closes(r) /\ Alone(r) /\ DomainsKept
    /\ VersionsFit(r)' /\ LookFits(r)' /\ SendFits(r)'
    => VersionInv'
<1> SUFFICES ASSUME NEW r \in Requests, VersionInv, Closes(r), Alone(r), DomainsKept,
                    VersionsFit(r)', LookFits(r)', SendFits(r)'
             PROVE  VersionInv'
  OBVIOUS
<1>1. \A q \in Requests : DOMAIN held'[q] \subseteq DOMAIN held[q]
        /\ \A t \in DOMAIN held'[q] : held'[q][t] = held[q][t]
  BY DEF Closes, Alone
<1>2. Files' \subseteq Files
  BY <1>1, HeldIsFile, StillFiles DEF Closes
<1>3. InodesFit' /\ CacheFits'
  BY <1>2, FewerFiles DEF VersionInv, Closes
<1>4. Typed'
  BY <1>1 DEF VersionInv, Typed, Closes, DomainsKept
<1>5. \A q \in Requests \ {r} : VersionsFit(q)' /\ LookFits(q)' /\ SendFits(q)'
  BY OthersFit DEF VersionInv, Alone
<1> QED
  BY <1>3, <1>4, <1>5 DEF VersionInv

\* The steps at both ends of a request, and an aborted one.
LEMMA QuietVersions ==
  \A r \in Requests :
    /\ IInv /\ VersionInv
    /\ Arrive(r) \/ TakeSlot(r) \/ AnswerAtOnce(r) \/ Unslot(r) \/ Leave(r) \/ Abort(r)
    => VersionInv'
<1> SUFFICES ASSUME NEW r \in Requests, IInv, VersionInv,
                    Arrive(r) \/ TakeSlot(r) \/ AnswerAtOnce(r) \/ Unslot(r) \/ Leave(r) \/ Abort(r)
             PROVE  VersionInv'
  OBVIOUS
<1>1. pc \in [Requests -> PCs] /\ DOMAIN held = Requests /\ Typed /\ VersionsFit(r) /\ LookFits(r) /\ SendFits(r)
  BY DEF IInv, VersionInv
<1>2. Closes(r) /\ Alone(r) /\ DomainsKept
  BY <1>1 DEF Closes, Alone, DomainsKept, Typed, Arrive, TakeSlot, AnswerAtOnce, Unslot, Leave, Abort, At, Close, serverVars, Empty
<1>3. VersionsFit(r)' /\ LookFits(r)' /\ SendFits(r)'
  <2> USE <1>1 DEF VersionsFit, LookFits, SendFits, Observing, At, Close, serverVars, Typed, Slotted, Empty
  <2>1. CASE Arrive(r) \/ TakeSlot(r)
    BY <2>1 DEF Arrive, TakeSlot
  <2>2. CASE AnswerAtOnce(r) \/ Abort(r)
    BY <2>2 DEF AnswerAtOnce, Abort
  <2>3. CASE Unslot(r)
    BY <2>3 DEF Unslot
  <2>4. CASE Leave(r)
    BY <2>4 DEF Leave
  <2> QED
    BY <2>1, <2>2, <2>3, <2>4
<1> QED
  BY <1>2, <1>3, ClosesVersions

\* The steps that find and send versions with the descriptors they have.
LEMMA FindingVersions ==
  \A r \in Requests :
    /\ IInv /\ VersionInv
    /\ Look(r) \/ Prune(r) \/ Stream(r) \/ \E t \in Tracks, v \in Versions : AnswerFile(r, t, v)
    => VersionInv'
<1> SUFFICES ASSUME NEW r \in Requests, IInv, VersionInv,
                    Look(r) \/ Prune(r) \/ Stream(r) \/ \E t \in Tracks, v \in Versions : AnswerFile(r, t, v)
             PROVE  VersionInv'
  OBVIOUS
<1>1. pc \in [Requests -> PCs] /\ DOMAIN held = Requests /\ Typed /\ VersionsFit(r) /\ LookFits(r) /\ SendFits(r)
  BY DEF IInv, VersionInv
<1> USE DEF At, Close, serverVars, Typed, Observing
<1>2. CASE Look(r)
  <2> PICK t \in DOMAIN held[r] \ DOMAIN vers[r] :
        LET f == held[r][t] IN
        \/ Cached(t, f) /\ Found(r, t, cache[t].version) /\ UNCHANGED <<pc, look>>
        \/ /\ ~Cached(t, f)
           /\ look' = [look EXCEPT ![r] = [track |-> t, info |-> Info(f), digest |-> f.bytes]]
           /\ pc' = [pc EXCEPT ![r] = "hashing"] /\ UNCHANGED vers
    BY <1>2 DEF Look
  <2> DEFINE f == held[r][t]
  <2>1. pc[r] = "looking" /\ UNCHANGED <<disk, cache, req, held, sent, tainted>>
    BY <1>2 DEF Look
  <2>2. f \in Files /\ f \in FileRecord
    BY <1>1, HeldIsFile
  <2>3. CASE Cached(t, f)
    <3>1. Found(r, t, cache[t].version) /\ UNCHANGED <<pc, look>>
      BY <2>3
    <3>2. cache[t].version = f.bytes
      BY <2>2, <2>3 DEF VersionInv, CacheFits, Knows, Cached, Info
    <3>3. Closes(r) /\ Alone(r) /\ DomainsKept
      BY <1>1, <2>1, <3>1 DEF Closes, Alone, DomainsKept, Found
    <3>4. VersionsFit(r)' /\ LookFits(r)' /\ SendFits(r)'
      BY <1>1, <2>1, <3>1, <3>2 DEF VersionsFit, LookFits, SendFits, Found
    <3> QED
      BY <3>3, <3>4, ClosesVersions
  <2>4. CASE ~Cached(t, f)
    <3>1. /\ look' = [look EXCEPT ![r] = [track |-> t, info |-> Info(f), digest |-> f.bytes]]
          /\ pc' = [pc EXCEPT ![r] = "hashing"] /\ UNCHANGED vers
      BY <2>4
    <3>2. Closes(r) /\ Alone(r) /\ DomainsKept
      BY <1>1, <2>1, <3>1 DEF Closes, Alone, DomainsKept
    <3>3. VersionsFit(r)' /\ SendFits(r)'
      BY <1>1, <2>1, <3>1 DEF VersionsFit, SendFits
    <3>4. LookFits(r)'
      BY <1>1, <2>1, <2>2, <3>1 DEF LookFits, Knows, Info
    <3> QED
      BY <3>2, <3>3, <3>4, ClosesVersions
  <2> QED
    BY <2>3, <2>4
<1>3. CASE Prune(r)
  <2>1. Closes(r) /\ Alone(r) /\ DomainsKept
    BY <1>1, <1>3 DEF Prune, Closes, Alone, DomainsKept
  <2>2. VersionsFit(r)' /\ LookFits(r)' /\ SendFits(r)'
    BY <1>1, <1>3 DEF Prune, VersionsFit, LookFits, SendFits
  <2> QED
    BY <2>1, <2>2, ClosesVersions
<1>4. CASE Stream(r)
  <2>1. Closes(r) /\ Alone(r) /\ DomainsKept
    BY <1>1, <1>4 DEF Stream, Closes, Alone, DomainsKept, Empty
  <2>2. VersionsFit(r)' /\ LookFits(r)' /\ SendFits(r)'
    BY <1>1, <1>4 DEF Stream, VersionsFit, LookFits, SendFits, Empty
  <2> QED
    BY <2>1, <2>2, ClosesVersions
<1>5. ASSUME NEW t \in Tracks, NEW v \in Versions, AnswerFile(r, t, v) PROVE VersionInv'
  <2>1. t \in DOMAIN held[r]
    BY <1>1, <1>5 DEF AnswerFile, VersionsFit
  <2>2. Closes(r) /\ Alone(r) /\ DomainsKept
    BY <1>1, <1>5, <2>1 DEF AnswerFile, Closes, Alone, DomainsKept
  <2>3. VersionsFit(r)' /\ LookFits(r)' /\ SendFits(r)'
    BY <1>1, <1>5, <2>1 DEF AnswerFile, VersionsFit, LookFits, SendFits
  <2> QED
    BY <2>2, <2>3, ClosesVersions
<1> QED
  BY <1>2, <1>3, <1>4, <1>5

\* The digest that Store keeps is that of the file with this stat, whoever asks.
LEMMA StoreVersions == \A r \in Requests : IInv /\ VersionInv /\ Store(r) => VersionInv'
<1> SUFFICES ASSUME NEW r \in Requests, IInv, VersionInv, Store(r) PROVE VersionInv'
  OBVIOUS
<1> USE DEF Typed, Observing
<1>1. pc \in [Requests -> PCs] /\ DOMAIN held = Requests /\ Typed /\ VersionsFit(r) /\ LookFits(r) /\ SendFits(r)
  BY DEF IInv, VersionInv
<1>2. /\ pc[r] = "hashing" /\ UNCHANGED <<disk, req, sent, tainted>>
      /\ look' = [look EXCEPT ![r] = NoLook]
  BY DEF Store
<1>3. CASE ~Unchanged(r)
  <2>1. /\ pc' = [pc EXCEPT ![r] = "unslotting"] /\ held' = [held EXCEPT ![r] = Empty]
        /\ vers' = [vers EXCEPT ![r] = Empty] /\ UNCHANGED cache
    BY <1>3 DEF Store, Close
  <2>2. Closes(r) /\ Alone(r) /\ DomainsKept
    BY <1>1, <1>2, <2>1 DEF Closes, Alone, DomainsKept, Empty
  <2>3. VersionsFit(r)' /\ LookFits(r)' /\ SendFits(r)'
    BY <1>1, <1>2, <2>1 DEF VersionsFit, LookFits, SendFits, Empty
  <2> QED
    BY <2>2, <2>3, ClosesVersions
<1>4. CASE Unchanged(r)
  <2> DEFINE t == look[r].track
             f == held[r][t]
             version == look[r].digest
             entry == [info |-> look[r].info, version |-> version]
  <2>1. /\ cache' = [u \in DOMAIN cache \cup {t} |-> IF u = t THEN entry ELSE cache[u]]
        /\ Found(r, t, version) /\ pc' = [pc EXCEPT ![r] = "looking"] /\ UNCHANGED held
    BY <1>4 DEF Store
  <2>2. /\ t \in DOMAIN held[r] /\ f \in Files /\ f \in FileRecord
        /\ look[r].info = Info(f) /\ version = f.bytes
    BY <1>1, <1>2, <1>4, HeldIsFile DEF LookFits, Unchanged, Knows, Info
  <2>3. UNCHANGED Files
    BY <1>2, <2>1 DEF Files, Opened
  <2>4. InodesFit'
    BY <1>2, <2>3 DEF VersionInv, InodesFit
  <2>5. \A g \in Files : Knows(look[r].info, version, g)
    BY <2>2 DEF VersionInv, InodesFit, Knows, Info
  <2>6. CacheFits'
    <3> SUFFICES ASSUME NEW u \in DOMAIN cache', NEW g \in Files
                 PROVE  Knows(cache'[u].info, cache'[u].version, g)
      BY <2>3 DEF CacheFits, Knows
    <3>1. CASE u = t
      BY <2>1, <2>5, <3>1
    <3>2. CASE u # t
      BY <2>1, <3>2 DEF VersionInv, CacheFits
    <3> QED
      BY <3>1, <3>2
  <2>7. Alone(r) /\ DomainsKept
    BY <1>1, <1>2, <2>1 DEF Alone, DomainsKept, Found
  <2>8. Typed'
    BY <1>1, <1>2, <2>1, <2>7 DEF DomainsKept
  <2>9. VersionsFit(r)' /\ LookFits(r)' /\ SendFits(r)'
    BY <1>1, <1>2, <2>1, <2>2 DEF VersionsFit, LookFits, SendFits, Found
  <2>10. \A q \in Requests \ {r} : VersionsFit(q)' /\ LookFits(q)' /\ SendFits(q)'
    BY <2>7, OthersFit DEF VersionInv, Alone
  <2> QED
    BY <2>4, <2>6, <2>8, <2>9, <2>10 DEF VersionInv
<1> QED
  BY <1>3, <1>4

\* Opening a file keeps the versions true.
LEMMA OpenVersions == \A r \in Requests : IInv /\ VersionInv /\ Open(r) => VersionInv'
<1> SUFFICES ASSUME NEW r \in Requests, IInv, VersionInv, Open(r) PROVE VersionInv'
  OBVIOUS
<1> USE DEF Typed, Observing, At, serverVars
<1>1. pc \in [Requests -> PCs] /\ DOMAIN held = Requests /\ Typed /\ VersionsFit(r) /\ LookFits(r) /\ SendFits(r)
  BY DEF IInv, VersionInv
<1>2. \A q \in Requests : q # r => held'[q] = held[q]
  BY <1>1 DEF Open
<1>3. /\ DOMAIN held'[r] = {u \in Tracks : disk[u] # None}
      /\ \A t \in DOMAIN held'[r] : held'[r][t] = disk[t]
  BY <1>1 DEF Open
<1>4. Files' \subseteq Files
  BY <1>2, <1>3, HeldIsFile, StillFiles DEF Open
<1>5. InodesFit' /\ CacheFits'
  BY <1>4, FewerFiles DEF Open, VersionInv
<1>6. Typed'
  BY <1>1, <1>2, <1>3 DEF Open
<1>7. VersionsFit(r)' /\ LookFits(r)' /\ SendFits(r)'
  BY <1>1, <1>3 DEF Open, VersionsFit, LookFits, SendFits
<1>8. Alone(r)
  BY <1>1, <1>2 DEF Open, Alone
<1>9. \A q \in Requests \ {r} : VersionsFit(q)' /\ LookFits(q)' /\ SendFits(q)'
  BY <1>8, OthersFit DEF VersionInv, Alone
<1> QED
  BY <1>5, <1>6, <1>7, <1>9 DEF VersionInv

\* Steps that leave the requests alone leave what they know alone.
LEMMA RequestsKept ==
  VersionInv /\ UNCHANGED reqVars => \A r \in Requests : VersionsFit(r)' /\ LookFits(r)' /\ SendFits(r)'
BY OthersFit DEF VersionInv, reqVars

\* A new file has a number that nothing remembers.
LEMMA PublishVersions ==
  \A t \in Tracks, v \in Versions : VersionInv /\ Publish(t, v) => VersionInv'
<1> SUFFICES ASSUME NEW t \in Tracks, NEW v \in Versions, VersionInv, Publish(t, v) PROVE VersionInv'
  OBVIOUS
<1> PICK i \in Unused : disk' = [disk EXCEPT ![t] = [inode |-> i, bytes |-> v, edited |-> FALSE]]
  BY DEF Publish
<1> DEFINE new == [inode |-> i, bytes |-> v, edited |-> FALSE]
<1>1. Typed /\ UNCHANGED <<serverVars, reqVars>>
  BY DEF Publish, VersionInv
<1>2. \A u \in Tracks : disk'[u] = IF u = t THEN new ELSE disk[u]
  BY <1>1 DEF Typed
<1>3. UNION {Opened(r) : r \in Requests}' = UNION {Opened(r) : r \in Requests}
  BY <1>1 DEF Opened, reqVars
<1>4. Files' \subseteq Files \cup {new}
  BY <1>2, <1>3 DEF Files
<1>5. /\ i \in Inodes /\ \A f \in Files : f.inode # i
      /\ \A u \in DOMAIN cache : cache[u].info.inode # i
  BY DEF Unused, Files
<1>6. new.inode = i /\ new \in FileRecord
  BY <1>5 DEF FileRecord
<1> HIDE DEF new
<1>7. \A f, g \in Files' : f.inode = g.inode => f = g
  BY <1>4, <1>5, <1>6 DEF VersionInv, InodesFit
<1>8. \A u, w \in Tracks :
        disk'[u] # None /\ disk'[w] # None /\ disk'[u].inode = disk'[w].inode => u = w
  BY <1>2, <1>5, <1>6, HeldIsFile DEF VersionInv, InodesFit
<1>9. CacheFits'
  BY <1>1, <1>4, <1>5, <1>6 DEF VersionInv, CacheFits, Knows, serverVars
<1>10. Typed'
  BY <1>1, <1>2, <1>6 DEF Typed, Publish, reqVars
<1> QED
  BY <1>1, <1>7, <1>8, <1>9, <1>10, RequestsKept DEF VersionInv, InodesFit

\* Removing a track's file keeps the versions true.
LEMMA RemoveVersions == \A t \in Tracks : VersionInv /\ Remove(t) => VersionInv'
<1> SUFFICES ASSUME NEW t \in Tracks, VersionInv, Remove(t) PROVE VersionInv'
  OBVIOUS
<1>1. Typed /\ UNCHANGED <<serverVars, reqVars>> /\ \A u \in Tracks : disk'[u] \in {disk[u], None}
  BY DEF Remove, VersionInv, Typed
<1>2. Files' \subseteq Files
  BY <1>1, HeldIsFile, StillFiles DEF reqVars
<1>3. InodesFit' /\ CacheFits'
  BY <1>1, <1>2, FewerFiles DEF VersionInv, serverVars
<1>4. Typed'
  BY <1>1 DEF Typed, Remove, reqVars
<1> QED
  BY <1>1, <1>3, <1>4, RequestsKept DEF VersionInv

\* An edit changes the stat of the inode and taints every request that has it open.
LEMMA EditVersions ==
  \A t \in Tracks, v \in Versions : VersionInv /\ EditInPlace(t, v) => VersionInv'
<1> SUFFICES ASSUME NEW t \in Tracks, NEW v \in Versions, VersionInv, EditInPlace(t, v) PROVE VersionInv'
  OBVIOUS
<1> DEFINE old == disk[t]
           new == [disk[t] EXCEPT !.bytes = v, !.edited = TRUE]
<1>1. /\ Typed /\ old # None /\ old \in FileRecord /\ ~old.edited /\ old \in Files
  BY HeldIsFile DEF VersionInv, Typed, EditInPlace
<1>2. /\ disk' = [disk EXCEPT ![t] = new]
      /\ held' = [r \in Requests |-> [u \in DOMAIN held[r] |-> IF held[r][u] = old THEN new ELSE held[r][u]]]
      /\ tainted' = tainted \cup {r \in Requests : old \in Opened(r)}
      /\ UNCHANGED <<serverVars, pc, req, vers, look, sent>>
  BY DEF EditInPlace
<1>3. new \in FileRecord /\ new.inode = old.inode /\ new.edited = TRUE
  BY <1>1 DEF FileRecord
<1>4. \A f \in Files : f.inode = old.inode <=> f = old
  BY <1>1 DEF VersionInv, InodesFit
<1>5. \A u \in Tracks : disk'[u] = IF u = t THEN new ELSE disk[u]
  BY <1>1, <1>2 DEF Typed
<1>6. \A r \in Requests : /\ DOMAIN held'[r] = DOMAIN held[r]
        /\ \A u \in DOMAIN held[r] : held'[r][u] = IF held[r][u] = old THEN new ELSE held[r][u]
  BY <1>2
<1> HIDE DEF new
<1>7. \A u \in Tracks : u # t => disk[u] # old
  BY <1>1 DEF VersionInv, InodesFit
<1>8. Files' \subseteq {f \in Files : f # old} \cup {new}
  <2>1. \A u \in Tracks : disk'[u] # None => disk'[u] = new \/ (disk'[u] \in Files /\ disk'[u] # old)
    BY <1>5, <1>7, HeldIsFile
  <2>2. \A r \in Requests : \A u \in DOMAIN held'[r] :
          held'[r][u] = new \/ (held'[r][u] \in Files /\ held'[r][u] # old)
    BY <1>6, HeldIsFile
  <2> QED
    BY <2>1, <2>2 DEF Files, Opened
<1>9. InodesFit'
  <2>1. \A f, g \in Files' : f.inode = g.inode => f = g
    BY <1>3, <1>4, <1>8 DEF VersionInv, InodesFit
  <2>2. \A u, w \in Tracks :
          disk'[u] # None /\ disk'[w] # None /\ disk'[u].inode = disk'[w].inode => u = w
    BY <1>1, <1>3, <1>5 DEF VersionInv, InodesFit
  <2> QED
    BY <2>1, <2>2 DEF InodesFit
<1>10. CacheFits'
  <2> SUFFICES ASSUME NEW u \in DOMAIN cache, NEW f \in Files' PROVE Knows(cache[u].info, cache[u].version, f)
    BY <1>2 DEF CacheFits, Knows, serverVars
  <2>1. CASE f \in Files
    BY <2>1 DEF VersionInv, CacheFits
  <2>2. CASE f = new
    <3>1. Knows(cache[u].info, cache[u].version, old)
      BY <1>1 DEF VersionInv, CacheFits
    <3> QED
      BY <1>1, <1>3, <2>2, <3>1 DEF Knows
  <2> QED
    BY <1>8, <2>1, <2>2
<1>11. Typed'
  BY <1>1, <1>2, <1>3, <1>5, <1>6 DEF Typed
<1>12. ASSUME NEW r \in Requests PROVE VersionsFit(r)' /\ LookFits(r)' /\ SendFits(r)'
  <2>1. VersionsFit(r) /\ LookFits(r) /\ SendFits(r)
    BY DEF VersionInv
  <2>2. VersionsFit(r)'
    BY <1>2, <1>6, <2>1 DEF VersionsFit, Opened
  <2>3. LookFits(r)'
    BY <1>1, <1>2, <1>3, <1>6, <2>1 DEF LookFits, Knows
  <2>4. SendFits(r)'
    BY <1>2, <1>6, <2>1 DEF SendFits
  <2> QED
    BY <2>2, <2>3, <2>4
<1> QED
  BY <1>9, <1>10, <1>11, <1>12 DEF VersionInv

\* Every step keeps the versions true.
LEMMA StepVersions == IInv /\ VersionInv /\ [Next]_vars => VersionInv'
<1> SUFFICES ASSUME IInv, VersionInv, [Next]_vars PROVE VersionInv'
  OBVIOUS
<1>1. UNCHANGED <<disk, reqVars>> /\ (UNCHANGED cache \/ cache' = Empty) => VersionInv'
  <2> SUFFICES ASSUME UNCHANGED <<disk, reqVars>>, UNCHANGED cache \/ cache' = Empty PROVE VersionInv'
    OBVIOUS
  <2>1. Files' = Files
    BY DEF Files, Opened, reqVars
  <2>2. \A t \in DOMAIN cache' : t \in DOMAIN cache /\ cache'[t] = cache[t]
    BY DEF Empty
  <2>3. InodesFit' /\ CacheFits'
    BY <2>1, <2>2, FewerFiles DEF VersionInv
  <2>4. Typed'
    BY DEF VersionInv, Typed, reqVars
  <2> QED
    BY <2>3, <2>4, RequestsKept DEF VersionInv
<1>2. CASE Start \/ Stop \/ Stopped \/ UNCHANGED vars
  BY <1>1, <1>2 DEF Start, Stop, Stopped, vars, serverVars
<1>3. CASE Crash
  <2>1. \A r \in Requests : DOMAIN held'[r] = {} /\ DOMAIN vers'[r] = {}
    BY <1>3 DEF Crash, Empty
  <2>2. Files' \subseteq Files
    BY <1>3, <2>1, StillFiles DEF Crash
  <2>3. DOMAIN cache' = {}
    BY <1>3 DEF Crash, Empty
  <2>4. InodesFit' /\ CacheFits'
    BY <1>3, <2>2, <2>3, FewerFiles DEF Crash, VersionInv
  <2>5. Typed'
    BY <1>3, <2>1 DEF Crash, VersionInv, Typed
  <2>6. ASSUME NEW r \in Requests PROVE VersionsFit(r)' /\ LookFits(r)' /\ SendFits(r)'
    BY <1>3, <2>1 DEF Crash, VersionsFit, LookFits, SendFits, Observing
  <2> QED
    BY <2>4, <2>5, <2>6 DEF VersionInv
<1>4. ASSUME NEW r \in Requests,
             \/ Arrive(r) \/ Step(r) \/ Abort(r)
             \/ \E t \in Tracks, v \in Versions : AnswerFile(r, t, v)
      PROVE  VersionInv'
  BY <1>4, QuietVersions, OpenVersions, FindingVersions, StoreVersions DEF Step
<1> QED
  BY <1>2, <1>3, <1>4, PublishVersions, RemoveVersions, EditVersions DEF Next

\* Whatever is replaced, whoever filled the cache, a phone gets the bytes of the
\* version it asked for (sync.go, observeSync, syncVersion and serveSync).
THEOREM ServesRequestedVersionCorrect == Spec => []ServesRequestedVersion
<1>1. VersionInv => ServesRequestedVersion
  BY DEF VersionInv, VersionsFit, SendFits, ServesRequestedVersion
<1> QED
  BY <1>1, InitVersions, StepVersions, Invariant, PTL DEF Spec
=============================================================================
