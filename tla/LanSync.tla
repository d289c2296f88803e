------------------------------- MODULE LanSync -------------------------------
(***************************************************************************)
(* The desktop half of LAN sync (internal/app/sync.go, internal/lansync):  *)
(* concurrent HTTPS requests authenticate with the phone credential, take  *)
(* one of a few slots, open the desired playable files under managedMu,    *)
(* and after releasing it hash them - or find their versions in a cache    *)
(* shared by all requests - before they send a manifest or one file.       *)
(* Meanwhile files are replaced and removed, and the daemon stops, dies    *)
(* and starts again.  Which credential is current is Lifecycle's matter.   *)
(*                                                                         *)
(* A file is an inode: its number, its bytes - which are its content       *)
(* version - and whether it was edited in place.  What stat(2) tells of it *)
(* - identity, size, mtime, ctime - changes with an edit and when it       *)
(* leaves its name.                                                        *)
(***************************************************************************)
EXTENDS Integers, FiniteSets

CONSTANTS
  Tracks,     \* desired tracks
  Versions,   \* the bytes a file may have
  Requests,   \* requests handled at a time, each number used again
  Slots,      \* capacity of syncSlots
  Inodes,     \* inode numbers, enough for every reference
  None

ASSUME SyncAssumption ==
  /\ Slots \in Nat \ {0} /\ IsFiniteSet(Requests)
  /\ None \notin Versions

VARIABLES
  disk,      \* the file at each track's managed path, None if missing or not desired
  stage,     \* of the server: down, up, stopping
  active,    \* syncHandlers
  slots,     \* entries of syncSlots
  cache,     \* syncCache: what was hashed for each track
  pc, req,   \* each request: where it is, the file and version it downloads
  held,      \* the descriptors of its observation
  vers,      \* the versions found so far
  look,      \* the track being hashed, its stat result before, its digest
  sent,      \* the bytes of a download
  tainted    \* requests of which a file was edited in place

serverVars == <<stage, active, slots, cache>>
reqVars == <<pc, req, held, vers, look, sent, tainted>>
vars == <<disk, serverVars, reqVars>>

Empty == [t \in {} |-> None]
NoLook == [track |-> None, info |-> None, digest |-> None]
NoReq == [track |-> None, version |-> None]
Slotted == {"opening", "looking", "hashing", "answering", "streaming", "unslotting"}

\* Slip: only identity, size and modification time are compared.
InfoWithoutChangeTime(f) == [inode |-> f.inode]

\* What sameSyncFile compares.
Info(f) == [inode |-> f.inode, edited |-> f.edited, linked |-> f \in {disk[t] : t \in Tracks}]

\* A number the file system uses again comes with a new change time: it counts
\* as a new one while a name, a descriptor or a cached stat has the old.
Opened(r) == {held[r][t] : t \in DOMAIN held[r]}
Unused ==
  LET named == {disk[t] : t \in Tracks} \ {None}
      open == UNION {Opened(r) : r \in Requests}
  IN Inodes \ ({f.inode : f \in named \cup open} \cup {cache[t].info.inode : t \in DOMAIN cache})

Init ==
  /\ disk = [t \in Tracks |-> None]
  /\ stage = "down" /\ active = 0 /\ slots = 0 /\ cache = Empty
  /\ pc = [r \in Requests |-> "idle"] /\ req = [r \in Requests |-> NoReq]
  /\ held = [r \in Requests |-> Empty] /\ vers = [r \in Requests |-> Empty]
  /\ look = [r \in Requests |-> NoLook] /\ sent = [r \in Requests |-> None] /\ tainted = {}

-----------------------------------------------------------------------------
(* A request: serveSync and observeSync. *)

At(r, from, to) == pc[r] = from /\ pc' = [pc EXCEPT ![r] = to]

\* observation.close, on the way out of an observation or an answer.
Close(r) == held' = [held EXCEPT ![r] = Empty] /\ vers' = [vers EXCEPT ![r] = Empty]

\* Slip: the request is counted only once it has a slot.
ArriveUncounted(r) ==
  /\ pc[r] = "idle" /\ stage = "up"
  /\ pc' \in {[pc EXCEPT ![r] = step] : step \in {"admitted", "leaving"}}
  /\ UNCHANGED <<disk, serverVars, req, held, vers, look, sent, tainted>>

\* Under syncMu: a stopping server refuses, another counts the request; one
\* without the current credential, or malformed, gets no further.
Arrive(r) ==
  /\ pc[r] = "idle" /\ stage = "up"
  /\ pc' \in {[pc EXCEPT ![r] = step] : step \in {"admitted", "leaving"}}
  /\ active' = active + 1
  /\ UNCHANGED <<disk, stage, slots, cache, req, held, vers, look, sent, tainted>>

\* A full server refuses without waiting.
TakeSlot(r) ==
  /\ pc[r] = "admitted"
  /\ \/ slots < Slots /\ slots' = slots + 1 /\ pc' = [pc EXCEPT ![r] = "opening"]
     \/ slots >= Slots /\ UNCHANGED slots /\ pc' = [pc EXCEPT ![r] = "leaving"]
  /\ UNCHANGED <<disk, stage, active, cache, req, held, vers, look, sent, tainted>>

\* Under managedMu: the desired files that exist are opened.
Open(r) ==
  /\ At(r, "opening", "looking")
  /\ held' = [held EXCEPT ![r] = [t \in {u \in Tracks : disk[u] # None} |-> disk[t]]]
  /\ UNCHANGED <<disk, serverVars, req, vers, look, sent, tainted>>

Found(r, t, v) == vers' = [vers EXCEPT ![r] = [u \in DOMAIN @ \cup {t} |-> IF u = t THEN v ELSE @[u]]]

Cached(t, f) == t \in DOMAIN cache /\ cache[t].info = Info(f)

\* The next file: stat, then the cache under syncCacheMu, then a digest of the
\* bytes, which may already have changed again when it is known.
Look(r) ==
  /\ pc[r] = "looking"
  /\ \E t \in DOMAIN held[r] \ DOMAIN vers[r] :
       LET f == held[r][t] IN
       \/ Cached(t, f) /\ Found(r, t, cache[t].version) /\ UNCHANGED <<pc, look>>
       \/ /\ ~Cached(t, f)
          /\ look' = [look EXCEPT ![r] = [track |-> t, info |-> Info(f), digest |-> f.bytes]]
          /\ pc' = [pc EXCEPT ![r] = "hashing"] /\ UNCHANGED vers
  /\ UNCHANGED <<disk, serverVars, req, held, sent, tainted>>

\* The digest counts, for this request and for the cache, only if the file was
\* the same before and after; otherwise the observation fails.
Unchanged(r) == Info(held[r][look[r].track]) = look[r].info

Store(r) ==
  /\ pc[r] = "hashing"
  /\ look' = [look EXCEPT ![r] = NoLook]
  /\ IF Unchanged(r)
     THEN LET t == look[r].track
              entry == [info |-> look[r].info, version |-> look[r].digest] IN
          /\ cache' = [u \in DOMAIN cache \cup {t} |-> IF u = t THEN entry ELSE cache[u]]
          /\ Found(r, t, look[r].digest)
          /\ pc' = [pc EXCEPT ![r] = "looking"] /\ UNCHANGED held
     ELSE pc' = [pc EXCEPT ![r] = "unslotting"] /\ Close(r) /\ UNCHANGED cache
  /\ UNCHANGED <<disk, stage, active, slots, req, sent, tainted>>

\* Versions of files this observation did not see are forgotten.
Prune(r) ==
  /\ At(r, "looking", "answering") /\ DOMAIN vers[r] = DOMAIN held[r]
  /\ cache' = [t \in DOMAIN cache \cap DOMAIN held[r] |-> cache[t]]
  /\ UNCHANGED <<disk, stage, active, slots, req, held, vers, look, sent, tainted>>

\* Slip: the early return forgets the slot.
AnswerKeepingSlot(r) ==
  /\ At(r, "answering", "leaving") /\ Close(r)
  /\ UNCHANGED <<disk, serverVars, req, look, sent, tainted>>

\* What the request asks for matters only now: the manifest, an unknown file
\* (404) and another version (409) are answered at once, ...
AnswerAtOnce(r) ==
  /\ At(r, "answering", "unslotting") /\ Close(r)
  /\ UNCHANGED <<disk, serverVars, req, look, sent, tainted>>

\* ... the version that was found is sent from the open descriptor, after the
\* other descriptors are closed.
AnswerFile(r, t, v) ==
  /\ At(r, "answering", "streaming")
  /\ t \in DOMAIN vers[r] /\ vers[r][t] = v
  /\ req' = [req EXCEPT ![r] = [track |-> t, version |-> v]]
  /\ held' = [held EXCEPT ![r] = [u \in {t} |-> @[u]]]
  /\ UNCHANGED <<disk, serverVars, vers, look, sent, tainted>>

Stream(r) ==
  /\ At(r, "streaming", "unslotting") /\ Close(r)
  /\ sent' = [sent EXCEPT ![r] = held[r][req[r].track].bytes]
  /\ UNCHANGED <<disk, serverVars, req, look, tainted>>

\* A cancelled context, the deadline, an I/O error or a phone that hangs up.
Abort(r) ==
  /\ pc[r] \in {"opening", "looking", "hashing", "answering", "streaming"}
  /\ pc' = [pc EXCEPT ![r] = "unslotting"] /\ Close(r)
  /\ look' = [look EXCEPT ![r] = NoLook]
  /\ UNCHANGED <<disk, serverVars, req, sent, tainted>>

\* The other deferred calls: the slot is given back, then Done.
Unslot(r) ==
  /\ At(r, "unslotting", "leaving")
  /\ slots' = slots - 1
  /\ req' = [req EXCEPT ![r] = NoReq] /\ sent' = [sent EXCEPT ![r] = None] /\ tainted' = tainted \ {r}
  /\ UNCHANGED <<disk, stage, active, cache, held, vers, look>>

Leave(r) ==
  /\ At(r, "leaving", "idle")
  /\ active' = active - 1
  /\ UNCHANGED <<disk, stage, slots, cache, req, held, vers, look, sent, tainted>>

Step(r) ==
  \/ TakeSlot(r) \/ Open(r) \/ Look(r) \/ Store(r) \/ Prune(r)
  \/ AnswerAtOnce(r) \/ Stream(r) \/ Unslot(r) \/ Leave(r)

-----------------------------------------------------------------------------
(* The files, which acquisition and metadata refresh publish atomically under *)
(* managedMu, and which a careless program edits in place.                   *)

Publish(t, v) ==
  /\ \E i \in Unused : disk' = [disk EXCEPT ![t] = [inode |-> i, bytes |-> v, edited |-> FALSE]]
  /\ UNCHANGED <<serverVars, reqVars>>

Remove(t) ==
  /\ disk[t] # None /\ disk' = [disk EXCEPT ![t] = None]
  /\ UNCHANGED <<serverVars, reqVars>>

\* Every descriptor of the file sees the edit.
EditInPlace(t, v) ==
  /\ disk[t] # None /\ ~disk[t].edited
  /\ LET old == disk[t]
         new == [old EXCEPT !.bytes = v, !.edited = TRUE] IN
     /\ disk' = [disk EXCEPT ![t] = new]
     /\ held' = [r \in Requests |-> [u \in DOMAIN held[r] |-> IF held[r][u] = old THEN new ELSE held[r][u]]]
     /\ tainted' = tainted \cup {r \in Requests : old \in Opened(r)}
  /\ UNCHANGED <<serverVars, pc, req, vers, look, sent>>

-----------------------------------------------------------------------------
(* The server: startLANSync, stopLANSync, and the death of the daemon. *)

Start ==
  /\ stage = "down" /\ stage' = "up"
  /\ UNCHANGED <<disk, active, slots, cache, reqVars>>

\* No new request is counted; those that run are cancelled and cut off ...
Stop ==
  /\ stage = "up" /\ stage' = "stopping"
  /\ UNCHANGED <<disk, active, slots, cache, reqVars>>

\* ... and waited for.
Stopped ==
  /\ stage = "stopping" /\ active = 0
  /\ stage' = "down" /\ slots' = 0 /\ cache' = Empty
  /\ UNCHANGED <<disk, active, reqVars>>

Crash ==
  /\ stage # "down"
  /\ stage' = "down" /\ slots' = 0 /\ cache' = Empty /\ active' = 0
  /\ pc' = [r \in Requests |-> "idle"] /\ req' = [r \in Requests |-> NoReq]
  /\ held' = [r \in Requests |-> Empty] /\ vers' = [r \in Requests |-> Empty]
  /\ look' = [r \in Requests |-> NoLook] /\ sent' = [r \in Requests |-> None] /\ tainted' = {}
  /\ UNCHANGED disk

Next ==
  \/ \E r \in Requests :
       \/ Arrive(r) \/ Step(r) \/ Abort(r)
       \/ \E t \in Tracks, v \in Versions : AnswerFile(r, t, v)
  \/ \E t \in Tracks : Remove(t) \/ \E v \in Versions : Publish(t, v) \/ EditInPlace(t, v)
  \/ Start \/ Stop \/ Stopped \/ Crash

Spec == Init /\ [][Next]_vars

-----------------------------------------------------------------------------
(* Properties. *)

\* "It serves exactly the requested version or rejects it": every byte sent is
\* of the requested version, and every version advertised or compared is that
\* of the open descriptor - whoever filled the cache, whatever was replaced
\* since - unless the file was edited in place under the request.
ServesRequestedVersion ==
  \A r \in Requests \ tainted :
    /\ sent[r] # None => sent[r] = req[r].version
    /\ \A t \in DOMAIN vers[r] \cap DOMAIN held[r] : vers[r][t] = held[r][t].bytes

\* Every return path gives its slot back, and a full server admits no more: the
\* semaphore counts the requests that hold descriptors, at most Slots of them.
SlotsAreCounted ==
  /\ slots = Cardinality({r \in Requests : pc[r] \in Slotted}) /\ slots <= Slots
  /\ \A r \in Requests : pc[r] \notin Slotted => held[r] = Empty

\* stopLANSync returns only when no request is left that may read SQLite or the
\* managed root, both of which are closed next, or hold a descriptor.
NothingServedAfterStop ==
  stage = "down" => \A r \in Requests : pc[r] = "idle" /\ held[r] = Empty
=============================================================================
