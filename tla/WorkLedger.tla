------------------------------ MODULE WorkLedger ------------------------------
(***************************************************************************)
(* What the acquisition queue promises, without its workers, sources,      *)
(* locks and files: requests have a life cycle, each track has at most one *)
(* request in progress, and a track enters the library in two steps, both  *)
(* taken for a running request of a track that is still wanted: its audio  *)
(* is published, then it is registered together with the completion of the *)
(* request.  An interruption requeues what was running and loses nothing.  *)
(* Somebody else may tamper with a track's audio at any time; then the     *)
(* ledger still says who may work on the track, no longer how far it is.   *)
(***************************************************************************)
CONSTANTS Tracks, Ids, NoTrack

VARIABLES
  wanted,   \* the tracks somebody wants now
  owner,    \* the track of each request
  state,    \* the life cycle of each request
  library,  \* how far each track has come
  tampered  \* the tracks whose audio somebody else has touched

vars == <<wanted, owner, state, library, tampered>>

States == {"none", "pending", "running", "unresolved", "failed", "complete"}
InProgress == {"pending", "running"}

TypeOK ==
  /\ wanted \subseteq Tracks
  /\ owner \in [Ids -> Tracks \cup {NoTrack}]
  /\ state \in [Ids -> States]
  /\ library \in [Tracks -> {"none", "published", "registered"}]
  /\ tampered \subseteq Tracks

Init ==
  /\ wanted \in SUBSET Tracks
  /\ owner = [i \in Ids |-> NoTrack]
  /\ state = [i \in Ids |-> "none"]
  /\ library = [t \in Tracks |-> "none"]
  /\ tampered = {}

\* Wishes change at any time.
Wish ==
  /\ wanted' \in SUBSET Tracks
  /\ UNCHANGED <<owner, state, library, tampered>>

\* A batch of new, failed or unresolved requests becomes pending, each for a
\* wanted, unregistered track that no other request is working on.
Submit(batch) ==
  /\ batch # {}
  /\ owner' \in [Ids -> Tracks \cup {NoTrack}] /\ state' \in [Ids -> States]
  /\ \A i \in batch :
       /\ state[i] \in {"none", "failed", "unresolved"} /\ state'[i] = "pending"
       /\ owner[i] \in {NoTrack, owner'[i]}
       /\ owner'[i] \in wanted /\ (library[owner'[i]] = "registered" => owner'[i] \in tampered)
       /\ \A j \in Ids \ {i} : owner'[j] = owner'[i] => state'[j] \notin InProgress
  /\ \A i \in Ids \ batch : state'[i] = state[i] /\ owner'[i] = owner[i]
  /\ UNCHANGED <<wanted, library, tampered>>

Start(i) ==
  /\ state[i] = "pending"
  /\ state' = [state EXCEPT ![i] = "running"]
  /\ UNCHANGED <<wanted, owner, library, tampered>>

GiveUp(i) ==
  /\ state[i] = "running"
  /\ state' \in {[state EXCEPT ![i] = s] : s \in {"failed", "unresolved"}}
  /\ UNCHANGED <<wanted, owner, library, tampered>>

Publish(i) ==
  /\ state[i] = "running"
  /\ owner[i] \in wanted
  /\ library[owner[i]] = "none" \/ owner[i] \in tampered
  /\ library' = [library EXCEPT ![owner[i]] = IF @ = "registered" THEN @ ELSE "published"]
  /\ UNCHANGED <<wanted, owner, state, tampered>>

Fulfil(i) ==
  /\ state[i] = "running"
  /\ owner[i] \in wanted
  /\ library[owner[i]] = "published" \/ owner[i] \in tampered
  /\ library' = [library EXCEPT ![owner[i]] = "registered"]
  /\ state' = [state EXCEPT ![i] = "complete"]
  /\ UNCHANGED <<wanted, owner, tampered>>

Interrupt ==
  /\ state' = [i \in Ids |-> IF state[i] = "running" THEN "pending" ELSE state[i]]
  /\ UNCHANGED <<wanted, owner, library, tampered>>

\* Somebody changes, removes or adds a file of the track.
Tamper(t) ==
  /\ tampered' = tampered \cup {t}
  /\ \/ UNCHANGED library
     \/ library[t] = "published" /\ library' = [library EXCEPT ![t] = "none"]
  /\ UNCHANGED <<wanted, owner, state>>

Next ==
  \/ Wish \/ Interrupt
  \/ \E t \in Tracks : Tamper(t)
  \/ \E batch \in SUBSET Ids : Submit(batch)
  \/ \E i \in Ids : Start(i) \/ GiveUp(i) \/ Publish(i) \/ Fulfil(i)

Spec == Init /\ [][Next]_vars
=============================================================================
