---------------------------- MODULE MetadataRefresh ----------------------------
(***************************************************************************)
(* "offbeat metadata refresh" on one managed track                         *)
(* (internal/app/metadata.go, internal/managed/files.go): the new tags are *)
(* staged on a copy, the intent is recorded in SQLite, the copy is put     *)
(* under the managed root, checked against the destination, exchanged with *)
(* it, the displaced file is checked once more and removed, and the outcome*)
(* is recorded.  Any step may fail, the daemon may die between any two, and *)
(* a program that knows nothing of Offbeat may replace or delete the file  *)
(* at any time; the next refresh reads the intent and the two directory    *)
(* entries and repairs what it finds.                                      *)
(*                                                                         *)
(* A file is its contents - whose audio it is, the text tags and the cover *)
(* it carries - which also stand for its SHA-256.  A fingerprint is the    *)
(* presentation it was computed from.  The whole command runs with         *)
(* managedMu held, so the Desired state and the row only change between    *)
(* two runs.                                                               *)
(***************************************************************************)

CONSTANTS
  Texts,      \* text presentations the Desired state may ask for
  Arts,       \* artwork URLs it may ask for
  Foreign,    \* audio other programs put at the managed path, each used once
  Ours,       \* the audio Offbeat acquired
  NoText,     \* no text tags
  NoArt,      \* no cover, and the presentation of a track without artwork URL
  Unknown,    \* an empty fingerprint or digest column
  NoIntent,   \* an empty refresh_intent column
  Absent,     \* no directory entry
  Fragment    \* the first bytes of a copy that was interrupted

ASSUME ContentsAssumption ==
  /\ Ours \notin Foreign
  /\ NoText \notin Texts
  /\ NoArt \notin Arts
  /\ Unknown \notin Texts \cup Arts \cup {NoText, NoArt}

Bytes == [audio : Foreign \cup {Ours}, text : Texts \cup {NoText}, art : Arts \cup {NoArt}]
Entries == Bytes \cup {Absent, Fragment}

TagStates == {"pending", "tagged", "failed", "unsupported"}
ArtStates == {"pending", "embedded", "unavailable", "failed", "unsupported"}

Intents == [sha : Bytes, prev : Bytes, tag : TagStates, art : ArtStates, tagFp : Texts,
            artFp : Arts \cup {NoArt}]
Rows == [tag : TagStates, art : ArtStates, tagFp : Texts \cup {Unknown}, artFp : Arts \cup {NoArt, Unknown},
         sha : Bytes \cup {Unknown}, intent : Intents \cup {NoIntent}]

ASSUME NullAssumption ==
  /\ {Absent, Fragment, Unknown} \cap Bytes = {} /\ Absent # Fragment
  /\ NoIntent \notin Intents

VARIABLES
  wanted,   \* presentation of the track in the Desired state
  native,   \* whether the format has native tags (not WAV or raw AAC)
  row,      \* the managed_tracks row
  canon,    \* the entry at the track's managed path
  temp,     \* the entry at the temporary name of the current intent
  leaked,   \* audio left at temporary names no intent remembers
  pc, op,   \* where the command is, and its local variables
  used,     \* foreign audio written so far
  owed,     \* foreign audio that must still exist
  strayed,  \* the file was changed without the row and without a refresh
  calm      \* no more failures, crashes or foreign writers

bookVars == <<wanted, native, row>>
fileVars == <<canon, temp, leaked>>
histVars == <<used, owed, strayed>>
vars == <<bookVars, fileVars, pc, op, histVars, calm>>

Steps == {"idle", "reconcile", "restore", "finishOld", "discard", "decide", "stage", "begin",
          "create", "copy", "check", "exchange", "verify", "sync", "rollback", "cleanup",
          "remove", "finish"}

Idle == [sha |-> Unknown, plan |-> "text", art |-> "pending", staged |-> Unknown]

-----------------------------------------------------------------------------
(* What acquisition leaves: the file and its row, or an adopted orphan.    *)

Books(tag, art, tagFp, artFp, sha) ==
  [tag |-> tag, art |-> art, tagFp |-> tagFp, artFp |-> artFp, sha |-> sha, intent |-> NoIntent]

File(tagged, pictured) ==
  [audio |-> Ours, text |-> IF tagged THEN wanted.text ELSE NoText,
   art |-> IF pictured THEN wanted.art ELSE NoArt]

PublishedBooks(tagged, pictured) ==
  IF native
  THEN Books(IF tagged THEN "tagged" ELSE "failed",
             IF pictured THEN "embedded" ELSE IF wanted.art = NoArt THEN "unavailable" ELSE "failed",
             IF tagged THEN wanted.text ELSE Unknown,
             IF pictured \/ wanted.art = NoArt THEN wanted.art ELSE Unknown,
             File(tagged, pictured))
  ELSE Books("unsupported", "unsupported", wanted.text, wanted.art, File(FALSE, FALSE))

AdoptedBooks == Books("pending", "pending", Unknown, Unknown, Unknown)

Presentable(tagged, pictured) ==
  /\ tagged => native
  /\ pictured => tagged /\ wanted.art # NoArt

Init ==
  /\ wanted \in [text : Texts, art : Arts \cup {NoArt}] /\ native \in BOOLEAN
  /\ \E tagged, pictured \in BOOLEAN :
       /\ Presentable(tagged, pictured)
       /\ canon = File(tagged, pictured)
       /\ row \in {PublishedBooks(tagged, pictured), AdoptedBooks}
  /\ temp = Absent /\ leaked = {} /\ pc = "idle" /\ op = Idle
  /\ used = {} /\ owed = {} /\ strayed = FALSE /\ calm = FALSE

AudioOf(entry) == IF entry \in Bytes THEN {entry.audio} ELSE {}

-----------------------------------------------------------------------------
(* The command. *)

Goto(from, to) == pc = from /\ pc' = to
Leave(from) == Goto(from, "idle")
Locals == op' = IF pc' = "idle" THEN Idle ELSE op

RecordMetadataOutcome(tag, art, tagFp) ==
  row' = Books(tag, art, tagFp, wanted.art, op.sha)

\* Slip: the outcome is recorded for the presentation that is wanted now.
FinishWithWanted ==
  row' = Books(row.intent.tag, row.intent.art, wanted.text, wanted.art, row.intent.sha)

FinishMetadataReplacement ==
  row' = Books(row.intent.tag, row.intent.art, row.intent.tagFp, row.intent.artFp, row.intent.sha)

\* Opens and digests the managed file, then looks at the recorded intent: its
\* replacement was published, or was not; any other file is left alone.
Start ==
  /\ pc = "idle" /\ canon # Absent
  /\ row.intent # NoIntent => canon \in {row.intent.sha, row.intent.prev}
  /\ op' = [Idle EXCEPT !.sha = canon]
  /\ pc' = IF row.intent = NoIntent THEN "decide"
           ELSE IF canon = row.intent.sha THEN "reconcile" ELSE "discard"
  /\ UNCHANGED <<bookVars, fileVars, histVars, calm>>

\* ReconcileReplacement: the entry at the temporary name is the file that the
\* exchange displaced; it is removed when it is the one that was expected.
Reconcile ==
  /\ pc = "reconcile"
  /\ \/ temp = Absent /\ pc' = "finishOld" /\ UNCHANGED temp
     \/ temp = row.intent.prev /\ temp' = Absent /\ pc' \in {"finishOld"} \cup (IF calm THEN {} ELSE {"idle"})
     \/ temp \notin {Absent, row.intent.prev} /\ pc' = "restore" /\ UNCHANGED temp
  /\ Locals /\ UNCHANGED <<bookVars, canon, leaked, histVars, calm>>

\* The one known way in which a renaming destroys good audio: the entry is an
\* interrupted copy, and the file in place has the bytes it was to be replaced
\* with, because the refresh would not have changed one or because someone
\* else put it there.
CutShort == temp = Fragment /\ (row.intent.sha = row.intent.prev \/ strayed)

\* A different file was displaced: it is renamed back over the published one,
\* and the command reports an error.
Restore ==
  /\ Leave("restore")
  /\ canon' = temp /\ temp' = Absent
  /\ owed' = IF CutShort THEN owed \ AudioOf(canon) ELSE owed
  /\ Locals /\ UNCHANGED <<bookVars, leaked, used, strayed, calm>>

FinishOld ==
  /\ Goto("finishOld", "decide")
  /\ FinishMetadataReplacement
  /\ Locals /\ UNCHANGED <<wanted, native, fileVars, histVars, calm>>

\* Slip: only a copy of the original bytes is recognised.
DiscardOriginal ==
  /\ pc = "discard"
  /\ IF canon = row.intent.prev /\ temp \in {Absent, row.intent.prev}
     THEN temp' = Absent /\ pc' = "decide"
     ELSE pc' = "idle" /\ UNCHANGED temp
  /\ Locals /\ UNCHANGED <<bookVars, canon, leaked, histVars, calm>>

\* DiscardUnpublishedReplacement: only a copy of the staged or of the original
\* bytes is removed, and only while the original is still in place.
Discard ==
  /\ pc = "discard"
  /\ \/ canon # row.intent.prev /\ pc' = "idle" /\ UNCHANGED temp
     \/ /\ canon = row.intent.prev
        /\ \/ temp = Absent /\ pc' = "decide" /\ UNCHANGED temp
           \/ /\ temp \in {row.intent.sha, row.intent.prev}
              /\ temp' = Absent /\ pc' \in {"decide"} \cup (IF calm THEN {} ELSE {"idle"})
           \/ temp \notin {Absent, row.intent.sha, row.intent.prev} /\ pc' = "idle" /\ UNCHANGED temp
  /\ Locals /\ UNCHANGED <<bookVars, canon, leaked, histVars, calm>>

TextCurrent == row.tagFp = wanted.text /\ row.tag \in {"tagged", "unsupported"}
ArtCurrent == row.artFp = wanted.art /\ row.art \in {"embedded", "unavailable", "unsupported"}
Recognised == row.sha \in {Unknown, op.sha}
Outdated == Recognised /\ ~(TextCurrent /\ ArtCurrent)

\* The file is not the recorded one, or its presentation is up to date.
DecideNothing ==
  /\ Leave("decide") /\ ~Outdated
  /\ Locals /\ UNCHANGED <<bookVars, fileVars, histVars, calm>>

DecideUnsupported ==
  /\ Leave("decide") /\ Outdated /\ ~native
  /\ row' = Books("unsupported", "unsupported", wanted.text, wanted.art, op.sha)
  /\ Locals /\ UNCHANGED <<wanted, native, fileVars, histVars, calm>>

\* The artwork the run will end with, and what must be written for it.
Plans ==
  IF wanted.art = NoArt
  THEN {[art |-> "unavailable", plan |-> IF ArtCurrent THEN "text" ELSE "clear"]}
  ELSE IF ArtCurrent THEN {[art |-> row.art, plan |-> "text"]}
  ELSE {[art |-> "failed", plan |-> "text"], [art |-> "embedded", plan |-> "picture"]}

\* Nothing to write: only the outcome of the artwork is recorded.
DecideArtOnly ==
  /\ Leave("decide") /\ Outdated /\ native /\ TextCurrent
  /\ \E p \in Plans : p.plan = "text" /\ RecordMetadataOutcome(row.tag, p.art, wanted.text)
  /\ Locals /\ UNCHANGED <<wanted, native, fileVars, histVars, calm>>

DecideStage ==
  /\ Goto("decide", "stage") /\ Outdated /\ native
  /\ \E p \in Plans :
       /\ TextCurrent => p.plan # "text"
       /\ op' = [op EXCEPT !.art = p.art, !.plan = p.plan]
  /\ UNCHANGED <<bookVars, fileVars, histVars, calm>>

\* tagging.StageRefresh on a private copy of the opened file.
Tagged ==
  [op.sha EXCEPT !.text = wanted.text,
                 !.art = CASE op.plan = "picture" -> wanted.art
                           [] op.plan = "clear" -> NoArt
                           [] OTHER -> @]

Stage ==
  /\ Goto("stage", "begin")
  /\ op' = [op EXCEPT !.staged = Tagged]
  /\ UNCHANGED <<bookVars, fileVars, histVars, calm>>

\* The picture could not be written: once more with the text alone.
StageWithoutPicture ==
  /\ pc = "stage" /\ op.plan = "picture"
  /\ op' = [op EXCEPT !.plan = "text", !.art = "failed"]
  /\ UNCHANGED <<bookVars, fileVars, pc, histVars, calm>>

StageFails ==
  /\ Leave("stage") /\ op.plan # "picture"
  /\ RecordMetadataOutcome("failed", op.art, Unknown)
  /\ Locals /\ UNCHANGED <<wanted, native, fileVars, histVars, calm>>

BeginMetadataReplacement ==
  /\ Goto("begin", "create")
  /\ row' = [row EXCEPT !.intent = [sha |-> op.staged, prev |-> op.sha, tag |-> "tagged", art |-> op.art,
                                    tagFp |-> wanted.text, artFp |-> wanted.art]]
  /\ Locals /\ UNCHANGED <<wanted, native, fileVars, histVars, calm>>

-----------------------------------------------------------------------------
(* ReplaceManaged. *)

Create ==
  /\ Goto("create", "copy")
  /\ temp' = Fragment
  /\ Locals /\ UNCHANGED <<bookVars, canon, leaked, histVars, calm>>

\* Slip: the copy may end early, and its digest is not compared.
CopyUnchecked ==
  /\ Goto("copy", "check")
  /\ temp' \in {Fragment, op.staged}
  /\ UNCHANGED <<bookVars, canon, leaked, op, histVars, calm>>

Copy ==
  /\ Goto("copy", "check")
  /\ temp' = op.staged
  /\ Locals /\ UNCHANGED <<bookVars, canon, leaked, histVars, calm>>

\* The destination must still be the file that was digested.
CheckDestination ==
  /\ pc = "check"
  /\ pc' = IF canon = op.sha THEN "exchange" ELSE "cleanup"
  /\ Locals /\ UNCHANGED <<bookVars, fileVars, histVars, calm>>

\* RENAME_EXCHANGE needs both entries.
Swap == canon # Absent /\ canon' = temp /\ temp' = canon

Exchange ==
  /\ pc = "exchange"
  /\ IF canon = Absent THEN pc' = "cleanup" /\ UNCHANGED <<canon, temp>> ELSE pc' = "verify" /\ Swap
  /\ Locals /\ UNCHANGED <<bookVars, leaked, histVars, calm>>

\* Slip: the displaced file is not looked at again.
VerifyNothing ==
  /\ Goto("verify", "sync")
  /\ UNCHANGED <<bookVars, fileVars, op, histVars, calm>>

\* A writer may have come between the check and the exchange: what was
\* displaced is checked again.
Verify ==
  /\ pc = "verify"
  /\ pc' = IF temp = op.sha THEN "sync" ELSE "rollback"
  /\ Locals /\ UNCHANGED <<bookVars, fileVars, histVars, calm>>

SyncPublished ==
  /\ Goto("sync", "remove")
  /\ Locals /\ UNCHANGED <<bookVars, fileVars, histVars, calm>>

\* The entries are exchanged back; unless that fails or cannot be made
\* durable, the temporary entry is then removed by the deferred cleanup.
Rollback ==
  /\ pc = "rollback"
  /\ \/ Swap /\ pc' = "cleanup"
     \/ Swap /\ pc' = "idle" /\ ~calm
     \/ UNCHANGED <<canon, temp>> /\ pc' = "idle" /\ (canon = Absent \/ ~calm)
  /\ Locals /\ UNCHANGED <<bookVars, leaked, histVars, calm>>

Cleanup ==
  /\ Leave("cleanup")
  /\ temp' \in {Absent} \cup (IF calm THEN {} ELSE {temp})
  /\ Locals /\ UNCHANGED <<bookVars, canon, leaked, histVars, calm>>

\* Slip: the displaced file is left for later, though the intent is forgotten.
RemoveNothing ==
  /\ Goto("remove", "finish")
  /\ UNCHANGED <<bookVars, fileVars, op, histVars, calm>>

RemoveDisplaced ==
  /\ pc = "remove"
  /\ temp' = Absent
  /\ pc' \in {"finish"} \cup (IF calm THEN {} ELSE {"idle"})
  /\ Locals /\ UNCHANGED <<bookVars, canon, leaked, histVars, calm>>

Finish ==
  /\ Leave("finish")
  /\ FinishMetadataReplacement
  /\ Locals /\ UNCHANGED <<wanted, native, fileVars, histVars, calm>>

Refresh ==
  \/ Reconcile \/ Restore \/ FinishOld \/ Discard
  \/ DecideNothing \/ DecideUnsupported \/ DecideArtOnly \/ DecideStage
  \/ Stage \/ StageWithoutPicture \/ StageFails \/ BeginMetadataReplacement
  \/ Create \/ Copy \/ CheckDestination \/ Exchange \/ Verify \/ SyncPublished
  \/ Rollback \/ Cleanup \/ RemoveDisplaced \/ Finish

-----------------------------------------------------------------------------
(* What may go wrong, and what the rest of the daemon and other programs do. *)

\* An I/O error, a cancelled context or a failed transaction: what the step
\* would have done is not done, and the command takes the step's error path.
Fail ==
  /\ ~calm /\ pc \notin {"idle", "rollback", "cleanup"}
  /\ pc' = CASE pc \in {"reconcile", "restore", "finishOld", "discard", "decide", "stage", "begin",
                        "create", "remove", "finish"} -> "idle"
             [] pc \in {"copy", "check", "exchange"} -> "cleanup"
             [] pc \in {"verify", "sync"} -> "rollback"
  /\ Locals /\ UNCHANGED <<bookVars, fileVars, histVars, calm>>

Crash ==
  /\ ~calm /\ pc # "idle" /\ pc' = "idle"
  /\ Locals /\ UNCHANGED <<bookVars, fileVars, histVars, calm>>

\* upsertTracks: a changed presentation makes its outcome pending.
ApplyDesired(w) ==
  /\ pc = "idle" /\ w # wanted
  /\ wanted' = w
  /\ row' = [row EXCEPT !.tag = IF w.text # wanted.text THEN "pending" ELSE @,
                        !.art = IF w.art # wanted.art THEN "pending" ELSE @]
  /\ UNCHANGED <<native, fileVars, pc, op, histVars, calm>>

\* A missing track is acquired again: the file is published, and the row
\* replaced with its intent forgotten - or that commit fails.
Reacquire(tagged, pictured) ==
  /\ pc = "idle" /\ canon = Absent /\ Presentable(tagged, pictured)
  /\ canon' = File(tagged, pictured)
  /\ \/ /\ row' = PublishedBooks(tagged, pictured) /\ strayed' = FALSE
        /\ leaked' = leaked \cup AudioOf(temp) /\ temp' = Absent
     \/ ~calm /\ strayed' = TRUE /\ UNCHANGED <<row, temp, leaked>>
  /\ UNCHANGED <<wanted, native, pc, op, used, owed, calm>>

\* While the command believes it knows the destination - from the digest of a
\* reconciliation to its renaming, from the exchange to its verification or
\* undoing - it cannot see a new file there: docs/tagging-compatibility.md
\* asks other programs to treat the managed root as read-only.
Unwatched == pc \in {"reconcile", "restore", "verify", "sync", "rollback"}

ForeignWrite(f) ==
  /\ ~calm /\ f \notin used
  /\ canon' = [audio |-> f, text |-> NoText, art |-> NoArt]
  /\ used' = used \cup {f} /\ strayed' = TRUE
  /\ owed' = (owed \ AudioOf(canon)) \cup (IF Unwatched THEN {} ELSE {f})
  /\ UNCHANGED <<bookVars, temp, leaked, pc, op, calm>>

ForeignDelete ==
  /\ ~calm /\ canon # Absent
  /\ canon' = Absent /\ strayed' = TRUE /\ owed' = owed \ AudioOf(canon)
  /\ UNCHANGED <<bookVars, temp, leaked, pc, op, used, calm>>

Calm ==
  /\ ~calm /\ calm' = TRUE
  /\ UNCHANGED <<bookVars, fileVars, pc, op, histVars>>

Next ==
  \/ Start \/ Refresh \/ Fail \/ Crash \/ Calm
  \/ \E w \in [text : Texts, art : Arts \cup {NoArt}] : ApplyDesired(w)
  \/ \E tagged, pictured \in BOOLEAN : Reacquire(tagged, pictured)
  \/ \E f \in Foreign : ForeignWrite(f)
  \/ ForeignDelete

Spec == Init /\ [][Next]_vars

\* The command is repeated, as its diagnostics ask, and runs to its end.
FairSpec == Spec /\ WF_vars(Start) /\ WF_vars(Refresh)

-----------------------------------------------------------------------------
(* Properties. *)

\* Every variable has its type, and the command has a temporary file of its own
\* only while the row remembers its name.
TypeOK ==
  /\ wanted \in [text : Texts, art : Arts \cup {NoArt}] /\ native \in BOOLEAN
  /\ row \in Rows
  /\ canon \in Entries /\ temp \in Entries /\ leaked \subseteq Foreign \cup {Ours}
  /\ pc \in Steps /\ op.plan \in {"text", "clear", "picture"} /\ op.art \in ArtStates
  /\ used \subseteq Foreign /\ owed \subseteq used
  /\ strayed \in BOOLEAN /\ calm \in BOOLEAN
  /\ temp # Absent => row.intent # NoIntent

\* No file another program put at the managed path is ever destroyed by a
\* refresh, whatever fails and whenever the daemon dies: it stays at the
\* managed path or at a temporary name ("retained for inspection rather than
\* overwritten").  Files that arrive while the destination is Unwatched are
\* the documented exception.
ForeignSurvives ==
  \A f \in owed : f \in AudioOf(canon) \cup AudioOf(temp) \cup leaked

\* The managed path names playable audio before and after every step of the
\* daemon - it is never missing and never a fragment because of a refresh.
\* Excepted is the renaming of an interrupted copy over a file with the bytes
\* of that copy (CutShort), which NeverPublishesFragment is about.
AudioStaysAvailable ==
  [][Refresh => (canon \in Bytes => canon' \in Bytes) \/ (pc = "restore" /\ CutShort)]_vars

\* What the row says of the file is true of the bytes on disk, through every
\* crash and failure, while no one else changes the file: without an intent the
\* recorded digest is the file's, and the tags and the cover the row claims are
\* in it; with one the file is its old or its new bytes.
BooksMatchBytes ==
  ~strayed =>
    IF row.intent = NoIntent
    THEN /\ row.sha \in {Unknown, canon}
         /\ row.tag = "tagged" => canon.text = row.tagFp
         /\ row.art = "embedded" => canon.art = row.artFp
    ELSE \/ canon \in {row.intent.sha, row.intent.prev}
         \/ canon = Fragment /\ row.intent.sha = row.intent.prev

\* A replacement that was interrupted anywhere is finished or withdrawn by
\* repeating the command, unless the copy itself was cut short or the file is
\* no longer one of the two the intent names.
RecoversAfterCrash ==
  (/\ calm /\ row.intent # NoIntent
   /\ canon \in {row.intent.sha, row.intent.prev}
   /\ temp \in {Absent, row.intent.sha, row.intent.prev}) ~> row.intent = NoIntent

\* docs/tagging-compatibility.md: of an interrupted replacement "only an
\* identifiable staged copy is removed", with no "audio-availability
\* transition" - the managed path never comes to name a fragment.
NeverPublishesFragment == canon # Fragment
=============================================================================
