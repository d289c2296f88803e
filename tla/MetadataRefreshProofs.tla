------------------------- MODULE MetadataRefreshProofs -------------------------
(***************************************************************************)
(* Proofs about MetadataRefresh, for any presentations and foreign files.  *)
(***************************************************************************)
EXTENDS MetadataRefresh, TLAPS

Repairing == {"reconcile", "restore", "finishOld"}
Deciding == {"decide", "stage", "begin"}
Before == {"create", "copy", "check", "exchange"}
After == {"verify", "sync", "rollback", "remove", "finish"}
Replacing == Before \cup After \cup {"cleanup"}

Ops == [sha : Bytes \cup {Unknown}, plan : {"text", "clear", "picture"}, art : ArtStates,
        staged : Bytes \cup {Unknown}]

\* The types, and what the recorded intent and the locals say of each other.
IntentFits ==
  /\ row.intent # NoIntent => row.intent.sha.audio = row.intent.prev.audio /\ row.intent.sha.text \in Texts
  /\ pc \in Repairing => row.intent # NoIntent /\ op.sha = row.intent.sha
  /\ pc = "discard" => row.intent # NoIntent /\ op.sha = row.intent.prev
  /\ pc \in Deciding /\ row.intent # NoIntent => op.sha = row.intent.prev
  /\ pc \in Replacing => row.intent # NoIntent /\ op.staged = row.intent.sha /\ op.sha = row.intent.prev
  /\ pc # "idle" => op.sha \in Bytes
  /\ pc = "begin" => op.staged \in Bytes /\ op.staged.audio = op.sha.audio /\ op.staged.text = wanted.text
  /\ canon = Fragment => pc = "idle" /\ row.intent # NoIntent

\* The entry at the temporary name, along the command.
TempFits ==
  /\ pc \in {"finishOld", "create", "finish"} \cup Deciding => temp = Absent
  /\ pc = "restore" => temp \notin {Absent, row.intent.prev}
  /\ pc = "copy" => temp = Fragment
  /\ pc \in {"check", "exchange"} => temp = op.staged
  /\ pc \in {"verify", "rollback"} => temp \in Bytes
  /\ pc \in {"sync", "remove"} => temp = op.sha

\* The inductive type invariant.
TypeInv == TypeOK /\ op \in Ops /\ IntentFits /\ TempFits

-----------------------------------------------------------------------------
(* The types. *)

\* The fields of the locals, of a row's intent and of a row an outcome leaves.
LEMMA OpFields ==
  ASSUME op \in Ops
  PROVE  /\ op.sha \in Bytes \cup {Unknown} /\ op.staged \in Bytes \cup {Unknown}
         /\ op.plan \in {"text", "clear", "picture"} /\ op.art \in ArtStates
  BY DEF Ops

\* A recorded intent's fields have their types.
LEMMA IntentFields ==
  ASSUME row \in Rows, row.intent # NoIntent
  PROVE  /\ row.intent \in Intents
         /\ row.intent.sha \in Bytes /\ row.intent.prev \in Bytes
         /\ row.intent.tag \in TagStates /\ row.intent.art \in ArtStates
         /\ row.intent.tagFp \in Texts /\ row.intent.artFp \in Arts \cup {NoArt}
  BY DEF Rows, Intents

\* An outcome recorded with typed values is a row without an intent.
LEMMA BooksType ==
  ASSUME NEW tag \in TagStates, NEW art \in ArtStates, NEW tagFp \in Texts \cup {Unknown},
         NEW artFp \in Arts \cup {NoArt, Unknown}, NEW sha \in Bytes \cup {Unknown}
  PROVE  Books(tag, art, tagFp, artFp, sha) \in Rows /\ Books(tag, art, tagFp, artFp, sha).intent = NoIntent
  BY DEF Books, Rows

\* The file acquisition publishes is a whole file.
LEMMA FileType ==
  ASSUME wanted \in [text : Texts, art : Arts \cup {NoArt}], NEW tagged \in BOOLEAN, NEW pictured \in BOOLEAN
  PROVE  File(tagged, pictured) \in Bytes
  BY DEF File, Bytes

\* The row acquisition records has its type and no intent.
LEMMA PublishedType ==
  ASSUME wanted \in [text : Texts, art : Arts \cup {NoArt}], NEW tagged \in BOOLEAN, NEW pictured \in BOOLEAN
  PROVE  PublishedBooks(tagged, pictured) \in Rows /\ PublishedBooks(tagged, pictured).intent = NoIntent
  <1>1. File(tagged, pictured) \in Bytes /\ File(FALSE, FALSE) \in Bytes
    BY FileType
  <1>2. wanted.text \in Texts /\ wanted.art \in Arts \cup {NoArt}
    OBVIOUS
  <1>3. CASE native
    <2> DEFINE tag == IF tagged THEN "tagged" ELSE "failed"
    <2> DEFINE art == IF pictured THEN "embedded" ELSE IF wanted.art = NoArt THEN "unavailable" ELSE "failed"
    <2> DEFINE tagFp == IF tagged THEN wanted.text ELSE Unknown
    <2> DEFINE artFp == IF pictured \/ wanted.art = NoArt THEN wanted.art ELSE Unknown
    <2>1. tag \in TagStates /\ art \in ArtStates
      BY DEF TagStates, ArtStates
    <2>2. tagFp \in Texts \cup {Unknown} /\ artFp \in Arts \cup {NoArt, Unknown}
      BY <1>2
    <2>3. PublishedBooks(tagged, pictured) = Books(tag, art, tagFp, artFp, File(tagged, pictured))
      BY <1>3 DEF PublishedBooks
    <2>4. File(tagged, pictured) \in Bytes \cup {Unknown}
      BY <1>1
    <2> HIDE DEF tag, art, tagFp, artFp
    <2>5. Books(tag, art, tagFp, artFp, File(tagged, pictured)) \in Rows
      BY <2>1, <2>2, <2>4, BooksType
    <2>6. Books(tag, art, tagFp, artFp, File(tagged, pictured)).intent = NoIntent
      BY DEF Books
    <2> QED
      BY <2>3, <2>5, <2>6
  <1>4. CASE ~native
    BY ZenonT(40), <1>1, <1>2, <1>4, BooksType DEF PublishedBooks, TagStates, ArtStates
  <1> QED
    BY <1>3, <1>4

\* What staging makes of the digested file.
LEMMA TaggedType ==
  ASSUME op.sha \in Bytes, wanted \in [text : Texts, art : Arts \cup {NoArt}]
  PROVE  /\ Tagged \in Bytes /\ Tagged.audio = op.sha.audio /\ Tagged.text = wanted.text
         /\ op.plan = "picture" => Tagged.art = wanted.art
         /\ op.plan = "text" => Tagged.art = op.sha.art
  <1>1. wanted.text \in Texts /\ wanted.art \in Arts \cup {NoArt}
    OBVIOUS
  <1> QED
    BY <1>1 DEF Tagged, Bytes

\* A plan names an artwork state and a way to write the cover.
LEMMA PlansType ==
  ASSUME row \in Rows, NEW p \in Plans
  PROVE  p.art \in ArtStates /\ p.plan \in {"text", "clear", "picture"}
  BY DEF Plans, Rows, ArtStates

\* An entry carries audio of Offbeat or of another program.
LEMMA AudioType ==
  ASSUME NEW entry \in Entries
  PROVE  AudioOf(entry) \subseteq Foreign \cup {Ours}
  BY DEF AudioOf, Bytes

\* What acquisition leaves has its type.
LEMMA TypeInit == Init => TypeInv
  <1> SUFFICES ASSUME Init PROVE TypeInv OBVIOUS
  <1>1. canon \in Bytes
    BY FileType DEF Init
  <1>2. row \in Rows /\ row.intent = NoIntent
    <2>1. PICK tagged \in BOOLEAN, pictured \in BOOLEAN : row \in {PublishedBooks(tagged, pictured), AdoptedBooks}
      BY DEF Init
    <2>2. AdoptedBooks \in Rows /\ AdoptedBooks.intent = NoIntent
      BY BooksType DEF AdoptedBooks, TagStates, ArtStates
    <2> QED
      BY <2>1, <2>2, PublishedType DEF Init
  <1>3. op = Idle /\ op \in Ops
    BY DEF Init, Idle, Ops, ArtStates
  <1>4. TypeOK
    BY <1>1, <1>2, <1>3, OpFields DEF Init, TypeOK, Steps, Entries
  <1>5. IntentFits /\ TempFits
    BY <1>1, <1>2, NullAssumption
       DEF Init, IntentFits, TempFits, Repairing, Deciding, Before, After, Replacing
  <1> QED
    BY <1>3, <1>4, <1>5 DEF TypeInv

\* One step for every action; the locals, the row, the rest of the types, and
\* how they fit are shown in turn.
LEMMA TypeStep == TypeInv /\ [Next]_vars => TypeInv'
  <1> SUFFICES ASSUME TypeInv, [Next]_vars PROVE TypeInv' OBVIOUS
  <1> USE NullAssumption
      DEF TypeInv, Goto, Leave, Locals, bookVars, fileVars, histVars,
          Repairing, Deciding, Before, After, Replacing
  <1>a. op.sha \in Bytes \cup {Unknown} /\ op.staged \in Bytes \cup {Unknown} /\ op.art \in ArtStates
    BY OpFields
  <1>b. row \in Rows /\ wanted.text \in Texts /\ wanted.art \in Arts \cup {NoArt}
    BY DEF TypeOK
  <1>c. row.tag \in TagStates /\ row.art \in ArtStates
    BY <1>b DEF Rows
  <1>d. Idle \in Ops
    BY DEF Idle, Ops, ArtStates
  <1>1. CASE Start
    <2>a. canon \in Bytes
      BY <1>1, <1>b, IntentFields DEF Start, IntentFits, TypeOK, Entries
    <2>1. (op \in Ops)'
      BY <2>a, <1>1 DEF Start, Idle, Ops, ArtStates
    <2>2. (row \in Rows)'
      BY <1>b, <1>1 DEF Start
    <2>3. (op.plan \in {"text", "clear", "picture"} /\ op.art \in ArtStates)'
      BY <2>1 DEF Ops
    <2>4. TypeOK'
      BY <1>1, <1>b, <2>2, <2>3, IntentFields DEF Start, TypeOK, Steps, Entries, TempFits, IntentFits
    <2>5. IntentFits'
      BY <2>a, <1>1, <1>b DEF Start, IntentFits, Idle
    <2>6. TempFits'
      BY <1>1 DEF Start, TypeOK, TempFits, IntentFits
    <2> QED
      BY <2>1, <2>4, <2>5, <2>6
  <1>2. CASE Reconcile
    <2>1. (op \in Ops)'
      BY <1>d, <1>2 DEF Reconcile
    <2>2. (row \in Rows)'
      BY <1>b, <1>2 DEF Reconcile
    <2>3. (op.plan \in {"text", "clear", "picture"} /\ op.art \in ArtStates)'
      BY <2>1 DEF Ops
    <2>4. TypeOK'
      BY <1>2, <1>b, <2>2, <2>3, IntentFields DEF Reconcile, TypeOK, Steps, Entries, TempFits, IntentFits
    <2>5. IntentFits'
      BY <1>2, <1>b, IntentFields DEF Reconcile, IntentFits, TypeOK, Entries, Idle
    <2>6. TempFits'
      BY <1>2 DEF Reconcile, TempFits, IntentFits
    <2> QED
      BY <2>1, <2>4, <2>5, <2>6
  <1>3. CASE Restore
    <2>1. (op \in Ops)'
      BY <1>d, <1>3 DEF Restore
    <2>2. (row \in Rows)'
      BY <1>b, <1>3 DEF Restore
    <2>3. (op.plan \in {"text", "clear", "picture"} /\ op.art \in ArtStates)'
      BY <2>1 DEF Ops
    <2>4. TypeOK'
      BY <1>3, <1>b, <2>2, <2>3, IntentFields DEF Restore, TypeOK, Steps, Entries, TempFits, IntentFits
    <2>5. IntentFits'
      BY <1>3, <1>b, IntentFields DEF Restore, IntentFits, TypeOK, Entries, Idle
    <2>6. TempFits'
      BY <1>3 DEF Restore, TempFits, IntentFits
    <2> QED
      BY <2>1, <2>4, <2>5, <2>6
  <1>4. CASE FinishOld
    <2>1. (op \in Ops)'
      BY <1>d, <1>4 DEF FinishOld
    <2>2. (row \in Rows)'
      BY ZenonT(40), <1>a, <1>b, IntentFields, BooksType, <1>4
         DEF FinishOld, FinishMetadataReplacement, IntentFits, TagStates, ArtStates, TypeOK
    <2>3. (op.plan \in {"text", "clear", "picture"} /\ op.art \in ArtStates)'
      BY <2>1 DEF Ops
    <2>4. TypeOK'
      BY <1>4, <1>b, <2>2, <2>3, IntentFields
         DEF FinishOld, FinishMetadataReplacement, Books, TypeOK, Steps, Entries, TempFits,
             IntentFits
    <2>5. IntentFits'
      BY <1>4, <1>b, IntentFields
         DEF FinishOld, FinishMetadataReplacement, Books, IntentFits, TypeOK, Entries, Idle
    <2>6. TempFits'
      BY <1>4 DEF FinishOld, FinishMetadataReplacement, Books, TempFits, IntentFits
    <2> QED
      BY <2>1, <2>4, <2>5, <2>6
  <1>5. CASE Discard
    <2>1. (op \in Ops)'
      BY <1>d, <1>5 DEF Discard
    <2>2. (row \in Rows)'
      BY <1>b, <1>5 DEF Discard
    <2>3. (op.plan \in {"text", "clear", "picture"} /\ op.art \in ArtStates)'
      BY <2>1 DEF Ops
    <2>4. TypeOK'
      BY <1>5, <1>b, <2>2, <2>3, IntentFields DEF Discard, TypeOK, Steps, Entries, TempFits, IntentFits
    <2>5. IntentFits'
      BY <1>5, <1>b, IntentFields DEF Discard, IntentFits, TypeOK, Entries, Idle
    <2>6. TempFits'
      BY <1>5 DEF Discard, TempFits, IntentFits
    <2> QED
      BY <2>1, <2>4, <2>5, <2>6
  <1>6. CASE DecideNothing
    <2>1. (op \in Ops)'
      BY <1>d, <1>6 DEF DecideNothing
    <2>2. (row \in Rows)'
      BY <1>b, <1>6 DEF DecideNothing
    <2>3. (op.plan \in {"text", "clear", "picture"} /\ op.art \in ArtStates)'
      BY <2>1 DEF Ops
    <2>4. TypeOK'
      BY <1>6, <1>b, <2>2, <2>3, IntentFields
         DEF DecideNothing, TypeOK, Steps, Entries, TempFits, IntentFits
    <2>5. IntentFits'
      BY <1>6, <1>b, IntentFields DEF DecideNothing, IntentFits, TypeOK, Entries, Idle
    <2>6. TempFits'
      BY <1>6 DEF DecideNothing, TempFits, IntentFits
    <2> QED
      BY <2>1, <2>4, <2>5, <2>6
  <1>7. CASE DecideUnsupported
    <2>1. (op \in Ops)'
      BY <1>d, <1>7 DEF DecideUnsupported
    <2>2. (row \in Rows)'
      BY <1>a, <1>b, BooksType, <1>7 DEF DecideUnsupported, IntentFits, TagStates, ArtStates, TypeOK
    <2>3. (op.plan \in {"text", "clear", "picture"} /\ op.art \in ArtStates)'
      BY <2>1 DEF Ops
    <2>4. TypeOK'
      BY <1>7, <1>b, <2>2, <2>3, IntentFields
         DEF DecideUnsupported, Books, TypeOK, Steps, Entries, TempFits, IntentFits
    <2>5. IntentFits'
      BY <1>7, <1>b, IntentFields DEF DecideUnsupported, Books, IntentFits, TypeOK, Entries, Idle
    <2>6. TempFits'
      BY <1>7 DEF DecideUnsupported, Books, TempFits, IntentFits
    <2> QED
      BY <2>1, <2>4, <2>5, <2>6
  <1>8. CASE DecideArtOnly
    <2>a. PICK p \in Plans : row' = Books(row.tag, p.art, wanted.text, wanted.art, op.sha)
      BY <1>8 DEF DecideArtOnly, RecordMetadataOutcome
    <2>1. (op \in Ops)'
      BY <1>d, <1>8 DEF DecideArtOnly
    <2>2. (row \in Rows)'
      BY <2>a, <1>a, <1>b, <1>c, BooksType, PlansType
    <2>3. (op.plan \in {"text", "clear", "picture"} /\ op.art \in ArtStates)'
      BY <2>1 DEF Ops
    <2>4. TypeOK'
      BY <1>8, <1>b, <2>2, <2>3, IntentFields
         DEF DecideArtOnly, RecordMetadataOutcome, Books, Plans, TypeOK, Steps, Entries, TempFits,
             IntentFits
    <2>5. IntentFits'
      BY <1>8, <1>b, IntentFields
         DEF DecideArtOnly, RecordMetadataOutcome, Books, Plans, IntentFits, TypeOK, Entries, Idle
    <2>6. TempFits'
      BY <1>8 DEF DecideArtOnly, RecordMetadataOutcome, Books, Plans, TempFits, IntentFits
    <2> QED
      BY <2>1, <2>4, <2>5, <2>6
  <1>9. CASE DecideStage
    <2>a. PICK p \in Plans : op' = [op EXCEPT !.art = p.art, !.plan = p.plan]
      BY <1>9 DEF DecideStage
    <2>1. (op \in Ops)'
      BY <2>a, <1>b, PlansType DEF Ops
    <2>2. (row \in Rows)'
      BY <1>b, <1>9 DEF DecideStage
    <2>3. (op.plan \in {"text", "clear", "picture"} /\ op.art \in ArtStates)'
      BY <2>1 DEF Ops
    <2>4. TypeOK'
      BY <1>9, <1>b, <2>2, <2>3, IntentFields
         DEF DecideStage, Plans, TypeOK, Steps, Entries, TempFits, IntentFits
    <2>5. IntentFits'
      BY <1>9, <1>b, IntentFields DEF DecideStage, Plans, IntentFits, TypeOK, Entries, Idle
    <2>6. TempFits'
      BY <1>9 DEF DecideStage, Plans, TempFits, IntentFits
    <2> QED
      BY <2>1, <2>4, <2>5, <2>6
  <1>10. CASE Stage
    <2>a. op.sha \in Bytes /\ Tagged \in Bytes /\ Tagged.audio = op.sha.audio /\ Tagged.text = wanted.text
      BY <1>10, TaggedType DEF Stage, IntentFits, TypeOK
    <2>1. (op \in Ops)'
      BY <1>10, <2>a DEF Stage, Ops
    <2>2. (row \in Rows)'
      BY <1>b, <1>10 DEF Stage
    <2>3. (op.plan \in {"text", "clear", "picture"} /\ op.art \in ArtStates)'
      BY <2>1 DEF Ops
    <2>4. TypeOK'
      BY <1>10, <1>b, <2>2, <2>3, IntentFields
         DEF Stage, Tagged, TypeOK, Steps, Entries, TempFits, IntentFits
    <2>5. IntentFits'
      BY <1>10, <2>a, <2>1, <1>b DEF Stage, Ops, IntentFits
    <2>6. TempFits'
      BY <1>10 DEF Stage, Tagged, TempFits, IntentFits
    <2> QED
      BY <2>1, <2>4, <2>5, <2>6
  <1>11. CASE StageWithoutPicture
    <2>1. (op \in Ops)'
      BY <1>11 DEF StageWithoutPicture, Ops, ArtStates
    <2>2. (row \in Rows)'
      BY <1>b, <1>11 DEF StageWithoutPicture
    <2>3. (op.plan \in {"text", "clear", "picture"} /\ op.art \in ArtStates)'
      BY <2>1 DEF Ops
    <2>4. TypeOK'
      BY <1>11, <1>b, <2>2, <2>3, IntentFields
         DEF StageWithoutPicture, TypeOK, Steps, Entries, TempFits, IntentFits
    <2>5. IntentFits'
      BY <1>11, <1>b, IntentFields DEF StageWithoutPicture, IntentFits, TypeOK, Entries, Idle
    <2>6. TempFits'
      BY <1>11 DEF StageWithoutPicture, TempFits, IntentFits
    <2> QED
      BY <2>1, <2>4, <2>5, <2>6
  <1>12. CASE StageFails
    <2>1. (op \in Ops)'
      BY <1>d, <1>12 DEF StageFails
    <2>2. (row \in Rows)'
      BY ZenonT(40), <1>a, <1>b, BooksType, <1>12
         DEF StageFails, RecordMetadataOutcome, IntentFits, TagStates, ArtStates, TypeOK
    <2>3. (op.plan \in {"text", "clear", "picture"} /\ op.art \in ArtStates)'
      BY <2>1 DEF Ops
    <2>4. TypeOK'
      BY <1>12, <1>b, <2>2, <2>3, IntentFields
         DEF StageFails, RecordMetadataOutcome, Books, TypeOK, Steps, Entries, TempFits,
             IntentFits
    <2>5. IntentFits'
      BY <1>12, <1>b, IntentFields
         DEF StageFails, RecordMetadataOutcome, Books, IntentFits, TypeOK, Entries, Idle
    <2>6. TempFits'
      BY <1>12 DEF StageFails, RecordMetadataOutcome, Books, TempFits, IntentFits
    <2> QED
      BY <2>1, <2>4, <2>5, <2>6
  <1>13. CASE BeginMetadataReplacement
    <2>a. /\ row'.intent \in Intents /\ row' = [row EXCEPT !.intent = row'.intent]
          /\ row'.intent.sha = op.staged /\ row'.intent.prev = op.sha
          /\ op.staged.audio = op.sha.audio /\ op.staged.text \in Texts
      BY <1>13, <1>a, <1>b DEF BeginMetadataReplacement, Intents, IntentFits, TagStates, Rows
    <2>1. (op \in Ops)'
      BY <1>d, <1>13 DEF BeginMetadataReplacement
    <2>2. (row \in Rows)'
      BY <1>b, <2>a DEF Rows
    <2>3. (op.plan \in {"text", "clear", "picture"} /\ op.art \in ArtStates)'
      BY <2>1 DEF Ops
    <2>4. TypeOK'
      BY <1>13, <2>a, <2>2, <2>3 DEF BeginMetadataReplacement, TypeOK, Steps
    <2>5. IntentFits'
      BY <1>13, <2>a DEF BeginMetadataReplacement, TypeOK, Entries, IntentFits
    <2>6. TempFits'
      BY <1>13, <2>a DEF BeginMetadataReplacement, TempFits, IntentFits
    <2> QED
      BY <2>1, <2>4, <2>5, <2>6
  <1>14. CASE Create
    BY <1>14, <1>b, <1>d, IntentFields DEF Create, TypeOK, Steps, Entries, Idle, IntentFits, TempFits
  <1>15. CASE Copy
    BY <1>15, <1>b, <1>d, IntentFields DEF Copy, TypeOK, Steps, Entries, Idle, IntentFits, TempFits
  <1>16. CASE CheckDestination
    BY <1>16, <1>b, <1>d, IntentFields
       DEF CheckDestination, TypeOK, Steps, Entries, Idle, IntentFits, TempFits
  <1>17. CASE Exchange
    <2>a. temp \in Bytes /\ temp \in Entries /\ temp # Absent
      BY <1>17, <1>b, IntentFields DEF Exchange, Entries, TempFits, IntentFits
    <2>1. (op \in Ops)'
      BY <1>d, <1>17 DEF Exchange
    <2>2. (row \in Rows)'
      BY <1>b, <1>17 DEF Exchange
    <2>3. (op.plan \in {"text", "clear", "picture"} /\ op.art \in ArtStates)'
      BY <2>1 DEF Ops
    <2>4. TypeOK'
      BY <2>a, <1>17, <2>2, <2>3 DEF Exchange, Swap, TypeOK, Steps, TempFits, IntentFits
    <2>5. IntentFits'
      BY <1>17, <2>a DEF Exchange, Swap, TypeOK, Entries, IntentFits
    <2>6. TempFits'
      BY <1>17, <2>a DEF Exchange, Swap, TypeOK, Entries, TempFits, IntentFits
    <2> QED
      BY <2>1, <2>4, <2>5, <2>6
  <1>18. CASE Verify
    BY <1>18, <1>b, <1>d, IntentFields DEF Verify, TypeOK, Steps, Entries, Idle, IntentFits, TempFits
  <1>19. CASE SyncPublished
    BY <1>19, <1>b, <1>d, IntentFields DEF SyncPublished, TypeOK, Steps, Entries, Idle, IntentFits, TempFits
  <1>20. CASE Rollback
    <2>1. (op \in Ops)'
      BY <1>d, <1>20 DEF Rollback
    <2>2. (row \in Rows)'
      BY <1>b, <1>20 DEF Rollback
    <2>3. (op.plan \in {"text", "clear", "picture"} /\ op.art \in ArtStates)'
      BY <2>1 DEF Ops
    <2>4. TypeOK'
      BY <1>20, <1>b, <2>2, <2>3, IntentFields
         DEF Rollback, Swap, TypeOK, Steps, Entries, TempFits, IntentFits
    <2>5. IntentFits'
      BY <1>20, <1>b DEF Rollback, Swap, TempFits, IntentFits
    <2>6. TempFits'
      BY <1>20 DEF Rollback, Swap, TempFits, IntentFits
    <2> QED
      BY <2>1, <2>4, <2>5, <2>6
  <1>21. CASE Cleanup
    <2>1. (op \in Ops)'
      BY <1>d, <1>21 DEF Cleanup
    <2>2. (row \in Rows)'
      BY <1>b, <1>21 DEF Cleanup
    <2>3. (op.plan \in {"text", "clear", "picture"} /\ op.art \in ArtStates)'
      BY <2>1 DEF Ops
    <2>4. TypeOK'
      BY <1>21, <1>b, <2>2, <2>3, IntentFields DEF Cleanup, TypeOK, Steps, Entries, TempFits, IntentFits
    <2>5. IntentFits'
      BY <1>21, <1>b, IntentFields DEF Cleanup, IntentFits, TypeOK, Entries, Idle
    <2>6. TempFits'
      BY <1>21 DEF Cleanup, TempFits, IntentFits
    <2> QED
      BY <2>1, <2>4, <2>5, <2>6
  <1>22. CASE RemoveDisplaced
    <2>1. (op \in Ops)'
      BY <1>d, <1>22 DEF RemoveDisplaced
    <2>2. (row \in Rows)'
      BY <1>b, <1>22 DEF RemoveDisplaced
    <2>3. (op.plan \in {"text", "clear", "picture"} /\ op.art \in ArtStates)'
      BY <2>1 DEF Ops
    <2>4. TypeOK'
      BY <1>22, <1>b, <2>2, <2>3, IntentFields
         DEF RemoveDisplaced, TypeOK, Steps, Entries, TempFits, IntentFits
    <2>5. IntentFits'
      BY <1>22, <1>b, IntentFields DEF RemoveDisplaced, IntentFits, TypeOK, Entries, Idle
    <2>6. TempFits'
      BY <1>22 DEF RemoveDisplaced, TempFits, IntentFits
    <2> QED
      BY <2>1, <2>4, <2>5, <2>6
  <1>23. CASE Finish
    <2>1. (op \in Ops)'
      BY <1>d, <1>23 DEF Finish
    <2>2. (row \in Rows)'
      BY ZenonT(40), <1>a, <1>b, IntentFields, BooksType, <1>23
         DEF Finish, FinishMetadataReplacement, IntentFits, TagStates, ArtStates, TypeOK
    <2>3. (op.plan \in {"text", "clear", "picture"} /\ op.art \in ArtStates)'
      BY <2>1 DEF Ops
    <2>4. TypeOK'
      BY <1>23, <1>b, <2>2, <2>3, IntentFields
         DEF Finish, FinishMetadataReplacement, Books, TypeOK, Steps, Entries, TempFits,
             IntentFits
    <2>5. IntentFits'
      BY <1>23, <1>b, IntentFields
         DEF Finish, FinishMetadataReplacement, Books, IntentFits, TypeOK, Entries, Idle
    <2>6. TempFits'
      BY <1>23 DEF Finish, FinishMetadataReplacement, Books, TempFits, IntentFits
    <2> QED
      BY <2>1, <2>4, <2>5, <2>6
  <1>24. CASE Fail
    <2>a. /\ pc # "idle"
          /\ \/ pc' = "idle" /\ op' = Idle
             \/ pc \in Before /\ pc' = "cleanup" /\ op' = op
             \/ pc \in {"verify", "sync"} /\ pc' = "rollback" /\ op' = op
      BY <1>24 DEF Fail, TypeOK, Steps
    <2>1. (op \in Ops)'
      BY <1>d, <1>24 DEF Fail
    <2>2. (row \in Rows)'
      BY <1>b, <1>24 DEF Fail
    <2>3. (op.plan \in {"text", "clear", "picture"} /\ op.art \in ArtStates)'
      BY <2>1 DEF Ops
    <2>4. TypeOK'
      BY <1>24, <1>b, <2>2, <2>3, IntentFields DEF Fail, TypeOK, Steps, Entries, TempFits, IntentFits
    <2>5. IntentFits'
      BY <2>a, <1>24 DEF Fail, IntentFits
    <2>6. TempFits'
      BY <2>a, <1>24 DEF Fail, TempFits, IntentFits
    <2> QED
      BY <2>1, <2>4, <2>5, <2>6
  <1>25. CASE Crash
    <2>1. (op \in Ops)'
      BY <1>d, <1>25 DEF Crash
    <2>2. (row \in Rows)'
      BY <1>b, <1>25 DEF Crash
    <2>3. (op.plan \in {"text", "clear", "picture"} /\ op.art \in ArtStates)'
      BY <2>1 DEF Ops
    <2>4. TypeOK'
      BY <1>25, <1>b, <2>2, <2>3, IntentFields DEF Crash, TypeOK, Steps, Entries, TempFits, IntentFits
    <2>5. IntentFits'
      BY <1>25, <1>b, IntentFields DEF Crash, IntentFits, TypeOK, Entries, Idle
    <2>6. TempFits'
      BY <1>25 DEF Crash, TempFits, IntentFits
    <2> QED
      BY <2>1, <2>4, <2>5, <2>6
  <1>26. CASE Calm
    BY <1>26, <1>b, <1>d, IntentFields DEF Calm, TypeOK, Steps, Entries, Idle, IntentFits, TempFits
  <1>27. ASSUME NEW w \in [text : Texts, art : Arts \cup {NoArt}], ApplyDesired(w)
         PROVE  TypeInv'
    <2>1. (op \in Ops)'
      BY <1>d, <1>27 DEF ApplyDesired
    <2>2. (row \in Rows)'
      BY <1>b, <1>27 DEF ApplyDesired, Rows, TagStates, ArtStates
    <2>3. (op.plan \in {"text", "clear", "picture"} /\ op.art \in ArtStates)'
      BY <2>1 DEF Ops
    <2>4. TypeOK'
      BY <1>27, <1>b, <2>2, <2>3, IntentFields
         DEF ApplyDesired, TypeOK, Steps, Entries, TempFits, IntentFits
    <2>5. IntentFits'
      BY <1>27, <1>b, IntentFields DEF ApplyDesired, IntentFits, TypeOK, Entries, Idle
    <2>6. TempFits'
      BY <1>27 DEF ApplyDesired, TempFits, IntentFits
    <2> QED
      BY <2>1, <2>4, <2>5, <2>6
  <1>28. ASSUME NEW tagged \in BOOLEAN, NEW pictured \in BOOLEAN, Reacquire(tagged, pictured)
         PROVE  TypeInv'
    <2>a. canon' \in Bytes /\ canon' # Fragment /\ canon' \in Entries
      BY <1>28, <1>b, FileType DEF Reacquire, TypeOK, Entries
    <2>1. (op \in Ops)'
      BY <1>d, <1>28 DEF Reacquire
    <2>2. (row \in Rows)'
      BY <1>b, <1>28, PublishedType DEF Reacquire, TypeOK
    <2>3. (op.plan \in {"text", "clear", "picture"} /\ op.art \in ArtStates)'
      BY <2>1 DEF Ops
    <2>4. TypeOK'
      BY <1>28, <2>a, <2>2, <2>3, AudioType, PublishedType DEF Reacquire, TypeOK, Entries
    <2>5. IntentFits'
      BY <1>28, <2>a, PublishedType DEF Reacquire, TypeOK, IntentFits
    <2>6. TempFits'
      BY <1>28, PublishedType DEF Reacquire, TypeOK, TempFits, IntentFits
    <2> QED
      BY <2>1, <2>4, <2>5, <2>6
  <1>29. ASSUME NEW f \in Foreign, ForeignWrite(f)
         PROVE  TypeInv'
    <2>a. canon' \in Bytes /\ canon' # Fragment /\ canon' \in Entries
      BY <1>29 DEF ForeignWrite, Bytes, Entries
    <2>1. (op \in Ops)'
      BY <1>d, <1>29 DEF ForeignWrite
    <2>2. (row \in Rows)'
      BY <1>b, <1>29 DEF ForeignWrite
    <2>3. (op.plan \in {"text", "clear", "picture"} /\ op.art \in ArtStates)'
      BY <2>1 DEF Ops
    <2>4. TypeOK'
      BY <1>29, <2>a, <2>2, <2>3 DEF ForeignWrite, TypeOK
    <2>5. IntentFits'
      BY <1>29, <2>a DEF ForeignWrite, IntentFits
    <2>6. TempFits'
      BY <1>29 DEF ForeignWrite, AudioOf, Unwatched, TempFits, IntentFits
    <2> QED
      BY <2>1, <2>4, <2>5, <2>6
  <1>30. CASE ForeignDelete
    <2>1. (op \in Ops)'
      BY <1>d, <1>30 DEF ForeignDelete
    <2>2. (row \in Rows)'
      BY <1>b, <1>30 DEF ForeignDelete
    <2>3. (op.plan \in {"text", "clear", "picture"} /\ op.art \in ArtStates)'
      BY <2>1 DEF Ops
    <2>4. TypeOK'
      BY <1>30, <1>b, <2>2, <2>3, IntentFields
         DEF ForeignDelete, AudioOf, TypeOK, Steps, Entries, TempFits, IntentFits
    <2>5. IntentFits'
      BY <1>30, <1>b, IntentFields DEF ForeignDelete, AudioOf, IntentFits, TypeOK, Entries, Idle
    <2>6. TempFits'
      BY <1>30 DEF ForeignDelete, AudioOf, TempFits, IntentFits
    <2> QED
      BY <2>1, <2>4, <2>5, <2>6
  <1>31. CASE UNCHANGED vars
    BY <1>31 DEF vars, TypeOK, IntentFits, TempFits
  <1> QED
    BY <1>1, <1>2, <1>3, <1>4, <1>5, <1>6, <1>7, <1>8, <1>9, <1>10, <1>11, <1>12, <1>13, <1>14, <1>15,
       <1>16, <1>17, <1>18, <1>19, <1>20, <1>21, <1>22, <1>23, <1>24, <1>25, <1>26, <1>27, <1>28, <1>29,
       <1>30, <1>31
       DEF Next, Refresh
-----------------------------------------------------------------------------
(* What the row claims while only the daemon writes. *)

Claims(b) ==
  /\ row.tag = "tagged" => b.text = row.tagFp
  /\ row.art = "embedded" => b.art = row.artFp

Settled ==
  /\ canon \in Bytes /\ row.sha \in {Unknown, canon}
  /\ Claims(canon)

Pending ==
  /\ canon \in {row.intent.sha, row.intent.prev} \/ (canon = Fragment /\ row.intent.sha = row.intent.prev)
  /\ temp \in {Absent, Fragment, row.intent.sha, row.intent.prev}
  /\ temp = Fragment => canon = row.intent.prev
  /\ row.sha \in {Unknown, row.intent.prev}
  /\ Claims(row.intent.prev)
  /\ row.intent.tag = "tagged" /\ row.intent.sha.text = row.intent.tagFp
  /\ row.intent.art = "embedded" => row.intent.sha.art = row.intent.artFp

\* The files, along the command.
Aligned ==
  /\ pc \in Repairing \cup {"discard", "cleanup"} \cup Deciding \cup Before => canon = op.sha
  /\ pc \in After => canon = op.staged
  /\ pc \in {"verify", "sync", "remove", "rollback"} => temp = op.sha
  /\ pc = "stage" /\ op.art = "embedded" => op.plan = "picture" \/ (op.plan = "text" /\ op.sha.art = wanted.art)
  /\ pc = "stage" /\ op.plan = "picture" => op.art = "embedded"
  /\ pc = "begin" /\ op.art = "embedded" => op.staged.art = wanted.art

Faithful ==
  ~strayed =>
    /\ row.intent = NoIntent => Settled
    /\ row.intent # NoIntent => Pending
    /\ Aligned

BooksInv == TypeInv /\ Faithful

\* The row acquisition records is true of the file it publishes.
LEMMA PublishedFits ==
  ASSUME NEW tagged \in BOOLEAN, NEW pictured \in BOOLEAN, Presentable(tagged, pictured)
  PROVE  LET b == PublishedBooks(tagged, pictured)
             f == File(tagged, pictured)
         IN  b.sha = f /\ (b.tag = "tagged" => f.text = b.tagFp) /\ (b.art = "embedded" => f.art = b.artFp)
  <1>1. CASE native
    BY <1>1 DEF PublishedBooks, File, Books
  <1>2. CASE ~native
    <2>1. tagged = FALSE /\ pictured = FALSE
      BY <1>2 DEF Presentable
    <2> QED
      BY <1>2, <2>1 DEF PublishedBooks, File, Books
  <1> QED
    BY <1>1, <1>2

\* A plan that keeps the cover and calls it embedded is made when the row claims it.
LEMMA PlansFit ==
  ASSUME NEW p \in Plans, NEW b, row.art = "embedded" => b.art = row.artFp
  PROVE  /\ p.art = "embedded" => p.plan = "picture" \/ (p.plan = "text" /\ b.art = wanted.art)
         /\ p.plan = "picture" => p.art = "embedded"
  BY DEF Plans, ArtCurrent

\* No action makes the row or an intent lie while only the daemon writes.
LEMMA BooksStep == BooksInv /\ TypeInv' /\ [Next]_vars => BooksInv'
  <1> SUFFICES ASSUME BooksInv, TypeInv', [Next]_vars PROVE BooksInv' OBVIOUS
  <1> USE NullAssumption
      DEF BooksInv, TypeInv, Goto, Leave, Locals, bookVars, fileVars, histVars,
          Repairing, Deciding, Before, After, Replacing
  <1>a. row \in Rows /\ wanted \in [text : Texts, art : Arts \cup {NoArt}] /\ canon \in Entries
    BY DEF TypeOK
  <1>1. CASE Start
    BY <1>1, <1>a, IntentFields DEF Start, Faithful, Settled, Pending, Claims, Aligned, IntentFits, TempFits
  <1>2. CASE Reconcile
    BY <1>2, <1>a, IntentFields
       DEF Reconcile, Faithful, Settled, Pending, Claims, Aligned, IntentFits, TempFits
  <1>3. CASE Restore
    BY <1>3, <1>a, IntentFields
       DEF Restore, CutShort, Faithful, Settled, Pending, Claims, Aligned, IntentFits, TempFits
  <1>4. CASE FinishOld
    BY <1>4, <1>a, IntentFields
       DEF FinishOld, FinishMetadataReplacement, Books, Faithful, Settled, Pending, Claims, Aligned,
           IntentFits, TempFits
  <1>5. CASE Discard
    BY <1>5, <1>a, IntentFields
       DEF Discard, Faithful, Settled, Pending, Claims, Aligned, IntentFits, TempFits
  <1>6. CASE DecideNothing
    BY <1>6, <1>a, IntentFields
       DEF DecideNothing, Faithful, Settled, Pending, Claims, Aligned, IntentFits, TempFits
  <1>7. CASE DecideUnsupported
    BY <1>7, <1>a, IntentFields
       DEF DecideUnsupported, Books, Faithful, Settled, Pending, Claims, Aligned, IntentFits,
           TempFits
  <1>8. CASE DecideArtOnly
    <2>a. ~strayed => /\ row.art = "embedded" => op.sha.art = row.artFp
                      /\ row.tag = "tagged" => op.sha.text = row.tagFp
      BY <1>8 DEF DecideArtOnly, Faithful, Settled, Pending, Claims, Aligned, IntentFits
    <2>b. PICK p \in Plans : p.plan = "text" /\ row' = Books(row.tag, p.art, wanted.text, wanted.art, op.sha)
      BY <1>8 DEF DecideArtOnly, RecordMetadataOutcome
    <2>c. CASE strayed
      BY <1>8, <2>c DEF DecideArtOnly, Faithful
    <2>d. CASE ~strayed
      BY <1>8, <2>a, <2>b, <2>d, PlansFit
         DEF DecideArtOnly, Books, TextCurrent, Faithful, Settled, Aligned, Claims, IntentFits
    <2>1. Faithful'
      BY <2>c, <2>d
    <2> QED
      BY <2>1 DEF BooksInv
  <1>9. CASE DecideStage
    <2>a. ~strayed => (row.art = "embedded" => op.sha.art = row.artFp)
      BY <1>9 DEF DecideStage, Faithful, Settled, Pending, Claims, Aligned, IntentFits
    <2>b. PICK p \in Plans : op' = [op EXCEPT !.art = p.art, !.plan = p.plan]
      BY <1>9 DEF DecideStage
    <2>c. op'.sha = op.sha /\ op'.art = p.art /\ op'.plan = p.plan
      BY <2>b, OpFields DEF Ops
    <2>1. Faithful'
      BY <1>9, <1>a, <2>a, <2>b, <2>c, PlansFit
         DEF DecideStage, Faithful, Settled, Pending, Claims, Aligned, IntentFits, TempFits
    <2> QED
      BY <2>1 DEF BooksInv
  <1>10. CASE Stage
    <2>a. /\ op' = [op EXCEPT !.staged = Tagged]
          /\ op.plan = "picture" => Tagged.art = wanted.art
          /\ op.plan = "text" => Tagged.art = op.sha.art
      BY <1>10, <1>a, TaggedType DEF Stage, IntentFits
    <2>b. op'.sha = op.sha /\ op'.art = op.art /\ op'.staged = Tagged
      BY <2>a DEF Ops
    <2>1. Faithful'
      BY <1>10, <1>a, <2>a, <2>b
         DEF Stage, Faithful, Settled, Pending, Claims, Aligned, IntentFits, TempFits
    <2> QED
      BY <2>1 DEF BooksInv
  <1>11. CASE StageWithoutPicture
    BY <1>11, <1>a, IntentFields
       DEF StageWithoutPicture, Faithful, Settled, Pending, Claims, Aligned, IntentFits, TempFits
  <1>12. CASE StageFails
    BY <1>12, <1>a, IntentFields
       DEF StageFails, RecordMetadataOutcome, Books, Faithful, Settled, Pending, Claims, Aligned,
           IntentFits, TempFits
  <1>13. CASE BeginMetadataReplacement
    BY <1>13, <1>a, IntentFields
       DEF BeginMetadataReplacement, Faithful, Settled, Pending, Claims, Aligned, IntentFits,
           TempFits
  <1>14. CASE Create
    BY <1>14, <1>a, IntentFields
       DEF Create, Faithful, Settled, Pending, Claims, Aligned, IntentFits, TempFits
  <1>15. CASE Copy
    BY <1>15, <1>a, IntentFields DEF Copy, Faithful, Settled, Pending, Claims, Aligned, IntentFits, TempFits
  <1>16. CASE CheckDestination
    BY <1>16, <1>a, IntentFields
       DEF CheckDestination, Faithful, Settled, Pending, Claims, Aligned, IntentFits, TempFits
  <1>17. CASE Exchange
    BY <1>17, <1>a, IntentFields
       DEF Exchange, Swap, Faithful, Settled, Pending, Claims, Aligned, IntentFits, TempFits
  <1>18. CASE Verify
    BY <1>18, <1>a, IntentFields
       DEF Verify, Faithful, Settled, Pending, Claims, Aligned, IntentFits, TempFits
  <1>19. CASE SyncPublished
    BY <1>19, <1>a, IntentFields
       DEF SyncPublished, Faithful, Settled, Pending, Claims, Aligned, IntentFits, TempFits
  <1>20. CASE Rollback
    BY <1>20, <1>a, IntentFields
       DEF Rollback, Swap, Faithful, Settled, Pending, Claims, Aligned, IntentFits, TempFits
  <1>21. CASE Cleanup
    BY <1>21, <1>a, IntentFields
       DEF Cleanup, Faithful, Settled, Pending, Claims, Aligned, IntentFits, TempFits
  <1>22. CASE RemoveDisplaced
    BY <1>22, <1>a, IntentFields
       DEF RemoveDisplaced, Faithful, Settled, Pending, Claims, Aligned, IntentFits, TempFits
  <1>23. CASE Finish
    BY <1>23, <1>a, IntentFields
       DEF Finish, FinishMetadataReplacement, Books, Faithful, Settled, Pending, Claims, Aligned,
           IntentFits, TempFits
  <1>24. CASE Fail
    <2>a. /\ pc # "idle"
          /\ \/ pc' = "idle" /\ op' = Idle
             \/ pc \in Before /\ pc' = "cleanup" /\ op' = op
             \/ pc \in {"verify", "sync"} /\ pc' = "rollback" /\ op' = op
      BY <1>24 DEF Fail, TypeOK, Steps
    <2>1. Faithful'
      BY <2>a, <1>24 DEF Fail, Faithful, Settled, Pending, Claims, Aligned
    <2> QED
      BY <2>1 DEF BooksInv
  <1>25. CASE Crash
    BY <1>25, <1>a, IntentFields
       DEF Crash, Faithful, Settled, Pending, Claims, Aligned, IntentFits, TempFits
  <1>26. CASE Calm
    BY <1>26, <1>a, IntentFields DEF Calm, Faithful, Settled, Pending, Claims, Aligned, IntentFits, TempFits
  <1>27. ASSUME NEW w \in [text : Texts, art : Arts \cup {NoArt}], ApplyDesired(w)
         PROVE  BooksInv'
    BY <1>27, <1>a, IntentFields
       DEF ApplyDesired, Faithful, Settled, Pending, Claims, Aligned, IntentFits, TempFits
  <1>28. ASSUME NEW tagged \in BOOLEAN, NEW pictured \in BOOLEAN, Reacquire(tagged, pictured)
         PROVE  BooksInv'
    <2>a. CASE strayed'
      BY <2>a DEF Faithful
    <2>b. ASSUME ~strayed' PROVE Faithful'
      BY <1>28, <2>b, <1>a, FileType, PublishedType, PublishedFits
         DEF Reacquire, Faithful, Settled, Claims, Aligned
    <2>1. Faithful'
      BY <2>a, <2>b
    <2> QED
      BY <2>1 DEF BooksInv
  <1>29. ASSUME NEW f \in Foreign, ForeignWrite(f)
         PROVE  BooksInv'
    BY <1>29, <1>a, IntentFields
       DEF ForeignWrite, Unwatched, Faithful, Settled, Pending, Claims, Aligned, IntentFits,
           TempFits
  <1>30. CASE ForeignDelete
    <2>1. Faithful'
      BY <1>30, <1>a, IntentFields
         DEF ForeignDelete, Faithful, Settled, Pending, Claims, Aligned, IntentFits, TempFits
    <2> QED
      BY <2>1 DEF BooksInv
  <1>31. CASE UNCHANGED vars
    BY <1>31
       DEF vars, BooksInv, Faithful, Settled, Pending, Claims, Aligned, TypeInv, TypeOK, IntentFits,
           TempFits
  <1> QED
    BY <1>1, <1>2, <1>3, <1>4, <1>5, <1>6, <1>7, <1>8, <1>9, <1>10, <1>11, <1>12, <1>13, <1>14, <1>15,
       <1>16, <1>17, <1>18, <1>19, <1>20, <1>21, <1>22, <1>23, <1>24, <1>25, <1>26, <1>27, <1>28, <1>29,
       <1>30, <1>31
       DEF Next, Refresh

-----------------------------------------------------------------------------
(* Where the audio is that must not be lost. *)

\* Audio that the files, the locals and the intent carry was written by someone.
UsedFits ==
  /\ AudioOf(canon) \cup AudioOf(temp) \cup AudioOf(op.sha) \subseteq used \cup {Ours}
  /\ row.intent # NoIntent => row.intent.sha.audio \in used \cup {Ours}

\* A step of the command knows another copy of what it is about to remove:
\* the destination has the audio that was digested, what was displaced is known
\* while it cannot be seen, and an old intent's copy has the audio it names.
Covered ==
  /\ pc \notin {"idle", "cleanup"} => AudioOf(op.sha) \cap owed \subseteq AudioOf(canon) \cup leaked
  /\ pc \in {"reconcile", "restore"} => AudioOf(canon) \cap owed \subseteq AudioOf(op.sha)
  /\ pc \in {"verify", "sync", "rollback"} => AudioOf(canon) \cap owed \subseteq AudioOf(temp) \cup leaked
  /\ pc = "cleanup" => AudioOf(temp) \cap owed \subseteq AudioOf(canon) \cup leaked
  /\ row.intent # NoIntent /\ temp \in Bytes =>
       AudioOf(row.intent.sha) \cap owed \subseteq AudioOf(temp) \cup leaked

SurvivalInv == BooksInv /\ UsedFits /\ ForeignSurvives /\ Covered

\* No action loses foreign audio, and each keeps the copies the next ones rely on.
LEMMA SurvivalStep == SurvivalInv /\ BooksInv' /\ [Next]_vars => SurvivalInv'
  <1> SUFFICES ASSUME SurvivalInv, BooksInv', [Next]_vars PROVE SurvivalInv' OBVIOUS
  <1> USE NullAssumption, ContentsAssumption
      DEF SurvivalInv, BooksInv, TypeInv, Goto, Leave, Locals, bookVars, fileVars, histVars,
          Repairing, Deciding, Before, After, Replacing
  <1>a. row \in Rows /\ canon \in Entries /\ temp \in Entries /\ owed \subseteq used /\ used \subseteq Foreign
    BY DEF TypeOK
  <1>b. Idle.sha \notin Bytes
    BY DEF Idle
  <1>1. CASE Start
    BY <1>1, <1>a, <1>b, IntentFields
       DEF Start, UsedFits, ForeignSurvives, Covered, AudioOf, IntentFits, TempFits
  <1>2. CASE Reconcile
    BY <1>2, <1>a, <1>b, IntentFields
       DEF Reconcile, UsedFits, ForeignSurvives, Covered, AudioOf, IntentFits, TempFits
  <1>3. CASE Restore
    <2>a. row.intent # NoIntent /\ op.sha = row.intent.sha /\ temp # Absent /\ pc = "restore"
      BY <1>3 DEF Restore, IntentFits, TempFits
    <2>b. temp = Fragment => CutShort
      BY <2>a DEF CutShort, Faithful, Pending, Aligned
    <2>c. AudioOf(canon) \cap owed \subseteq AudioOf(temp) \cup leaked \/ temp = Fragment
      BY <2>a, <1>a DEF Covered, Entries
    <2>1. UsedFits'
      BY <1>3, <1>a, <1>b, IntentFields DEF Restore, CutShort, UsedFits, AudioOf, IntentFits
    <2>2. ForeignSurvives'
      BY <1>3, <2>a, <2>b, <2>c DEF Restore, ForeignSurvives, AudioOf
    <2>3. Covered'
      BY <1>3, <1>a, <1>b, IntentFields
         DEF Restore, CutShort, ForeignSurvives, Covered, UsedFits, AudioOf, IntentFits, TempFits
    <2> QED
      BY <2>1, <2>2, <2>3 DEF SurvivalInv
  <1>4. CASE FinishOld
    BY <1>4, <1>a, <1>b, IntentFields
       DEF FinishOld, FinishMetadataReplacement, Books, UsedFits, ForeignSurvives, Covered, AudioOf,
           IntentFits, TempFits
  <1>5. CASE Discard
    BY <1>5, <1>a, <1>b, IntentFields
       DEF Discard, UsedFits, ForeignSurvives, Covered, AudioOf, IntentFits, TempFits
  <1>6. CASE DecideNothing
    BY <1>6, <1>a, <1>b, IntentFields
       DEF DecideNothing, UsedFits, ForeignSurvives, Covered, AudioOf, IntentFits, TempFits
  <1>7. CASE DecideUnsupported
    BY <1>7, <1>a, <1>b, IntentFields
       DEF DecideUnsupported, Books, UsedFits, ForeignSurvives, Covered, AudioOf, IntentFits,
           TempFits
  <1>8. CASE DecideArtOnly
    BY <1>8, <1>a, <1>b, IntentFields
       DEF DecideArtOnly, RecordMetadataOutcome, Books, Plans, UsedFits, ForeignSurvives, Covered,
           AudioOf, IntentFits, TempFits
  <1>9. CASE DecideStage
    BY <1>9, <1>a, <1>b, IntentFields
       DEF DecideStage, Plans, UsedFits, ForeignSurvives, Covered, AudioOf, IntentFits, TempFits
  <1>10. CASE Stage
    BY <1>10, <1>a, <1>b, IntentFields
       DEF Stage, Tagged, UsedFits, ForeignSurvives, Covered, AudioOf, IntentFits, TempFits
  <1>11. CASE StageWithoutPicture
    BY <1>11, <1>a, <1>b, IntentFields
       DEF StageWithoutPicture, UsedFits, ForeignSurvives, Covered, AudioOf, IntentFits, TempFits
  <1>12. CASE StageFails
    BY <1>12, <1>a, <1>b, IntentFields
       DEF StageFails, RecordMetadataOutcome, Books, UsedFits, ForeignSurvives, Covered, AudioOf,
           IntentFits, TempFits
  <1>13. CASE BeginMetadataReplacement
    BY <1>13, <1>a, <1>b, IntentFields
       DEF BeginMetadataReplacement, UsedFits, ForeignSurvives, Covered, AudioOf, IntentFits,
           TempFits
  <1>14. CASE Create
    BY <1>14, <1>a, <1>b, IntentFields
       DEF Create, UsedFits, ForeignSurvives, Covered, AudioOf, IntentFits, TempFits
  <1>15. CASE Copy
    BY <1>15, <1>a, <1>b, IntentFields
       DEF Copy, UsedFits, ForeignSurvives, Covered, AudioOf, IntentFits, TempFits
  <1>16. CASE CheckDestination
    BY <1>16, <1>a, <1>b, IntentFields
       DEF CheckDestination, UsedFits, ForeignSurvives, Covered, AudioOf, IntentFits, TempFits
  <1>17. CASE Exchange
    BY <1>17, <1>a, <1>b, IntentFields
       DEF Exchange, Swap, UsedFits, ForeignSurvives, Covered, AudioOf, IntentFits, TempFits
  <1>18. CASE Verify
    BY <1>18, <1>a, <1>b, IntentFields
       DEF Verify, UsedFits, ForeignSurvives, Covered, AudioOf, IntentFits, TempFits
  <1>19. CASE SyncPublished
    BY <1>19, <1>a, <1>b, IntentFields
       DEF SyncPublished, UsedFits, ForeignSurvives, Covered, AudioOf, IntentFits, TempFits
  <1>20. CASE Rollback
    BY <1>20, <1>a, <1>b, IntentFields
       DEF Rollback, Swap, UsedFits, ForeignSurvives, Covered, AudioOf, IntentFits, TempFits
  <1>21. CASE Cleanup
    BY <1>21, <1>a, <1>b, IntentFields
       DEF Cleanup, UsedFits, ForeignSurvives, Covered, AudioOf, IntentFits, TempFits
  <1>22. CASE RemoveDisplaced
    BY <1>22, <1>a, <1>b, IntentFields
       DEF RemoveDisplaced, UsedFits, ForeignSurvives, Covered, AudioOf, IntentFits, TempFits
  <1>23. CASE Finish
    BY <1>23, <1>a, <1>b, IntentFields
       DEF Finish, FinishMetadataReplacement, Books, UsedFits, ForeignSurvives, Covered, AudioOf,
           IntentFits, TempFits
  <1>24. CASE Fail
    <2>a. /\ pc # "idle"
          /\ \/ pc' = "idle" /\ op' = Idle
             \/ pc \in Before /\ pc' = "cleanup" /\ op' = op
             \/ pc \in {"verify", "sync"} /\ pc' = "rollback" /\ op' = op
      BY <1>24 DEF Fail, TypeOK, Steps
    <2>1. UsedFits'
      BY <1>24, <1>a, <1>b, IntentFields DEF Fail, UsedFits, AudioOf, IntentFits
    <2>2. ForeignSurvives'
      BY <1>24, <1>a, <1>b, IntentFields DEF Fail, ForeignSurvives, Covered, AudioOf, IntentFits, TempFits
    <2>3. Covered'
      BY <2>a, <1>24 DEF Fail, Covered, TempFits, IntentFits, AudioOf
    <2> QED
      BY <2>1, <2>2, <2>3 DEF SurvivalInv
  <1>25. CASE Crash
    BY <1>25, <1>a, <1>b, IntentFields
       DEF Crash, UsedFits, ForeignSurvives, Covered, AudioOf, IntentFits, TempFits
  <1>26. CASE Calm
    BY <1>26, <1>a, <1>b, IntentFields
       DEF Calm, UsedFits, ForeignSurvives, Covered, AudioOf, IntentFits, TempFits
  <1>27. ASSUME NEW w \in [text : Texts, art : Arts \cup {NoArt}], ApplyDesired(w)
         PROVE  SurvivalInv'
    BY <1>27, <1>a, <1>b, IntentFields
       DEF ApplyDesired, UsedFits, ForeignSurvives, Covered, AudioOf, IntentFits, TempFits
  <1>28. ASSUME NEW tagged \in BOOLEAN, NEW pictured \in BOOLEAN, Reacquire(tagged, pictured)
         PROVE  SurvivalInv'
    <2>a. canon' \in Bytes /\ canon'.audio = Ours /\ (row'.intent = NoIntent \/ row' = row)
      BY <1>28, FileType, PublishedType DEF Reacquire, TypeOK, File
    <2>1. UsedFits'
      BY <1>28, <1>a, <1>b, <2>a DEF Reacquire, UsedFits, AudioOf
    <2>2. ForeignSurvives'
      BY <1>28, <1>a, <1>b, IntentFields
         DEF Reacquire, ForeignSurvives, Covered, AudioOf, IntentFits, TempFits
    <2>3. Covered'
      BY <1>28, <1>a, <1>b, IntentFields
         DEF Reacquire, ForeignSurvives, Covered, UsedFits, AudioOf, IntentFits, TempFits
    <2> QED
      BY <2>1, <2>2, <2>3 DEF SurvivalInv
  <1>29. ASSUME NEW f \in Foreign, ForeignWrite(f)
         PROVE  SurvivalInv'
    <2>a. canon' \in Bytes /\ canon'.audio = f
      BY <1>29 DEF ForeignWrite, Bytes
    <2>1. UsedFits'
      BY <1>29, <1>a, <1>b, IntentFields DEF ForeignWrite, Unwatched, UsedFits, AudioOf, IntentFits
    <2>2. ForeignSurvives'
      BY <1>29, <2>a DEF ForeignWrite, ForeignSurvives, AudioOf
    <2>3. Covered'
      BY <1>29, <1>a, <1>b, IntentFields
         DEF ForeignWrite, Unwatched, ForeignSurvives, Covered, UsedFits, AudioOf, IntentFits,
             TempFits
    <2> QED
      BY <2>1, <2>2, <2>3 DEF SurvivalInv
  <1>30. CASE ForeignDelete
    <2>1. UsedFits'
      BY <1>30, <1>a, <1>b, IntentFields DEF ForeignDelete, UsedFits, AudioOf, IntentFits
    <2>2. ForeignSurvives'
      BY <1>30, <1>a, <1>b, IntentFields
         DEF ForeignDelete, ForeignSurvives, Covered, AudioOf, IntentFits, TempFits
    <2>3. Covered'
      BY <1>30, <1>a, <1>b, IntentFields
         DEF ForeignDelete, ForeignSurvives, Covered, UsedFits, AudioOf, IntentFits, TempFits
    <2> QED
      BY <2>1, <2>2, <2>3 DEF SurvivalInv
  <1>31. CASE UNCHANGED vars
    BY <1>31
       DEF vars, SurvivalInv, UsedFits, ForeignSurvives, Covered, BooksInv, Faithful, Settled,
           Pending, Claims, Aligned, TypeInv, TypeOK, IntentFits, TempFits
  <1> QED
    BY <1>1, <1>2, <1>3, <1>4, <1>5, <1>6, <1>7, <1>8, <1>9, <1>10, <1>11, <1>12, <1>13, <1>14, <1>15,
       <1>16, <1>17, <1>18, <1>19, <1>20, <1>21, <1>22, <1>23, <1>24, <1>25, <1>26, <1>27, <1>28, <1>29,
       <1>30, <1>31
       DEF Next, Refresh

-----------------------------------------------------------------------------
(* The theorems. *)

\* What acquisition leaves is truly described by its row.
LEMMA BooksInit == Init => BooksInv
  <1> SUFFICES ASSUME Init PROVE BooksInv OBVIOUS
  <1>1. PICK tagged \in BOOLEAN, pictured \in BOOLEAN :
          /\ Presentable(tagged, pictured) /\ canon = File(tagged, pictured)
          /\ row \in {PublishedBooks(tagged, pictured), AdoptedBooks}
    BY DEF Init
  <1>2. TypeInv /\ canon \in Bytes /\ row.intent = NoIntent
    BY <1>1, TypeInit, FileType, PublishedType DEF Init, AdoptedBooks, Books
  <1>3. CASE row = PublishedBooks(tagged, pictured)
    BY <1>1, <1>2, <1>3, PublishedFits
       DEF Init, BooksInv, Faithful, Settled, Claims, Aligned, Repairing, Deciding, Before, After
  <1>4. CASE row = AdoptedBooks
    BY <1>1, <1>2, <1>4
       DEF Init, AdoptedBooks, Books, BooksInv, Faithful, Settled, Claims, Aligned, Repairing, Deciding, Before, After
  <1> QED
    BY <1>1, <1>3, <1>4

\* Initially no foreign audio exists.
LEMMA SurvivalInit == Init => SurvivalInv
  <1> SUFFICES ASSUME Init PROVE SurvivalInv OBVIOUS
  <1>1. BooksInv
    BY BooksInit
  <1>2. canon \in Bytes /\ canon.audio = Ours /\ row.intent = NoIntent /\ Idle.sha \notin Bytes
    BY FileType, PublishedType, NullAssumption DEF Init, File, AdoptedBooks, Books, Idle
  <1> QED
    BY <1>1, <1>2, NullAssumption DEF Init, SurvivalInv, UsedFits, ForeignSurvives, Covered, AudioOf

\* The types and the truth of the books hold in every reachable state.
LEMMA Invariant == Spec => []BooksInv
  <1>1. BooksInv /\ [Next]_vars => BooksInv'
    BY TypeStep, BooksStep DEF BooksInv
  <1> QED
    BY <1>1, BooksInit, PTL DEF Spec

\* Every variable has its type, whatever presentations and files there are.
THEOREM TypeCorrect == Spec => []TypeOK
  <1>1. BooksInv => TypeOK
    BY DEF BooksInv, TypeInv
  <1> QED
    BY <1>1, Invariant, PTL

\* Crashes, I/O errors and repetitions in any number and order never make the
\* row lie about the bytes on disk while only the daemon changes the file.
THEOREM BooksMatchBytesCorrect == Spec => []BooksMatchBytes
  <1>1. BooksInv => BooksMatchBytes
    BY DEF BooksInv, BooksMatchBytes, Faithful, Settled, Pending, Claims
  <1> QED
    BY <1>1, Invariant, PTL

\* A file some other program put at the managed path is never destroyed by a
\* refresh (ForeignSurvives names the documented exception).
THEOREM ForeignSurvivesCorrect == Spec => []ForeignSurvives
  <1>1. SurvivalInv /\ [Next]_vars => SurvivalInv'
    BY TypeStep, BooksStep, SurvivalStep DEF SurvivalInv, BooksInv
  <1>2. SurvivalInv => ForeignSurvives
    BY DEF SurvivalInv
  <1> QED
    BY <1>1, <1>2, SurvivalInit, PTL DEF Spec

\* No step of a refresh makes the managed path name nothing, or a fragment,
\* where it named audio, except the renaming CutShort describes.
THEOREM AudioStaysAvailableCorrect == Spec => AudioStaysAvailable
  <1>1. ASSUME BooksInv, Refresh, canon \in Bytes, ~(pc = "restore" /\ CutShort) PROVE canon' \in Bytes
    <2> USE <1>1, NullAssumption DEF BooksInv, TypeInv, Goto, Leave, fileVars
    <2>a. row \in Rows /\ temp \in Entries
      BY DEF TypeOK
    <2>1. CASE Restore
      <3>1. temp # Fragment
        BY <2>1 DEF Restore, CutShort, Faithful, Pending, Aligned, IntentFits, Repairing
      <3> QED
        BY <2>1, <2>a, <3>1 DEF Restore, TempFits, Entries
    <2>2. CASE Exchange
      BY <2>2, <2>a, IntentFields DEF Exchange, Swap, TempFits, IntentFits, Replacing, Before
    <2>3. CASE Rollback
      BY <2>3 DEF Rollback, Swap, TempFits
    <2>4. CASE ~Restore /\ ~Exchange /\ ~Rollback
      BY <2>4 DEF Refresh, Reconcile, FinishOld, Discard, DecideNothing, DecideUnsupported, DecideArtOnly,
         DecideStage, Stage, StageWithoutPicture, StageFails, BeginMetadataReplacement, Create, Copy,
         CheckDestination, Verify, SyncPublished, Cleanup, RemoveDisplaced, Finish
    <2> QED
      BY <2>1, <2>2, <2>3, <2>4
  <1>2. BooksInv /\ [Next]_vars =>
          [Refresh => (canon \in Bytes => canon' \in Bytes) \/ (pc = "restore" /\ CutShort)]_vars
    BY <1>1
  <1> QED
    BY <1>2, Invariant, PTL DEF Spec, AudioStaysAvailable
=============================================================================
