------------------------- MODULE DiaryQuiet_proofs --------------------------
(***************************************************************************)
(* What the capture side shows and answers when no store call fails and no *)
(* source is erased, however often embedding is out, answers are lost and  *)
(* updates are delivered again.                                            *)
(***************************************************************************)
EXTENDS DiaryDamage_proofs

-----------------------------------------------------------------------------
(***************************************************************************)
(* No run is abandoned, but for a /note that found the row of a draft, and *)
(* nothing disappears.  A run that has inserted or found the row of its    *)
(* message state keeps it; what it read as prior revision stays; nobody    *)
(* stores its vector while it is in flight.                                *)
(***************************************************************************)
NothingLost == erased = {} /\ \A r \in Runs : pc[r] = "aborted" => FoundDraft(r)

InPlace(r) ==
    /\ pc[r] \notin BeforeSource /\ Kind(r) # "delete" => AnsweredRow(r) \in Persisted(r)
    /\ pc[r] # "unused" /\ Kind(r) = "delete" => replayOf[r] = NoRun
    /\ pc[r] \in Replaying => replayOf[r] # r
    /\ priorNote[r] # NoRun => note[priorNote[r]] # Absent
    /\ r \in records => pc[r] \in Settled \union {"mark_ready"}

\* The rows a run leaves are those its kind asks for.
RowsOf(r) ==
    /\ note[r] # Absent => Kind(r) \in NoteKinds
    /\ chunk[r] # Absent => Kind(r) = "note"
    /\ pc[r] = "get_or_create_source" => Kind(r) # "delete"
    /\ r \in sources => Kind(r) # "delete"
    /\ pc[r] \in Replacing \union {"get_active_note"} => Kind(r) # "empty"
    /\ pc[r] \in Saving => ~IsRemoval(r)
    /\ pc[r] = "save_chunk" => Kind(r) = "note"
    /\ r \in sources /\ Kind(r) = "note" =>
          pc[r] \in OnTheWay \union {"save_chunk"} \/ chunk[r] # Absent
    /\ r \in sources /\ Kind(r) = "date_only" => pc[r] \in OnTheWay \/ note[r] # Absent

QuietInv ==
    /\ NothingLost
    /\ \A r \in Runs : CarriesPrior(r)
    /\ \A r \in Runs : InPlace(r)
    /\ \A r \in Runs : RowsOf(r)

\* With a budget of none, no store call fails.
LEMMA NoStoreFault ==
  ASSUME MaxFailures = 0, TypeInv
  PROVE  ~StoreFault
  BY DEF TypeInv, TypeOK, FaultsTypeOK, StoreFault

\* No store call of a run raises: every row its constraints ask for is there.
LEMMA NeverRaises ==
  ASSUME MaxFailures = 0, BaseInv, QuietInv, NEW r \in Runs, HandlerStep(r)
  PROVE  /\ RunStep(r)
         /\ pc[r] # "reconstruct" => ~Raise(r) /\ pc'[r] # "aborted"
         /\ pc'[r] = "aborted" => FoundDraft(r) /\ FoundDraft(r)'
<1>1. TypeInv /\ IngestionTypeOK /\ erased = {} /\ InPlace(r) /\ CarriesPrior(r) /\ Answers(r)
      /\ RowsOf(r)
  BY DEF BaseInv, QuietInv, NothingLost, AnswersInv, TypeInv, TypeOK
<1>2. RunStep(r)
  BY <1>1, NoStoreFault DEF HandlerStep, FailRun
<1>3. r # NoRun /\ Lineage
  BY DEF Runs, NoRun, BaseInv, StoreInv
<1>4. pc[r] = "save_note" => CanSaveNote(r)
  <2>1. pc[r] = "save_note" => replayOf[r] = NoRun /\ Kind(r) # "delete"
    BY <1>1 DEF Answers, ResultLate, Calls, Replaying, RowsOf, Saving, IsRemoval, RemovalKinds
  <2> QED
    BY <1>1, <2>1 DEF InPlace, AnsweredRow, Persisted, BeforeSource, CanSaveNote
<1>5. pc[r] = "save_chunk" => CanSaveChunk(r)
  BY <1>1, <1>3 DEF Answers, SavedOnTheWay, Kept, Retiring, RowsOf, Saving, CanSaveChunk, Lineage
<1>6. pc[r] = "mark_chunk" => CanMarkChunk(priorChunk[r])
  BY <1>1 DEF CarriesPrior, Replacing, Saving, KeptWithChunk, CanMarkChunk
<1>7. pc[r] = "mark_note" => CanMarkNote(priorNote[r])
  BY <1>1 DEF CarriesPrior, Replacing, Saving, InPlace, CanMarkNote
<1>8. pc[r] \in {"mark_failed", "mark_ready"} => CanSetEmbedding(r)
  BY <1>1 DEF Answers, SavedOnTheWay, Enriching, KeptWithChunk, CanSetEmbedding
<1>9. pc[r] = "save_records" => CanSaveRecord(r)
  BY <1>1 DEF Answers, SavedOnTheWay, Enriching, KeptWithChunk, CanSaveRecord, InPlace, Settled
<1>10. pc[r] # "reconstruct" => pc'[r] # "aborted"
  BY <1>1, <1>2, <1>4, <1>5, <1>6, <1>7, <1>8, <1>9
     DEF RunStep, GetOrCreateSource, Reconstruct,
     CountChunks, GetActiveNote, GetActiveChunk, IngestSaveNote, IngestSaveChunk, RetireChunk,
     RetireNote, Embed, MarkFailed, WriteDeadLetter, SaveRecords, MarkReady, AfterSaving,
     RetireFrom, GoTo, Finish, IngestionTypeOK
<1>11. pc[r] # "reconstruct" => ~Raise(r)
  BY <1>1, <1>10 DEF Raise, IngestionTypeOK
<1>12. pc[r] = "reconstruct" => Reconstruct(r) /\ UNCHANGED <<inbound, replayOf>>
  BY <1>2 DEF RunStep, GetOrCreateSource, Reconstruct, CountChunks, GetActiveNote,
     GetActiveChunk, IngestSaveNote, IngestSaveChunk, RetireChunk, RetireNote, Embed, MarkFailed,
     WriteDeadLetter, SaveRecords, MarkReady, UnchangedLocals
<1>13. pc[r] = "reconstruct" /\ pc'[r] = "aborted" => FoundDraft(r)
  <2>1. pc[r] = "reconstruct" => replayOf[r] # NoRun
    BY <1>1 DEF Answers, ResultLate, Replaying, Calls
  <2>2. pc[r] = "reconstruct" /\ pc'[r] = "aborted" => Undated(r)
    BY <1>1, <1>12 DEF Reconstruct, GoTo, Finish, IngestionTypeOK
  <2> QED  BY <2>1, <2>2 DEF FoundDraft
<1>14. pc[r] = "reconstruct" /\ FoundDraft(r) => FoundDraft(r)'
  BY <1>12 DEF FoundDraft, Undated, Kind
<1> QED
  BY <1>2, <1>10, <1>11, <1>12, <1>13, <1>14

\* The run that inserted a row is not one that found another's.
LEMMA SourceNotAborted ==
  ASSUME BaseInv, QuietInv, NEW s \in sources
  PROVE  pc[s] # "aborted"
<1>1. s \in Runs /\ InPlace(s) /\ RowsOf(s) /\ UniqueKey
  BY DEF BaseInv, QuietInv, TypeInv, TypeOK, StoreTypeOK, StoreInv, SourceOnce
<1> SUFFICES ASSUME pc[s] = "aborted" PROVE FALSE
  OBVIOUS
<1>2. FoundDraft(s)
  BY <1>1 DEF QuietInv, NothingLost
<1>3. AnsweredRow(s) = replayOf[s] /\ replayOf[s] \in Persisted(s)
  BY <1>1, <1>2 DEF FoundDraft, RowsOf, InPlace, AnsweredRow, BeforeSource
<1>4. replayOf[s] = s
  BY <1>1, <1>3 DEF UniqueKey, Persisted, Message
<1> QED
  BY <1>2, <1>4 DEF FoundDraft, Undated

\* Each step of a run leaves the rows its kind asks for.
LEMMA HandlerRowsOf ==
  ASSUME MaxFailures = 0, BaseInv, QuietInv, NEW r \in Runs, HandlerStep(r)
  PROVE  RowsOf(r)'
<1>1. TypeInv /\ IngestionTypeOK /\ StoreTypeOK /\ RowsOf(r) /\ SourceOnce
  BY DEF BaseInv, QuietInv, TypeInv, TypeOK, StoreInv
<1>2. UNCHANGED inbound /\ Kind(r)' = Kind(r) /\ IsRemoval(r)' = IsRemoval(r)
  BY <1>1, HandlerForward DEF Kind, IsRemoval
<1>3. RunStep(r) /\ (pc[r] # "reconstruct" => ~Raise(r) /\ pc'[r] # "aborted")
  BY NeverRaises
<1>4. RetiredState(r) # Absent
  BY DEF RetiredState, Absent
<1>5. Kind(r) \in NoteKinds <=> Kind(r) \in {"note", "date_only"}
  BY DEF NoteKinds
<1>6. inbound[r] \in Updates
  BY <1>1, <1>3 DEF TypeInv, Started, RunStep, GetOrCreateSource, Reconstruct, CountChunks,
     GetActiveNote, GetActiveChunk, IngestSaveNote, IngestSaveChunk, RetireChunk, RetireNote,
     Embed, MarkFailed, WriteDeadLetter, SaveRecords, MarkReady
<1>7. Kind(r) \in {"note", "date_only", "draft", "delete", "empty"}
  BY <1>6 DEF Kind, Updates, Kinds, NoteKinds, RemovalKinds
<1>8. IsRemoval(r) <=> Kind(r) \in {"draft", "delete"}
  BY DEF IsRemoval, RemovalKinds
<1>9. CASE GetOrCreateSource(r)
  <2>1. UNCHANGED <<note, chunk>> /\ r \notin sources
    BY <1>1, <1>9 DEF GetOrCreateSource, InsertSource, SourceOnce, BeforeSource, tables
  <2>2. \/ pc'[r] = "get_active_note" /\ Kind(r) # "empty"
        \/ pc'[r] = "done" /\ Kind(r) = "empty"
        \/ pc'[r] = "reconstruct" /\ UNCHANGED sources
    BY <1>1, <1>9 DEF GetOrCreateSource, GoTo, Finish, IngestionTypeOK, tables
  <2> QED
    BY <1>1, <1>2, <1>9, <2>1, <2>2 DEF RowsOf, GetOrCreateSource, Saving, Replacing, OnTheWay
<1>10. CASE GetActiveNote(r)
  <2>1. UNCHANGED <<note, chunk, sources>>
    BY <1>10 DEF GetActiveNote, tables
  <2>2. \/ pc'[r] = "done" /\ IsRemoval(r)
        \/ pc'[r] = "save_note" /\ ~IsRemoval(r)
        \/ pc'[r] = "get_active_chunk"
    BY <1>1, <1>10 DEF GetActiveNote, GoTo, Finish, IngestionTypeOK
  <2> QED
    BY <1>1, <1>2, <1>8, <1>10, <2>1, <2>2 DEF RowsOf, GetActiveNote, Saving, Replacing, OnTheWay
<1>11. CASE GetActiveChunk(r)
  <2>1. UNCHANGED <<note, chunk, sources>>
    BY <1>11 DEF GetActiveChunk, tables
  <2>2. \/ pc'[r] \in {"mark_chunk", "mark_note", "done", "embed"} /\ IsRemoval(r)
        \/ pc'[r] = "save_note" /\ ~IsRemoval(r)
    BY <1>1, <1>11 DEF GetActiveChunk, RetireFrom, GoTo, IngestionTypeOK
  <2> QED
    BY <1>1, <1>2, <1>8, <1>11, <2>1, <2>2 DEF RowsOf, GetActiveChunk, Saving, Replacing, OnTheWay
<1>12. CASE IngestSaveNote(r)
  <2>1. UNCHANGED <<chunk, sources>> /\ note'[r] = "active" /\ pc[r] = "save_note"
    BY <1>1, <1>3, <1>12 DEF IngestSaveNote, SaveNote, StoreTypeOK
  <2>2. \/ pc'[r] = "save_chunk" /\ Kind(r) = "note"
        \/ pc'[r] \in {"mark_chunk", "mark_note", "done", "embed"} /\ Kind(r) # "note"
    BY <1>1, <1>3, <1>12 DEF IngestSaveNote, AfterSaving, RetireFrom, GoTo, Finish, IngestionTypeOK
  <2>3. Kind(r) \in NoteKinds
    BY <1>1, <1>5, <1>7, <1>8, <2>1 DEF RowsOf, Saving, Replacing
  <2> QED
    BY <1>1, <1>2, <1>5, <1>8, <2>1, <2>2, <2>3 DEF RowsOf, Saving, Replacing, OnTheWay, Absent
<1>13. CASE IngestSaveChunk(r)
  <2>1. UNCHANGED <<note, sources>> /\ chunk'[r] = "active" /\ pc[r] = "save_chunk" /\ note[r] # Absent
    BY <1>1, <1>3, <1>13 DEF IngestSaveChunk, CanSaveChunk, SaveChunk, StoreTypeOK
  <2>2. pc'[r] \in {"mark_chunk", "mark_note", "done", "embed"}
    BY <1>1, <1>3, <1>13 DEF IngestSaveChunk, AfterSaving, RetireFrom, GoTo, Finish, IngestionTypeOK
  <2>3. Kind(r) = "note"
    BY <1>1, <2>1 DEF RowsOf
  <2> QED
    BY <1>1, <1>2, <1>5, <1>8, <2>1, <2>2, <2>3 DEF RowsOf, Saving, Replacing, OnTheWay, Absent
<1>14. CASE RetireChunk(r) \/ RetireNote(r)
  <2>1. UNCHANGED sources /\ (note'[r] = Absent <=> note[r] = Absent)
        /\ (chunk'[r] = Absent <=> chunk[r] = Absent)
    BY <1>1, <1>3, <1>4, <1>14 DEF RetireChunk, RetireNote, CanMarkChunk, CanMarkNote, MarkChunk,
       MarkNote, StoreTypeOK
  <2>2. pc'[r] \in {"mark_note", "embed", "done"} /\ pc[r] \in {"mark_chunk", "mark_note"}
    BY <1>1, <1>3, <1>14 DEF RetireChunk, RetireNote, GoTo, Finish, IngestionTypeOK
  <2> QED
    BY <1>1, <1>2, <2>1, <2>2 DEF RowsOf, Saving, Replacing, OnTheWay
<1>15. CASE \/ Reconstruct(r) \/ CountChunks(r) \/ Embed(r) \/ MarkFailed(r)
            \/ WriteDeadLetter(r) \/ SaveRecords(r) \/ MarkReady(r)
  <2>1. UNCHANGED <<note, chunk, sources>>
    BY <1>3, <1>15 DEF Reconstruct, CountChunks, Embed, MarkFailed, WriteDeadLetter, SaveRecords,
       MarkReady, SetEmbedding, SaveRecord, SaveDeadLetter, Raise, tables
  <2>2. /\ pc[r] \notin OnTheWay \union {"save_chunk", "get_active_note"} \union Replacing
        /\ pc'[r] \notin Replacing \union {"get_active_note", "get_or_create_source"}
    BY <1>1, <1>3, <1>15 DEF Reconstruct, CountChunks, Embed, MarkFailed, WriteDeadLetter,
       SaveRecords, MarkReady, GoTo, Finish, Raise, IngestionTypeOK, OnTheWay, Replacing, Saving
  <2> QED
    BY <1>1, <1>2, <2>1, <2>2 DEF RowsOf, Saving, Replacing
<1> QED
  BY <1>3, <1>9, <1>10, <1>11, <1>12, <1>13, <1>14, <1>15 DEF RunStep

\* Each step of a run keeps its row and what it has read in place.
LEMMA HandlerInPlace ==
  ASSUME MaxFailures = 0, BaseInv, QuietInv, NEW r \in Runs, HandlerStep(r)
  PROVE  InPlace(r)'
<1>1. TypeInv /\ IngestionTypeOK /\ StoreTypeOK /\ InPlace(r) /\ SourceOnce /\ RowsOf(r)
      /\ RowsKept /\ Answers(r) /\ erased = {}
  BY NextRowsKept DEF BaseInv, QuietInv, NothingLost, TypeInv, TypeOK, StoreInv, AnswersInv, Next
<1>2. UNCHANGED <<inbound, erased>> /\ Kind(r)' = Kind(r)
  BY <1>1, HandlerMovesOne DEF Kind
<1>3. RunStep(r) /\ (pc[r] # "reconstruct" => ~Raise(r) /\ pc'[r] # "aborted") /\ pc[r] # "unused"
  BY NeverRaises DEF RunStep, GetOrCreateSource, Reconstruct, CountChunks,
     GetActiveNote, GetActiveChunk, IngestSaveNote, IngestSaveChunk, RetireChunk, RetireNote,
     Embed, MarkFailed, WriteDeadLetter, SaveRecords, MarkReady
<1>4. r # NoRun /\ \A n \in Runs : n # NoRun
  BY DEF Runs, NoRun
<1>5. sources \subseteq sources'
  BY <1>3 DEF RunStep, GetOrCreateSource, Reconstruct, CountChunks, GetActiveNote,
     GetActiveChunk, IngestSaveNote, IngestSaveChunk, RetireChunk, RetireNote, Embed, MarkFailed,
     WriteDeadLetter, SaveRecords, MarkReady, InsertSource, SaveNote, SaveChunk, MarkChunk,
     MarkNote, SetEmbedding, SaveRecord, SaveDeadLetter, Raise, tables
<1>6. Persisted(r) \subseteq Persisted(r)'
  BY <1>2, <1>5 DEF Persisted
<1>7. CASE GetOrCreateSource(r)
  <2>1. r \notin sources /\ Kind(r) # "delete" /\ replayOf[r] = NoRun
    BY <1>1, <1>7 DEF GetOrCreateSource, SourceOnce, BeforeSource, RowsOf, Answers, ResultLate,
       Calls, Replaying
  <2>2. \/ r \in sources' /\ replayOf'[r] = NoRun /\ pc'[r] \in {"get_active_note", "done"}
        \/ replayOf'[r] \in Persisted(r)
    BY <1>1, <1>7, <2>1 DEF GetOrCreateSource, InsertSource, GoTo, Finish, IngestionTypeOK
  <2>3. AnsweredRow(r)' \in Persisted(r)'
    <3>1. CASE r \in sources' /\ replayOf'[r] = NoRun
      BY <1>2, <3>1 DEF AnsweredRow, Persisted
    <3>2. CASE replayOf'[r] \in Persisted(r)
      BY <1>1, <1>4, <1>6, <3>2 DEF AnsweredRow, Persisted, StoreTypeOK
    <3> QED  BY <2>2, <3>1, <3>2
  <2>4. pc'[r] \in Replaying => replayOf'[r] # r
    BY <2>1, <2>2 DEF Persisted, Replaying
  <2>5. UNCHANGED <<priorNote, note, records>>
    BY <1>7 DEF GetOrCreateSource, InsertSource, tables
  <2>6. r \notin records
    BY <1>1, <1>7 DEF GetOrCreateSource, InPlace, Settled
  <2> QED
    BY <1>1, <1>2, <2>1, <2>3, <2>4, <2>5, <2>6 DEF InPlace
<1>8. CASE ~GetOrCreateSource(r)
  <2>1. pc[r] \notin BeforeSource
    BY <1>3, <1>8 DEF RunStep, GetOrCreateSource, Reconstruct, CountChunks,
       GetActiveNote, GetActiveChunk, IngestSaveNote, IngestSaveChunk, RetireChunk, RetireNote,
       Embed, MarkFailed, WriteDeadLetter, SaveRecords, MarkReady, BeforeSource
  <2>2. UNCHANGED replayOf
    BY <1>3, <1>8 DEF RunStep, Reconstruct, CountChunks,
       GetActiveNote, GetActiveChunk, IngestSaveNote, IngestSaveChunk, RetireChunk, RetireNote,
       Embed, MarkFailed, WriteDeadLetter, SaveRecords, MarkReady, UnchangedLocals
  <2>3. Kind(r) # "delete" => AnsweredRow(r)' \in Persisted(r)'
    BY <1>1, <1>6, <2>1, <2>2 DEF InPlace, AnsweredRow
  <2>4. pc'[r] \in Replaying => pc[r] \in Replaying
    BY <1>1, <1>3, <1>8 DEF RunStep, Reconstruct, CountChunks,
       GetActiveNote, GetActiveChunk, IngestSaveNote, IngestSaveChunk, RetireChunk, RetireNote,
       Embed, MarkFailed, WriteDeadLetter, SaveRecords, MarkReady, AfterSaving, RetireFrom, GoTo,
       Finish, Replaying, IngestionTypeOK
  <2>5. priorNote'[r] # NoRun => note'[priorNote'[r]] # Absent
    <3>1. CASE GetActiveNote(r)
      BY <1>1, <3>1 DEF GetActiveNote, IsNewest, ActiveNotes, InPlace, IngestionTypeOK, Absent,
         tables
    <3>2. CASE ~GetActiveNote(r)
      <4>1. UNCHANGED priorNote /\ priorNote[r] \in Runs \union {NoRun}
        BY <1>1, <3>2, HandlerKeepsLocals DEF IngestionTypeOK
      <4> QED
        BY <1>1, <1>2, <4>1 DEF InPlace, RowsKept
    <3> QED  BY <3>1, <3>2
  <2>6. r \in records' => pc'[r] \in Settled \union {"mark_ready"}
    <3>1. CASE SaveRecords(r)
      BY <1>1, <1>3, <3>1 DEF SaveRecords, GoTo, IngestionTypeOK
    <3>2. CASE ~SaveRecords(r)
      <4>1. UNCHANGED records
        BY <1>3, <1>8, <3>2 DEF RunStep, Reconstruct, CountChunks, GetActiveNote,
           GetActiveChunk, IngestSaveNote, IngestSaveChunk, RetireChunk, RetireNote, Embed,
           MarkFailed, WriteDeadLetter, MarkReady, SaveNote, SaveChunk, MarkChunk,
           MarkNote, SetEmbedding, SaveDeadLetter, Raise, tables
      <4>2. pc[r] \in Settled \union {"mark_ready"} => pc'[r] \in Settled \union {"mark_ready"}
        BY <1>1, <1>3, <1>8 DEF RunStep, Reconstruct, CountChunks,
           GetActiveNote, GetActiveChunk, IngestSaveNote, IngestSaveChunk, RetireChunk,
           RetireNote, Embed, MarkFailed, WriteDeadLetter, SaveRecords, MarkReady,
           GoTo, Finish, Settled, IngestionTypeOK
      <4> QED
        BY <1>1, <4>1, <4>2 DEF InPlace
    <3> QED  BY <3>1, <3>2
  <2> QED
    BY <1>1, <1>2, <1>3, <2>2, <2>3, <2>4, <2>5, <2>6 DEF InPlace
<1> QED
  BY <1>7, <1>8

QuietRun(r) ==
    /\ pc[r] = "aborted" => FoundDraft(r)
    /\ CarriesPrior(r)
    /\ InPlace(r)
    /\ RowsOf(r)

\* A run that a step does not move stays as it was, while rows stay.
LEMMA StillRunQuiet ==
  ASSUME BaseInv, QuietInv, RowsKept, erased' = {}, sources \subseteq sources',
         \A s \in Runs : Forward(s), NEW k \in Runs, inbound'[k] = inbound[k], pc'[k] = pc[k],
         replayOf'[k] = replayOf[k], priorNote'[k] = priorNote[k], priorChunk'[k] = priorChunk[k],
         note'[k] # Absent => note[k] # Absent, chunk'[k] # Absent => chunk[k] # Absent,
         k \in sources' => k \in sources, k \in records' => k \in records \/ pc[k] \in Settled
  PROVE  QuietRun(k)'
<1>1. /\ CarriesPrior(k) /\ InPlace(k) /\ RowsOf(k) /\ erased = {} /\ SourceOnce
      /\ (pc[k] = "aborted" => FoundDraft(k)) /\ IngestionTypeOK /\ StoreTypeOK
  BY DEF BaseInv, QuietInv, NothingLost, StoreInv, TypeInv, TypeOK
<1>2. priorNote[k] \in Runs \union {NoRun} /\ priorChunk[k] \in Runs \union {NoRun}
  BY <1>1 DEF IngestionTypeOK
<1>3. Persisted(k) \subseteq Persisted(k)'
  <2> SUFFICES ASSUME NEW s \in Persisted(k) PROVE s \in Persisted(k)'
    OBVIOUS
  <2>1. s \in sources /\ s \in Runs /\ inbound[s].msg = inbound[k].msg
        /\ inbound[s].seq = inbound[k].seq
    BY <1>1 DEF Persisted, StoreTypeOK
  <2>2. inbound'[s] = inbound[s]
    BY <1>1, <2>1 DEF SourceOnce, BeforeSource, Forward
  <2> QED
    BY <2>1, <2>2 DEF Persisted
<1>4. CarriesPrior(k)'
  BY <1>1, <1>2 DEF CarriesPrior, RowsKept, KeptWithChunk
<1>5. InPlace(k)'
  BY <1>1, <1>2, <1>3 DEF InPlace, AnsweredRow, Kind, RowsKept
<1>6. RowsOf(k)'
  BY <1>1 DEF RowsOf, Kind, IsRemoval, RowsKept
<1>7. (pc[k] = "aborted" => FoundDraft(k))'
  <2> SUFFICES ASSUME pc[k] = "aborted" PROVE FoundDraft(k)'
    OBVIOUS
  <2>1. replayOf[k] # NoRun /\ Undated(k) /\ replayOf[k] \in sources
    BY <1>1 DEF FoundDraft, InPlace, AnsweredRow, Persisted, BeforeSource
  <2>2. inbound'[replayOf[k]] = inbound[replayOf[k]]
    BY <1>1, <2>1 DEF StoreTypeOK, SourceOnce, BeforeSource, Forward
  <2> QED
    BY <2>1, <2>2 DEF FoundDraft, Undated, Kind
<1> QED
  BY <1>4, <1>5, <1>6, <1>7 DEF QuietRun

\* Every step of the system keeps all of it.
LEMMA QuietInvKept ==
  ASSUME MaxFailures = 0, MaxErasures = 0, BaseInv, QuietInv, [Next]_vars
  PROVE  QuietInv'
<1>1. /\ TypeInv /\ IngestionTypeOK /\ StoreTypeOK /\ RowsKept /\ erased = {} /\ SourceOnce
      /\ NotesAreSaved /\ \A s \in Runs : Forward(s)
  BY NextRowsKept, NextForward
     DEF BaseInv, QuietInv, NothingLost, TypeInv, TypeOK, StoreInv, RevisionInv
<1> SUFFICES ASSUME NEW k \in Runs PROVE erased' = {} /\ QuietRun(k)'
  <2>2. CASE Runs = {}
    <3>1. erased' = {}
      BY <1>1, <2>2, NextTypeInv DEF TypeInv, TypeOK, SystemTypeOK
    <3> QED  BY <2>2, <3>1 DEF QuietInv, NothingLost
  <2>3. CASE Runs # {}
    BY <2>3 DEF QuietInv, QuietRun, NothingLost
  <2> QED  BY <2>2, <2>3
<1>2. QuietRun(k)
  BY DEF QuietInv, QuietRun, NothingLost
<1>3. ASSUME NEW r \in Runs, HandlerStep(r)
      PROVE  erased' = {} /\ QuietRun(k)'
  <2>1. UNCHANGED <<inbound, erased>>
    BY <1>1, <1>3, HandlerMovesOne
  <2>2. CASE k = r
    BY <1>1, <1>2, <1>3, <2>1, <2>2, HandlerCarriesPrior, HandlerInPlace, HandlerRowsOf,
       NeverRaises DEF QuietRun
  <2>3. CASE k # r
    <3>1. /\ pc'[k] = pc[k] /\ replayOf'[k] = replayOf[k]
          /\ priorNote'[k] = priorNote[k] /\ priorChunk'[k] = priorChunk[k]
      BY <1>1, <1>3, <2>3, HandlerMovesOne, HandlerKeepsLocals
    <3>2. /\ note'[k] # Absent => note[k] # Absent
          /\ chunk'[k] # Absent => chunk[k] # Absent
          /\ k \in sources' => k \in sources
          /\ k \in records' => k \in records
      BY <1>1, <1>3, <2>3, HandlerWritesItsRows
    <3>3. sources \subseteq sources'
      BY <1>3 DEF HandlerStep, RunStep, FailRun, GetOrCreateSource, Reconstruct, CountChunks,
         GetActiveNote, GetActiveChunk, IngestSaveNote, IngestSaveChunk, RetireChunk, RetireNote,
         Embed, MarkFailed, WriteDeadLetter, SaveRecords, MarkReady, InsertSource, SaveNote,
         SaveChunk, MarkChunk, MarkNote, SetEmbedding, SaveRecord, SaveDeadLetter, Raise, tables
    <3>4. inbound'[k] = inbound[k] /\ erased' = {}
      BY <1>1, <2>1
    <3> QED
      BY <1>1, <1>2, <3>1, <3>2, <3>3, <3>4, StillRunQuiet
  <2> QED  BY <2>2, <2>3
<1>4. ASSUME NEW u \in pending, Deliver(u)
      PROVE  erased' = {} /\ QuietRun(k)'
  <2>1. PICK r \in Runs : StartRun(r, u)
    BY <1>4 DEF Deliver
  <2>2. /\ UNCHANGED <<tables, erased, priorNote, priorChunk, replayOf>>
        /\ pc' = [pc EXCEPT ![r] = IF u.kind = "delete" THEN "get_active_note"
                                   ELSE "get_or_create_source"]
        /\ inbound' = [inbound EXCEPT ![r] = u] /\ pc[r] = "unused"
    BY <1>4, <2>1 DEF Deliver, StartRun, GoTo, UnchangedLocals, operatorVars
  <2>3. CASE k = r
    <3>1. pc[k] = "unused" /\ inbound'[k] = u
      BY <1>1, <2>2, <2>3 DEF StoreTypeOK
    <3>2. k \notin sources /\ note[k] = Absent /\ chunk[k] = Absent /\ priorNote[k] = NoRun
          /\ k \notin records /\ priorChunk[k] = NoRun /\ replayOf[k] = NoRun
      <4>1. Answers(k) /\ Lineage
        BY DEF BaseInv, AnswersInv, StoreInv
      <4> QED
        BY <1>1, <1>2, <3>1, <4>1 DEF SourceOnce, BeforeSource, Lineage, QuietRun, CarriesPrior,
           BeforeLookup, InPlace, Answers, ResultLate, Calls, Replaying, Settled
    <3>3. /\ UNCHANGED <<sources, note, chunk, records, erased, priorNote, priorChunk, replayOf>>
          /\ pc'[k] = IF u.kind = "delete" THEN "get_active_note" ELSE "get_or_create_source"
      BY <1>1, <2>2, <2>3 DEF IngestionTypeOK, tables
    <3>4. CarriesPrior(k)'
      BY <1>2, <3>2, <3>3 DEF QuietRun, CarriesPrior, BeforeLookup, Saving, Replacing
    <3>5. InPlace(k)'
      BY <3>1, <3>2, <3>3 DEF InPlace, BeforeSource, Kind, Replaying
    <3>6. RowsOf(k)'
      BY <3>1, <3>2, <3>3 DEF RowsOf, Kind, Replacing, Saving
    <3> QED
      BY <1>1, <3>3, <3>4, <3>5, <3>6 DEF QuietRun
  <2>4. CASE k # r
    BY <1>1, <1>2, <2>2, <2>4, StillRunQuiet DEF StoreTypeOK, IngestionTypeOK, tables
  <2> QED  BY <2>3, <2>4
<1>5. ASSUME NEW r \in Runs, Respond(r)
      PROVE  erased' = {} /\ QuietRun(k)'
  <2>1. /\ UNCHANGED <<inbound, tables, erased, priorNote, priorChunk, replayOf>>
        /\ pc[r] = "done" /\ pc' = [pc EXCEPT ![r] = "replied"]
    BY <1>5 DEF Respond, GoTo, UnchangedLocals, operatorVars
  <2>2. CASE k = r
    <3>1. pc[k] = "done" /\ pc'[k] = "replied"
      BY <1>1, <2>1, <2>2 DEF IngestionTypeOK
    <3>2. UNCHANGED <<sources, note, chunk, records>>
      BY <2>1 DEF tables
    <3> QED
      BY <1>1, <1>2, <2>1, <3>1, <3>2 DEF QuietRun, CarriesPrior, InPlace, RowsOf, BeforeLookup,
         Saving, Replacing, Replaying, Settled, OnTheWay, BeforeSource, AnsweredRow, Persisted,
         Kind, IsRemoval, KeptWithChunk
  <2>3. CASE k # r
    BY <1>1, <1>2, <2>1, <2>3, StillRunQuiet DEF IngestionTypeOK, tables
  <2> QED  BY <2>2, <2>3
<1>6. ASSUME NEW w \in Operators, OperatorStep(w)
      PROVE  erased' = {} /\ QuietRun(k)'
  BY <1>1, <1>2, <1>6, RetryQuiet, StillRunQuiet DEF runVars, operatorVars
<1>7. CASE UserStep \/ Rest \/ UNCHANGED vars
  <2>1. UNCHANGED <<inbound, tables, runVars, operatorVars>>
    BY <1>7 DEF UserStep, Rest, vars
  <2> QED
    BY <1>1, <1>2, <2>1, StillRunQuiet DEF runVars, operatorVars, tables
<1>8. \A r \in Runs : ~HardDelete(r)
  BY <1>1, NoHardDelete
<1> QED
  BY <1>3, <1>4, <1>5, <1>6, <1>7, <1>8 DEF Next

LEMMA QuietInvariant ==
  ASSUME MaxFailures = 0, MaxErasures = 0
  PROVE  Spec => [](BaseInv /\ QuietInv)
<1>1. ASSUME Init PROVE QuietInv
  <2>1. \A r \in Runs : r # NoRun
    BY DEF Runs, NoRun
  <2> QED
    BY <1>1, <2>1 DEF Init, StoreInit, IngestionInit, QuietInv, NothingLost, CarriesPrior, InPlace,
       RowsOf, BeforeLookup, Saving, Replacing, BeforeSource, Replaying, Absent
<1>2. BaseInv /\ QuietInv /\ [Next]_vars => QuietInv'
  BY QuietInvKept
<1> QED
  BY <1>1, <1>2, BaseInvariant, PTL DEF Spec

-----------------------------------------------------------------------------
(***************************************************************************)
(* The result of a delivery depends on the row it answers for and on       *)
(* nothing else, as long as no delivery finds that row half written.       *)
(***************************************************************************)
ResultOf(s) ==
    CASE Kind(s) = "note" -> "saved"
      [] Kind(s) = "date_only" -> "saved_empty"
      [] Kind(s) = "draft" -> "draft"
      [] OTHER -> "invalid"

OutcomeIs(r) == outcome[r] # "none" /\ Kind(r) # "delete" => outcome[r] = ResultOf(AnsweredRow(r))

AgreeInv == \A r \in Runs : OutcomeIs(r)

\* A row found while its own run is not in flight has all it will ever have.
LEMMA FoundRowIsWhole ==
  ASSUME BaseInv, QuietInv, NEW s \in sources, s \notin InFlight
  PROVE  /\ Kind(s) \in NoteKinds <=> note[s] # Absent
         /\ Kind(s) = "note" <=> chunk[s] # Absent
<1>1. s \in Runs /\ pc[s] = "replied" /\ RowsOf(s) /\ Lineage
  BY SourceNotAborted DEF BaseInv, QuietInv, NothingLost, TypeInv, TypeOK, StoreTypeOK, IngestionTypeOK, StoreInv,
     SourceOnce, BeforeSource, InFlight
<1> QED
  BY <1>1 DEF RowsOf, OnTheWay, NoteKinds, Lineage

\* A run that ends by itself has the result of its own row.
LEMMA FreshResultIsOfRow ==
  ASSUME NEW r \in Runs, inbound[r] \in Updates, Kind(r) # "delete"
  PROVE  FreshResult(r) = ResultOf(r)
<1>1. Kind(r) \in {"note", "date_only", "draft", "empty"}
  BY DEF Kind, Updates, Kinds, NoteKinds, RemovalKinds
<1> QED
  BY <1>1 DEF FreshResult, ResultOf

LEMMA HandlerAgrees ==
  ASSUME MaxFailures = 0, BaseInv, QuietInv, OneInFlight, NEW r \in Runs, OutcomeIs(r),
         HandlerStep(r)
  PROVE  OutcomeIs(r)'
<1>1. /\ TypeInv /\ IngestionTypeOK /\ StoreTypeOK /\ InPlace(r) /\ Answers(r)
  BY DEF BaseInv, QuietInv, TypeInv, TypeOK, AnswersInv
<1>2. UNCHANGED inbound /\ Kind(r)' = Kind(r)
  BY <1>1, HandlerMovesOne DEF Kind
<1>3. RunStep(r) /\ (pc[r] # "reconstruct" => ~Raise(r))
  BY NeverRaises
<1>4. pc[r] \in Calls \union {"dead_letter"} /\ r \in InFlight /\ inbound[r] \in Updates
  BY <1>1, <1>3 DEF TypeInv, Started, RunStep, GetOrCreateSource, Reconstruct, CountChunks,
     GetActiveNote, GetActiveChunk, IngestSaveNote, IngestSaveChunk, RetireChunk, RetireNote,
     Embed, MarkFailed, WriteDeadLetter, SaveRecords, MarkReady, Calls, InFlight
<1>5. outcome[r] = "none" /\ (pc[r] \notin Replaying => replayOf[r] = NoRun)
      /\ (pc[r] \in Replaying => replayOf[r] # NoRun)
  BY <1>1, <1>4 DEF Answers, ResultLate, Calls
<1> SUFFICES ASSUME Kind(r) # "delete", outcome'[r] # "none"
             PROVE  outcome'[r] = ResultOf(AnsweredRow(r))'
  BY <1>2 DEF OutcomeIs, ResultOf
<1>6. CASE Reconstruct(r) \/ CountChunks(r)
  <2>1. pc[r] \in Replaying /\ UNCHANGED replayOf
    BY <1>6 DEF Reconstruct, CountChunks, Replaying, UnchangedLocals
  <2> DEFINE s == replayOf[r]
  <2>2. s # r /\ s \in sources /\ AnsweredRow(r) = s /\ AnsweredRow(r)' = s /\ Kind(s)' = Kind(s)
    BY <1>1, <1>2, <1>5, <2>1 DEF InPlace, Replaying, BeforeSource, AnsweredRow, Persisted, Kind
  <2>3. s \in Runs /\ s \notin InFlight
    BY <1>1, <1>4, <2>2 DEF OneInFlight, StoreTypeOK, InFlight
  <2>4. /\ Kind(s) \in {"note", "date_only"} <=> note[s] # Absent
        /\ Kind(s) = "note" <=> chunk[s] # Absent
    BY <2>2, <2>3, FoundRowIsWhole DEF NoteKinds
  <2>5. pc[r] = "count_chunks" => note[s] # Absent
    BY <1>1, <2>1 DEF Answers, SavedOnTheWay, Kept, QuietInv, NothingLost
  <2>6. outcome'[r] = ResultOf(s)
    <3>1. CASE Reconstruct(r)
      BY <1>1, <1>5, <2>4, <3>1 DEF Reconstruct, GoTo, Finish, Raise, ResultOf,
         IngestionTypeOK
    <3>2. CASE CountChunks(r)
      BY <1>1, <2>4, <2>5, <3>2 DEF CountChunks, Finish, ResultOf, IngestionTypeOK
    <3> QED  BY <1>6, <3>1, <3>2
  <2> QED
    BY <1>2, <2>2, <2>6 DEF ResultOf, Kind
<1>7. CASE ~Reconstruct(r) /\ ~CountChunks(r)
  <2>1. outcome'[r] = FreshResult(r) /\ UNCHANGED replayOf
    <3>1. CASE GetOrCreateSource(r)
      BY <1>1, <1>5, <3>1 DEF GetOrCreateSource, GoTo, Finish, IngestionTypeOK
    <3>2. CASE ~GetOrCreateSource(r)
      BY <1>1, <1>3, <1>5, <1>7, <3>2 DEF RunStep, GetActiveNote, GetActiveChunk, IngestSaveNote,
         IngestSaveChunk, RetireChunk, RetireNote, Embed, MarkFailed, WriteDeadLetter,
         SaveRecords, MarkReady, AfterSaving, GoTo, Finish, UnchangedLocals, IngestionTypeOK
    <3> QED  BY <3>1, <3>2
  <2>2. pc[r] \notin Replaying
    BY <1>3, <1>7 DEF RunStep, GetOrCreateSource, GetActiveNote, GetActiveChunk, IngestSaveNote,
       IngestSaveChunk, RetireChunk, RetireNote, Embed, MarkFailed, WriteDeadLetter,
       SaveRecords, MarkReady, Replaying
  <2>3. AnsweredRow(r)' = r
    BY <1>5, <2>1, <2>2 DEF AnsweredRow
  <2> QED
    BY <1>2, <1>4, <2>1, <2>3, FreshResultIsOfRow DEF ResultOf
<1> QED
  BY <1>6, <1>7

\* Every step of the system keeps the results in agreement with the rows.
LEMMA AgreeInvKept ==
  ASSUME MaxFailures = 0, MaxErasures = 0, BaseInv, QuietInv, OneInFlight, AgreeInv, [Next]_vars
  PROVE  AgreeInv'
<1>1. /\ TypeInv /\ IngestionTypeOK /\ StoreTypeOK /\ erased = {} /\ SourceOnce
      /\ \A s \in Runs : Forward(s)
  BY NextForward DEF BaseInv, QuietInv, NothingLost, TypeInv, TypeOK, StoreInv
<1> SUFFICES ASSUME NEW k \in Runs PROVE OutcomeIs(k)'
  BY DEF AgreeInv
<1>2. OutcomeIs(k) /\ InPlace(k) /\ Answers(k)
  BY DEF AgreeInv, QuietInv, BaseInv, AnswersInv
<1>3. outcome'[k] = outcome[k] /\ replayOf'[k] = replayOf[k] => OutcomeIs(k)'
  <2> SUFFICES ASSUME outcome'[k] = outcome[k], replayOf'[k] = replayOf[k], outcome[k] # "none"
               PROVE  OutcomeIs(k)'
    BY DEF OutcomeIs
  <2>1. pc[k] \notin Calls \union {"unused"} /\ pc[k] # "unused" /\ Kind(k)' = Kind(k)
    BY <1>1, <1>2 DEF Answers, ResultLate, Forward, Kind
  <2>2. Kind(k) # "delete" => AnsweredRow(k) \in sources
    BY <1>2, <2>1 DEF InPlace, BeforeSource, Calls, Persisted
  <2>3. Kind(k) # "delete" => Kind(AnsweredRow(k))' = Kind(AnsweredRow(k))
    <3>1. \A s \in sources : inbound'[s] = inbound[s]
      BY <1>1 DEF SourceOnce, BeforeSource, Forward, StoreTypeOK
    <3>2. AnsweredRow(k)' = AnsweredRow(k)
      BY DEF AnsweredRow
    <3> QED
      BY <2>2, <3>1, <3>2 DEF Kind
  <2>4. AnsweredRow(k)' = AnsweredRow(k)
    BY DEF AnsweredRow
  <2> QED
    BY <1>2, <2>1, <2>3, <2>4 DEF OutcomeIs, ResultOf
<1>4. ASSUME NEW r \in Runs, HandlerStep(r) PROVE OutcomeIs(k)'
  BY <1>1, <1>2, <1>3, <1>4, HandlerAgrees, HandlerMovesOne
<1>5. ASSUME NEW u \in pending, Deliver(u) PROVE OutcomeIs(k)'
  BY <1>3, <1>5 DEF Deliver, StartRun, GoTo, UnchangedLocals
<1>6. ASSUME NEW r \in Runs, Respond(r) PROVE OutcomeIs(k)'
  BY <1>3, <1>6 DEF Respond, GoTo, UnchangedLocals
<1>7. ASSUME NEW w \in Operators, OperatorStep(w) PROVE OutcomeIs(k)'
  BY <1>3, <1>7 DEF OperatorStep, runVars
<1>8. CASE UserStep \/ Rest \/ UNCHANGED vars
  BY <1>3, <1>8 DEF UserStep, Rest, vars, runVars
<1>9. \A r \in Runs : ~HardDelete(r)
  BY <1>1, NoHardDelete
<1> QED
  BY <1>4, <1>5, <1>6, <1>7, <1>8, <1>9 DEF Next

\* Every delivery of a message state is answered alike (R-2), if no store call
\* fails, no source is erased and deliveries do not overlap: the first from
\* what it saves, a replay from what it finds.  The user need not wait, and
\* two edits may have the same edit_seq; of those a /note that finds the row
\* of a draft raises and has no result, and no other delivery is abandoned.
THEOREM ReplaysAgree ==
  ASSUME MaxFailures = 0, MaxErasures = 0, MaxInFlight <= 1
  PROVE  Spec => [](/\ ReplaySameResult
                    /\ \A r \in Runs : pc[r] = "aborted" => FoundDraft(r))
<1>1. ASSUME Init PROVE AgreeInv
  BY <1>1 DEF Init, IngestionInit, AgreeInv, OutcomeIs
<1>2. BaseInv /\ QuietInv /\ OneInFlight /\ AgreeInv /\ [Next]_vars => AgreeInv'
  BY AgreeInvKept
<1>3. PriorInv => OneInFlight
  BY DEF PriorInv
<1>4. BaseInv /\ QuietInv /\ AgreeInv => ReplaySameResult
  <2> SUFFICES ASSUME BaseInv, QuietInv, AgreeInv, NEW r \in Runs, NEW s \in Runs,
                      outcome[r] # "none", outcome[s] # "none", inbound[r] = inbound[s],
                      Kind(r) # "delete"
               PROVE  outcome[r] = outcome[s]
    BY DEF ReplaySameResult
  <2>1. \A k \in {r, s} : /\ OutcomeIs(k) /\ InPlace(k) /\ Kind(k) # "delete"
                          /\ pc[k] \notin Calls \union {"unused"}
    BY DEF AgreeInv, QuietInv, BaseInv, AnswersInv, Answers, ResultLate, Kind
  <2>2. AnsweredRow(r) \in Persisted(r) /\ AnsweredRow(s) \in Persisted(s)
    BY <2>1 DEF InPlace, BeforeSource, Calls
  <2>3. AnsweredRow(r) = AnsweredRow(s)
    BY <2>2 DEF BaseInv, StoreInv, SourceOnce, UniqueKey, Persisted, Message
  <2> QED
    BY <2>1, <2>3 DEF OutcomeIs
<1>5. QuietInv => \A r \in Runs : pc[r] = "aborted" => FoundDraft(r)
  BY DEF QuietInv, NothingLost
<1> QED
  BY <1>1, <1>2, <1>3, <1>4, <1>5, QuietInvariant, PriorInvariant, PTL DEF Spec

-----------------------------------------------------------------------------
(***************************************************************************)
(* A user who waits for answers.  What was sent is told apart by its       *)
(* number and, but for deletes, by its message and edit_seq; only the      *)
(* latest update is ever under way, maybe in several deliveries at once.   *)
(***************************************************************************)
Begun == {r \in Runs : pc[r] # "unused"}

Sent == pending \union {inbound[r] : r \in Begun}

Current == pending \union {inbound[r] : r \in InFlight}

SentInv ==
    /\ \A u \in Sent : u.id <= posted /\ (u.kind # "delete" => u.seq < nextSeq[u.msg])
    /\ \A u, v \in Sent : u.id = v.id => u = v
    /\ \A u, v \in Sent :
          u.kind # "delete" /\ v.kind # "delete" /\ u.msg = v.msg /\ u.seq = v.seq => u = v

StartOrder ==
    /\ \A r, s \in Begun : r < s => inbound[r].id <= inbound[s].id
    /\ \A r, s \in Runs : r < s /\ s \in Begun => r \in Begun

Meant(u) == IF u.kind = "note" THEN u.id ELSE 0

CurrentInv ==
    /\ \A u \in Current : u.id = posted
    /\ \A u \in Current : u.kind # "empty" => intended[u.msg] = Meant(u)

PatienceInv == SentInv /\ StartOrder /\ CurrentInv

\* What was sent is an update.
LEMMA SentTyped ==
  ASSUME TypeInv
  PROVE  Sent \subseteq Updates /\ Current \subseteq Sent /\ \A u \in Sent : u.id \in Nat /\ u.id > 0
<1>1. pending \subseteq Updates /\ \A r \in Begun : inbound[r] \in Updates
  BY DEF TypeInv, TypeOK, SystemTypeOK, Started, Begun
<1>2. InFlight \subseteq Begun
  BY DEF InFlight, Begun
<1>3. \A u \in Updates : u.id \in Nat /\ u.id > 0
  BY StoreAssumption DEF Updates
<1> QED
  BY <1>1, <1>2, <1>3 DEF Sent, Current

\* A user who waits writes when nothing is under way, and an edit in a later
\* second has an edit_seq of its own.
Posts(u) ==
    /\ u \in Updates
    /\ pending = {} /\ InFlight = {}
    /\ posted' = posted + 1 /\ u.id = posted + 1
    /\ pending' = {u}
    /\ intended' = [intended EXCEPT ![u.msg] = Intention(u)]
    /\ u.kind # "delete" => /\ u.seq = nextSeq[u.msg]
                            /\ nextSeq' = [nextSeq EXCEPT ![u.msg] = @ + 1]
    /\ u.kind = "delete" => UNCHANGED nextSeq

LEMMA UserPosts ==
  ASSUME Patient, ~SameSecond, TypeInv, UserStep
  PROVE  /\ \E u \in Updates : Posts(u)
         /\ UNCHANGED <<inbound, tables, runVars, retryVars, faultVars, operatorVars>>
<1>1. posted \in Nat /\ nextSeq \in [Messages -> 0..MaxUpdates] /\ SeqBounded
  BY StoreAssumption DEF TypeInv, TypeOK, SystemTypeOK
<1>2. PICK m \in Messages : \/ \E kind \in Kinds \ {"delete"} : PostOriginal(m, kind) \/ PostEdit(m, kind)
                            \/ PostDelete(m)
  BY DEF UserStep, PostEditSameSecond
<1>3. \A n \in 0..posted, kind \in Kinds : posted < MaxUpdates =>
         [id |-> posted + 1, msg |-> m, seq |-> n, kind |-> kind] \in Updates
  BY <1>1, StoreAssumption DEF Updates
<1>4. nextSeq[m] \in 0..posted /\ "delete" \in Kinds /\ 0 \in 0..posted
  BY <1>1, StoreAssumption DEF SeqBounded, Kinds, RemovalKinds
<1>5. ASSUME NEW kind \in Kinds \ {"delete"}, PostOriginal(m, kind) PROVE \E u \in Updates : Posts(u)
  <2> DEFINE u == [id |-> posted + 1, msg |-> m, seq |-> 0, kind |-> kind]
  <2>1. u \in Updates
    BY <1>3, <1>4, <1>5 DEF PostOriginal, Post
  <2>2. nextSeq[m] = 0 /\ nextSeq' = [nextSeq EXCEPT ![m] = @ + 1]
    BY <1>1, <1>5 DEF PostOriginal
  <2>3. Posts(u)
    BY <1>5, <2>1, <2>2 DEF PostOriginal, Post, Posts
  <2> QED  BY <2>1, <2>3
<1>6. ASSUME NEW kind \in Kinds \ {"delete"}, PostEdit(m, kind) PROVE \E u \in Updates : Posts(u)
  <2> DEFINE u == [id |-> posted + 1, msg |-> m, seq |-> nextSeq[m], kind |-> kind]
  <2>1. u \in Updates
    BY <1>3, <1>4, <1>6 DEF PostEdit, Post
  <2>2. Posts(u)
    BY <1>6, <2>1 DEF PostEdit, Post, Posts
  <2> QED  BY <2>1, <2>2
<1>7. ASSUME PostDelete(m) PROVE \E u \in Updates : Posts(u)
  <2> DEFINE u == [id |-> posted + 1, msg |-> m, seq |-> 0, kind |-> "delete"]
  <2>1. u \in Updates
    BY <1>3, <1>4, <1>7 DEF PostDelete, Post
  <2>2. Posts(u)
    BY <1>7, <2>1 DEF PostDelete, Post, Posts
  <2> QED  BY <2>1, <2>2
<1> QED
  BY <1>2, <1>5, <1>6, <1>7 DEF UserStep

\* What a step that is not the user's may do to what was sent.
ChannelStep ==
    /\ UNCHANGED <<posted, nextSeq, intended>>
    /\ Sent' \subseteq Sent
    /\ Current' \subseteq Current
    /\ \/ \A r \in Runs : (r \in Begun' <=> r \in Begun) /\ (r \in Begun => inbound'[r] = inbound[r])
       \/ \E u \in pending, r \in Runs : Deliver(u) /\ StartRun(r, u)

LEMMA NextChannelStep ==
  ASSUME TypeInv, [Next]_vars, ~UserStep
  PROVE  ChannelStep
<1>1. IngestionTypeOK /\ StoreTypeOK
  BY DEF TypeInv, TypeOK
<1>2. ASSUME NEW r \in Runs, HandlerStep(r) PROVE ChannelStep
  <2>1. UNCHANGED <<inbound, channelVars>>
    BY <1>2, HandlerMovesOne DEF HandlerStep
  <2>2. r \in InFlight /\ pc'[r] # "unused"
    BY <1>1, <1>2 DEF HandlerStep, RunStep, FailRun, Calls, InFlight, GetOrCreateSource, Reconstruct,
       CountChunks, GetActiveNote, GetActiveChunk, IngestSaveNote, IngestSaveChunk, RetireChunk,
       RetireNote, Embed, MarkFailed, WriteDeadLetter, SaveRecords, MarkReady, AfterSaving,
       RetireFrom, GoTo, Finish, Raise, IngestionTypeOK
  <2>3. \A k \in Runs : k # r => pc'[k] = pc[k]
    BY <1>2, HandlerMovesOne
  <2>4. \A k \in Runs : (k \in Begun' <=> k \in Begun) /\ (k \in InFlight' => k \in InFlight)
    BY <2>2, <2>3 DEF Begun, InFlight
  <2> QED
    BY <2>1, <2>4 DEF ChannelStep, Sent, Current, channelVars, Begun, InFlight
<1>3. ASSUME NEW u \in pending, Deliver(u) PROVE ChannelStep
  <2>1. PICK r \in Runs : StartRun(r, u)
    BY <1>3 DEF Deliver
  <2>2. UNCHANGED channelVars /\ inbound' = [inbound EXCEPT ![r] = u]
        /\ \A k \in Runs : k # r => pc'[k] = pc[k]
    BY <1>1, <1>3, <2>1 DEF Deliver, StartRun, GoTo, IngestionTypeOK
  <2>3. /\ \A k \in Begun' : (k = r /\ inbound'[k] = u) \/ (k \in Begun /\ inbound'[k] = inbound[k])
        /\ \A k \in InFlight' : (k = r /\ inbound'[k] = u) \/ (k \in InFlight /\ inbound'[k] = inbound[k])
    BY <1>1, <2>2 DEF Begun, InFlight, StoreTypeOK
  <2> QED
    BY <1>3, <2>1, <2>2, <2>3 DEF ChannelStep, Sent, Current, channelVars
<1>4. ASSUME NEW r \in Runs, Respond(r) PROVE ChannelStep
  <2>1. /\ UNCHANGED <<inbound, posted, nextSeq, intended>> /\ pending' \subseteq pending
        /\ pc[r] = "done" /\ pc' = [pc EXCEPT ![r] = "replied"]
    BY <1>4 DEF Respond, GoTo
  <2>2. \A k \in Runs : (k \in Begun' <=> k \in Begun) /\ (k \in InFlight' => k \in InFlight)
    BY <1>1, <2>1 DEF Begun, InFlight, IngestionTypeOK
  <2> QED
    BY <2>1, <2>2 DEF ChannelStep, Sent, Current, Begun, InFlight
<1>5. UNCHANGED <<inbound, pc, channelVars>> => ChannelStep
  BY DEF ChannelStep, Sent, Current, channelVars, Begun, InFlight
<1>6. ASSUME NEW w \in Operators, OperatorStep(w) PROVE ChannelStep
  BY <1>5, <1>6 DEF OperatorStep, runVars, RetryStep, RetryKilled, ListFailed, RetryEmbed,
     RetrySaveRecords, RetryMarkReady, RetryDeadLetter
<1> QED
  BY <1>2, <1>3, <1>4, <1>5, <1>6 DEF Next, HardDelete, Rest, vars, runVars

\* Every step keeps the order of a patient user's updates.
LEMMA PatienceInvKept ==
  ASSUME Patient, ~SameSecond, TypeInv, PatienceInv, [Next]_vars
  PROVE  PatienceInv'
<1>1. /\ posted \in Nat /\ nextSeq \in [Messages -> 0..MaxUpdates] /\ pending \subseteq Updates
      /\ intended \in [Messages -> 0..MaxUpdates] /\ IngestionTypeOK /\ StoreTypeOK
      /\ Sent \subseteq Updates /\ Current \subseteq Sent /\ \A u \in Sent : u.id \in Nat
  BY StoreAssumption, SentTyped DEF TypeInv, TypeOK, SystemTypeOK
<1>2. CASE UserStep
  <2>1. PICK u \in Updates : Posts(u)
    BY <1>2, UserPosts
  <2>2. UNCHANGED <<inbound, pc>>
    BY <1>2, UserPosts DEF runVars
  <2>3. Sent' \subseteq Sent \union {u} /\ Current' = {u} /\ Begun' = Begun
    BY <2>1, <2>2 DEF Posts, Sent, Current, Begun, InFlight
  <2>4. u.msg \in Messages /\ u.kind \in Kinds
    BY DEF Updates
  <2>5. \A v \in Sent : /\ v.id <= posted /\ v.id # u.id /\ v.msg \in Messages
                        /\ (v.kind # "delete" => v.seq < nextSeq[v.msg])
    BY <1>1, <2>1 DEF PatienceInv, SentInv, Posts, Updates
  <2>6. \A v \in Sent : v.kind # "delete" /\ u.kind # "delete" /\ v.msg = u.msg => v.seq # u.seq
    BY <1>1, <2>1, <2>4, <2>5 DEF Posts, Updates
  <2>7. \A m \in Messages : /\ nextSeq[m] \in Int /\ nextSeq'[m] \in Int /\ nextSeq'[m] >= nextSeq[m]
                            /\ m = u.msg /\ u.kind # "delete" => nextSeq'[m] = u.seq + 1
    BY <1>1, <2>1, <2>4 DEF Posts
  <2>8. SentInv'
    <3>1. \A v \in Sent' : v.id <= posted' /\ (v.kind # "delete" => v.seq < nextSeq'[v.msg])
      <4> TAKE v \in Sent'
      <4>1. CASE v = u
        <5>1. u.id <= posted' /\ u.seq \in Int
          BY <1>1, <2>1 DEF Posts, Updates
        <5> QED  BY <2>4, <2>7, <4>1, <5>1
      <4>2. CASE v \in Sent
        <5>1. v.seq \in Int /\ v.id \in Int /\ posted' = posted + 1
          BY <1>1, <2>1, <4>2 DEF Posts, Updates
        <5> QED  BY <1>1, <2>5, <2>7, <4>2, <5>1
      <4> QED  BY <2>3, <4>1, <4>2
    <3>2. \A v, w \in Sent' : v.id = w.id => v = w
      BY <2>3, <2>5 DEF PatienceInv, SentInv
    <3>3. \A v, w \in Sent' :
             v.kind # "delete" /\ w.kind # "delete" /\ v.msg = w.msg /\ v.seq = w.seq => v = w
      BY <2>3, <2>6 DEF PatienceInv, SentInv
    <3> QED  BY <3>1, <3>2, <3>3 DEF SentInv
  <2>9. StartOrder'
    BY <2>2, <2>3 DEF PatienceInv, StartOrder
  <2>10. CurrentInv'
    <3>1. u.kind # "empty" => Intention(u) = Meant(u)
      BY DEF Intention, Meant
    <3>2. posted' = u.id
      BY <2>1 DEF Posts
    <3>3. u.kind # "empty" => intended'[u.msg] = Meant(u)
      BY <1>1, <2>1, <2>4, <3>1 DEF Posts
    <3> QED
      BY <2>3, <3>2, <3>3 DEF CurrentInv, Meant
  <2> QED
    BY <2>8, <2>9, <2>10 DEF PatienceInv
<1>3. CASE ~UserStep
  <2>1. ChannelStep
    BY <1>3, NextChannelStep
  <2>2. SentInv' /\ CurrentInv'
    BY <2>1 DEF ChannelStep, PatienceInv, SentInv, CurrentInv, Meant
  <2>3. ASSUME \A r \in Runs : (r \in Begun' <=> r \in Begun) /\ (r \in Begun => inbound'[r] = inbound[r])
        PROVE  StartOrder'
    <3>1. Begun \subseteq Runs /\ Begun' \subseteq Runs
      BY DEF Begun
    <3> QED
      BY <2>3, <3>1 DEF PatienceInv, StartOrder
  <2>4. ASSUME NEW u \in pending, NEW r \in Runs, StartRun(r, u) PROVE StartOrder'
    <3>1. /\ Begun' = Begun \union {r} /\ r \notin Begun
          /\ \A k \in Runs : k < r => k \in Begun
          /\ inbound'[r] = u /\ \A k \in Begun : inbound'[k] = inbound[k]
      BY <1>1, <2>4 DEF StartRun, GoTo, Begun, IngestionTypeOK, StoreTypeOK
    <3>2. \A k \in Begun : k < r
      BY <3>1 DEF PatienceInv, StartOrder, Runs, Begun
    <3>3. \A k \in Begun : inbound[k].id <= u.id
      BY DEF PatienceInv, SentInv, CurrentInv, Sent, Current
    <3>4. Begun \subseteq Runs /\ Runs \subseteq Int
      BY DEF Begun, Runs
    <3>5. \A k, l \in Begun' : k < l => inbound'[k].id <= inbound'[l].id
      <4> SUFFICES ASSUME NEW k \in Begun', NEW l \in Begun', k < l
                   PROVE  inbound'[k].id <= inbound'[l].id
        OBVIOUS
      <4>1. k \in Begun
        BY <3>1, <3>2, <3>4
      <4> QED
        BY <3>1, <3>3, <4>1 DEF PatienceInv, StartOrder
    <3>6. \A k, l \in Runs : k < l /\ l \in Begun' => k \in Begun'
      BY <3>1 DEF PatienceInv, StartOrder
    <3> QED
      BY <3>5, <3>6 DEF StartOrder
  <2>5. StartOrder'
    BY <2>1, <2>3, <2>4 DEF ChannelStep
  <2> QED
    BY <2>2, <2>5 DEF PatienceInv
<1> QED
  BY <1>2, <1>3

LEMMA PatienceInvariant ==
  ASSUME Patient, ~SameSecond
  PROVE  Spec => [](TypeInv /\ PatienceInv)
<1>1. ASSUME Init PROVE PatienceInv
  <2>1. pending = {} /\ Begun = {} /\ InFlight = {}
    BY <1>1 DEF Init, IngestionInit, Begun, InFlight
  <2>2. Sent = {} /\ Current = {}
    BY <2>1 DEF Sent, Current
  <2> QED
    BY <2>1, <2>2 DEF PatienceInv, SentInv, StartOrder, CurrentInv
<1>2. TypeInv /\ PatienceInv /\ [Next]_vars => PatienceInv'
  BY PatienceInvKept
<1> QED
  BY <1>1, <1>2, InitTypeInv, NextTypeInv, PTL DEF Spec

-----------------------------------------------------------------------------
(***************************************************************************)
(* With a waiting user the runs that replace or remove a revision do not   *)
(* meet: two deliveries of one /delete excepted, only one run is past the  *)
(* insert of its row and before its result.                                *)
(***************************************************************************)
Working == Replacing \union {"get_active_note"}

CalmInv == BaseInv /\ QuietInv /\ PatienceInv

LEMMA CalmInvariant ==
  ASSUME Patient, ~SameSecond, MaxFailures = 0, MaxErasures = 0
  PROVE  Spec => []CalmInv
  BY QuietInvariant, PatienceInvariant, PTL DEF CalmInv

\* The row a message state finds is the row of the very update.
LEMMA RowIsOfUpdate ==
  ASSUME CalmInv, NEW r \in Begun, Kind(r) # "delete", NEW s \in Persisted(r)
  PROVE  inbound[s] = inbound[r]
<1>1. s \in sources /\ s \in Runs
  BY DEF Persisted, CalmInv, BaseInv, TypeInv, TypeOK, StoreTypeOK
<1>2. s \in Begun /\ Kind(s) # "delete"
  BY <1>1 DEF CalmInv, BaseInv, StoreInv, SourceOnce, BeforeSource, Begun, QuietInv, RowsOf
<1>3. inbound[s] \in Sent /\ inbound[r] \in Sent
  BY <1>2 DEF Sent
<1> QED
  BY <1>2, <1>3 DEF Persisted, CalmInv, PatienceInv, SentInv, Kind

\* A run at work carries what is meant now, and owns the row it inserted.
LEMMA AtWork ==
  ASSUME CalmInv, NEW r \in Runs, pc[r] \in Working
  PROVE  /\ r \in InFlight /\ r \in Begun /\ inbound[r].id = posted
         /\ inbound[r] \in Updates /\ Message(r) \in Messages
         /\ Kind(r) # "empty" /\ intended[Message(r)] = Meant(inbound[r])
         /\ Kind(r) # "delete" => r \in sources
<1>1. r \in InFlight /\ r \in Begun
  BY DEF Working, Replacing, Saving, InFlight, Begun
<1>2. inbound[r] \in Current
  BY <1>1 DEF Current
<1>3. inbound[r] \in Updates
  BY <1>1 DEF CalmInv, BaseInv, TypeInv, Started, Begun
<1>4. Message(r) \in Messages
  BY <1>3 DEF Message, Updates
<1>5. Kind(r) # "empty"
  BY DEF CalmInv, QuietInv, RowsOf, Working
<1>6. intended[Message(r)] = Meant(inbound[r]) /\ inbound[r].id = posted
  BY <1>2, <1>5 DEF CalmInv, PatienceInv, CurrentInv, Message, Kind
<1>7. replayOf[r] = NoRun
  BY DEF CalmInv, BaseInv, AnswersInv, Answers, ResultLate, Working, Replacing, Saving, Calls,
     Replaying
<1>8. Kind(r) # "delete" => r \in sources
  BY <1>7 DEF CalmInv, QuietInv, InPlace, AnsweredRow, Persisted, Working, Replacing, Saving,
     BeforeSource
<1> QED
  BY <1>1, <1>3, <1>4, <1>5, <1>6, <1>8

LEMMA OneAtWork ==
  ASSUME CalmInv, NEW r \in Runs, NEW s \in Runs, r # s, pc[r] \in Working, pc[s] \in Working
  PROVE  inbound[r] = inbound[s] /\ Kind(r) = "delete" /\ Kind(s) = "delete"
<1>1. inbound[r] \in Sent /\ inbound[s] \in Sent /\ inbound[r].id = inbound[s].id
  BY AtWork DEF Sent
<1>2. inbound[r] = inbound[s]
  BY <1>1 DEF CalmInv, PatienceInv, SentInv
<1>3. Kind(r) # "delete" => r \in sources /\ s \in sources
  BY <1>2, AtWork DEF Kind
<1>4. ~(r \in sources /\ s \in sources)
  BY <1>2 DEF CalmInv, BaseInv, StoreInv, SourceOnce, UniqueKey, Message
<1> QED
  BY <1>2, <1>3, <1>4 DEF Kind

-----------------------------------------------------------------------------
(***************************************************************************)
(* One active note.  A run that replaces or removes a revision has read    *)
(* the only active note of its message, so there is one again when it is   *)
(* through, and the chunk it leaves retrievable is that note's.            *)
(***************************************************************************)
ReadTheOnlyNote(r) ==
    pc[r] \in Replacing =>
        /\ ActiveNotes(Message(r)) \subseteq {priorNote[r], r}
        /\ pc[r] \in {"mark_chunk", "mark_note"} /\ Kind(r) = "note" => chunk[r] = "active"

Exchanging == {"save_chunk", "mark_chunk", "mark_note"}

OneNote(m) ==
    \/ \A n, k \in ActiveNotes(m) : n = k
    \/ \E r \in Runs : pc[r] \in Exchanging /\ Message(r) = m

NoteInv ==
    /\ RetrievableIsCurrent
    /\ \A r \in Runs : ChunkFirst(r)
    /\ \A r \in Runs : ReadTheOnlyNote(r)
    /\ \A m \in Messages : OneNote(m)

\* What a handler step does to the lifecycle columns: it saves its own rows
\* and retires those it carries.
LifecycleStep(r) ==
    /\ \A n \in Runs : note'[n] # note[n] => \/ n = r /\ IngestSaveNote(r)
                                             \/ /\ n = priorNote[r] /\ RetireNote(r)
                                                /\ note'[n] # "active"
    /\ \A c \in Runs : chunk'[c] # chunk[c] => \/ c = r /\ IngestSaveChunk(r)
                                               \/ /\ c = priorNote[r] /\ RetireChunk(r)
                                                  /\ chunk'[c] # "active"
    /\ IngestSaveChunk(r) => chunk'[r] = "active"
    /\ RetireNote(r) => note'[priorNote[r]] # "active"
    /\ \A s \in Runs \ {r} : s \in sources' <=> s \in sources
    /\ r \in sources => r \in sources'
    /\ r \in sources' \ sources => GetOrCreateSource(r)

LEMMA HandlerLifecycle ==
  ASSUME MaxFailures = 0, BaseInv, QuietInv, NEW r \in Runs, HandlerStep(r)
  PROVE  LifecycleStep(r)
<1>1. IngestionTypeOK /\ StoreTypeOK /\ CarriesPrior(r) /\ RetiredState(r) # "active"
  BY DEF BaseInv, TypeInv, TypeOK, QuietInv, RetiredState
<1>2. RunStep(r) /\ (pc[r] # "reconstruct" => ~Raise(r))
  BY NeverRaises
<1>3. CASE RetireChunk(r)
  BY <1>1, <1>2, <1>3 DEF RetireChunk, MarkChunk, CarriesPrior, StoreTypeOK, LifecycleStep,
     RetireNote, IngestSaveChunk
<1>4. CASE RetireNote(r)
  <2>1. priorNote[r] \in Runs
    BY <1>1, <1>4 DEF RetireNote, CarriesPrior, Replacing, Saving, IngestionTypeOK
  <2> QED
    BY <1>1, <1>2, <1>4, <2>1 DEF RetireNote, MarkNote, StoreTypeOK, LifecycleStep, IngestSaveChunk
<1>5. CASE IngestSaveNote(r)
  BY <1>1, <1>2, <1>5 DEF IngestSaveNote, SaveNote, StoreTypeOK, LifecycleStep, RetireNote,
     IngestSaveChunk
<1>6. CASE IngestSaveChunk(r)
  BY <1>1, <1>2, <1>6 DEF IngestSaveChunk, SaveChunk, StoreTypeOK, LifecycleStep, RetireNote
<1>7. CASE GetOrCreateSource(r)
  BY <1>1, <1>7 DEF GetOrCreateSource, InsertSource, StoreTypeOK, LifecycleStep, RetireNote,
     IngestSaveChunk, tables
<1>8. CASE ~RetireChunk(r) /\ ~RetireNote(r) /\ ~IngestSaveNote(r) /\ ~IngestSaveChunk(r)
           /\ ~GetOrCreateSource(r)
  <2>1. UNCHANGED <<note, chunk, sources>>
    BY <1>2, <1>8 DEF RunStep, Reconstruct, CountChunks, GetActiveNote, GetActiveChunk, Embed,
       MarkFailed, WriteDeadLetter, SaveRecords, MarkReady, SetEmbedding, SaveRecord,
       SaveDeadLetter, Raise, tables
  <2> QED
    BY <1>8, <2>1 DEF LifecycleStep
<1> QED
  BY <1>3, <1>4, <1>5, <1>6, <1>7, <1>8

\* ... so the active notes of other messages stay, and those of its own
\* message can only gain its own note.
LEMMA HandlerActiveNotes ==
  ASSUME MaxFailures = 0, BaseInv, QuietInv, NEW r \in Runs, HandlerStep(r), NEW m
  PROVE  /\ m # Message(r) => ActiveNotes(m)' = ActiveNotes(m)
         /\ ActiveNotes(m)' \subseteq ActiveNotes(m) \union {r}
         /\ ~IngestSaveNote(r) => ActiveNotes(m)' \subseteq ActiveNotes(m)
         /\ RetireNote(r) => priorNote[r] \notin ActiveNotes(m)'
<1>1. UNCHANGED inbound /\ LifecycleStep(r)
  BY HandlerLifecycle, HandlerForward DEF BaseInv
<1>2. priorNote[r] \in Runs => Message(priorNote[r]) = Message(r)
  BY DEF BaseInv, RevisionInv, PriorsAreSaved, Runs, NoRun
<1>3. GetOrCreateSource(r) => note'[r] = note[r] /\ note[r] = Absent
  BY <1>1 DEF GetOrCreateSource, BaseInv, RevisionInv, NotesAreSaved, BeforeNote, LifecycleStep,
     IngestSaveNote, RetireNote
<1> QED
  BY <1>1, <1>2, <1>3 DEF LifecycleStep, ActiveNotes, Message, Absent

\* How a run comes to the end of its work: it found nothing to remove, saved
\* with nothing to retire, or retired the prior note.
LEMMA HandlerExits ==
  ASSUME MaxFailures = 0, BaseInv, QuietInv, NEW r \in Runs, HandlerStep(r), pc[r] \in Working,
         pc'[r] \notin Working
  PROVE  \/ GetActiveNote(r) /\ ActiveNotes(Message(r)) = {} /\ IsRemoval(r)
         \/ IngestSaveNote(r) /\ Kind(r) # "note" /\ priorNote[r] = NoRun
         \/ IngestSaveChunk(r) /\ Kind(r) = "note" /\ priorNote[r] = NoRun
         \/ RetireNote(r)
<1>1. IngestionTypeOK /\ CarriesPrior(r) /\ RowsOf(r)
  BY DEF BaseInv, TypeInv, TypeOK, QuietInv
<1>2. RunStep(r) /\ (pc[r] # "reconstruct" => ~Raise(r))
  BY NeverRaises
<1>3. CASE GetActiveNote(r)
  BY <1>1, <1>3 DEF GetActiveNote, GoTo, Finish, IngestionTypeOK, Working, Replacing, Saving
<1>4. CASE GetActiveChunk(r)
  <2>1. priorNote[r] # NoRun
    BY <1>1, <1>4 DEF GetActiveChunk, CarriesPrior, Replacing, Saving
  <2> QED
    BY <1>1, <1>4, <2>1 DEF GetActiveChunk, RetireFrom, GoTo, IngestionTypeOK, Working, Replacing,
       Saving
<1>5. CASE IngestSaveNote(r)
  BY <1>1, <1>2, <1>5 DEF IngestSaveNote, AfterSaving, RetireFrom, GoTo, Finish, IngestionTypeOK,
     Working, Replacing, Saving
<1>6. CASE IngestSaveChunk(r)
  BY <1>1, <1>2, <1>6 DEF IngestSaveChunk, AfterSaving, RetireFrom, GoTo, Finish, IngestionTypeOK,
     RowsOf, Working, Replacing, Saving
<1>7. CASE RetireChunk(r)
  BY <1>1, <1>2, <1>7 DEF RetireChunk, GoTo, IngestionTypeOK, Working, Replacing
<1>8. CASE RetireNote(r)
  BY <1>8
<1> QED
  BY <1>2, <1>3, <1>4, <1>5, <1>6, <1>7, <1>8 DEF RunStep, GetOrCreateSource, Reconstruct,
     CountChunks, Embed, MarkFailed, WriteDeadLetter, SaveRecords, MarkReady, Working, Replacing,
     Saving

\* ... and goes on with it.
LEMMA HandlerGoesOn ==
  ASSUME MaxFailures = 0, BaseInv, QuietInv, NEW r \in Runs, HandlerStep(r), pc'[r] \in Working
  PROVE  \/ GetOrCreateSource(r) /\ pc'[r] = "get_active_note"
         \/ GetActiveNote(r) /\ pc'[r] \in {"get_active_chunk", "save_note"}
         \/ GetActiveChunk(r) /\ (pc'[r] = "save_note" \/ IsRemoval(r))
         \/ IngestSaveNote(r) /\ pc'[r] \in Exchanging /\ (pc'[r] = "save_chunk" \/ Kind(r) # "note")
         \/ IngestSaveChunk(r) /\ pc'[r] \in Exchanging
         \/ RetireChunk(r) /\ pc'[r] \in Exchanging
<1>1. IngestionTypeOK
  BY DEF BaseInv, TypeInv, TypeOK
<1>2. RunStep(r) /\ (pc[r] # "reconstruct" => ~Raise(r))
  BY NeverRaises
<1> QED
  BY <1>1, <1>2 DEF RunStep, GetOrCreateSource, Reconstruct, CountChunks, GetActiveNote,
     GetActiveChunk, IngestSaveNote, IngestSaveChunk, RetireChunk, RetireNote, Embed, MarkFailed,
     WriteDeadLetter, SaveRecords, MarkReady, AfterSaving, RetireFrom, GoTo, Finish, Raise,
     IngestionTypeOK, Working, Replacing, Saving, Exchanging

\* What a run at work has read stays the only note while it works.
LEMMA HandlerReads ==
  ASSUME MaxFailures = 0, CalmInv, NoteInv, NEW r \in Runs, HandlerStep(r)
  PROVE  ReadTheOnlyNote(r)'
<1>1. IngestionTypeOK /\ StoreTypeOK /\ BaseInv /\ QuietInv /\ CarriesPrior(r) /\ LifecycleStep(r)
  BY HandlerLifecycle DEF CalmInv, BaseInv, TypeInv, TypeOK, QuietInv
<1>2. UNCHANGED inbound /\ Message(r)' = Message(r) /\ Kind(r)' = Kind(r)
  BY <1>1, HandlerForward DEF BaseInv, Message, Kind
<1>3. SUFFICES ASSUME pc'[r] \in Replacing
               PROVE  /\ ActiveNotes(Message(r))' \subseteq {priorNote'[r], r}
                      /\ pc'[r] \in {"mark_chunk", "mark_note"} /\ Kind(r) = "note" =>
                            chunk'[r] = "active"
  BY <1>2 DEF ReadTheOnlyNote
<1>4. CASE GetActiveNote(r)
  <2>1. UNCHANGED tables /\ ActiveNotes(Message(r))' = ActiveNotes(Message(r))
    BY <1>2, <1>4 DEF GetActiveNote, ActiveNotes, Message, tables
  <2>2. pc'[r] \in {"get_active_chunk", "save_note"}
    BY <1>1, <1>3, <1>4 DEF GetActiveNote, GoTo, Finish, IngestionTypeOK, Replacing, Saving
  <2>3. CASE ActiveNotes(Message(r)) = {}
    BY <2>1, <2>2, <2>3
  <2>4. CASE ActiveNotes(Message(r)) # {}
    <3>1. PICK n \in ActiveNotes(Message(r)) : priorNote'[r] = n
      BY <1>1, <1>4, <2>4 DEF GetActiveNote, IsNewest, IngestionTypeOK
    <3>2. pc[r] \in Working /\ pc[r] \notin Exchanging
      BY <1>4 DEF GetActiveNote, Working, Exchanging
    <3>3. \A k \in ActiveNotes(Message(r)) : k = n
      <4>1. CASE \E k \in Runs : pc[k] \in Exchanging /\ Message(k) = Message(r)
        <5>1. PICK k \in Runs : pc[k] \in Exchanging /\ Message(k) = Message(r)
          BY <4>1
        <5>2. pc[k] \in Working /\ pc[k] \in Replacing /\ k # r
          BY <3>2, <5>1 DEF Working, Exchanging, Replacing, Saving
        <5>3. Kind(k) = "delete"
          BY <3>2, <5>2, OneAtWork
        <5>4. note[k] = Absent
          BY <1>1, <5>3 DEF QuietInv, RowsOf, NoteKinds
        <5>5. ActiveNotes(Message(r)) \subseteq {priorNote[k]}
          BY <5>1, <5>2, <5>4 DEF NoteInv, ReadTheOnlyNote, ActiveNotes, Absent
        <5> QED  BY <5>5
      <4>2. Message(r) \in Messages
        BY <3>2, AtWork
      <4> QED
        BY <4>1, <4>2 DEF NoteInv, OneNote
    <3> QED  BY <2>1, <2>2, <3>1, <3>3
  <2> QED  BY <2>3, <2>4
<1>5. CASE ~GetActiveNote(r)
  <2>1. UNCHANGED priorNote /\ pc[r] \in Replacing
    <3>1. UNCHANGED priorNote
      BY <1>1, <1>5, HandlerKeepsLocals DEF BaseInv
    <3>2. pc[r] \in Replacing
      BY <1>1, <1>3, <1>5, HandlerGoesOn DEF Working, Replacing, Saving, GetOrCreateSource,
         GetActiveChunk, IngestSaveNote, IngestSaveChunk, RetireChunk
    <3> QED  BY <3>1, <3>2
  <2>2. ActiveNotes(Message(r))' \subseteq {priorNote[r], r}
    BY <1>1, <1>2, <2>1, HandlerActiveNotes DEF NoteInv, ReadTheOnlyNote
  <2>3. pc'[r] \in {"mark_chunk", "mark_note"} /\ Kind(r) = "note" => IngestSaveChunk(r) \/ RetireChunk(r)
    BY <1>1, <1>3, <1>5, HandlerGoesOn DEF Working, IsRemoval, RemovalKinds
  <2>4. RetireChunk(r) /\ Kind(r) = "note" => chunk'[r] = "active"
    <3> SUFFICES ASSUME RetireChunk(r), Kind(r) = "note" PROVE chunk'[r] = "active"
      OBVIOUS
    <3>1. chunk[r] = "active" /\ priorNote[r] # r /\ ~IngestSaveChunk(r)
      BY <1>1, <2>1 DEF RetireChunk, NoteInv, ReadTheOnlyNote, CarriesPrior, IngestSaveChunk
    <3> QED  BY <1>1, <3>1 DEF LifecycleStep
  <2> QED
    BY <1>1, <2>1, <2>2, <2>3, <2>4 DEF LifecycleStep
<1> QED
  BY <1>4, <1>5

\* Nor does another run's step change what a run at work has read.
LEMMA OthersStayRead ==
  ASSUME MaxFailures = 0, CalmInv, NoteInv, NEW r \in Runs, HandlerStep(r),
         NEW k \in Runs, k # r
  PROVE  ReadTheOnlyNote(k)' /\ ChunkFirst(k)'
<1>1. BaseInv /\ QuietInv /\ LifecycleStep(r) /\ UNCHANGED inbound
  BY HandlerLifecycle, HandlerForward DEF CalmInv, BaseInv
<1>2. pc'[k] = pc[k] /\ priorNote'[k] = priorNote[k] /\ priorChunk'[k] = priorChunk[k]
  BY <1>1, HandlerMovesOne, HandlerKeepsLocals DEF BaseInv
<1>3. CASE pc[k] \notin Replacing
  BY <1>2, <1>3 DEF ReadTheOnlyNote, ChunkFirst, Replacing, Saving
<1>4. CASE pc[k] \in Replacing
  <2>1. pc[r] \in Working => Kind(r) = "delete" /\ Kind(k) = "delete"
    BY <1>4, OneAtWork DEF Working
  <2>2. ~IngestSaveNote(r) /\ ~IngestSaveChunk(r)
    BY <1>1, <2>1 DEF IngestSaveNote, IngestSaveChunk, Working, Replacing, Saving, QuietInv, RowsOf,
       IsRemoval, RemovalKinds
  <2>3. RetireChunk(r) \/ RetireNote(r) => Kind(k) = "delete"
    BY <2>1 DEF RetireChunk, RetireNote, Working, Replacing
  <2>4. ActiveNotes(Message(k))' \subseteq ActiveNotes(Message(k))
    BY <1>1, <2>2, HandlerActiveNotes DEF Message
  <2>5. \A c \in Runs : chunk'[c] = "active" => chunk[c] = "active"
    BY <1>1, <2>2 DEF LifecycleStep
  <2>6. Kind(k) # "delete" => chunk'[k] = chunk[k] /\ note'[k] = note[k]
    BY <1>1, <2>2, <2>3 DEF LifecycleStep
  <2>7. ReadTheOnlyNote(k)'
    BY <1>1, <1>2, <1>4, <2>4, <2>6 DEF NoteInv, ReadTheOnlyNote, Message, Kind
  <2>8. pc[k] = "save_chunk" => Kind(k) # "delete"
    BY <1>1 DEF QuietInv, RowsOf
  <2>9. /\ pc[k] = "mark_note" => priorNote[k] \in Runs
        /\ priorNote[k] # NoRun => priorNote[k] \in Runs
    BY <1>1 DEF QuietInv, CarriesPrior, Replacing, Saving, BaseInv, TypeInv, TypeOK, IngestionTypeOK
  <2>10. ChunkFirst(k)'
    BY <1>2, <2>5, <2>6, <2>8, <2>9 DEF NoteInv, ChunkFirst
  <2> QED  BY <2>7, <2>10
<1> QED
  BY <1>3, <1>4

LEMMA HandlerKeepsOneNote ==
  ASSUME MaxFailures = 0, CalmInv, NoteInv, NEW r \in Runs, HandlerStep(r), NEW m \in Messages
  PROVE  OneNote(m)'
<1>1. /\ IngestionTypeOK /\ BaseInv /\ QuietInv /\ UNCHANGED inbound
      /\ \A k \in Runs : k # r => pc'[k] = pc[k]
  BY HandlerMovesOne, HandlerForward DEF CalmInv, BaseInv, TypeInv, TypeOK
<1>2. \A k \in Runs \ {r} : pc[k] \in Exchanging /\ Message(k) = m => OneNote(m)'
  BY <1>1 DEF OneNote, Message
<1>3. CASE m # Message(r)
  <2>1. ActiveNotes(m)' = ActiveNotes(m)
    BY <1>1, <1>3, HandlerActiveNotes
  <2> QED
    BY <1>2, <1>3, <2>1 DEF NoteInv, OneNote
<1>4. CASE m = Message(r) /\ pc'[r] \in Exchanging
  BY <1>1, <1>4 DEF OneNote, Message
<1>5. CASE m = Message(r) /\ pc'[r] \notin Exchanging
  <2>1. CASE pc[r] \in Replacing /\ pc'[r] \notin Working
    <3>1. ActiveNotes(m) \subseteq {priorNote[r], r}
      BY <1>5, <2>1 DEF NoteInv, ReadTheOnlyNote
    <3>2. \/ (IngestSaveNote(r) \/ IngestSaveChunk(r)) /\ priorNote[r] = NoRun
          \/ RetireNote(r)
      BY <1>1, <2>1, HandlerExits DEF Working, GetActiveNote, Replacing, Saving
    <3>3. ActiveNotes(m)' \subseteq ActiveNotes(m) \union {r}
      BY <1>1, <1>5, HandlerActiveNotes
    <3>4. priorNote[r] \notin ActiveNotes(m)'
      <4>1. NoRun \notin ActiveNotes(m)'
        BY DEF ActiveNotes, Runs, NoRun
      <4> QED  BY <1>1, <1>5, <3>2, <4>1, HandlerActiveNotes
    <3> QED
      BY <3>1, <3>3, <3>4 DEF OneNote
  <2>2. CASE pc[r] \notin Replacing \/ pc'[r] \in Working
    <3>1. pc[r] \notin Exchanging /\ ~IngestSaveNote(r)
      <4>1. CASE pc'[r] \in Working
        BY <1>1, <1>5, <4>1, HandlerGoesOn DEF Exchanging, GetOrCreateSource, GetActiveNote,
           GetActiveChunk, IngestSaveNote, IngestSaveChunk, RetireChunk, Working, Replacing, Saving
      <4>2. CASE pc[r] \notin Replacing
        BY <4>2 DEF Exchanging, Replacing, Saving, IngestSaveNote
      <4> QED  BY <2>2, <4>1, <4>2
    <3>2. ActiveNotes(m)' \subseteq ActiveNotes(m)
      BY <1>1, <1>5, <3>1, HandlerActiveNotes
    <3> QED
      BY <1>2, <3>1, <3>2 DEF NoteInv, OneNote
  <2> QED  BY <2>1, <2>2
<1> QED
  BY <1>3, <1>4, <1>5

\* The steps of the user, of Telegram and of the operators leave the notes
\* and the chunks alone; a delivery begins or is answered.
Bystands ==
    /\ UNCHANGED <<sources, note, chunk, priorNote, priorChunk, outcome>>
    /\ \A k \in Runs :
          \/ pc'[k] = pc[k] /\ inbound'[k] = inbound[k]
          \/ pc[k] = "unused" /\ pc'[k] \in {"get_or_create_source", "get_active_note"}
          \/ pc[k] = "done" /\ pc'[k] = "replied" /\ inbound'[k] = inbound[k]

LEMMA OthersBystand ==
  ASSUME TypeInv, [Next]_vars, \A r \in Runs : ~HandlerStep(r) /\ ~HardDelete(r)
  PROVE  Bystands
<1>1. IngestionTypeOK /\ StoreTypeOK
  BY DEF TypeInv, TypeOK
<1>2. ASSUME NEW u \in pending, Deliver(u) PROVE Bystands
  BY <1>1, <1>2 DEF Deliver, StartRun, GoTo, UnchangedLocals, Bystands, IngestionTypeOK,
     StoreTypeOK, tables
<1>3. ASSUME NEW r \in Runs, Respond(r) PROVE Bystands
  BY <1>1, <1>3 DEF Respond, GoTo, UnchangedLocals, Bystands, IngestionTypeOK, tables
<1>4. ASSUME NEW w \in Operators, OperatorStep(w) PROVE Bystands
  BY <1>4 DEF OperatorStep, RetryStep, RetryKilled, ListFailed, RetryEmbed, RetrySaveRecords,
     RetryMarkReady, RetryDeadLetter, SaveRecord, SetEmbedding, SaveDeadLetter, runVars, tables,
     Bystands
<1>5. UserStep \/ Rest \/ UNCHANGED vars => Bystands
  BY DEF UserStep, Rest, vars, runVars, tables, Bystands
<1> QED
  BY <1>2, <1>3, <1>4, <1>5 DEF Next

LEMMA NoteInvKept ==
  ASSUME MaxFailures = 0, MaxErasures = 0, CalmInv, NoteInv, [Next]_vars
  PROVE  NoteInv'
<1>1. TypeInv /\ StoreInv /\ RevisionInv /\ QuietInv /\ erased = {}
  BY DEF CalmInv, BaseInv, QuietInv, NothingLost
<1>2. ASSUME NEW r \in Runs, HandlerStep(r) PROVE NoteInv'
  <2>1. CarriesPrior(r) /\ ChunkFirst(r) /\ RetrievableIsCurrent
    BY <1>1 DEF QuietInv, NoteInv
  <2>2. ChunkFirst(r)' /\ RetrievableIsCurrent'
    BY <1>1, <1>2, <2>1, HandlerChunkFirst
  <2> QED
    BY <1>2, <2>2, HandlerReads, OthersStayRead, HandlerKeepsOneNote DEF NoteInv
<1>3. ASSUME \A r \in Runs : ~HandlerStep(r) PROVE NoteInv'
  <2>1. Bystands
    BY <1>1, <1>3, NoHardDelete, OthersBystand
  <2>2. \A n \in sources : inbound'[n] = inbound[n]
    BY <1>1, <2>1 DEF Bystands, StoreInv, SourceOnce, BeforeSource, TypeInv, TypeOK, StoreTypeOK
  <2>3. \A m : ActiveNotes(m)' = ActiveNotes(m)
    BY <2>1, <2>2 DEF Bystands, ActiveNotes
  <2>4. \A k \in Runs : \/ pc'[k] = pc[k] /\ inbound'[k] = inbound[k]
                        \/ pc[k] \notin Replacing /\ pc'[k] \notin Replacing
    BY <2>1 DEF Bystands, Replacing, Saving
  <2>5. Exchanging \subseteq Replacing /\ Saving \subseteq Replacing
    BY DEF Exchanging, Replacing, Saving
  <2>6. RetrievableIsCurrent' /\ \A k \in Runs : ChunkFirst(k)'
    <3>1. \A k \in Runs : pc'[k] \in Replacing => pc'[k] = pc[k]
      BY <2>4
    <3> QED
      BY <2>1, <2>5, <3>1 DEF Bystands, NoteInv, RetrievableIsCurrent, ChunkFirst, Replacing, Saving
  <2>7. \A k \in Runs : ReadTheOnlyNote(k)'
    BY <2>1, <2>3, <2>4 DEF Bystands, NoteInv, ReadTheOnlyNote, Message, Kind
  <2>8. \A m \in Messages : OneNote(m)'
    BY <2>3, <2>4, <2>5 DEF NoteInv, OneNote, Message
  <2> QED
    BY <2>6, <2>7, <2>8 DEF NoteInv
<1> QED
  BY <1>2, <1>3

LEMMA NoteInvariant ==
  ASSUME Patient, ~SameSecond, MaxFailures = 0, MaxErasures = 0
  PROVE  Spec => [](CalmInv /\ NoteInv)
<1>1. ASSUME Init PROVE NoteInv
  <2>1. \A r \in Runs : note[r] = Absent /\ chunk[r] = Absent /\ pc[r] = "unused"
    BY <1>1 DEF Init, StoreInit, IngestionInit
  <2>2. \A m : ActiveNotes(m) = {}
    BY <2>1 DEF ActiveNotes, Absent
  <2> QED
    BY <2>1, <2>2 DEF NoteInv, RetrievableIsCurrent, ChunkFirst, ReadTheOnlyNote, OneNote, Saving,
       Replacing, Absent
<1>2. CalmInv /\ NoteInv /\ [Next]_vars => NoteInv'
  BY NoteInvKept
<1> QED
  BY <1>1, <1>2, CalmInvariant, PTL DEF Spec

-----------------------------------------------------------------------------
(***************************************************************************)
(* What is retrievable is what was meant, but for an update no delivery    *)
(* has dealt with yet and for a run at work.                               *)
(***************************************************************************)
Shown(m) == {inbound[c].id : c \in VisibleChunks(m)}

ShownAsMeant(m) == Shown(m) = {intended[m]} \ {0}

\* A row or an answer of the update is there.
Taken(u) ==
    \/ \E s \in sources : inbound[s] = u
    \/ \E r \in Runs : pc[r] \in {"done", "replied"} /\ inbound[r] = u

Waiting(m) == \E u \in pending : u.msg = m /\ u.kind # "empty" /\ ~Taken(u)

UnderWay(m) == \E r \in Runs : pc[r] \in Working /\ Message(r) = m

Settles(m) == ShownAsMeant(m) \/ Waiting(m) \/ UnderWay(m)

ShownInv == \A m \in Messages : Settles(m)

\* Only the active notes of a message can have retrievable chunks.
LEMMA VisibleIsCurrent ==
  ASSUME CalmInv, NoteInv, NEW m
  PROVE  VisibleChunks(m) = {n \in ActiveNotes(m) : chunk[n] = "active"}
<1>1. sources \subseteq Runs
  BY DEF CalmInv, BaseInv, TypeInv, TypeOK, StoreTypeOK
<1> QED
  BY <1>1 DEF NoteInv, RetrievableIsCurrent, VisibleChunks, ActiveNotes

\* A run that comes to the end of its work has made its message show what
\* its update means.
LEMMA WorkIsDone ==
  ASSUME MaxFailures = 0, CalmInv, NoteInv, NoteInv', CalmInv', NEW r \in Runs, HandlerStep(r),
         pc[r] \in Working, pc'[r] \notin Working, NEW m \in Messages, m = Message(r)
  PROVE  ShownAsMeant(m)'
<1>1. /\ BaseInv /\ QuietInv /\ UNCHANGED <<inbound, intended>> /\ LifecycleStep(r)
      /\ CarriesPrior(r) /\ RowsOf(r)
  BY HandlerLifecycle, HandlerForward DEF CalmInv, BaseInv, QuietInv, HandlerStep, channelVars
<1>2. intended[m] = Meant(inbound[r]) /\ inbound[r].id \in Nat \ {0}
  BY AtWork, StoreAssumption DEF Updates
<1>3. ActiveNotes(m)' \subseteq ActiveNotes(m) \union {r} /\ (RetireNote(r) => priorNote[r] \notin ActiveNotes(m)')
  BY <1>1, HandlerActiveNotes
<1>4. pc[r] \in Replacing => ActiveNotes(m) \subseteq {priorNote[r], r}
  BY DEF NoteInv, ReadTheOnlyNote
<1>5. VisibleChunks(m)' = {n \in ActiveNotes(m)' : chunk'[n] = "active"}
  <2>1. sources' \subseteq Runs
    BY DEF CalmInv, BaseInv, TypeInv, TypeOK, StoreTypeOK
  <2> QED
    BY <2>1 DEF NoteInv, RetrievableIsCurrent, VisibleChunks, ActiveNotes
<1>6. NoRun \notin ActiveNotes(m)'
  BY DEF ActiveNotes, Runs, NoRun
<1>7. SUFFICES VisibleChunks(m)' = IF Kind(r) = "note" THEN {r} ELSE {}
  BY <1>1, <1>2 DEF ShownAsMeant, Shown, Meant, Kind
<1>8. VisibleChunks(m)' \subseteq {r}
  <2>1. CASE GetActiveNote(r) /\ ActiveNotes(m) = {}
    BY <1>3, <1>5, <2>1
  <2>2. CASE (IngestSaveNote(r) \/ IngestSaveChunk(r)) /\ priorNote[r] = NoRun
    BY <1>3, <1>4, <1>5, <1>6, <2>2 DEF IngestSaveNote, IngestSaveChunk, Replacing, Saving
  <2>3. CASE RetireNote(r)
    BY <1>3, <1>4, <1>5, <2>3 DEF RetireNote, Replacing
  <2> QED
    BY <1>1, <2>1, <2>2, <2>3, HandlerExits
<1>9. CASE Kind(r) = "note"
  <2>1. IngestSaveChunk(r) \/ RetireNote(r)
    BY <1>1, <1>9, HandlerExits DEF IsRemoval, RemovalKinds
  <2>2. chunk'[r] = "active"
    <3>1. RetireNote(r) => chunk[r] = "active" /\ ~RetireChunk(r)
      BY <1>9 DEF RetireNote, RetireChunk, NoteInv, ReadTheOnlyNote, Replacing
    <3> QED  BY <1>1, <2>1, <3>1 DEF LifecycleStep
  <2>3. r \in sources'
    BY <1>1, <1>9, AtWork DEF LifecycleStep
  <2>4. r \in VisibleChunks(m)'
    BY <1>1, <2>2, <2>3 DEF VisibleChunks, Message
  <2> QED  BY <1>8, <1>9, <2>4
<1>10. CASE Kind(r) # "note"
  <2>1. chunk'[r] # "active"
    BY <1>1, <1>10 DEF CalmInv, QuietInv, RowsOf, Kind, Absent
  <2> QED  BY <1>5, <1>8, <1>10, <2>1
<1> QED
  BY <1>9, <1>10

\* A run answers an update whose row is there, inserts the row of an update
\* it goes on to work on, or refuses an empty note.
LEMMA TakenBefore ==
  ASSUME MaxFailures = 0, CalmInv, NEW r \in Runs, HandlerStep(r), pc[r] \notin Working,
         pc'[r] \notin Working, Kind(r) # "empty", NEW u, Taken(u)'
  PROVE  Taken(u)
<1>1. /\ IngestionTypeOK /\ BaseInv /\ QuietInv /\ UNCHANGED inbound /\ LifecycleStep(r)
      /\ \A k \in Runs : k # r => pc'[k] = pc[k]
  BY HandlerMovesOne, HandlerForward, HandlerLifecycle DEF CalmInv, BaseInv, TypeInv, TypeOK
<1>2. RunStep(r) /\ (pc[r] # "reconstruct" => ~Raise(r))
  BY <1>1, NeverRaises
<1>3. CASE \E s \in sources' : inbound'[s] = u
  <2>1. r \notin sources' \ sources
    BY <1>1, <1>3 DEF LifecycleStep, GetOrCreateSource, GoTo, Finish, IngestionTypeOK, Working,
       InsertSource, tables
  <2>2. sources' \subseteq Runs
    BY <1>1, NextTypeInv DEF BaseInv, TypeInv, TypeOK, StoreTypeOK, Next
  <2>3. sources' \subseteq sources
    BY <1>1, <2>1, <2>2 DEF LifecycleStep
  <2> QED  BY <1>1, <1>3, <2>3 DEF Taken
<1>4. CASE \E k \in Runs : pc'[k] \in {"done", "replied"} /\ inbound'[k] = u
  <2>1. PICK k \in Runs : pc'[k] \in {"done", "replied"} /\ inbound'[k] = u
    BY <1>4
  <2>2. CASE k # r
    BY <1>1, <2>1, <2>2 DEF Taken
  <2>3. CASE k = r
    <3>1. pc[r] \in Replaying \union Enriching
      BY <1>1, <1>2, <2>1, <2>3 DEF RunStep, GetOrCreateSource, Reconstruct, CountChunks,
         GetActiveNote, GetActiveChunk, IngestSaveNote, IngestSaveChunk, RetireChunk, RetireNote,
         Embed, MarkFailed, WriteDeadLetter, SaveRecords, MarkReady, GoTo, Finish,
         IngestionTypeOK, Working, Replacing, Saving, Replaying, Enriching
    <3>2. Kind(r) # "delete" /\ r \in Begun /\ pc[r] \notin BeforeSource
      <4>1. Kind(r) = "delete" => replayOf[r] = NoRun
        BY <1>1, <3>1 DEF QuietInv, InPlace, Replaying, Enriching
      <4>2. pc[r] \in Enriching => Kind(r) = "note"
        BY <1>1 DEF BaseInv, AnswersInv, Answers, SavedOnTheWay
      <4>3. pc[r] \in Replaying => replayOf[r] # NoRun
        BY <1>1 DEF BaseInv, AnswersInv, Answers, ResultLate
      <4> QED
        BY <3>1, <4>1, <4>2, <4>3 DEF Replaying, Enriching, Begun, BeforeSource
    <3>3. AnsweredRow(r) \in Persisted(r)
      BY <1>1, <3>2 DEF QuietInv, InPlace
    <3>4. AnsweredRow(r) \in sources /\ inbound[AnsweredRow(r)] = inbound[r]
      BY <3>2, <3>3, RowIsOfUpdate DEF Persisted
    <3> QED
      BY <1>1, <2>1, <2>3, <3>4 DEF Taken
  <2> QED  BY <2>2, <2>3
<1> QED
  BY <1>3, <1>4 DEF Taken

\* Every handler step keeps what is shown settled.
LEMMA HandlerSettles ==
  ASSUME MaxFailures = 0, CalmInv, NoteInv, CalmInv', NoteInv', NEW r \in Runs, HandlerStep(r),
         NEW m \in Messages, Settles(m)
  PROVE  Settles(m)'
<1>1. /\ IngestionTypeOK /\ StoreTypeOK /\ BaseInv /\ QuietInv /\ UNCHANGED <<inbound, channelVars>>
      /\ LifecycleStep(r)
      /\ \A k \in Runs : k # r => pc'[k] = pc[k]
  BY HandlerMovesOne, HandlerForward, HandlerLifecycle
     DEF CalmInv, BaseInv, TypeInv, TypeOK, HandlerStep
<1>2. ~IngestSaveChunk(r) /\ ~RetireChunk(r) => Shown(m)' = Shown(m)
  <2> SUFFICES ASSUME ~IngestSaveChunk(r), ~RetireChunk(r) PROVE VisibleChunks(m)' = VisibleChunks(m)
    BY <1>1 DEF Shown
  <2>1. r \notin sources => chunk[r] # "active"
    BY <1>1 DEF BaseInv, StoreInv, Lineage, Absent
  <2>2. \A c \in Runs : chunk'[c] = chunk[c]
    BY <1>1 DEF LifecycleStep
  <2>3. sources \subseteq Runs /\ sources' \subseteq Runs
    BY <1>1 DEF StoreTypeOK, CalmInv, BaseInv, TypeInv, TypeOK
  <2> QED
    BY <1>1, <2>1, <2>2, <2>3 DEF VisibleChunks, LifecycleStep
<1>3. \A k \in Runs \ {r} : pc[k] \in Working /\ Message(k) = m => Settles(m)'
  BY <1>1 DEF Settles, UnderWay, Message
<1>4. CASE m # Message(r)
  <2>1. Shown(m)' = Shown(m)
    <3>1. sources \subseteq Runs /\ sources' \subseteq Runs
      BY <1>1 DEF StoreTypeOK, CalmInv, BaseInv, TypeInv, TypeOK
    <3>2. priorNote[r] \in Runs => Message(priorNote[r]) = Message(r)
      BY <1>1 DEF BaseInv, RevisionInv, PriorsAreSaved, Runs, NoRun
    <3>3. VisibleChunks(m)' = VisibleChunks(m)
      BY <1>1, <1>4, <3>1, <3>2 DEF VisibleChunks, LifecycleStep, Message
    <3> QED  BY <1>1, <3>3 DEF Shown
  <2>2. \A u : u.msg = m /\ Taken(u)' => Taken(u)
    <3>1. sources' \subseteq Runs
      BY DEF CalmInv, BaseInv, TypeInv, TypeOK, StoreTypeOK
    <3> QED
      BY <1>1, <1>4, <3>1 DEF Taken, LifecycleStep, Message
  <2>3. Waiting(m) => Waiting(m)'
    BY <1>1, <2>2 DEF Waiting, channelVars
  <2> QED
    BY <1>1, <1>3, <1>4, <2>1, <2>3 DEF Settles, ShownAsMeant, UnderWay, channelVars
<1>5. CASE m = Message(r) /\ pc'[r] \in Working
  BY <1>1, <1>5 DEF Settles, UnderWay, Message
<1>6. CASE m = Message(r) /\ pc'[r] \notin Working /\ pc[r] \in Working
  BY <1>6, WorkIsDone DEF Settles
<1>7. CASE m = Message(r) /\ pc'[r] \notin Working /\ pc[r] \notin Working
  <2>1. Shown(m)' = Shown(m)
    BY <1>2, <1>7 DEF IngestSaveChunk, RetireChunk, Working, Replacing, Saving
  <2>2. Waiting(m) => Waiting(m)'
    <3>1. SUFFICES ASSUME NEW u \in pending, u.msg = m, u.kind # "empty", ~Taken(u)
                   PROVE  ~Taken(u)'
      BY <1>1 DEF Waiting, channelVars
    <3>2. CASE Kind(r) # "empty"
      BY <1>7, <3>1, <3>2, TakenBefore
    <3>3. CASE Kind(r) = "empty"
      <4>1. inbound'[r] # u
        BY <1>1, <3>1, <3>3 DEF Kind
      <4>2. sources' \subseteq Runs
        BY DEF CalmInv, BaseInv, TypeInv, TypeOK, StoreTypeOK
      <4> QED
        BY <1>1, <3>1, <4>1, <4>2 DEF Taken, LifecycleStep
    <3> QED  BY <3>2, <3>3
  <2> QED
    BY <1>1, <1>3, <1>7, <2>1, <2>2 DEF Settles, ShownAsMeant, UnderWay, channelVars
<1> QED
  BY <1>4, <1>5, <1>6, <1>7

\* A waiting user writes when everything is settled.
LEMMA UserSettles ==
  ASSUME Patient, ~SameSecond, CalmInv, ShownInv, UserStep, NEW m \in Messages
  PROVE  Settles(m)'
<1>1. PICK u \in Updates : Posts(u)
  BY UserPosts DEF CalmInv, BaseInv
<1>2. UNCHANGED <<inbound, sources, chunk, pc>>
  BY <1>1, UserPosts DEF CalmInv, BaseInv, tables, runVars
<1>3. Shown(m)' = Shown(m)
  BY <1>2 DEF Shown, VisibleChunks
<1>4. ShownAsMeant(m)
  <2>1. ~Waiting(m)
    BY <1>1 DEF Posts, Waiting
  <2>2. ~UnderWay(m)
    BY <1>1 DEF Posts, UnderWay, InFlight, Working, Replacing, Saving
  <2> QED  BY <2>1, <2>2 DEF ShownInv, Settles
<1>5. intended \in [Messages -> 0..MaxUpdates] /\ u.msg \in Messages /\ posted \in Nat
  BY StoreAssumption DEF CalmInv, BaseInv, TypeInv, TypeOK, SystemTypeOK, Updates
<1>6. CASE m # u.msg \/ u.kind = "empty"
  <2>1. intended'[m] = intended[m]
    BY <1>1, <1>5, <1>6 DEF Posts, Intention
  <2> QED
    BY <1>3, <1>4, <2>1 DEF Settles, ShownAsMeant
<1>7. CASE m = u.msg /\ u.kind # "empty"
  <2>1. \A v \in Sent : v # u
    <3>1. \A v \in Sent : v.id <= posted /\ v.id \in Nat
      BY SentTyped DEF CalmInv, BaseInv, PatienceInv, SentInv
    <3> QED  BY <1>1, <1>5, <3>1 DEF Posts
  <2>2. \A s \in sources : s \in Begun
    BY DEF CalmInv, BaseInv, TypeInv, TypeOK, StoreTypeOK, StoreInv, SourceOnce, BeforeSource, Begun
  <2>3. ~Taken(u)'
    BY <1>2, <2>1, <2>2 DEF Taken, Sent, Begun
  <2>4. Waiting(m)'
    BY <1>1, <1>7, <2>3 DEF Posts, Waiting
  <2> QED  BY <2>4 DEF Settles
<1> QED
  BY <1>6, <1>7

\* A delivery that begins settles nothing, and an answer goes to an update
\* that is dealt with.
LEMMA ChannelSettles ==
  ASSUME CalmInv, ShownInv, [Next]_vars, ~UserStep, Bystands, NEW m \in Messages
  PROVE  Settles(m)'
<1>1. UNCHANGED <<posted, nextSeq, intended, sources, chunk>>
  BY NextChannelStep DEF ChannelStep, CalmInv, BaseInv, Bystands
<1>2. \A s \in sources : s \in Runs /\ inbound'[s] = inbound[s]
  BY DEF Bystands, CalmInv, BaseInv, StoreInv, SourceOnce, BeforeSource, TypeInv, TypeOK, StoreTypeOK
<1>3. Shown(m)' = Shown(m)
  <2>1. VisibleChunks(m)' = VisibleChunks(m)
    BY <1>1, <1>2 DEF VisibleChunks
  <2> QED
    BY <1>2, <2>1 DEF Shown, VisibleChunks
<1>4. \A u : Taken(u)' => Taken(u)
  BY <1>1, <1>2 DEF Taken, Bystands
<1>5. \A u \in pending : u \in pending' \/ Taken(u)
  <2>1. ASSUME NEW r \in Runs, Respond(r) PROVE \A u \in pending : u \in pending' \/ Taken(u)
    BY <2>1 DEF Respond, Taken
  <2>2. ASSUME NEW r \in Runs, HandlerStep(r) \/ HardDelete(r) PROVE UNCHANGED pending
    BY <2>2 DEF HandlerStep, HardDelete, channelVars
  <2>3. ASSUME NEW u \in pending, Deliver(u) PROVE UNCHANGED pending
    BY <2>3 DEF Deliver, channelVars
  <2> QED
    BY <2>1, <2>2, <2>3 DEF Next, OperatorStep, Rest, vars, channelVars
<1>6. Waiting(m) => Waiting(m)'
  BY <1>4, <1>5 DEF Waiting
<1>7. UnderWay(m) => UnderWay(m)'
  BY DEF UnderWay, Bystands, Working, Replacing, Saving, Message
<1> QED
  BY <1>1, <1>3, <1>6, <1>7 DEF ShownInv, Settles, ShownAsMeant

LEMMA ShownInvariant ==
  ASSUME Patient, ~SameSecond, MaxFailures = 0, MaxErasures = 0
  PROVE  Spec => [](CalmInv /\ NoteInv /\ ShownInv)
<1>1. ASSUME Init PROVE ShownInv
  <2>1. sources = {} /\ intended = [m \in Messages |-> 0]
    BY <1>1 DEF Init, StoreInit
  <2>2. \A m \in Messages : Shown(m) = {} /\ intended[m] = 0
    BY <2>1 DEF Shown, VisibleChunks
  <2> QED
    BY <2>2 DEF ShownInv, Settles, ShownAsMeant
<1>2. ASSUME CalmInv, NoteInv, ShownInv, CalmInv', NoteInv', [Next]_vars PROVE ShownInv'
  <2>1. ASSUME NEW r \in Runs, HandlerStep(r) PROVE ShownInv'
    BY <1>2, <2>1, HandlerSettles DEF ShownInv
  <2>2. CASE UserStep
    BY <1>2, <2>2, UserSettles DEF ShownInv
  <2>3. CASE ~UserStep /\ \A r \in Runs : ~HandlerStep(r)
    <3>1. TypeInv /\ erased = {}
      BY <1>2 DEF CalmInv, BaseInv, QuietInv, NothingLost
    <3>2. Bystands
      BY <1>2, <2>3, <3>1, NoHardDelete, OthersBystand
    <3> QED
      BY <1>2, <2>3, <3>2, ChannelSettles DEF ShownInv
  <2> QED  BY <2>1, <2>2, <2>3
<1> QED
  BY <1>1, <1>2, NoteInvariant, PTL DEF Spec

\* (AtRestShowsIntent) With no store call failing and the user waiting for
\* the answer and out of the edit's second, what search returns once every
\* update is answered is the last text the user gave each message: neither
\* embedding outages, redeliveries after a lost answer, overlapping
\* deliveries nor operators' retries leave ingest and /delete with a stale or
\* a second revision to show.
THEOREM RestShowsIntent ==
  ASSUME Patient, ~SameSecond, MaxFailures = 0, MaxErasures = 0
  PROVE  Spec => []AtRestShowsIntent
<1>1. ShownInv => AtRestShowsIntent
  <2>1. AtRest => \A m \in Messages : ~Waiting(m) /\ ~UnderWay(m)
    BY DEF AtRest, Waiting, UnderWay, InFlight, Working, Replacing, Saving
  <2> QED
    BY <2>1 DEF ShownInv, Settles, ShownAsMeant, Shown, AtRestShowsIntent
<1> QED
  BY <1>1, ShownInvariant, PTL

-----------------------------------------------------------------------------
(***************************************************************************)
(* The promise of Diary, step by step: committing a chunk captures its     *)
(* text, retiring the only retrievable one forgets it, and a result        *)
(* "saved" confirms a captured text; no other step moves what is promised. *)
(***************************************************************************)
HeldView == [m \in Messages |-> HeldText(m)]

TextsOf(m) == {inbound[c].id : c \in {d \in Runs : chunk[d] # Absent /\ Message(d) = m}}

CapturedView == [m \in Messages |-> TextsOf(m)]

ToldView == {inbound[r].id : r \in {s \in Runs : outcome[s] = "saved"}}

PromiseView == <<HeldView, CapturedView, ToldView>>

\* What HeldText chooses.
LEMMA NewestIsChosen ==
  ASSUME NEW S \in SUBSET Runs, NEW n \in S, \A k \in S : k <= n
  PROVE  (CHOOSE c \in Runs : IsNewest(c, S)) = n
<1>1. Runs \subseteq Int
  BY DEF Runs
<1>2. \A c \in Runs : IsNewest(c, S) => c = n
  BY <1>1 DEF IsNewest
<1>3. IsNewest(n, S)
  BY DEF IsNewest
<1> QED
  BY <1>2, <1>3

LEMMA HeldIsNewest ==
  ASSUME NEW m, sources \subseteq Runs, NEW n \in VisibleChunks(m),
         \A k \in VisibleChunks(m) : k <= n
  PROVE  HeldText(m) = inbound[n].id
<1>1. VisibleChunks(m) \subseteq Runs
  BY DEF VisibleChunks
<1>2. (CHOOSE c \in Runs : IsNewest(c, VisibleChunks(m))) = n
  BY <1>1, NewestIsChosen
<1> QED
  BY <1>2 DEF HeldText

LEMMA VisibleHasNewest ==
  ASSUME CalmInv, NoteInv, NEW m \in Messages, VisibleChunks(m) # {}
  PROVE  \E n \in VisibleChunks(m) : \A k \in VisibleChunks(m) : k <= n
<1>1. VisibleChunks(m) \subseteq ActiveNotes(m) /\ VisibleChunks(m) \subseteq Int
  BY VisibleIsCurrent DEF ActiveNotes, Runs
<1>2. CASE \A n, k \in ActiveNotes(m) : n = k
  BY <1>1, <1>2
<1>3. ASSUME NEW r \in Runs, pc[r] \in Exchanging, Message(r) = m
      PROVE  \E n \in VisibleChunks(m) : \A k \in VisibleChunks(m) : k <= n
  <2>1. VisibleChunks(m) \subseteq {priorNote[r], r}
    BY <1>1, <1>3 DEF NoteInv, ReadTheOnlyNote, Exchanging, Replacing, Saving
  <2> QED
    BY <1>1, <2>1
<1> QED
  BY <1>2, <1>3 DEF NoteInv, OneNote

\* The revision a run at work saves is later than every other of its message.
LEMMA LatestIsNewest ==
  ASSUME CalmInv, NEW r \in Runs, pc[r] \in Working, Kind(r) = "note",
         NEW c \in Runs, c # r, chunk[c] # Absent, Message(c) = Message(r)
  PROVE  inbound[c].id < inbound[r].id /\ c < r
<1>1. c \in sources /\ Kind(c) = "note"
  BY DEF CalmInv, BaseInv, StoreInv, Lineage, QuietInv, RowsOf
<1>2. c \in Begun /\ r \in Begun /\ r \in sources /\ inbound[r].id = posted
  BY <1>1, AtWork DEF CalmInv, BaseInv, StoreInv, SourceOnce, BeforeSource, Begun
<1>3. inbound[c] \in Sent /\ inbound[r] \in Sent
  BY <1>2 DEF Sent
<1>4. inbound[c].id \in Nat /\ inbound[r].id \in Nat /\ inbound[c].id <= posted
  BY <1>3, SentTyped DEF CalmInv, BaseInv, PatienceInv, SentInv
<1>5. inbound[c].id # inbound[r].id
  <2>1. inbound[c] # inbound[r]
    BY <1>1, <1>2 DEF CalmInv, BaseInv, StoreInv, SourceOnce, UniqueKey, Message
  <2> QED
    BY <1>3, <2>1 DEF CalmInv, PatienceInv, SentInv
<1>6. inbound[c].id < inbound[r].id
  BY <1>2, <1>4, <1>5
<1>7. ~(r < c)
  BY <1>2, <1>4, <1>6 DEF CalmInv, PatienceInv, StartOrder
<1> QED
  BY <1>6, <1>7 DEF Runs

\* A step that leaves the chunks, the rows behind them and the results alone
\* leaves the promise alone.
LEMMA SamePromise ==
  ASSUME CalmInv, NoteInv, UNCHANGED chunk, sources' \subseteq Runs,
         \A c \in Runs : chunk[c] # Absent => (c \in sources' <=> c \in sources),
         \A k \in Begun : inbound'[k] = inbound[k]
  PROVE  UNCHANGED <<HeldView, CapturedView>>
<1>1. \A c \in Runs : chunk[c] # Absent => c \in Begun /\ c \in sources
  BY DEF CalmInv, BaseInv, StoreInv, Lineage, SourceOnce, BeforeSource, Begun
<1>2. \A c \in Runs : chunk[c] # Absent => inbound'[c] = inbound[c]
  BY <1>1
<1>3. sources \subseteq Runs
  BY DEF CalmInv, BaseInv, TypeInv, TypeOK, StoreTypeOK
<1>4. \A m \in Messages : VisibleChunks(m)' = VisibleChunks(m)
  BY <1>2, <1>3 DEF VisibleChunks, Absent
<1>5. \A m \in Messages : HeldText(m)' = HeldText(m)
  <2> TAKE m \in Messages
  <2>1. CASE VisibleChunks(m) = {}
    BY <1>4, <2>1 DEF HeldText
  <2>2. CASE VisibleChunks(m) # {}
    <3>1. PICK n \in VisibleChunks(m) : \A k \in VisibleChunks(m) : k <= n
      BY <2>2, VisibleHasNewest
    <3>2. HeldText(m) = inbound[n].id
      BY <1>3, <3>1, HeldIsNewest
    <3>3. VisibleChunks(m)' \subseteq Runs /\ n \in VisibleChunks(m)'
          /\ \A k \in VisibleChunks(m)' : k <= n
      BY <1>3, <1>4, <3>1 DEF VisibleChunks
    <3>4. (CHOOSE c \in Runs : IsNewest(c, VisibleChunks(m)')) = n
      BY <3>3, NewestIsChosen
    <3>5. HeldText(m)' = inbound'[n].id
      BY <3>3, <3>4 DEF HeldText
    <3>6. inbound'[n] = inbound[n]
      BY <1>2, <1>3 DEF VisibleChunks, Absent
    <3> QED
      BY <3>2, <3>5, <3>6
  <2> QED  BY <2>1, <2>2
<1>6. \A m \in Messages : TextsOf(m)' = TextsOf(m)
  BY <1>2 DEF TextsOf, Message
<1> QED
  BY <1>5, <1>6 DEF HeldView, CapturedView

\* The views of one message change, and no other's.
LEMMA OneMessageHolds ==
  ASSUME NEW m \in Messages, NEW v, HeldText(m)' = v,
         \A n \in Messages \ {m} : HeldText(n)' = HeldText(n)
  PROVE  HeldView' = [HeldView EXCEPT ![m] = v]
  BY DEF HeldView

\* Committing a chunk captures its text.
LEMMA SavingCaptures ==
  ASSUME MaxFailures = 0, CalmInv, NoteInv, CalmInv', NoteInv', NEW r \in Runs, HandlerStep(r),
         IngestSaveChunk(r), NEW m \in Messages, m = Message(r)
  PROVE  Promise!Capture(m, inbound[r].id) /\ inbound[r].id \in 1..MaxUpdates
<1>1. /\ IngestionTypeOK /\ StoreTypeOK /\ BaseInv /\ QuietInv /\ UNCHANGED inbound
      /\ RowsOf(r) /\ pc[r] = "save_chunk" /\ pc[r] \in Working /\ pc[r] \in BeforeChunk
  BY HandlerForward DEF CalmInv, BaseInv, TypeInv, TypeOK, QuietInv, IngestSaveChunk, Working,
     Replacing, Saving, BeforeChunk
<1>2. Kind(r) = "note" /\ inbound[r].id \in 1..MaxUpdates /\ r \in sources
  BY <1>1, AtWork DEF RowsOf, Updates
<1>3. chunk' = [chunk EXCEPT ![r] = "active"] /\ UNCHANGED <<sources, outcome>> /\ chunk[r] = Absent
  <2>1. ~Raise(r)
    BY <1>1, NeverRaises
  <2>2. chunk' = [chunk EXCEPT ![r] = "active"] /\ UNCHANGED sources
    BY <2>1 DEF IngestSaveChunk, SaveChunk
  <2>3. UNCHANGED outcome
    BY <1>2, <2>1 DEF IngestSaveChunk, AfterSaving, RetireFrom, GoTo
  <2>4. chunk[r] = Absent
    BY <1>1 DEF BaseInv, ChunkOnce
  <2> QED  BY <2>2, <2>3, <2>4
<1>4. \A c \in Runs \ {r} : chunk'[c] = chunk[c]
  BY <1>1, <1>3 DEF StoreTypeOK
<1>5. chunk'[r] = "active" /\ sources \subseteq Runs
  BY <1>1, <1>3 DEF StoreTypeOK
<1>6. \A c \in Runs \ {r} : chunk[c] # Absent /\ Message(c) = m =>
         inbound[c].id < inbound[r].id /\ c < r
  BY <1>1, <1>2, LatestIsNewest
<1>7. HeldText(m)' = inbound[r].id
  <2>1. VisibleChunks(m)' \subseteq Runs /\ r \in VisibleChunks(m)'
    BY <1>1, <1>2, <1>3, <1>5 DEF VisibleChunks, Message
  <2>2. \A k \in VisibleChunks(m)' : k <= r
    <3> SUFFICES ASSUME NEW k \in VisibleChunks(m)' PROVE k <= r
      OBVIOUS
    <3>1. k \in Runs /\ (k = r \/ (chunk[k] # Absent /\ Message(k) = m))
      BY <1>1, <1>4, <2>1 DEF VisibleChunks, Message, Absent
    <3> QED  BY <1>6, <3>1 DEF Runs
  <2>3. (CHOOSE c \in Runs : IsNewest(c, VisibleChunks(m)')) = r
    BY <2>1, <2>2, NewestIsChosen
  <2> QED
    BY <1>1, <2>1, <2>3 DEF HeldText
<1>8. \A n \in Messages \ {m} : HeldText(n)' = HeldText(n)
  <2> SUFFICES ASSUME NEW n \in Messages \ {m} PROVE HeldText(n)' = HeldText(n)
    OBVIOUS
  <2>1. VisibleChunks(n)' = VisibleChunks(n)
    BY <1>1, <1>3, <1>4, <1>5 DEF VisibleChunks, Message
  <2> QED
    BY <1>1, <2>1 DEF HeldText
<1>9. TextsOf(m)' = TextsOf(m) \union {inbound[r].id}
  BY <1>1, <1>3, <1>4, <1>5 DEF TextsOf, Message, Absent
<1>10. \A n \in Messages \ {m} : TextsOf(n)' = TextsOf(n)
  BY <1>1, <1>3, <1>4, <1>5 DEF TextsOf, Message, Absent
<1>11. CapturedView' = [CapturedView EXCEPT ![m] = @ \union {inbound[r].id}]
  BY <1>2, <1>9, <1>10 DEF CapturedView
<1>12. HeldView' = [HeldView EXCEPT ![m] = inbound[r].id]
  BY <1>2, <1>7, <1>8, OneMessageHolds
<1>13. \A older \in CapturedView[m] : older < inbound[r].id
  BY <1>2, <1>3, <1>6 DEF CapturedView, TextsOf
<1>14. UNCHANGED ToldView
  BY <1>1, <1>3 DEF ToldView
<1> QED
  BY <1>2, <1>11, <1>12, <1>13, <1>14
     DEF Promise!Capture, HeldView, CapturedView, TextsOf, ToldView

\* Retiring a chunk forgets the text, unless its successor is shown already.
LEMMA RetiringForgets ==
  ASSUME MaxFailures = 0, CalmInv, NoteInv, CalmInv', NoteInv', NEW r \in Runs, HandlerStep(r),
         RetireChunk(r), NEW m \in Messages, m = Message(r)
  PROVE  Promise!Forget(m) \/ UNCHANGED PromiseView
<1>1. /\ IngestionTypeOK /\ StoreTypeOK /\ BaseInv /\ QuietInv /\ UNCHANGED inbound
      /\ RowsOf(r) /\ CarriesPrior(r) /\ pc[r] = "mark_chunk" /\ pc[r] \in Working
      /\ LifecycleStep(r)
  BY HandlerForward, HandlerLifecycle DEF CalmInv, BaseInv, TypeInv, TypeOK, QuietInv,
     RetireChunk, Working, Replacing
<1>2. ~Raise(r) /\ UNCHANGED <<sources, outcome>> /\ RetiredState(r) # Absent
  <2>1. ~Raise(r)
    BY <1>1, NeverRaises
  <2> QED
    BY <2>1 DEF RetireChunk, MarkChunk, GoTo, RetiredState, Absent
<1>3. priorNote[r] \in Runs /\ Message(priorNote[r]) = m /\ priorNote[r] # r
  BY <1>1 DEF CarriesPrior, Replacing, Saving, IngestionTypeOK, BaseInv, RevisionInv,
     PriorsAreSaved, Runs, NoRun
<1>4. /\ \A c \in Runs \ {priorNote[r]} : chunk'[c] = chunk[c]
      /\ chunk[priorNote[r]] # Absent /\ chunk'[priorNote[r]] \notin {"active", Absent}
  <2>1. priorChunk[r] = priorNote[r]
    BY <1>1 DEF CarriesPrior
  <2>2. CanMarkChunk(priorNote[r]) /\ chunk' = [chunk EXCEPT ![priorNote[r]] = RetiredState(r)]
    BY <1>2, <2>1 DEF RetireChunk, MarkChunk
  <2> QED
    BY <1>1, <1>2, <1>3, <2>2 DEF CanMarkChunk, StoreTypeOK, RetiredState
<1>5. sources \subseteq Runs
  BY <1>1 DEF StoreTypeOK
<1>6. UNCHANGED <<CapturedView, ToldView>>
  <2>1. \A c \in Runs : chunk'[c] # Absent <=> chunk[c] # Absent
    BY <1>3, <1>4
  <2>2. \A n \in Messages : TextsOf(n)' = TextsOf(n)
    BY <1>1, <2>1 DEF TextsOf, Message
  <2> QED
    BY <1>1, <1>2, <2>2 DEF CapturedView, ToldView
<1>7. \A n \in Messages \ {m} : HeldText(n)' = HeldText(n)
  <2> SUFFICES ASSUME NEW n \in Messages \ {m} PROVE HeldText(n)' = HeldText(n)
    OBVIOUS
  <2>1. VisibleChunks(n)' = VisibleChunks(n)
    BY <1>1, <1>2, <1>3, <1>4, <1>5 DEF VisibleChunks, Message
  <2> QED
    BY <1>1, <2>1 DEF HeldText
<1>8. CASE Kind(r) = "note"
  <2>1. chunk[r] = "active" /\ chunk'[r] = "active" /\ r \in sources
    BY <1>1, <1>3, <1>4, <1>8, AtWork DEF NoteInv, ReadTheOnlyNote, Replacing
  <2>2. r \in VisibleChunks(m) /\ r \in VisibleChunks(m)' /\ VisibleChunks(m)' \subseteq VisibleChunks(m)
    BY <1>1, <1>2, <1>4, <1>5, <2>1 DEF VisibleChunks, Message
  <2>3. \A k \in VisibleChunks(m) : k <= r
    <3> SUFFICES ASSUME NEW k \in VisibleChunks(m) PROVE k <= r
      OBVIOUS
    <3>1. k \in Runs /\ (k = r \/ (chunk[k] # Absent /\ Message(k) = m))
      BY <1>5 DEF VisibleChunks, Message, Absent
    <3> QED  BY <1>1, <1>8, <3>1, LatestIsNewest DEF Runs
  <2>4. HeldText(m) = inbound[r].id
    BY <1>5, <2>2, <2>3, HeldIsNewest
  <2>5. (CHOOSE c \in Runs : IsNewest(c, VisibleChunks(m)')) = r
    <3>1. VisibleChunks(m)' \subseteq Runs
      BY <1>5, <2>2 DEF VisibleChunks
    <3> QED  BY <2>2, <2>3, <3>1, NewestIsChosen
  <2>6. HeldText(m)' = inbound[r].id
    BY <1>1, <2>2, <2>5 DEF HeldText
  <2> QED
    BY <1>6, <1>7, <2>4, <2>6 DEF PromiseView, HeldView
<1>9. CASE Kind(r) # "note"
  <2>1. chunk[r] = Absent
    BY <1>1, <1>9 DEF RowsOf
  <2>2. VisibleChunks(m) \subseteq {priorNote[r]}
    BY <1>1, <2>1, VisibleIsCurrent DEF NoteInv, ReadTheOnlyNote, Replacing, Absent
  <2>3. VisibleChunks(m)' = {}
    BY <1>1, <1>2, <1>4, <1>5, <2>2 DEF VisibleChunks
  <2>4. HeldText(m)' = 0
    BY <2>3 DEF HeldText
  <2>5. HeldView' = [HeldView EXCEPT ![m] = 0]
    BY <1>7, <2>4, OneMessageHolds
  <2>6. CASE VisibleChunks(m) = {}
    <3>1. HeldText(m) = 0
      BY <2>6 DEF HeldText
    <3> QED
      BY <1>6, <1>7, <2>4, <3>1 DEF PromiseView, HeldView
  <2>7. CASE VisibleChunks(m) # {}
    <3>1. priorNote[r] \in VisibleChunks(m) /\ \A k \in VisibleChunks(m) : k <= priorNote[r]
      BY <1>3, <2>2, <2>7 DEF Runs
    <3>2. HeldText(m) = inbound[priorNote[r]].id
      BY <1>5, <3>1, HeldIsNewest
    <3>3. inbound[priorNote[r]].id # 0
      <4>1. priorNote[r] \in Begun
        BY <1>3, <1>4 DEF CalmInv, BaseInv, StoreInv, Lineage, SourceOnce, BeforeSource, Begun
      <4> QED
        BY <4>1, SentTyped DEF Sent, CalmInv, BaseInv
    <3>4. HeldView[m] # 0
      BY <3>2, <3>3 DEF HeldView
    <3> QED
      BY <1>6, <2>5, <3>4 DEF Promise!Forget, Promise!Nothing, HeldView, CapturedView, TextsOf,
         ToldView
  <2> QED  BY <2>6, <2>7
<1> QED
  BY <1>8, <1>9

\* A run whose result is "saved" answers for a captured text of its own.
LEMMA SavedIsConfirmed ==
  ASSUME MaxFailures = 0, CalmInv, CalmInv', NEW r \in Runs, HandlerStep(r),
         outcome'[r] = "saved", outcome[r] # "saved"
  PROVE  /\ Message(r) \in Messages /\ inbound[r].id \in 1..MaxUpdates
         /\ \E s \in Runs : chunk'[s] # Absent /\ inbound[s] = inbound[r]
<1>1. /\ IngestionTypeOK /\ BaseInv /\ QuietInv /\ UNCHANGED inbound
  BY HandlerForward DEF CalmInv, BaseInv, TypeInv, TypeOK
<1>2. RunStep(r) /\ (pc[r] # "reconstruct" => ~Raise(r))
  BY <1>1, NeverRaises
<1>3. Kind(r) # "delete" /\ r \in Begun /\ pc[r] # "get_or_create_source"
  <2>1. FreshResult(r) = "saved" /\ inbound[r] \in Updates => Kind(r) = "note"
    BY DEF FreshResult, Kind, Updates, Kinds, NoteKinds, RemovalKinds
  <2>2. r \in Begun
    BY <1>2 DEF Begun, RunStep, GetOrCreateSource, Reconstruct, CountChunks, GetActiveNote,
       GetActiveChunk, IngestSaveNote, IngestSaveChunk, RetireChunk, RetireNote, Embed, MarkFailed,
       WriteDeadLetter, SaveRecords, MarkReady
  <2>3. inbound[r] \in Updates
    BY <1>1, <2>2 DEF BaseInv, TypeInv, Started, Begun
  <2>4. \/ FreshResult(r) = "saved" /\ ~GetOrCreateSource(r)
        \/ GetOrCreateSource(r) /\ Kind(r) = "empty" /\ FreshResult(r) = "saved"
        \/ pc[r] = "count_chunks"
    BY <1>1, <1>2 DEF RunStep, GetOrCreateSource, Reconstruct, CountChunks, GetActiveNote,
       GetActiveChunk, IngestSaveNote, IngestSaveChunk, RetireChunk, RetireNote, Embed, MarkFailed,
       WriteDeadLetter, SaveRecords, MarkReady, AfterSaving, GoTo, Finish, Raise, IngestionTypeOK
  <2>5. pc[r] = "count_chunks" => Kind(r) # "delete"
    BY <1>1, <2>2 DEF QuietInv, InPlace, BaseInv, AnswersInv, Answers, ResultLate, Replaying, Begun
  <2>6. pc[r] = "get_or_create_source" => GetOrCreateSource(r)
    BY <1>2 DEF RunStep, Reconstruct, CountChunks, GetActiveNote,
       GetActiveChunk, IngestSaveNote, IngestSaveChunk, RetireChunk, RetireNote, Embed, MarkFailed,
       WriteDeadLetter, SaveRecords, MarkReady
  <2> QED
    BY <2>1, <2>2, <2>3, <2>4, <2>5, <2>6
<1>4. AnsweredRow(r) \in Persisted(r)
  BY <1>1, <1>3 DEF QuietInv, InPlace, BeforeSource, Begun
<1>5. UNCHANGED replayOf
  BY <1>2, <1>3 DEF RunStep, GetOrCreateSource, Reconstruct, CountChunks, GetActiveNote,
     GetActiveChunk, IngestSaveNote, IngestSaveChunk, RetireChunk, RetireNote, Embed, MarkFailed,
     WriteDeadLetter, SaveRecords, MarkReady, UnchangedLocals
<1>6. chunk'[AnsweredRow(r)] # Absent
  <2>1. Confirmed(r)' /\ erased' = {}
    BY DEF CalmInv, BaseInv, AnswersInv, Answers, QuietInv, NothingLost
  <2>2. AnsweredRow(r)' = AnsweredRow(r)
    BY <1>5 DEF AnsweredRow
  <2> QED
    BY <2>1, <2>2 DEF Confirmed
<1>7. AnsweredRow(r) \in Runs /\ inbound[AnsweredRow(r)] = inbound[r]
  BY <1>3, <1>4, RowIsOfUpdate DEF Persisted, CalmInv, BaseInv, TypeInv, TypeOK, StoreTypeOK
<1>8. Message(r) \in Messages /\ inbound[r].id \in 1..MaxUpdates
  <2>1. inbound[r] \in Updates
    BY <1>1, <1>3 DEF BaseInv, TypeInv, Started, Begun
  <2> QED  BY <2>1 DEF Updates, Message
<1> QED
  BY <1>6, <1>7, <1>8

\* Every handler step is a step of the promise or none.
LEMMA HandlerKeepsPromise ==
  ASSUME MaxFailures = 0, CalmInv, NoteInv, CalmInv', NoteInv', NEW r \in Runs, HandlerStep(r)
  PROVE  Promise!DiaryNext \/ UNCHANGED PromiseView
<1>1. /\ IngestionTypeOK /\ BaseInv /\ QuietInv /\ UNCHANGED inbound /\ LifecycleStep(r)
      /\ \A k \in Runs : k # r => outcome'[k] = outcome[k]
  BY HandlerMovesOne, HandlerForward, HandlerLifecycle DEF CalmInv, BaseInv, TypeInv, TypeOK
<1>2. CASE IngestSaveChunk(r) \/ RetireChunk(r)
  <2>1. Message(r) \in Messages
    BY <1>2, AtWork DEF IngestSaveChunk, RetireChunk, Working, Replacing, Saving
  <2>2. CASE IngestSaveChunk(r)
    <3>1. PICK m \in Messages : m = Message(r)
      BY <2>1
    <3>2. PICK id \in 1..MaxUpdates : id = inbound[r].id
      BY <2>2, <3>1, SavingCaptures
    <3>3. Promise!Capture(m, id)
      BY <2>2, <3>1, <3>2, SavingCaptures DEF Promise!Capture
    <3> QED  BY <3>3 DEF Promise!DiaryNext
  <2>3. CASE RetireChunk(r)
    <3>1. PICK m \in Messages : m = Message(r)
      BY <2>1
    <3>2. Promise!Forget(m) \/ UNCHANGED PromiseView
      BY <2>3, <3>1, RetiringForgets
    <3> QED  BY <3>2 DEF Promise!DiaryNext
  <2> QED  BY <1>2, <2>2, <2>3
<1>3. CASE ~IngestSaveChunk(r) /\ ~RetireChunk(r)
  <2>1. UNCHANGED chunk
    <3>1. StoreTypeOK /\ StoreTypeOK'
      BY DEF CalmInv, BaseInv, TypeInv, TypeOK
    <3> QED
      BY <1>1, <1>3, <3>1 DEF LifecycleStep, StoreTypeOK
  <2>2. sources' \subseteq Runs /\ \A c \in Runs : chunk[c] # Absent => (c \in sources' <=> c \in sources)
    BY <1>1 DEF CalmInv, BaseInv, TypeInv, TypeOK, StoreTypeOK, StoreInv, Lineage, LifecycleStep
  <2>3. UNCHANGED <<HeldView, CapturedView>>
    BY <1>1, <2>1, <2>2, SamePromise
  <2>4. CASE outcome'[r] = "saved" /\ outcome[r] # "saved"
    <3>1. PICK s \in Runs : chunk'[s] # Absent /\ inbound[s] = inbound[r]
      BY <2>4, SavedIsConfirmed
    <3>2. PICK m \in Messages : m = Message(r)
      BY <2>4, SavedIsConfirmed
    <3>3. inbound[r].id \in CapturedView[m]
      BY <2>1, <3>1, <3>2 DEF CapturedView, TextsOf, Message
    <3>4. ToldView' = ToldView \union {inbound[r].id}
      BY <1>1, <2>4 DEF ToldView
    <3>5. PICK id \in 1..MaxUpdates : id = inbound[r].id
      BY <2>4, SavedIsConfirmed
    <3>6. Promise!Confirm(m, id)
      BY <2>3, <3>3, <3>4, <3>5 DEF Promise!Confirm, HeldView, CapturedView, TextsOf, ToldView
    <3> QED
      BY <3>6 DEF Promise!DiaryNext
  <2>5. CASE ~(outcome'[r] = "saved" /\ outcome[r] # "saved")
    <3>1. outcome[r] = "saved" => outcome'[r] = "saved"
      <4>1. outcome[r] = "saved" => pc[r] \notin Calls
        BY <1>1 DEF BaseInv, AnswersInv, Answers, ResultLate
      <4>2. pc[r] \in Calls
        BY DEF HandlerStep, RunStep, FailRun, GetOrCreateSource, Reconstruct, CountChunks,
           GetActiveNote, GetActiveChunk, IngestSaveNote, IngestSaveChunk, RetireChunk, RetireNote,
           Embed, MarkFailed, WriteDeadLetter, SaveRecords, MarkReady, Calls
      <4> QED  BY <4>1, <4>2
    <3>2. \A k \in Runs : outcome'[k] = "saved" <=> outcome[k] = "saved"
      BY <1>1, <2>5, <3>1
    <3>3. UNCHANGED ToldView
      BY <1>1, <3>2 DEF ToldView
    <3> QED  BY <2>3, <3>3 DEF PromiseView
  <2> QED  BY <2>4, <2>5
<1> QED
  BY <1>2, <1>3

LEMMA OthersKeepPromise ==
  ASSUME CalmInv, NoteInv, TypeInv', Bystands
  PROVE  UNCHANGED PromiseView
<1>1. \A k \in Begun : inbound'[k] = inbound[k]
  BY DEF Bystands, Begun
<1>2. UNCHANGED <<HeldView, CapturedView>>
  <2>1. UNCHANGED <<chunk, sources>> /\ sources' \subseteq Runs
    BY DEF Bystands, TypeInv, TypeOK, StoreTypeOK
  <2> QED
    BY <1>1, <2>1, SamePromise
<1>3. UNCHANGED ToldView
  <2>1. \A k \in Runs : outcome[k] = "saved" => k \in Begun
    BY DEF CalmInv, BaseInv, AnswersInv, Answers, ResultLate, Begun
  <2>2. UNCHANGED outcome
    BY DEF Bystands
  <2> QED
    BY <1>1, <2>1, <2>2 DEF ToldView
<1> QED
  BY <1>2, <1>3 DEF PromiseView

\* (KeepsPromise) With no store call failing and the user waiting for the
\* answer, ingest and /delete implement the diary: per message at most one
\* text is found, a later one replaces it, a removed one never comes back,
\* and nothing is confirmed before it is captured.
THEOREM DiaryIsKept ==
  ASSUME Patient, ~SameSecond, MaxFailures = 0, MaxErasures = 0
  PROVE  Spec => KeepsPromise
<1>1. ASSUME Init PROVE Promise!DiaryInit
  <2>1. sources = {} /\ \A r \in Runs : chunk[r] = Absent /\ outcome[r] = "none"
    BY <1>1 DEF Init, StoreInit, IngestionInit
  <2>2. \A m \in Messages : HeldText(m) = 0
    BY <2>1 DEF HeldText, VisibleChunks
  <2> QED
    BY <2>1, <2>2 DEF Promise!DiaryInit, Promise!Nothing
<1>2. ASSUME CalmInv, NoteInv, CalmInv', NoteInv', [Next]_vars
      PROVE  [Promise!DiaryNext]_(Promise!diaryVars)
  <2>1. Promise!DiaryNext \/ UNCHANGED PromiseView
    <3>1. ASSUME NEW r \in Runs, HandlerStep(r) PROVE Promise!DiaryNext \/ UNCHANGED PromiseView
      BY <1>2, <3>1, HandlerKeepsPromise
    <3>2. ASSUME \A r \in Runs : ~HandlerStep(r) PROVE UNCHANGED PromiseView
      <4>1. TypeInv /\ TypeInv' /\ erased = {}
        BY <1>2 DEF CalmInv, BaseInv, QuietInv, NothingLost
      <4>2. Bystands
        BY <1>2, <3>2, <4>1, NoHardDelete, OthersBystand
      <4> QED
        BY <1>2, <4>1, <4>2, OthersKeepPromise
    <3> QED  BY <3>1, <3>2
  <2> QED
    BY <2>1 DEF Promise!diaryVars, PromiseView, HeldView, CapturedView, TextsOf, ToldView
<1> QED
  BY <1>1, <1>2, NoteInvariant, PTL DEF Spec, KeepsPromise, Promise!DiarySpec
=============================================================================
