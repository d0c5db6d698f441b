----------------------------- MODULE Ingestion ------------------------------
(***************************************************************************)
(* DomainService.ingest and delete_note_for_external_message, as run by    *)
(* the webhook handler threads: `telegram_webhook` is a plain `def`, so    *)
(* deliveries run concurrently in a thread pool of one process and         *)
(* interleave between any two store transactions.                          *)
(*                                                                         *)
(* A run is one delivery.  pc[r] names the next store or provider call of  *)
(* run r; priorNote, priorChunk and replayOf are the locals it carries     *)
(* from one call to the next, and outcome is the IngestResult (or          *)
(* DeleteOutcome) it ends with.  An exception out of any call abandons the *)
(* run where it stands (HTTP 500); so does a killed process.               *)
(***************************************************************************)
EXTENDS DiaryStore, Faults

Calls == {"get_or_create_source", "reconstruct", "count_chunks",
          "get_active_note", "get_active_chunk", "save_note", "save_chunk",
          "mark_chunk", "mark_note", "embed", "mark_failed", "dead_letter",
          "save_records", "mark_ready"}

Results == {"saved", "saved_empty", "invalid", "draft", "deleted",
            "nothing_to_delete"}

VARIABLES
    pc,           \* "unused", a call, "done", "replied" or "aborted"
    priorNote,    \* the active note the run read, or NoRun
    priorChunk,   \* that note's active chunk when the run read it, or NoRun
    replayOf,     \* the persisted source row the run collided with, or NoRun
    outcome,      \* the result the handler replies with, or "none"
    lastSaved     \* history: per message, the run whose notes row came last

runVars == <<pc, priorNote, priorChunk, replayOf, outcome, lastSaved>>

IngestionTypeOK ==
    /\ pc \in [Runs -> Calls \union {"unused", "done", "replied", "aborted"}]
    /\ priorNote \in [Runs -> Runs \union {NoRun}]
    /\ priorChunk \in [Runs -> Runs \union {NoRun}]
    /\ replayOf \in [Runs -> Runs \union {NoRun}]
    /\ outcome \in [Runs -> Results \union {"none"}]
    /\ lastSaved \in [Messages -> Runs \union {NoRun}]

IngestionInit ==
    /\ pc = [r \in Runs |-> "unused"]
    /\ priorNote = [r \in Runs |-> NoRun]
    /\ priorChunk = [r \in Runs |-> NoRun]
    /\ replayOf = [r \in Runs |-> NoRun]
    /\ outcome = [r \in Runs |-> "none"]
    /\ lastSaved = [m \in Messages |-> NoRun]

Message(r) == inbound[r].msg
Kind(r) == inbound[r].kind
IsRemoval(r) == Kind(r) \in RemovalKinds
InFlight == {r \in Runs : pc[r] \notin {"unused", "replied", "aborted"}}

\* Defect: a state the CHECK constraint of the column does not know.
RetiredAsDeleted(r) == IF IsRemoval(r) THEN "deleted" ELSE "superseded"

\* The lifecycle_state run r gives the revision it replaces or removes.
RetiredState(r) == IF IsRemoval(r) THEN "tombstoned" ELSE "superseded"

\* The result of a run that was not a replay, once its last call returned.
FreshResult(r) ==
    CASE Kind(r) = "note" -> "saved"
      [] Kind(r) = "date_only" -> "saved_empty"
      [] Kind(r) = "empty" -> "invalid"
      [] Kind(r) = "draft" -> "draft"
      [] Kind(r) = "delete" ->
            IF priorNote[r] = NoRun THEN "nothing_to_delete" ELSE "deleted"

GoTo(r, call) == pc' = [pc EXCEPT ![r] = call] /\ UNCHANGED outcome

Finish(r, result) ==
    /\ pc' = [pc EXCEPT ![r] = "done"]
    /\ outcome' = [outcome EXCEPT ![r] = result]

\* An exception leaves every committed row as it is.
Raise(r) ==
    /\ pc' = [pc EXCEPT ![r] = "aborted"]
    /\ UNCHANGED <<tables, outcome>>

UnchangedLocals == UNCHANGED <<priorNote, priorChunk, replayOf, lastSaved>>

-----------------------------------------------------------------------------
(***************************************************************************)
(* Raw first, and idempotency.                                             *)
(***************************************************************************)
GetOrCreateSource(r) ==
    /\ pc[r] = "get_or_create_source"
    /\ \/ /\ Persisted(r) = {}
          /\ InsertSource(r)
          /\ IF Kind(r) = "empty"
             THEN Finish(r, FreshResult(r))
             ELSE GoTo(r, "get_active_note")
          /\ UNCHANGED replayOf
       \/ /\ \E s \in Persisted(r) : replayOf' = [replayOf EXCEPT ![r] = s]
          /\ GoTo(r, "reconstruct")
          /\ UNCHANGED tables
    /\ UNCHANGED <<inbound, priorNote, priorChunk, lastSaved, faultVars>>

\* A delivery of route NOTE that collided with a row of route DRAFT: the
\* result has no note_date, and the reply to a /note asserts that it has.
Undated(r) == Kind(r) # "draft" /\ Kind(replayOf[r]) = "draft"

\* Defect: a replay of any row is reported as a saved note.
ReconstructAsSaved(r) ==
    /\ pc[r] = "reconstruct"
    /\ \/ Undated(r) /\ Raise(r)
       \/ /\ ~Undated(r)
          /\ Finish(r, IF Kind(replayOf[r]) = "draft" THEN "draft" ELSE "saved")
          /\ UNCHANGED tables
    /\ UnchangedLocals
    /\ UNCHANGED <<inbound, faultVars>>

\* Defect: the missing note of the row is dereferenced.
ReconstructOrRaise(r) ==
    /\ pc[r] = "reconstruct"
    /\ \/ Undated(r) /\ Raise(r)
       \/ /\ ~Undated(r)
          /\ IF Kind(replayOf[r]) = "draft" THEN Finish(r, "draft") /\ UNCHANGED tables
             ELSE IF note[replayOf[r]] = Absent THEN Raise(r)
             ELSE GoTo(r, "count_chunks") /\ UNCHANGED tables
    /\ UnchangedLocals
    /\ UNCHANGED <<inbound, faultVars>>

\* _reconstruct_result: the persisted route, then the note of the row.
Reconstruct(r) ==
    /\ pc[r] = "reconstruct"
    /\ \/ Undated(r) /\ Raise(r)
       \/ /\ ~Undated(r)
          /\ IF Kind(replayOf[r]) = "draft" THEN Finish(r, "draft")
             ELSE IF note[replayOf[r]] = Absent THEN Finish(r, "invalid")
             ELSE GoTo(r, "count_chunks")
          /\ UNCHANGED tables
    /\ UnchangedLocals
    /\ UNCHANGED <<inbound, faultVars>>

\* Defect: every replayed note is reported with one event.
CountAlwaysOne(r) ==
    /\ pc[r] = "count_chunks"
    /\ Finish(r, "saved")
    /\ UnchangedLocals
    /\ UNCHANGED <<inbound, tables, faultVars>>

CountChunks(r) ==
    /\ pc[r] = "count_chunks"
    /\ Finish(r, IF chunk[replayOf[r]] = Absent THEN "saved_empty" ELSE "saved")
    /\ UnchangedLocals
    /\ UNCHANGED <<inbound, tables, faultVars>>

-----------------------------------------------------------------------------
(***************************************************************************)
(* The prior revision: looked up first, by saves and removals alike.       *)
(***************************************************************************)
GetActiveNote(r) ==
    /\ pc[r] = "get_active_note"
    /\ \/ /\ ActiveNotes(Message(r)) = {}
          /\ IF IsRemoval(r) THEN Finish(r, FreshResult(r)) ELSE GoTo(r, "save_note")
          /\ UNCHANGED priorNote
       \/ \E n \in Runs :
            /\ IsNewest(n, ActiveNotes(Message(r)))
            /\ priorNote' = [priorNote EXCEPT ![r] = n]
            /\ GoTo(r, "get_active_chunk")
    /\ UNCHANGED <<inbound, tables, priorChunk, replayOf, lastSaved, faultVars>>

\* Defect: the prior note is retired and its chunk forgotten.
RetireNoteOnly(r, prior) ==
    IF priorNote[r] # NoRun THEN "mark_note"
    ELSE IF Kind(r) = "note" THEN "embed" ELSE "done"

\* Where a run goes once nothing is left to save: the prior revision's chunk,
\* then its note, then the new chunk's embedding.
RetireFrom(r, prior) ==
    IF prior # NoRun THEN "mark_chunk"
    ELSE IF priorNote[r] # NoRun THEN "mark_note"
    ELSE IF Kind(r) = "note" THEN "embed" ELSE "done"

\* Defect: the prior revision is retired before its successor is saved.
RetireBeforeSaving(r) ==
    /\ pc[r] = "get_active_chunk"
    /\ priorChunk' = [priorChunk EXCEPT ![r] = ActiveChunkOf(priorNote[r])]
    /\ GoTo(r, RetireFrom(r, ActiveChunkOf(priorNote[r])))
    /\ UNCHANGED <<inbound, tables, priorNote, replayOf, lastSaved, faultVars>>

GetActiveChunk(r) ==
    /\ pc[r] = "get_active_chunk"
    /\ priorChunk' = [priorChunk EXCEPT ![r] = ActiveChunkOf(priorNote[r])]
    /\ GoTo(r, IF IsRemoval(r) THEN RetireFrom(r, ActiveChunkOf(priorNote[r]))
               ELSE "save_note")
    /\ UNCHANGED <<inbound, tables, priorNote, replayOf, lastSaved, faultVars>>

-----------------------------------------------------------------------------
(***************************************************************************)
(* The new revision: note, then chunk (none for a date-only note).         *)
(***************************************************************************)
AfterSaving(r) ==
    IF RetireFrom(r, priorChunk[r]) = "done" THEN Finish(r, FreshResult(r))
    ELSE GoTo(r, RetireFrom(r, priorChunk[r]))

\* Defect: a note without a body is not saved at all.
SaveNoteWithBody(r) ==
    /\ pc[r] = "save_note"
    /\ \/ /\ CanSaveNote(r)
          /\ IF Kind(r) = "note"
             THEN /\ SaveNote(r)
                  /\ lastSaved' = [lastSaved EXCEPT ![Message(r)] = r]
                  /\ GoTo(r, "save_chunk")
             ELSE AfterSaving(r) /\ UNCHANGED <<tables, lastSaved>>
       \/ ~CanSaveNote(r) /\ Raise(r) /\ UNCHANGED lastSaved
    /\ UNCHANGED <<inbound, priorNote, priorChunk, replayOf, faultVars>>

IngestSaveNote(r) ==
    /\ pc[r] = "save_note"
    /\ \/ /\ CanSaveNote(r)
          /\ SaveNote(r)
          /\ lastSaved' = [lastSaved EXCEPT ![Message(r)] = r]
          /\ IF Kind(r) = "note" THEN GoTo(r, "save_chunk") ELSE AfterSaving(r)
       \/ ~CanSaveNote(r) /\ Raise(r) /\ UNCHANGED lastSaved
    /\ UNCHANGED <<inbound, priorNote, priorChunk, replayOf, faultVars>>

IngestSaveChunk(r) ==
    /\ pc[r] = "save_chunk"
    /\ \/ CanSaveChunk(r) /\ SaveChunk(r) /\ AfterSaving(r)
       \/ ~CanSaveChunk(r) /\ Raise(r)
    /\ UnchangedLocals
    /\ UNCHANGED <<inbound, faultVars>>

-----------------------------------------------------------------------------
(***************************************************************************)
(* Retiring the prior revision: chunk first, then note.                    *)
(***************************************************************************)
\* Defect: only the chunk is superseded, the prior note stays active.
RetireChunkOnly(r) ==
    /\ pc[r] = "mark_chunk"
    /\ CanMarkChunk(priorChunk[r])
    /\ MarkChunk(priorChunk[r], RetiredState(r))
    /\ IF Kind(r) = "note" THEN GoTo(r, "embed") ELSE Finish(r, FreshResult(r))
    /\ UnchangedLocals
    /\ UNCHANGED <<inbound, faultVars>>

RetireChunk(r) ==
    /\ pc[r] = "mark_chunk"
    /\ \/ /\ CanMarkChunk(priorChunk[r])
          /\ MarkChunk(priorChunk[r], RetiredState(r))
          /\ GoTo(r, "mark_note")
       \/ ~CanMarkChunk(priorChunk[r]) /\ Raise(r)
    /\ UnchangedLocals
    /\ UNCHANGED <<inbound, faultVars>>

RetireNote(r) ==
    /\ pc[r] = "mark_note"
    /\ \/ /\ CanMarkNote(priorNote[r])
          /\ MarkNote(priorNote[r], RetiredState(r))
          /\ IF Kind(r) = "note" THEN GoTo(r, "embed") ELSE Finish(r, FreshResult(r))
       \/ ~CanMarkNote(priorNote[r]) /\ Raise(r)
    /\ UnchangedLocals
    /\ UNCHANGED <<inbound, faultVars>>

-----------------------------------------------------------------------------
(***************************************************************************)
(* _embed_chunks: enrichment, after everything above has committed.        *)
(***************************************************************************)
Embed(r) ==
    /\ pc[r] = "embed"
    /\ \/ GoTo(r, "save_records") /\ NoFault
       \/ GoTo(r, "mark_failed") /\ ProviderFault
    /\ UnchangedLocals
    /\ UNCHANGED <<inbound, tables>>

\* Defect: the dead letter is the only trace of a failed embedding.
LeavePending(r) ==
    /\ pc[r] = "mark_failed"
    /\ GoTo(r, "dead_letter")
    /\ UnchangedLocals
    /\ UNCHANGED <<inbound, tables, faultVars>>

MarkFailed(r) ==
    /\ pc[r] = "mark_failed"
    /\ \/ CanSetEmbedding(r) /\ SetEmbedding(r, "failed") /\ GoTo(r, "dead_letter")
       \/ ~CanSetEmbedding(r) /\ Raise(r)
    /\ UnchangedLocals
    /\ UNCHANGED <<inbound, faultVars>>

\* Best effort: a failing write is logged and swallowed.
WriteDeadLetter(r) ==
    /\ pc[r] = "dead_letter"
    /\ \/ CanSaveDeadLetter(r) /\ SaveDeadLetter(r) /\ NoFault
       \/ ~CanSaveDeadLetter(r) /\ UNCHANGED tables /\ NoFault
       \/ UNCHANGED tables /\ StoreFault
    /\ Finish(r, FreshResult(r))
    /\ UnchangedLocals
    /\ UNCHANGED inbound

SaveRecords(r) ==
    /\ pc[r] = "save_records"
    /\ \/ CanSaveRecord(r) /\ SaveRecord(r) /\ GoTo(r, "mark_ready")
       \/ ~CanSaveRecord(r) /\ Raise(r)
    /\ UnchangedLocals
    /\ UNCHANGED <<inbound, faultVars>>

MarkReady(r) ==
    /\ pc[r] = "mark_ready"
    /\ \/ CanSetEmbedding(r) /\ SetEmbedding(r, "ready") /\ Finish(r, FreshResult(r))
       \/ ~CanSetEmbedding(r) /\ Raise(r)
    /\ UnchangedLocals
    /\ UNCHANGED <<inbound, faultVars>>

-----------------------------------------------------------------------------
\* A store call of run r raises, or the process dies before it: what earlier
\* calls committed stays.
FailRun(r) ==
    /\ pc[r] \in Calls
    /\ StoreFault
    /\ Raise(r)
    /\ UnchangedLocals
    /\ UNCHANGED inbound

RunStep(r) ==
    \/ GetOrCreateSource(r) \/ Reconstruct(r) \/ CountChunks(r)
    \/ GetActiveNote(r) \/ GetActiveChunk(r)
    \/ IngestSaveNote(r) \/ IngestSaveChunk(r)
    \/ RetireChunk(r) \/ RetireNote(r)
    \/ Embed(r) \/ MarkFailed(r) \/ WriteDeadLetter(r)
    \/ SaveRecords(r) \/ MarkReady(r)

\* The handler thread of a new delivery of u enters the dispatcher, which
\* sends /delete to the lookup and everything else to the source row.
StartRun(r, u) ==
    /\ pc[r] = "unused"
    /\ \A k \in Runs : k < r => pc[k] # "unused"
    /\ inbound' = [inbound EXCEPT ![r] = u]
    /\ GoTo(r, IF u.kind = "delete" THEN "get_active_note" ELSE "get_or_create_source")
    /\ UnchangedLocals
    /\ UNCHANGED <<tables, faultVars>>
=============================================================================
