----------------------------- MODULE DiaryStore -----------------------------
(***************************************************************************)
(* The ingestion tables of the Postgres store and the transactions the     *)
(* services run on them (storage/postgres/store.py).  Every store method   *)
(* takes a pooled connection, runs its statements and commits, so one      *)
(* operator below is one transaction.                                      *)
(*                                                                         *)
(* Rows are named by the webhook delivery ("run") that inserted them: a    *)
(* delivery inserts at most one source_messages row, one notes row, one    *)
(* event_chunks row (I-5) and one embedding_records row, and the uuids     *)
(* the code draws for them only serve to tell rows apart.  Runs are        *)
(* numbered in starting order, which is the order of `now`, taken on the   *)
(* first line of `ingest`: comparing run numbers is comparing created_at.  *)
(***************************************************************************)
EXTENDS Naturals

CONSTANTS
    MaxRuns,    \* deliveries in a behaviour
    MaxUpdates, \* messages, edits and /deletes the user sends
    Messages,   \* channel messages: (external_chat_id, external_message_id)
    NoUpdate    \* the content of a run not started

\* What parse_command, _normalize_note_first_line and parse_note make of the
\* text: a note with a body; a note that is only a date; an empty note, which
\* is the one parse_note still refuses once a missing date has defaulted to
\* today; text without a command (a draft); a /delete replying to message msg.
NoteKinds == {"note", "date_only"}
RemovalKinds == {"draft", "delete"}
Kinds == NoteKinds \union RemovalKinds \union {"empty"}

\* A message state as the channel delivers it.  seq is edit_seq; id tells
\* apart what the user sent and stands for the text.
Updates == [id : 1..MaxUpdates, msg : Messages, seq : 0..MaxUpdates, kind : Kinds]

ASSUME StoreAssumption ==
    /\ MaxRuns \in Nat
    /\ MaxUpdates \in Nat
    /\ NoUpdate \notin Updates

Runs == 1..MaxRuns
NoRun == 0
Absent == "absent"
LifecycleState == {"active", "superseded", "tombstoned"}
EmbeddingStatus == {"pending", "ready", "failed"}

VARIABLES
    inbound,      \* run -> the InboundMessage it handles (its row's content)
    sources,      \* source_messages: runs whose row is present
    note,         \* notes.lifecycle_state per run, or Absent
    chunk,        \* event_chunks.lifecycle_state per run, or Absent
    embedding,    \* event_chunks.embedding_status per run, or Absent
    records,      \* embedding_records: runs whose chunk has a vector
    deadLetters   \* indexing_dead_letters: sources with at least one row

tables == <<sources, note, chunk, embedding, records, deadLetters>>

StoreTypeOK ==
    /\ inbound \in [Runs -> Updates \union {NoUpdate}]
    /\ sources \subseteq Runs
    /\ note \in [Runs -> LifecycleState \union {Absent}]
    /\ chunk \in [Runs -> LifecycleState \union {Absent}]
    /\ embedding \in [Runs -> EmbeddingStatus \union {Absent}]
    /\ records \subseteq Runs
    /\ deadLetters \subseteq Runs

StoreInit ==
    /\ inbound = [r \in Runs |-> NoUpdate]
    /\ sources = {}
    /\ note = [r \in Runs |-> Absent]
    /\ chunk = [r \in Runs |-> Absent]
    /\ embedding = [r \in Runs |-> Absent]
    /\ records = {}
    /\ deadLetters = {}

(***************************************************************************)
(* Reads.                                                                  *)
(***************************************************************************)
\* Defect: a row counts as persisted only once its note is saved, which would
\* repair a crash between the two but lets two deliveries in flight save both.
PersistedOnceNoted(r) ==
    {s \in sources : /\ inbound[s].msg = inbound[r].msg
                     /\ inbound[s].seq = inbound[r].seq
                     /\ note[s] # Absent}

\* The row a conflicting INSERT ... ON CONFLICT (chat, message, edit_seq)
\* finds for the message state run r carries.
Persisted(r) ==
    {s \in sources : /\ inbound[s].msg = inbound[r].msg
                     /\ inbound[s].seq = inbound[r].seq}

\* notes JOIN source_messages, lifecycle_state = 'active', for message m.
ActiveNotes(m) ==
    {n \in Runs : n \in sources /\ inbound[n].msg = m /\ note[n] = "active"}

\* ... ORDER BY created_at DESC LIMIT 1.
IsNewest(n, S) == n \in S /\ \A k \in S : k <= n

\* get_active_chunk_for_note: the note's chunk while it is active.
ActiveChunkOf(n) == IF chunk[n] = "active" THEN n ELSE NoRun

\* Defect: everything without a vector is listed, in-flight chunks included.
NotReadyChunks == {c \in Runs : embedding[c] \in {"pending", "failed"}}

\* list_failed_event_chunks: the status alone selects, whatever the
\* lifecycle_state of the chunk.
FailedChunks == {c \in Runs : embedding[c] = "failed"}

(***************************************************************************)
(* Writes.  CanX is what the constraints and the rowcount check of X       *)
(* demand; X is the committed transaction.                                 *)
(***************************************************************************)
InsertSource(r) ==
    /\ sources' = sources \union {r}
    /\ UNCHANGED <<note, chunk, embedding, records, deadLetters>>

\* Defect: no foreign key from notes to source_messages.
CanSaveOrphanNote(r) == TRUE

CanSaveNote(r) == r \in sources

SaveNote(r) ==
    /\ note' = [note EXCEPT ![r] = "active"]
    /\ UNCHANGED <<sources, chunk, embedding, records, deadLetters>>

CanSaveChunk(r) == r \in sources /\ note[r] # Absent

SaveChunk(r) ==
    /\ chunk' = [chunk EXCEPT ![r] = "active"]
    /\ embedding' = [embedding EXCEPT ![r] = "pending"]
    /\ UNCHANGED <<sources, note, records, deadLetters>>

\* mark_chunk_superseded / mark_chunk_tombstoned: UPDATE by chunk_id and
\* community_id only; KeyError when no row matches.
CanMarkChunk(c) == chunk[c] # Absent

MarkChunk(c, state) ==
    /\ chunk' = [chunk EXCEPT ![c] = state]
    /\ UNCHANGED <<sources, note, embedding, records, deadLetters>>

CanMarkNote(n) == note[n] # Absent

MarkNote(n, state) ==
    /\ note' = [note EXCEPT ![n] = state]
    /\ UNCHANGED <<sources, chunk, embedding, records, deadLetters>>

\* UNIQUE (chunk_id, model_name) and the foreign key to event_chunks.
CanSaveRecord(c) == chunk[c] # Absent /\ c \notin records

SaveRecord(c) ==
    /\ records' = records \union {c}
    /\ UNCHANGED <<sources, note, chunk, embedding, deadLetters>>

CanSetEmbedding(c) == chunk[c] # Absent

\* Defect: the status is written with the rest of a row read as active.
SetEmbeddingOfRow(c, status) ==
    /\ chunk' = [chunk EXCEPT ![c] = "active"]
    /\ embedding' = [embedding EXCEPT ![c] = status]
    /\ UNCHANGED <<sources, note, records, deadLetters>>

SetEmbedding(c, status) ==
    /\ embedding' = [embedding EXCEPT ![c] = status]
    /\ UNCHANGED <<sources, note, chunk, records, deadLetters>>

CanSaveDeadLetter(r) == r \in sources

SaveDeadLetter(r) ==
    /\ deadLetters' = deadLetters \union {r}
    /\ UNCHANGED <<sources, note, chunk, embedding, records>>

\* hard_delete_source_message deletes the leaves first, all in one
\* transaction.  It knows nothing of indexing_dead_letters, whose foreign
\* key makes the last DELETE fail and the transaction roll back.
CanDeleteSource(r) == r \notin deadLetters

DeleteSource(r) ==
    /\ sources' = sources \ {r}
    /\ note' = [note EXCEPT ![r] = Absent]
    /\ chunk' = [chunk EXCEPT ![r] = Absent]
    /\ embedding' = [embedding EXCEPT ![r] = Absent]
    /\ records' = records \ {r}
    /\ UNCHANGED deadLetters
=============================================================================
