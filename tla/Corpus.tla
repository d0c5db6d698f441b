------------------------------- MODULE Corpus -------------------------------
(***************************************************************************)
(* What the capture side of the diary promises the answering side: the     *)
(* life of a chunk as the two retrieval legs can see it.                   *)
(*                                                                         *)
(*   none     no event_chunks row yet                                      *)
(*   saved    an active row without a usable vector: the sparse leg alone  *)
(*            can return it                                                *)
(*   ready    an active row whose vector is stored and marked ready: both  *)
(*            legs can return it                                           *)
(*   retired  superseded or tombstoned: neither leg returns it, ever again *)
(*   erased   its source row was hard-deleted; the row is gone for good    *)
(*                                                                         *)
(* DiarySystem implements this module; Conversation uses it as what        *)
(* happens to the notes while questions are being answered.                *)
(***************************************************************************)
CONSTANT Chunks

VARIABLE corpus

Visibility == {"none", "saved", "ready", "retired", "erased"}

CorpusTypeOK == corpus \in [Chunks -> Visibility]

CorpusInit == corpus = [c \in Chunks |-> "none"]

Become(c, v) == corpus' = [corpus EXCEPT ![c] = v]

\* ingest: save_event_chunks commits the row.
SaveChunkRow(c) == corpus[c] = "none" /\ Become(c, "saved")

\* ingest or a retry: the vector is stored and the status set to ready.
IndexChunk(c) == corpus[c] = "saved" /\ Become(c, "ready")

\* An edit supersedes it, or a removal tombstones it.
RetireChunk(c) == corpus[c] \in {"saved", "ready"} /\ Become(c, "retired")

\* An operator hard-deletes its source message, chunk or no chunk.
EraseChunk(c) == corpus[c] # "erased" /\ Become(c, "erased")

CorpusNext ==
    \E c \in Chunks :
        SaveChunkRow(c) \/ IndexChunk(c) \/ RetireChunk(c) \/ EraseChunk(c)

CorpusSpec == CorpusInit /\ [][CorpusNext]_corpus

-----------------------------------------------------------------------------
(***************************************************************************)
(* What the legs may return.                                               *)
(***************************************************************************)
\* lifecycle_state = 'active'.
Active == {c \in Chunks : corpus[c] \in {"saved", "ready"}}

\* ... JOIN embedding_records ... AND embedding_status = 'ready'.
Ready == {c \in Chunks : corpus[c] = "ready"}

\* The event_chunks rows there are.
Rows == {c \in Chunks : corpus[c] \in {"saved", "ready", "retired"}}
=============================================================================
