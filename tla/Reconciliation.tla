--------------------------- MODULE Reconciliation ---------------------------
(***************************************************************************)
(* ReconciliationService.retry_failed_chunks, run by an operator's command *)
(* line in a process of its own, beside the webhook and beside other runs  *)
(* of itself.  The failed chunks are read once; each is then embedded,     *)
(* stored and marked from that snapshot, whatever the webhook has done to  *)
(* it since.  One explicit note is one chunk (I-5), so a group (the failed *)
(* chunks of one source) is one chunk.                                     *)
(***************************************************************************)
EXTENDS DiaryStore, Faults

CONSTANT Operators   \* concurrent retry runs

VARIABLES
    worklist,   \* operator -> chunks still to retry, from its snapshot
    retryPc     \* operator -> its next call

retryVars == <<worklist, retryPc>>

ReconciliationTypeOK ==
    /\ worklist \in [Operators -> SUBSET Runs]
    /\ retryPc \in [Operators ->
          {"idle", "embed", "save_records", "mark_ready", "dead_letter"}]

ReconciliationInit ==
    /\ worklist = [w \in Operators |-> {}]
    /\ retryPc = [w \in Operators |-> "idle"]

\* Oldest failure first.
IsCurrent(w, c) == c \in worklist[w] /\ \A k \in worklist[w] : c <= k

RetryGoTo(w, call) ==
    /\ retryPc' = [retryPc EXCEPT ![w] = call]
    /\ UNCHANGED worklist

\* The group is reported; the loop takes the next one or ends.
NextGroup(w, c) ==
    /\ worklist' = [worklist EXCEPT ![w] = @ \ {c}]
    /\ retryPc' = [retryPc EXCEPT ![w] = IF worklist[w] = {c} THEN "idle" ELSE "embed"]

ListFailed(w) ==
    /\ retryPc[w] = "idle"
    /\ FailedChunks # {}
    /\ worklist' = [worklist EXCEPT ![w] = FailedChunks]
    /\ retryPc' = [retryPc EXCEPT ![w] = "embed"]
    /\ UNCHANGED <<inbound, tables, faultVars>>

\* Defect: the status is flipped before the vector is stored.
RetryStatusFirst(w) ==
    /\ retryPc[w] = "embed"
    /\ \/ RetryGoTo(w, "mark_ready") /\ NoFault
       \/ RetryGoTo(w, "dead_letter") /\ ProviderFault
    /\ UNCHANGED <<inbound, tables>>

RetryEmbed(w) ==
    /\ retryPc[w] = "embed"
    /\ \/ RetryGoTo(w, "save_records") /\ NoFault
       \/ RetryGoTo(w, "dead_letter") /\ ProviderFault
    /\ UNCHANGED <<inbound, tables>>

\* An exception from either write sends the group to the dead letters.
RetrySaveRecords(w) ==
    /\ retryPc[w] = "save_records"
    /\ \E c \in Runs :
        /\ IsCurrent(w, c)
        /\ \/ CanSaveRecord(c) /\ SaveRecord(c) /\ RetryGoTo(w, "mark_ready") /\ NoFault
           \/ ~CanSaveRecord(c) /\ UNCHANGED tables /\ RetryGoTo(w, "dead_letter") /\ NoFault
           \/ UNCHANGED tables /\ RetryGoTo(w, "dead_letter") /\ StoreFault
    /\ UNCHANGED inbound

RetryMarkReady(w) ==
    /\ retryPc[w] = "mark_ready"
    /\ \E c \in Runs :
        /\ IsCurrent(w, c)
        /\ \/ CanSetEmbedding(c) /\ SetEmbedding(c, "ready") /\ NextGroup(w, c) /\ NoFault
           \/ ~CanSetEmbedding(c) /\ UNCHANGED tables /\ RetryGoTo(w, "dead_letter") /\ NoFault
           \/ UNCHANGED tables /\ RetryGoTo(w, "dead_letter") /\ StoreFault
    /\ UNCHANGED inbound

RetryDeadLetter(w) ==
    /\ retryPc[w] = "dead_letter"
    /\ \E c \in Runs :
        /\ IsCurrent(w, c)
        /\ \/ CanSaveDeadLetter(c) /\ SaveDeadLetter(c) /\ NoFault
           \/ ~CanSaveDeadLetter(c) /\ UNCHANGED tables /\ NoFault
           \/ UNCHANGED tables /\ StoreFault
        /\ NextGroup(w, c)
    /\ UNCHANGED inbound

\* The operator's process is killed: its snapshot is gone with it.
RetryKilled(w) ==
    /\ retryPc[w] # "idle"
    /\ StoreFault
    /\ worklist' = [worklist EXCEPT ![w] = {}]
    /\ retryPc' = [retryPc EXCEPT ![w] = "idle"]
    /\ UNCHANGED <<inbound, tables>>

RetryStep(w) ==
    \/ ListFailed(w) \/ RetryEmbed(w) \/ RetrySaveRecords(w)
    \/ RetryMarkReady(w) \/ RetryDeadLetter(w)
=============================================================================
