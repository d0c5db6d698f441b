----------------------------- MODULE DiarySystem ----------------------------
(***************************************************************************)
(* The capture side of the diary as a whole: a user who writes, edits and  *)
(* deletes messages, Telegram delivering them to the webhook until it is   *)
(* answered, the handler runs of Ingestion, operators retrying failed      *)
(* embeddings, and an operator hard-deleting raw sources.                  *)
(***************************************************************************)
EXTENDS Ingestion, Reconciliation, FiniteSets

CONSTANTS
    MaxInFlight,   \* handler runs at once
    MaxErasures,   \* hard deletes
    Patient,       \* TRUE: the user waits for the answer before writing again
    SameSecond     \* TRUE: two edits may fall in one second of edit_date

ASSUME SystemAssumption ==
    /\ MaxInFlight \in Nat
    /\ MaxErasures \in Nat
    /\ Patient \in BOOLEAN
    /\ SameSecond \in BOOLEAN

VARIABLES
    posted,     \* updates the user has sent
    nextSeq,    \* per message, the edit_seq of its next state; 0 if not sent
    pending,    \* updates Telegram has not seen answered with HTTP 200
    intended,   \* history: per message, the update whose text the user means
                \* the diary to hold, or 0
    erased,     \* history: runs whose source row an operator hard-deleted
    refused     \* history: a hard delete of an existing row raised

channelVars == <<posted, nextSeq, pending, intended>>
operatorVars == <<erased, refused>>
vars == <<inbound, tables, runVars, retryVars, faultVars, channelVars, operatorVars>>

SystemTypeOK ==
    /\ posted \in 0..MaxUpdates
    /\ nextSeq \in [Messages -> 0..MaxUpdates]
    /\ pending \subseteq Updates
    /\ intended \in [Messages -> 0..MaxUpdates]
    /\ erased \subseteq Runs
    /\ refused \in BOOLEAN

TypeOK ==
    /\ StoreTypeOK
    /\ IngestionTypeOK
    /\ ReconciliationTypeOK
    /\ FaultsTypeOK
    /\ SystemTypeOK

Init ==
    /\ StoreInit
    /\ IngestionInit
    /\ ReconciliationInit
    /\ FaultsInit
    /\ posted = 0
    /\ nextSeq = [m \in Messages |-> 0]
    /\ pending = {}
    /\ intended = [m \in Messages |-> 0]
    /\ erased = {}
    /\ refused = FALSE

-----------------------------------------------------------------------------
(***************************************************************************)
(* The user.                                                               *)
(***************************************************************************)
\* What the diary should hold for a message after update u: its text for a
\* note, nothing for a removal or a note without a body, and what it held
\* before for an edit to an empty note.
Intention(u) ==
    CASE u.kind = "note" -> u.id
      [] u.kind = "empty" -> intended[u.msg]
      [] OTHER -> 0

Post(u) ==
    /\ posted < MaxUpdates
    /\ Patient => pending = {} /\ InFlight = {}
    /\ posted' = posted + 1
    /\ pending' = pending \union {u}
    /\ intended' = [intended EXCEPT ![u.msg] = Intention(u)]

\* A new message: edit_date is absent and edit_seq is 0.
PostOriginal(m, kind) ==
    /\ nextSeq[m] = 0
    /\ Post([id |-> posted + 1, msg |-> m, seq |-> 0, kind |-> kind])
    /\ nextSeq' = [nextSeq EXCEPT ![m] = 1]

\* An edit carries edit_date in whole seconds: a later one ...
PostEdit(m, kind) ==
    /\ nextSeq[m] > 0
    /\ Post([id |-> posted + 1, msg |-> m, seq |-> nextSeq[m], kind |-> kind])
    /\ nextSeq' = [nextSeq EXCEPT ![m] = @ + 1]

\* ... or, for a second edit within the second, the same one.
PostEditSameSecond(m, kind) ==
    /\ SameSecond
    /\ nextSeq[m] > 1
    /\ Post([id |-> posted + 1, msg |-> m, seq |-> nextSeq[m] - 1, kind |-> kind])
    /\ UNCHANGED nextSeq

\* A /delete replying to m.
PostDelete(m) ==
    /\ nextSeq[m] > 0
    /\ Post([id |-> posted + 1, msg |-> m, seq |-> 0, kind |-> "delete"])
    /\ UNCHANGED nextSeq

UserStep ==
    /\ \E m \in Messages :
        \/ \E kind \in Kinds \ {"delete"} :
            PostOriginal(m, kind) \/ PostEdit(m, kind) \/ PostEditSameSecond(m, kind)
        \/ PostDelete(m)
    /\ UNCHANGED <<inbound, tables, runVars, retryVars, faultVars, operatorVars>>

-----------------------------------------------------------------------------
(***************************************************************************)
(* Telegram.  An update is delivered until it is answered, so an aborted   *)
(* run, a lost answer or a slow handler makes it arrive again.             *)
(***************************************************************************)
Deliver(u) ==
    /\ Cardinality(InFlight) < MaxInFlight
    /\ \E r \in Runs : StartRun(r, u)
    /\ UNCHANGED <<retryVars, channelVars, operatorVars>>

Respond(r) ==
    /\ pc[r] = "done"
    /\ GoTo(r, "replied")
    /\ \/ pending' = pending \ {inbound[r]} /\ NoFault
       \/ UNCHANGED pending /\ AckLost
    /\ UnchangedLocals
    /\ UNCHANGED <<inbound, tables, retryVars, posted, nextSeq, intended, operatorVars>>

-----------------------------------------------------------------------------
(***************************************************************************)
(* DomainService.hard_delete_source_message.                               *)
(***************************************************************************)
HardDelete(s) ==
    /\ s \in sources
    /\ Cardinality(erased) < MaxErasures
    /\ \/ CanDeleteSource(s) /\ DeleteSource(s) /\ erased' = erased \union {s}
          /\ UNCHANGED refused
       \/ ~CanDeleteSource(s) /\ refused' = TRUE /\ UNCHANGED <<tables, erased>>
    /\ UNCHANGED <<inbound, runVars, retryVars, faultVars, channelVars>>

-----------------------------------------------------------------------------
HandlerStep(r) ==
    /\ RunStep(r) \/ FailRun(r)
    /\ UNCHANGED <<retryVars, channelVars, operatorVars>>

OperatorStep(w) ==
    /\ RetryStep(w) \/ RetryKilled(w)
    /\ UNCHANGED <<runVars, channelVars, operatorVars>>

\* Nothing is under way: the system may rest here, and nowhere else.
Rest ==
    /\ InFlight = {}
    /\ \A w \in Operators : retryPc[w] = "idle"
    /\ UNCHANGED vars

Next ==
    \/ UserStep
    \/ \E u \in pending : Deliver(u)
    \/ \E r \in Runs : HandlerStep(r) \/ Respond(r) \/ HardDelete(r)
    \/ \E w \in Operators : OperatorStep(w)
    \/ Rest

Spec == Init /\ [][Next]_vars

\* Handler threads are scheduled, Telegram keeps delivering and its answers
\* get through, and operators keep running `--retry`.  The user owes nothing,
\* nor does a fault.
FairSpec ==
    /\ Spec
    /\ \A id \in 1..MaxUpdates : WF_vars(\E u \in pending : u.id = id /\ Deliver(u))
    /\ \A r \in Runs : WF_vars(RunStep(r) /\ UNCHANGED <<retryVars, channelVars, operatorVars>>)
    /\ \A r \in Runs : WF_vars(Respond(r))
    /\ \A w \in Operators :
          WF_vars(RetryStep(w) /\ UNCHANGED <<runVars, channelVars, operatorVars>>)

-----------------------------------------------------------------------------
(***************************************************************************)
(* What holds whatever interleaves, fails, is lost or is erased.           *)
(***************************************************************************)
\* Records before status (reconciliation.py "a chunk is never ready without
\* its EmbeddingRecord persisted first"): the dense leg joins on the record,
\* so a ready chunk without one would be lost to it with nobody to repair it.
ReadyHasRecord == \A c \in Runs : embedding[c] = "ready" => c \in records

\* The embedding status only goes forward (no state regression): a chunk that
\* is ready stays so until erased, and a failed one never goes back to
\* pending, where reconciliation would no longer find it.  The ingest and
\* several retries write the column without reading it.
EmbeddingOnlyAdvances ==
    [][\A c \in Runs :
         /\ embedding[c] = "ready" => embedding'[c] \in {"ready", Absent}
         /\ embedding[c] = "failed" => embedding'[c] # "pending"]_vars

\* Idempotent ingest (R-2): however often and however concurrently a message
\* state is delivered, it has at most one notes row.
OneNotePerMessageState ==
    \A r, s \in Runs :
        /\ note[r] # Absent /\ note[s] # Absent
        /\ Message(r) = Message(s) /\ inbound[r].seq = inbound[s].seq
        => r = s

\* Some delivery of a removal (an edit to plain text, a /delete) of m began.
RemovalBegun(m) == \E r \in Runs : pc[r] # "unused" /\ IsRemoval(r) /\ Message(r) = m

\* "A partial failure never leaves zero active revisions" (ingest): once a
\* note of m has been saved, and as long as nobody removes or erases any
\* state of m, some note of m is active, whatever edits race or die.
NeverZeroActive ==
    \A m \in Messages :
        \/ \A n \in Runs : note[n] # Absent => Message(n) # m
        \/ RemovalBegun(m)
        \/ \E n \in erased : Message(n) = m
        \/ ActiveNotes(m) # {}

\* Hard deletion is final: a handler or a retry that read the row before it
\* went cannot write anything derived from it afterwards.
ErasedStaysErased ==
    \A r \in erased :
        /\ r \notin sources \union records \union deadLetters
        /\ note[r] = Absent /\ chunk[r] = Absent /\ embedding[r] = Absent

\* The row whose state a run's answer describes.
AnsweredRow(r) == IF replayOf[r] = NoRun THEN r ELSE replayOf[r]

\* The user is never told a note is saved unless its rows are committed:
\* "saved with an event" means a note and a chunk, "saved" a note.
ConfirmedIsStored ==
    \A r \in Runs :
        AnsweredRow(r) \notin erased =>
            /\ outcome[r] = "saved" => chunk[AnsweredRow(r)] # Absent
            /\ outcome[r] \in {"saved", "saved_empty"} => note[AnsweredRow(r)] # Absent

-----------------------------------------------------------------------------
(***************************************************************************)
(* What holds while deliveries do not overlap: the damage a failed store   *)
(* call or a killed process can do.                                        *)
(***************************************************************************)
\* Chunk first (ingest, _tombstone_active_note_for_external_message): a run
\* that dies between the two flips never leaves the chunk of a superseded or
\* removed note retrievable.
RetrievableIsCurrent == \A c \in Runs : chunk[c] = "active" => note[c] = "active"

\* Each failure leaves at most one revision active beside the current one
\* (no repair ever flips it), the run in flight one more until it retires it.
ExtraRevisionsBounded ==
    \A m \in Messages :
        Cardinality(ActiveNotes(m)) <= 1 + failures + Cardinality(InFlight)

\* Note-kind source rows no run will give a notes row any more.
Stranded ==
    {s \in sources : /\ Kind(s) \in NoteKinds
                     /\ note[s] = Absent
                     /\ s \notin InFlight}

\* Each failure strands at most one raw row without its note.
StrandedBounded == Cardinality(Stranded) <= failures

\* A /note that collided with the row of a draft, of the same second.
FoundDraft(r) == replayOf[r] # NoRun /\ Undated(r)

\* A failure costs one delivery: nothing it leaves in the tables makes a
\* redelivery, or the delivery of a later update, raise in its turn.  The one
\* delivery that raises unaided is that of a /note over the row of a draft,
\* whose reply asserts a note_date.
OnlyFaultsAbandon ==
    Cardinality({r \in Runs : pc[r] = "aborted" /\ ~FoundDraft(r)}) <= failures

-----------------------------------------------------------------------------
(***************************************************************************)
(* What holds when no store call fails and the user waits for answers,     *)
(* embedding outages and lost answers notwithstanding.                     *)
(***************************************************************************)
\* The chunks of m both retrieval legs can return.
VisibleChunks(m) == {c \in sources : inbound[c].msg = m /\ chunk[c] = "active"}

AtRest == InFlight = {} /\ pending = {}

\* The active-state filter shows what the user means it to (R-4): with every
\* update answered, the retrievable text of a message is the one the user
\* last left it with, and nothing once it was removed.
AtRestShowsIntent ==
    AtRest => \A m \in Messages :
        {inbound[c].id : c \in VisibleChunks(m)} = {intended[m]} \ {0}

\* A replay returns the functional result of the first delivery (R-2).
ReplaySameResult ==
    \A r, s \in Runs :
        /\ outcome[r] # "none" /\ outcome[s] # "none"
        /\ inbound[r] = inbound[s] /\ Kind(r) # "delete"
        => outcome[r] = outcome[s]

\* Every update is answered with HTTP 200 in the end.
EveryUpdateAnswered ==
    \A id \in 1..MaxUpdates :
        (\E u \in pending : u.id = id) ~> (\A u \in pending : u.id # id)

\* Every retrievable chunk gets its vector in the end, or stops being
\* retrievable: outages delay the dense leg, they never cost it a chunk.
EmbeddingCatchesUp ==
    \A c \in Runs : chunk[c] = "active" ~> (embedding[c] = "ready" \/ chunk[c] # "active")

\* The tables implement the promise of Diary: the text held is the newest
\* retrievable one, and a text is captured when its chunk is committed.
HeldText(m) ==
    IF VisibleChunks(m) = {} THEN 0
    ELSE inbound[CHOOSE c \in Runs : IsNewest(c, VisibleChunks(m))].id

Promise == INSTANCE Diary WITH
    Ids <- 1..MaxUpdates,
    Things <- Messages,
    held <- [m \in Messages |-> HeldText(m)],
    captured <- [m \in Messages |->
                   {inbound[c].id : c \in {d \in Runs : chunk[d] # Absent /\ Message(d) = m}}],
    told <- {inbound[r].id : r \in {s \in Runs : outcome[s] = "saved"}}

KeepsPromise == Promise!DiarySpec

\* What the answering side may see of the chunk of run c.
ChunkView(c) ==
    CASE c \in erased -> "erased"
      [] c \notin erased /\ chunk[c] = Absent -> "none"
      [] c \notin erased /\ chunk[c] = "active" ->
            IF c \in records /\ embedding[c] = "ready" THEN "ready" ELSE "saved"
      [] OTHER -> "retired"

Capture == INSTANCE Corpus WITH
    Chunks <- Runs,
    corpus <- [c \in Runs |-> ChunkView(c)]

\* Capture keeps to the life of a chunk on which answering relies: whatever
\* edits, removals, retries and hard deletes interleave, a chunk that has
\* left retrieval never comes back, and its vector is never lost before.
ImplementsCorpus == Capture!CorpusSpec

-----------------------------------------------------------------------------
(***************************************************************************)
(* What the documentation says and the code does not do.                   *)
(***************************************************************************)
\* "A superseded/tombstoned chunk is never re-embedded" (R-4).
RetiredNeverEmbedded ==
    [][\A c \in records' \ records : chunk[c] = "active"]_vars

\* Hard delete removes "every row derived from it": it is never refused.
HardDeleteNeverRefused == ~refused

\* "If any step after raw persistence fails, raw data is intact and the
\* failed step is replayable": once answered, a captured note has its row.
RawBecomesNote ==
    \A s \in Stranded : inbound[s] \in pending

\* "A delete is effective before any re-embedding completes": a removal that
\* reported success has left no retrievable chunk of the note it removed.
DeleteIsEffective ==
    \A r \in Runs :
        outcome[r] = "deleted" => chunk[priorNote[r]] # "active"
=============================================================================
