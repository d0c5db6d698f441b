------------------------- MODULE DiarySystem_proofs -------------------------
(***************************************************************************)
(* Invariants of DiarySystem for every number of deliveries, updates,      *)
(* handlers, operators and faults: its types, then two inductive           *)
(* invariants, StoreInv about the tables and RevisionInv about the         *)
(* revisions of a message, and what follows from them; then what becomes   *)
(* of a note after its rows are saved: the embedding status of its chunk,  *)
(* what the user is told of it, and what retrieval sees.                   *)
(***************************************************************************)
EXTENDS DiarySystem, TLAPS

-----------------------------------------------------------------------------
(***************************************************************************)
(* Type correctness.  What a run carries is typed because it was delivered *)
(* before the run took its first step; what the user sends is typed        *)
(* because a message has no more states than updates were sent.            *)
(***************************************************************************)
Started == \A r \in Runs : pc[r] # "unused" => inbound[r] \in Updates
SeqBounded == \A m \in Messages : nextSeq[m] <= posted
TypeInv == TypeOK /\ Started /\ SeqBounded

\* The initial tables, runs, counters and channel are typed.
LEMMA InitTypeInv == Init => TypeInv
<1> SUFFICES ASSUME Init PROVE TypeInv
  OBVIOUS
<1>1. StoreTypeOK /\ IngestionTypeOK /\ ReconciliationTypeOK
  BY DEF Init, StoreInit, IngestionInit, ReconciliationInit, StoreTypeOK,
         IngestionTypeOK, ReconciliationTypeOK
<1>2. FaultsTypeOK
  BY FaultBudgets DEF Init, FaultsInit, FaultsTypeOK
<1>3. SystemTypeOK
  <2>1. 0 \in 0..MaxUpdates
    BY StoreAssumption
  <2> QED
    BY <2>1 DEF Init, SystemTypeOK
<1>4. SeqBounded
  BY DEF Init, SeqBounded
<1>5. Started
  BY DEF Init, IngestionInit, Started
<1> QED
  BY <1>1, <1>2, <1>3, <1>4, <1>5 DEF TypeInv, TypeOK

\* No fault leaves its budget.
LEMMA FaultsBounded ==
  ASSUME FaultsTypeOK, NoFault \/ StoreFault \/ ProviderFault \/ AckLost
  PROVE  FaultsTypeOK'
  BY FaultBudgets DEF FaultsTypeOK, NoFault, StoreFault, ProviderFault, AckLost, faultVars

\* Sending an original, an edit, a same-second edit or a /delete.
LEMMA UserStepTypeInv == TypeInv /\ UserStep => TypeInv'
<1> SUFFICES ASSUME TypeInv, UserStep PROVE TypeInv'
  OBVIOUS
<1>1. /\ UNCHANGED <<inbound, tables, runVars, retryVars, faultVars, operatorVars>>
      /\ StoreTypeOK' /\ IngestionTypeOK' /\ ReconciliationTypeOK' /\ FaultsTypeOK'
      /\ Started'
  BY DEF UserStep, TypeInv, TypeOK, StoreTypeOK, IngestionTypeOK,
         ReconciliationTypeOK, FaultsTypeOK, Started, tables, runVars,
         retryVars, faultVars, operatorVars
<1>2. SystemTypeOK' /\ SeqBounded'
  BY StoreAssumption
     DEF UserStep, PostOriginal, PostEdit, PostEditSameSecond, PostDelete,
         Post, Intention, TypeInv, TypeOK, SystemTypeOK, SeqBounded,
         operatorVars, Updates, Kinds, NoteKinds, RemovalKinds
<1> QED
  BY <1>1, <1>2 DEF TypeInv, TypeOK

\* What a step may do to the tables, to the place and result of run r, and
\* to the locals: the shapes all the actions of Ingestion are made of.
TableWrite ==
    \/ UNCHANGED tables
    \/ \E r \in Runs : \/ InsertSource(r) \/ SaveNote(r) \/ SaveChunk(r)
                       \/ SaveRecord(r) \/ SaveDeadLetter(r) \/ DeleteSource(r)
    \/ \E c, state : /\ state \in LifecycleState
                     /\ MarkChunk(c, state) \/ MarkNote(c, state)
    \/ \E c, status : status \in EmbeddingStatus /\ SetEmbedding(c, status)

RunMove(r) ==
    \/ \E call \in Calls \union {"done", "replied"} : GoTo(r, call)
    \/ \E result \in Results : Finish(r, result)
    \/ Raise(r)

LocalsTyped ==
    /\ priorNote \in [Runs -> Runs \union {NoRun}]
    /\ priorChunk \in [Runs -> Runs \union {NoRun}]
    /\ replayOf \in [Runs -> Runs \union {NoRun}]
    /\ lastSaved \in [Messages -> Runs \union {NoRun}]

FaultStep == NoFault \/ StoreFault \/ ProviderFault \/ AckLost

\* Every transaction on the ingestion tables leaves them typed.
LEMMA WritesTyped ==
  ASSUME StoreTypeOK, UNCHANGED inbound, TableWrite
  PROVE  StoreTypeOK'
<1>1. CASE UNCHANGED tables
  BY <1>1 DEF StoreTypeOK, tables
<1>2. CASE \E r \in Runs : InsertSource(r) \/ SaveNote(r) \/ SaveChunk(r)
  BY <1>2 DEF StoreTypeOK, InsertSource, SaveNote, SaveChunk, LifecycleState, EmbeddingStatus
<1>3. CASE \E r \in Runs : SaveRecord(r) \/ SaveDeadLetter(r) \/ DeleteSource(r)
  BY <1>3 DEF StoreTypeOK, SaveRecord, SaveDeadLetter, DeleteSource
<1>4. CASE \E c, state : /\ state \in LifecycleState
                         /\ MarkChunk(c, state) \/ MarkNote(c, state)
  BY <1>4 DEF StoreTypeOK, MarkChunk, MarkNote
<1>5. CASE \E c, status : status \in EmbeddingStatus /\ SetEmbedding(c, status)
  BY <1>5 DEF StoreTypeOK, SetEmbedding
<1> QED
  BY <1>1, <1>2, <1>3, <1>4, <1>5 DEF TableWrite

\* A run that was started only ever goes to a typed place with a typed
\* result, and the other runs stay where they are.
LEMMA MovesTyped ==
  ASSUME IngestionTypeOK, Started, UNCHANGED inbound, LocalsTyped',
         NEW r \in Runs, pc[r] # "unused", RunMove(r)
  PROVE  IngestionTypeOK' /\ Started'
  BY DEF RunMove, LocalsTyped, IngestionTypeOK, Started, GoTo, Finish, Raise

\* The result of a run that was delivered is one of the results.
LEMMA FreshResultTyped ==
  ASSUME NEW r \in Runs, inbound[r] \in Updates
  PROVE  FreshResult(r) \in Results
  BY DEF FreshResult, Results, Kind, Updates, Kinds, NoteKinds, RemovalKinds

\* Retiring a revision writes a state the column's CHECK allows.
LEMMA RetiredStateTyped ==
  ASSUME NEW r
  PROVE  RetiredState(r) \in LifecycleState
  BY DEF RetiredState, LifecycleState

\* Each step of a handler run, whole or failing, keeps everything typed.
LEMMA RunStepTyped ==
  ASSUME StoreTypeOK, IngestionTypeOK, FaultsTypeOK, Started,
         NEW r \in Runs, RunStep(r) \/ FailRun(r)
  PROVE  StoreTypeOK' /\ IngestionTypeOK' /\ FaultsTypeOK' /\ Started'
<1>1. pc[r] # "unused" /\ pc[r] \in Calls
  BY DEF RunStep, FailRun, Calls, GetOrCreateSource, Reconstruct, CountChunks,
         GetActiveNote, GetActiveChunk, IngestSaveNote, IngestSaveChunk,
         RetireChunk, RetireNote, Embed, MarkFailed, WriteDeadLetter,
         SaveRecords, MarkReady
<1>2. FreshResult(r) \in Results /\ RetiredState(r) \in LifecycleState
  BY <1>1, FreshResultTyped, RetiredStateTyped DEF Started
<1>3. LocalsTyped
  BY DEF LocalsTyped, IngestionTypeOK
<1>4. Message(r) \in Messages
  BY <1>1 DEF Started, Updates, Message
<1> DEFINE Typed == UNCHANGED inbound /\ TableWrite /\ RunMove(r) /\ LocalsTyped' /\ FaultStep
<1> SUFFICES Typed
  BY <1>1, WritesTyped, MovesTyped, FaultsBounded DEF FaultStep
<1>5. CASE GetOrCreateSource(r)
  <2>1. UNCHANGED inbound /\ LocalsTyped' /\ FaultStep
    BY <1>3, <1>5 DEF GetOrCreateSource, LocalsTyped, FaultStep, NoFault,
       faultVars, Persisted, StoreTypeOK
  <2>2. TableWrite
    BY <1>5 DEF GetOrCreateSource, TableWrite
  <2>3. RunMove(r)
    BY <1>2, <1>5 DEF GetOrCreateSource, RunMove, Calls
  <2> QED
    BY <2>1, <2>2, <2>3
<1>6. CASE Reconstruct(r) \/ CountChunks(r)
  BY <1>3, <1>6 DEF Reconstruct, CountChunks, Raise, UnchangedLocals, LocalsTyped,
     TableWrite, RunMove, Calls, Results, FaultStep, NoFault
<1>7. CASE GetActiveNote(r)
  <2>1. UNCHANGED inbound /\ LocalsTyped' /\ FaultStep /\ TableWrite
    BY <1>3, <1>7 DEF GetActiveNote, LocalsTyped, FaultStep, NoFault, TableWrite
  <2>2. RunMove(r)
    BY <1>2, <1>7 DEF GetActiveNote, RunMove, Calls
  <2> QED
    BY <2>1, <2>2
<1>8. CASE GetActiveChunk(r)
  <2>1. ActiveChunkOf(priorNote[r]) \in Runs \union {NoRun}
    BY <1>3 DEF ActiveChunkOf, LocalsTyped
  <2>2. UNCHANGED inbound /\ LocalsTyped' /\ FaultStep /\ TableWrite
    BY <1>3, <1>8, <2>1 DEF GetActiveChunk, LocalsTyped, FaultStep, NoFault, TableWrite
  <2>3. RunMove(r)
    <3>1. CASE ~IsRemoval(r)
      BY <1>8, <3>1 DEF GetActiveChunk, RunMove, Calls
    <3>2. CASE IsRemoval(r)
      BY <1>8, <3>2 DEF GetActiveChunk, RunMove, RetireFrom, Calls
    <3> QED
      BY <3>1, <3>2
  <2> QED
    BY <2>2, <2>3
<1>9. AfterSaving(r) => RunMove(r)
  BY <1>2 DEF AfterSaving, RetireFrom, RunMove, Calls
<1>10. CASE IngestSaveNote(r)
  <2>1. UNCHANGED inbound /\ LocalsTyped' /\ FaultStep
    BY <1>3, <1>4, <1>10 DEF IngestSaveNote, LocalsTyped, FaultStep, NoFault
  <2>2. TableWrite
    BY <1>10 DEF IngestSaveNote, TableWrite, Raise
  <2>3. RunMove(r)
    BY <1>9, <1>10 DEF IngestSaveNote, RunMove, Calls
  <2> QED
    BY <2>1, <2>2, <2>3
<1>11. CASE IngestSaveChunk(r)
  <2>1. UNCHANGED inbound /\ LocalsTyped' /\ FaultStep /\ TableWrite
    BY <1>3, <1>11 DEF IngestSaveChunk, UnchangedLocals, LocalsTyped, FaultStep,
       NoFault, TableWrite, Raise
  <2>2. RunMove(r)
    BY <1>9, <1>11 DEF IngestSaveChunk, RunMove
  <2> QED
    BY <2>1, <2>2
<1>12. CASE RetireChunk(r) \/ RetireNote(r)
  <2>1. UNCHANGED inbound /\ LocalsTyped' /\ FaultStep
    BY <1>3, <1>12 DEF RetireChunk, RetireNote, UnchangedLocals, LocalsTyped,
       FaultStep, NoFault
  <2>2. TableWrite
    BY <1>2, <1>12 DEF RetireChunk, RetireNote, TableWrite, Raise
  <2>3. RunMove(r)
    BY <1>2, <1>12 DEF RetireChunk, RetireNote, RunMove, Calls
  <2> QED
    BY <2>1, <2>2, <2>3
<1>13. CASE Embed(r) \/ MarkFailed(r) \/ WriteDeadLetter(r)
  <2>1. UNCHANGED inbound /\ LocalsTyped' /\ FaultStep
    BY <1>3, <1>13 DEF Embed, MarkFailed, WriteDeadLetter, UnchangedLocals,
       LocalsTyped, FaultStep, NoFault
  <2>2. TableWrite
    BY <1>13 DEF Embed, MarkFailed, WriteDeadLetter, TableWrite, Raise, EmbeddingStatus
  <2>3. RunMove(r)
    BY <1>2, <1>13 DEF Embed, MarkFailed, WriteDeadLetter, RunMove, Calls
  <2> QED
    BY <2>1, <2>2, <2>3
<1>14. CASE SaveRecords(r) \/ MarkReady(r) \/ FailRun(r)
  <2>1. UNCHANGED inbound /\ LocalsTyped' /\ FaultStep
    BY <1>3, <1>14 DEF SaveRecords, MarkReady, FailRun, UnchangedLocals,
       LocalsTyped, FaultStep, NoFault
  <2>2. TableWrite
    BY <1>14 DEF SaveRecords, MarkReady, FailRun, TableWrite, Raise, EmbeddingStatus
  <2>3. RunMove(r)
    BY <1>2, <1>14 DEF SaveRecords, MarkReady, FailRun, RunMove, Calls
  <2> QED
    BY <2>1, <2>2, <2>3
<1> QED
  BY <1>5, <1>6, <1>7, <1>8, <1>10, <1>11, <1>12, <1>13, <1>14 DEF RunStep

\* A delivery starts one unused run with an update Telegram still holds.
LEMMA DeliverTypeInv ==
  ASSUME TypeInv, NEW u \in pending, Deliver(u)
  PROVE  TypeInv'
<1>1. u \in Updates
  BY DEF TypeInv, TypeOK, SystemTypeOK
<1>2. PICK r \in Runs : StartRun(r, u)
  BY DEF Deliver
<1>3. StoreTypeOK'
  BY <1>1, <1>2 DEF TypeInv, TypeOK, StoreTypeOK, StartRun, tables
<1>4. IngestionTypeOK' /\ Started'
  BY <1>1, <1>2 DEF TypeInv, TypeOK, StoreTypeOK, IngestionTypeOK, Started,
     StartRun, GoTo, UnchangedLocals, Calls
<1>5. FaultsTypeOK' /\ ReconciliationTypeOK' /\ SystemTypeOK' /\ SeqBounded'
  BY <1>2 DEF Deliver, StartRun, TypeInv, TypeOK, FaultsTypeOK, ReconciliationTypeOK,
     SystemTypeOK, SeqBounded, faultVars, retryVars, channelVars, operatorVars
<1> QED
  BY <1>3, <1>4, <1>5 DEF TypeInv, TypeOK

\* Answering an update, and losing the answer.
LEMMA RespondTypeInv ==
  ASSUME TypeInv, NEW r \in Runs, Respond(r)
  PROVE  TypeInv'
<1>1. StoreTypeOK'
  BY WritesTyped DEF Respond, TypeInv, TypeOK, TableWrite
<1>2. IngestionTypeOK' /\ Started'
  BY DEF Respond, TypeInv, TypeOK, IngestionTypeOK, Started, GoTo, UnchangedLocals
<1>3. FaultsTypeOK'
  BY FaultsBounded DEF Respond, TypeInv, TypeOK
<1>4. ReconciliationTypeOK' /\ SystemTypeOK' /\ SeqBounded'
  BY DEF Respond, TypeInv, TypeOK, ReconciliationTypeOK, SystemTypeOK, SeqBounded,
     retryVars, operatorVars
<1> QED
  BY <1>1, <1>2, <1>3, <1>4 DEF TypeInv, TypeOK

\* An operator erases a source, or is refused.
LEMMA HardDeleteTypeInv ==
  ASSUME TypeInv, NEW r \in Runs, HardDelete(r)
  PROVE  TypeInv'
<1>1. StoreTypeOK'
  BY WritesTyped DEF HardDelete, TypeInv, TypeOK, TableWrite
<1>2. IngestionTypeOK' /\ Started' /\ FaultsTypeOK' /\ ReconciliationTypeOK'
  BY DEF HardDelete, TypeInv, TypeOK, IngestionTypeOK, Started, FaultsTypeOK,
     ReconciliationTypeOK, runVars, retryVars, faultVars
<1>3. SystemTypeOK' /\ SeqBounded'
  BY DEF HardDelete, TypeInv, TypeOK, SystemTypeOK, SeqBounded, channelVars
<1> QED
  BY <1>1, <1>2, <1>3 DEF TypeInv, TypeOK

\* A handler run's step, in the system.
LEMMA HandlerStepTypeInv ==
  ASSUME TypeInv, NEW r \in Runs, HandlerStep(r)
  PROVE  TypeInv'
<1>1. StoreTypeOK' /\ IngestionTypeOK' /\ FaultsTypeOK' /\ Started'
  BY RunStepTyped DEF HandlerStep, TypeInv, TypeOK
<1>2. ReconciliationTypeOK' /\ SystemTypeOK' /\ SeqBounded'
  BY DEF HandlerStep, TypeInv, TypeOK, ReconciliationTypeOK, SystemTypeOK,
     SeqBounded, retryVars, channelVars, operatorVars
<1> QED
  BY <1>1, <1>2 DEF TypeInv, TypeOK

\* A retry run's step: its snapshot only holds chunks.
LEMMA OperatorStepTypeInv ==
  ASSUME TypeInv, NEW w \in Operators, OperatorStep(w)
  PROVE  TypeInv'
<1>1. UNCHANGED <<inbound, runVars, channelVars, operatorVars>>
  BY DEF OperatorStep, RetryStep, RetryKilled, ListFailed, RetryEmbed,
     RetrySaveRecords, RetryMarkReady, RetryDeadLetter
<1>2. TableWrite
  BY DEF OperatorStep, RetryStep, RetryKilled, ListFailed, RetryEmbed,
     RetrySaveRecords, RetryMarkReady, RetryDeadLetter, TableWrite, EmbeddingStatus
<1>3. FaultsTypeOK'
  <2>1. FaultStep
    BY DEF OperatorStep, RetryStep, RetryKilled, ListFailed, RetryEmbed,
       RetrySaveRecords, RetryMarkReady, RetryDeadLetter, FaultStep, NoFault
  <2> QED
    BY <2>1, FaultsBounded DEF FaultStep, TypeInv, TypeOK
<1>4. ReconciliationTypeOK'
  <2>1. ReconciliationTypeOK
    BY DEF TypeInv, TypeOK
  <2>2. CASE ListFailed(w)
    BY <2>1, <2>2 DEF ListFailed, ReconciliationTypeOK, FailedChunks
  <2>3. CASE RetryEmbed(w) \/ RetryKilled(w)
    BY <2>1, <2>3 DEF RetryEmbed, RetryKilled, RetryGoTo, ReconciliationTypeOK
  <2>4. CASE RetrySaveRecords(w)
    BY <2>1, <2>4 DEF RetrySaveRecords, RetryGoTo, ReconciliationTypeOK
  <2>5. CASE RetryMarkReady(w)
    BY <2>1, <2>5 DEF RetryMarkReady, RetryGoTo, NextGroup, ReconciliationTypeOK
  <2>6. CASE RetryDeadLetter(w)
    BY <2>1, <2>6 DEF RetryDeadLetter, NextGroup, ReconciliationTypeOK
  <2> QED
    BY <2>2, <2>3, <2>4, <2>5, <2>6 DEF OperatorStep, RetryStep
<1>5. StoreTypeOK'
  BY <1>1, <1>2, WritesTyped DEF TypeInv, TypeOK
<1>6. IngestionTypeOK' /\ Started' /\ SystemTypeOK' /\ SeqBounded'
  BY <1>1 DEF TypeInv, TypeOK, IngestionTypeOK, Started, SystemTypeOK, SeqBounded,
     runVars, channelVars, operatorVars
<1> QED
  BY <1>3, <1>4, <1>5, <1>6 DEF TypeInv, TypeOK

\* No step of the system leaves the types.
LEMMA NextTypeInv == TypeInv /\ [Next]_vars => TypeInv'
<1> SUFFICES ASSUME TypeInv, [Next]_vars PROVE TypeInv'
  OBVIOUS
<1>1. CASE UNCHANGED vars
  BY <1>1 DEF vars, tables, runVars, retryVars, faultVars, channelVars, operatorVars,
     TypeInv, TypeOK, StoreTypeOK, IngestionTypeOK, ReconciliationTypeOK, FaultsTypeOK,
     SystemTypeOK, Started, SeqBounded
<1>2. CASE Next
  BY <1>1, <1>2, UserStepTypeInv, DeliverTypeInv, RespondTypeInv, HardDeleteTypeInv,
     HandlerStepTypeInv, OperatorStepTypeInv DEF Next, Rest
<1> QED
  BY <1>1, <1>2

\* Every reachable state of the tables, the handler runs, the retry runs, the
\* fault budgets and the channel is one the code's types allow.
THEOREM TypeCorrect == Spec => []TypeOK
<1>1. TypeInv => TypeOK
  BY DEF TypeInv
<1> QED
  BY <1>1, InitTypeInv, NextTypeInv, PTL DEF Spec

-----------------------------------------------------------------------------
(***************************************************************************)
(* The tables.  A row exists only under the rows it references, a source   *)
(* row is inserted once and never again once erased, and a run or a retry  *)
(* about to mark a chunk ready has its vector committed.                   *)
(***************************************************************************)
BeforeSource == {"unused", "get_or_create_source"}

Lineage ==
    /\ \A r \in Runs : note[r] # Absent => r \in sources
    /\ \A r \in Runs : chunk[r] # Absent => note[r] # Absent
    /\ \A r \in Runs : embedding[r] # Absent <=> chunk[r] # Absent
    /\ \A r \in records : chunk[r] # Absent
    /\ deadLetters \subseteq sources

UniqueKey ==
    \A r, s \in sources :
        Message(r) = Message(s) /\ inbound[r].seq = inbound[s].seq => r = s

SourceOnce ==
    /\ \A r \in Runs : pc[r] \in BeforeSource => r \notin sources \union erased
    /\ sources \intersect erased = {}
    /\ UniqueKey

RecordFirst ==
    /\ ReadyHasRecord
    /\ \A r \in Runs : pc[r] = "mark_ready" => r \in records \union erased
    /\ \A w \in Operators : retryPc[w] = "mark_ready" =>
          \A c \in Runs : IsCurrent(w, c) => c \in records \union erased

StoreInv == Lineage /\ SourceOnce /\ RecordFirst

-----------------------------------------------------------------------------
(***************************************************************************)
(* The revisions.  A run retires a note only after its own is saved, and   *)
(* the note it retires was saved before its own: so never the last one.    *)
(***************************************************************************)
BeforeNote == {"unused", "get_or_create_source", "reconstruct", "count_chunks",
               "get_active_note", "get_active_chunk", "save_note"}

Retiring == {"save_chunk", "mark_chunk", "mark_note"}

NotesAreSaved ==
    \A n \in Runs : note[n] # Absent =>
        pc[n] \notin BeforeNote /\ lastSaved[Message(n)] # NoRun

PriorsAreSaved ==
    \A r \in Runs : priorNote[r] # NoRun =>
        /\ pc[r] # "unused"
        /\ pc[priorNote[r]] \notin BeforeNote
        /\ Message(priorNote[r]) = Message(r)

LastSavedStands ==
    \A m \in Messages : lastSaved[m] # NoRun =>
        /\ pc[lastSaved[m]] \notin BeforeNote
        /\ Message(lastSaved[m]) = m
        /\ \/ note[lastSaved[m]] = "active"
           \/ RemovalBegun(m)
           \/ lastSaved[m] \in erased

LastSavedSpared ==
    \A r \in Runs : pc[r] \in Retiring /\ ~IsRemoval(r) =>
        priorNote[r] # lastSaved[Message(r)]

RevisionInv == NotesAreSaved /\ PriorsAreSaved /\ LastSavedStands /\ LastSavedSpared

-----------------------------------------------------------------------------
(***************************************************************************)
(* How a step moves: runs only go forward, and the tables only change by a *)
(* transaction whose constraints held.                                     *)
(***************************************************************************)
\* A run never returns to a place it has left for good, and what it handles
\* never changes once it has started.
Forward(r) ==
    /\ pc[r] # "unused" => pc'[r] # "unused" /\ inbound'[r] = inbound[r]
    /\ pc[r] \notin BeforeSource => pc'[r] \notin BeforeSource
    /\ pc[r] \notin BeforeNote => pc'[r] \notin BeforeNote

GuardedWrite ==
    \/ UNCHANGED tables
    \/ \E r \in Runs :
        \/ InsertSource(r)
        \/ CanSaveNote(r) /\ SaveNote(r)
        \/ CanSaveChunk(r) /\ SaveChunk(r)
        \/ CanSaveRecord(r) /\ SaveRecord(r)
        \/ CanSaveDeadLetter(r) /\ SaveDeadLetter(r)
        \/ CanDeleteSource(r) /\ DeleteSource(r)
    \/ \E c, state : /\ state \in LifecycleState
                     /\ \/ CanMarkChunk(c) /\ MarkChunk(c, state)
                        \/ CanMarkNote(c) /\ MarkNote(c, state)
    \/ \E c, status : /\ status \in EmbeddingStatus
                      /\ CanSetEmbedding(c) /\ SetEmbedding(c, status)

\* A handler run's step moves only that run, and it forward.
LEMMA HandlerForward ==
  ASSUME TypeInv, NEW r \in Runs, HandlerStep(r)
  PROVE  UNCHANGED inbound /\ \A k \in Runs : Forward(k)
<1>1. IngestionTypeOK
  BY DEF TypeInv, TypeOK
<1>2. CASE GetOrCreateSource(r) \/ Reconstruct(r) \/ CountChunks(r)
  BY <1>1, <1>2 DEF GetOrCreateSource, Reconstruct, CountChunks, GoTo, Finish, Raise,
     Forward, BeforeSource, BeforeNote, IngestionTypeOK
<1>3. CASE GetActiveNote(r) \/ GetActiveChunk(r)
  BY <1>1, <1>3 DEF GetActiveNote, GetActiveChunk, RetireFrom, GoTo, Finish,
     Forward, BeforeSource, BeforeNote, IngestionTypeOK
<1>4. CASE IngestSaveNote(r) \/ IngestSaveChunk(r)
  BY <1>1, <1>4 DEF IngestSaveNote, IngestSaveChunk, AfterSaving, RetireFrom, GoTo,
     Finish, Raise, Forward, BeforeSource, BeforeNote, IngestionTypeOK
<1>5. CASE RetireChunk(r) \/ RetireNote(r)
  BY <1>1, <1>5 DEF RetireChunk, RetireNote, GoTo, Finish, Raise,
     Forward, BeforeSource, BeforeNote, IngestionTypeOK
<1>6. CASE Embed(r) \/ MarkFailed(r) \/ WriteDeadLetter(r)
  BY <1>1, <1>6 DEF Embed, MarkFailed, WriteDeadLetter, GoTo, Finish, Raise,
     Forward, BeforeSource, BeforeNote, IngestionTypeOK
<1>7. CASE SaveRecords(r) \/ MarkReady(r) \/ FailRun(r)
  BY <1>1, <1>7 DEF SaveRecords, MarkReady, FailRun, GoTo, Finish, Raise,
     Forward, BeforeSource, BeforeNote, IngestionTypeOK
<1> QED
  BY <1>2, <1>3, <1>4, <1>5, <1>6, <1>7 DEF HandlerStep, RunStep

\* Steps of the user, of the operators and of the channel leave runs alone,
\* but for the one a delivery starts and the one an answer ends.
LEMMA NextForward ==
  ASSUME TypeInv, [Next]_vars
  PROVE  \A k \in Runs : Forward(k)
<1>1. IngestionTypeOK /\ StoreTypeOK
  BY DEF TypeInv, TypeOK
<1>2. CASE UNCHANGED vars \/ UserStep \/ Rest
  BY <1>2 DEF vars, UserStep, Rest, runVars, Forward
<1>3. ASSUME NEW u \in pending, Deliver(u) PROVE \A k \in Runs : Forward(k)
  BY <1>1, <1>3 DEF Deliver, StartRun, GoTo, Forward, BeforeSource, BeforeNote,
     IngestionTypeOK, StoreTypeOK
<1>4. ASSUME NEW r \in Runs, HandlerStep(r) PROVE \A k \in Runs : Forward(k)
  BY <1>4, HandlerForward
<1>5. ASSUME NEW r \in Runs, Respond(r) PROVE \A k \in Runs : Forward(k)
  BY <1>1, <1>5 DEF Respond, GoTo, Forward, BeforeSource, BeforeNote, IngestionTypeOK
<1>6. ASSUME NEW r \in Runs, HardDelete(r) PROVE \A k \in Runs : Forward(k)
  BY <1>6 DEF HardDelete, Forward, runVars
<1>7. ASSUME NEW w \in Operators, OperatorStep(w) PROVE \A k \in Runs : Forward(k)
  BY <1>7 DEF OperatorStep, RetryStep, RetryKilled, ListFailed, RetryEmbed,
     RetrySaveRecords, RetryMarkReady, RetryDeadLetter, Forward, runVars
<1> QED
  BY <1>2, <1>3, <1>4, <1>5, <1>6, <1>7 DEF Next

\* Every change of the tables is one committed transaction.
LEMMA NextGuarded ==
  ASSUME TypeInv, [Next]_vars
  PROVE  GuardedWrite
<1>1. CASE UNCHANGED vars \/ UserStep \/ Rest
  BY <1>1 DEF vars, UserStep, Rest, GuardedWrite, tables
<1>2. ASSUME NEW u \in pending, Deliver(u) PROVE GuardedWrite
  BY <1>2 DEF Deliver, StartRun, GuardedWrite
<1>3. ASSUME NEW r \in Runs, HandlerStep(r) PROVE GuardedWrite
  <2>1. RetiredState(r) \in LifecycleState
    BY RetiredStateTyped
  <2>2. CASE GetOrCreateSource(r) \/ Reconstruct(r) \/ CountChunks(r)
             \/ GetActiveNote(r) \/ GetActiveChunk(r) \/ Embed(r) \/ FailRun(r)
    BY <2>2 DEF GetOrCreateSource, Reconstruct, CountChunks, GetActiveNote,
       GetActiveChunk, Embed, FailRun, Raise, GuardedWrite
  <2>3. CASE IngestSaveNote(r) \/ IngestSaveChunk(r)
    BY <2>3 DEF IngestSaveNote, IngestSaveChunk, Raise, GuardedWrite
  <2>4. CASE RetireChunk(r) \/ RetireNote(r)
    BY <2>1, <2>4 DEF RetireChunk, RetireNote, Raise, GuardedWrite
  <2>5. CASE MarkFailed(r) \/ MarkReady(r)
    BY <2>5 DEF MarkFailed, MarkReady, Raise, GuardedWrite, EmbeddingStatus
  <2>6. CASE WriteDeadLetter(r) \/ SaveRecords(r)
    BY <2>6 DEF WriteDeadLetter, SaveRecords, Raise, GuardedWrite
  <2> QED
    BY <1>3, <2>2, <2>3, <2>4, <2>5, <2>6 DEF HandlerStep, RunStep
<1>4. ASSUME NEW r \in Runs, Respond(r) \/ HardDelete(r) PROVE GuardedWrite
  BY <1>4 DEF Respond, HardDelete, GuardedWrite
<1>5. ASSUME NEW w \in Operators, OperatorStep(w) PROVE GuardedWrite
  BY <1>5 DEF OperatorStep, RetryStep, RetryKilled, ListFailed, RetryEmbed,
     RetrySaveRecords, RetryMarkReady, RetryDeadLetter, GuardedWrite, EmbeddingStatus
<1> QED
  BY <1>1, <1>2, <1>3, <1>4, <1>5 DEF Next

-----------------------------------------------------------------------------
(***************************************************************************)
(* The tables.                                                             *)
(***************************************************************************)
\* Foreign keys, row counts and the order of hard_delete's statements keep
\* every row under the rows it references.
LEMMA LineageKept ==
  ASSUME TypeInv, Lineage, GuardedWrite
  PROVE  Lineage'
<1>1. StoreTypeOK
  BY DEF TypeInv, TypeOK
<1>2. CASE UNCHANGED tables
  BY <1>2 DEF Lineage, tables
<1>3. ASSUME NEW r \in Runs, InsertSource(r) PROVE Lineage'
  BY <1>3 DEF Lineage, InsertSource
<1>4. ASSUME NEW r \in Runs, CanSaveNote(r), SaveNote(r) PROVE Lineage'
  BY <1>1, <1>4 DEF Lineage, CanSaveNote, SaveNote, StoreTypeOK, Absent
<1>5. ASSUME NEW r \in Runs, CanSaveChunk(r), SaveChunk(r) PROVE Lineage'
  BY <1>1, <1>5 DEF Lineage, CanSaveChunk, SaveChunk, StoreTypeOK, Absent
<1>6. ASSUME NEW r \in Runs, CanSaveRecord(r), SaveRecord(r) PROVE Lineage'
  BY <1>1, <1>6 DEF Lineage, CanSaveRecord, SaveRecord
<1>7. ASSUME NEW r \in Runs, CanSaveDeadLetter(r), SaveDeadLetter(r) PROVE Lineage'
  BY <1>7 DEF Lineage, CanSaveDeadLetter, SaveDeadLetter
<1>8. ASSUME NEW r \in Runs, CanDeleteSource(r), DeleteSource(r) PROVE Lineage'
  BY <1>1, <1>8 DEF Lineage, CanDeleteSource, DeleteSource, StoreTypeOK
<1>9. ASSUME NEW c, NEW state \in LifecycleState, CanMarkChunk(c), MarkChunk(c, state)
      PROVE  Lineage'
  BY <1>1, <1>9 DEF Lineage, CanMarkChunk, MarkChunk, StoreTypeOK, LifecycleState, Absent
<1>10. ASSUME NEW n, NEW state \in LifecycleState, CanMarkNote(n), MarkNote(n, state)
       PROVE  Lineage'
  BY <1>1, <1>10 DEF Lineage, CanMarkNote, MarkNote, StoreTypeOK, LifecycleState, Absent
<1>11. ASSUME NEW c, NEW status \in EmbeddingStatus, CanSetEmbedding(c), SetEmbedding(c, status)
       PROVE  Lineage'
  BY <1>1, <1>11 DEF Lineage, CanSetEmbedding, SetEmbedding, StoreTypeOK,
     EmbeddingStatus, Absent
<1> QED
  BY <1>2, <1>3, <1>4, <1>5, <1>6, <1>7, <1>8, <1>9, <1>10, <1>11 DEF GuardedWrite

\* The source rows grow by the insertion of a run that had none and finds no
\* row of its message state, and shrink by erasure.
SourceStep ==
    \/ UNCHANGED <<sources, erased>>
    \/ \E r \in Runs : /\ pc[r] = "get_or_create_source"
                       /\ Persisted(r) = {}
                       /\ sources' = sources \union {r}
                       /\ pc'[r] \notin BeforeSource
                       /\ UNCHANGED erased
    \/ \E r \in sources : sources' = sources \ {r} /\ erased' = erased \union {r}

\* No step changes the source rows otherwise.
LEMMA NextSourceStep ==
  ASSUME TypeInv, [Next]_vars
  PROVE  SourceStep
<1>1. IngestionTypeOK
  BY DEF TypeInv, TypeOK
<1>2. CASE UNCHANGED vars \/ UserStep \/ Rest
  BY <1>2 DEF vars, UserStep, Rest, SourceStep, tables, operatorVars
<1>3. ASSUME NEW u \in pending, Deliver(u) PROVE SourceStep
  BY <1>3 DEF Deliver, StartRun, SourceStep, tables, operatorVars
<1>4. ASSUME NEW r \in Runs, HandlerStep(r) PROVE SourceStep
  <2>1. CASE GetOrCreateSource(r)
    BY <1>1, <1>4, <2>1 DEF HandlerStep, GetOrCreateSource, InsertSource, GoTo, Finish,
       SourceStep, BeforeSource, tables, operatorVars, IngestionTypeOK
  <2>2. CASE ~GetOrCreateSource(r)
    <3>1. UNCHANGED sources
      BY <1>4, <2>2 DEF HandlerStep, RunStep, FailRun, Reconstruct, CountChunks,
         GetActiveNote, GetActiveChunk, IngestSaveNote, IngestSaveChunk, RetireChunk,
         RetireNote, Embed, MarkFailed, WriteDeadLetter, SaveRecords, MarkReady,
         SaveNote, SaveChunk, MarkChunk, MarkNote, SetEmbedding, SaveRecord,
         SaveDeadLetter, Raise, tables
    <3> QED
      BY <1>4, <3>1 DEF HandlerStep, SourceStep, operatorVars
  <2> QED
    BY <2>1, <2>2
<1>5. ASSUME NEW r \in Runs, Respond(r) PROVE SourceStep
  BY <1>5 DEF Respond, SourceStep, tables, operatorVars
<1>6. ASSUME NEW r \in Runs, HardDelete(r) PROVE SourceStep
  BY <1>6 DEF HardDelete, DeleteSource, SourceStep, tables
<1>7. ASSUME NEW w \in Operators, OperatorStep(w) PROVE SourceStep
  BY <1>7 DEF OperatorStep, RetryStep, RetryKilled, ListFailed, RetryEmbed,
     RetrySaveRecords, RetryMarkReady, RetryDeadLetter, SaveRecord, SetEmbedding,
     SaveDeadLetter, SourceStep, tables, operatorVars
<1> QED
  BY <1>2, <1>3, <1>4, <1>5, <1>6, <1>7 DEF Next

\* The unique key on the message state holds, and an erased row never returns.
LEMMA SourceOnceKept ==
  ASSUME TypeInv, SourceOnce, [Next]_vars
  PROVE  SourceOnce'
<1>1. \A k \in Runs : Forward(k)
  BY NextForward
<1>2. SourceStep
  BY NextSourceStep
<1>3. sources \subseteq Runs /\ erased \subseteq Runs
  BY DEF TypeInv, TypeOK, StoreTypeOK, SystemTypeOK
<1>4. \A k \in sources : inbound'[k] = inbound[k]
  BY <1>1, <1>3 DEF SourceOnce, Forward, BeforeSource
<1>5. (\A k \in Runs : pc[k] \in BeforeSource => k \notin sources \union erased)'
  BY <1>1, <1>2, <1>3 DEF SourceOnce, SourceStep, Forward
<1>6. (sources \intersect erased = {})'
  BY <1>2, <1>3 DEF SourceOnce, SourceStep, BeforeSource
<1>7. UniqueKey'
  <2>1. CASE UNCHANGED <<sources, erased>>
    BY <1>4, <2>1 DEF SourceOnce, UniqueKey, Message
  <2>2. ASSUME NEW r \in Runs, pc[r] = "get_or_create_source", Persisted(r) = {},
               sources' = sources \union {r}
        PROVE  UniqueKey'
    <3>1. inbound'[r] = inbound[r]
      BY <1>1, <2>2 DEF Forward
    <3> QED
      BY <1>4, <2>2, <3>1 DEF SourceOnce, UniqueKey, Message, Persisted
  <2>3. ASSUME NEW r \in sources, sources' = sources \ {r}
        PROVE  UniqueKey'
    BY <1>4, <2>3 DEF SourceOnce, UniqueKey, Message
  <2> QED
    BY <1>2, <2>1, <2>2, <2>3 DEF SourceStep
<1> QED
  BY <1>5, <1>6, <1>7 DEF SourceOnce

\* Records before status, in the ingest and in the retry: what is marked ready
\* has its vector, or is gone and cannot be marked.
LEMMA RecordFirstKept ==
  ASSUME TypeInv, Lineage, SourceOnce, RecordFirst, [Next]_vars
  PROVE  RecordFirst'
<1>1. StoreTypeOK /\ IngestionTypeOK /\ ReconciliationTypeOK
  BY DEF TypeInv, TypeOK
<1>2. CASE UNCHANGED vars \/ UserStep \/ Rest
  BY <1>2 DEF vars, UserStep, Rest, RecordFirst, ReadyHasRecord, IsCurrent,
     tables, runVars, retryVars, operatorVars
<1>3. ASSUME NEW u \in pending, Deliver(u) PROVE RecordFirst'
  BY <1>1, <1>3 DEF Deliver, StartRun, GoTo, RecordFirst, ReadyHasRecord, IsCurrent,
     IngestionTypeOK, tables, retryVars, operatorVars
<1>4. ASSUME NEW r \in Runs, HandlerStep(r) PROVE RecordFirst'
  <2>1. UNCHANGED <<retryVars, operatorVars>>
    BY <1>4 DEF HandlerStep
  <2>2. CASE SaveRecords(r)
    BY <1>1, <2>1, <2>2 DEF SaveRecords, SaveRecord, GoTo, Raise, RecordFirst,
       ReadyHasRecord, IsCurrent, IngestionTypeOK, tables, retryVars, operatorVars
  <2>3. CASE MarkReady(r)
    <3>1. CanSetEmbedding(r) => r \in records
      BY <2>3 DEF MarkReady, CanSetEmbedding, Lineage, SourceOnce, RecordFirst
    <3> QED
      BY <1>1, <2>1, <2>3, <3>1 DEF MarkReady, SetEmbedding, Finish, Raise, RecordFirst,
         ReadyHasRecord, IsCurrent, StoreTypeOK, IngestionTypeOK, tables, retryVars,
         operatorVars
  <2>4. CASE ~SaveRecords(r) /\ ~MarkReady(r)
    <3>1. /\ UNCHANGED records
          /\ \A c \in Runs : embedding'[c] = "ready" => embedding[c] = "ready"
      BY <1>1, <1>4, <2>4 DEF HandlerStep, RunStep, FailRun, GetOrCreateSource,
         Reconstruct, CountChunks, GetActiveNote, GetActiveChunk, IngestSaveNote,
         IngestSaveChunk, RetireChunk, RetireNote, Embed, MarkFailed, WriteDeadLetter,
         InsertSource, SaveNote, SaveChunk, MarkChunk, MarkNote, SetEmbedding,
         SaveDeadLetter, Raise, StoreTypeOK, tables
    <3>2. \A k \in Runs : pc'[k] = "mark_ready" => pc[k] = "mark_ready"
      BY <1>1, <1>4, <2>4 DEF HandlerStep, RunStep, FailRun, GetOrCreateSource,
         Reconstruct, CountChunks, GetActiveNote, GetActiveChunk, IngestSaveNote,
         IngestSaveChunk, RetireChunk, RetireNote, Embed, MarkFailed, WriteDeadLetter,
         AfterSaving, RetireFrom, GoTo, Finish, Raise, IngestionTypeOK
    <3> QED
      BY <2>1, <3>1, <3>2 DEF RecordFirst, ReadyHasRecord, IsCurrent, retryVars,
         operatorVars
  <2> QED
    BY <2>2, <2>3, <2>4
<1>5. ASSUME NEW r \in Runs, Respond(r) PROVE RecordFirst'
  BY <1>1, <1>5 DEF Respond, GoTo, RecordFirst, ReadyHasRecord, IsCurrent,
     IngestionTypeOK, tables, retryVars, operatorVars
<1>6. ASSUME NEW r \in Runs, HardDelete(r) PROVE RecordFirst'
  BY <1>1, <1>6 DEF HardDelete, DeleteSource, RecordFirst, ReadyHasRecord, IsCurrent,
     StoreTypeOK, Absent, tables, runVars, retryVars
<1>7. ASSUME NEW w \in Operators, OperatorStep(w) PROVE RecordFirst'
  <2>1. UNCHANGED <<runVars, operatorVars>>
    BY <1>7 DEF OperatorStep
  <2>2. CASE RetrySaveRecords(w)
    BY <1>1, <2>1, <2>2 DEF RetrySaveRecords, SaveRecord, RetryGoTo, IsCurrent, Runs,
       RecordFirst, ReadyHasRecord, ReconciliationTypeOK, tables, runVars, operatorVars
  <2>3. CASE RetryMarkReady(w)
    <3>1. PICK c \in Runs :
            /\ IsCurrent(w, c)
            /\ \/ CanSetEmbedding(c) /\ SetEmbedding(c, "ready") /\ NextGroup(w, c)
               \/ UNCHANGED tables /\ RetryGoTo(w, "dead_letter")
      BY <2>3 DEF RetryMarkReady
    <3>2. CanSetEmbedding(c) => c \in records
      BY <2>3, <3>1 DEF RetryMarkReady, CanSetEmbedding, Lineage, SourceOnce, RecordFirst
    <3>3. \A k \in Operators :
            retryPc'[k] = "mark_ready" => /\ retryPc[k] = "mark_ready"
                                          /\ worklist'[k] = worklist[k]
      BY <1>1, <3>1 DEF NextGroup, RetryGoTo, ReconciliationTypeOK
    <3>4. UNCHANGED records /\ ReadyHasRecord'
      BY <1>1, <3>1, <3>2 DEF SetEmbedding, RecordFirst, ReadyHasRecord, StoreTypeOK, tables
    <3> QED
      BY <2>1, <3>3, <3>4 DEF RecordFirst, IsCurrent, runVars, operatorVars
  <2>4. CASE ListFailed(w) \/ RetryEmbed(w) \/ RetryDeadLetter(w) \/ RetryKilled(w)
    <3>1. UNCHANGED <<records, embedding>>
      BY <2>4 DEF ListFailed, RetryEmbed, RetryDeadLetter, RetryKilled, SaveDeadLetter, tables
    <3>2. \A k \in Operators :
            retryPc'[k] = "mark_ready" => /\ retryPc[k] = "mark_ready"
                                          /\ worklist'[k] = worklist[k]
      BY <1>1, <2>4 DEF ListFailed, RetryEmbed, RetryDeadLetter, RetryKilled, RetryGoTo,
         NextGroup, ReconciliationTypeOK
    <3> QED
      BY <2>1, <3>1, <3>2 DEF RecordFirst, ReadyHasRecord, IsCurrent, runVars, operatorVars
  <2> QED
    BY <1>7, <2>2, <2>3, <2>4 DEF OperatorStep, RetryStep
<1> QED
  BY <1>2, <1>3, <1>4, <1>5, <1>6, <1>7 DEF Next

\* The tables' invariant holds of every behaviour.
LEMMA StoreInvariant == Spec => [](TypeInv /\ StoreInv)
<1>1. ASSUME Init PROVE StoreInv
  <2>1. Lineage
    BY <1>1 DEF Init, StoreInit, Lineage
  <2>2. SourceOnce
    BY <1>1 DEF Init, StoreInit, SourceOnce, UniqueKey
  <2>3. RecordFirst
    BY <1>1 DEF Init, StoreInit, IngestionInit, ReconciliationInit, RecordFirst,
       ReadyHasRecord, Absent
  <2> QED
    BY <2>1, <2>2, <2>3 DEF StoreInv
<1>2. TypeInv /\ StoreInv /\ [Next]_vars => StoreInv'
  BY LineageKept, SourceOnceKept, RecordFirstKept, NextGuarded DEF StoreInv
<1> QED
  BY <1>1, <1>2, InitTypeInv, NextTypeInv, PTL DEF Spec

\* A chunk is never ready without its embedding record, whatever ingests,
\* retries, erasures and failures interleave.
THEOREM ReadyChunksHaveRecords == Spec => []ReadyHasRecord
<1>1. StoreInv => ReadyHasRecord
  BY DEF StoreInv, RecordFirst
<1> QED
  BY <1>1, StoreInvariant, PTL

\* Nothing derived from an erased source row is ever written again.
THEOREM ErasureIsFinal == Spec => []ErasedStaysErased
<1>1. TypeInv /\ StoreInv => ErasedStaysErased
  BY DEF TypeInv, TypeOK, SystemTypeOK, StoreTypeOK, StoreInv, Lineage, SourceOnce, ErasedStaysErased
<1> QED
  BY <1>1, StoreInvariant, PTL

\* A message state never has two notes, however often and however
\* concurrently it is delivered (R-2).
THEOREM IngestIsIdempotent == Spec => []OneNotePerMessageState
<1>1. TypeInv /\ StoreInv => OneNotePerMessageState
  BY DEF StoreInv, Lineage, SourceOnce, UniqueKey, OneNotePerMessageState
<1> QED
  BY <1>1, StoreInvariant, PTL

-----------------------------------------------------------------------------
(***************************************************************************)
(* The revisions.                                                          *)
(***************************************************************************)
\* What a step that saves no note and looks none up may do: the newest saved
\* note loses its active state only to a removal or an erasure, and no run
\* but a removal starts retiring.
RevisionFrame ==
    /\ UNCHANGED <<priorNote, lastSaved>>
    /\ erased \subseteq erased'
    /\ \A n \in Runs : note'[n] # Absent => note[n] # Absent
    /\ \A n \in Runs : note[n] = "active" /\ n = lastSaved[Message(n)] =>
          \/ note'[n] = "active"
          \/ RemovalBegun(Message(n))
          \/ n \in erased'
    /\ \A k \in Runs : pc'[k] \in Retiring => pc[k] \in Retiring \/ IsRemoval(k)'

\* A removal that began has begun for good.
LEMMA RemovalStaysBegun ==
  ASSUME \A k \in Runs : Forward(k), NEW m, RemovalBegun(m)
  PROVE  RemovalBegun(m)'
  BY DEF RemovalBegun, Forward, IsRemoval, Kind, Message

\* A step within the frame keeps the revisions' invariant.
LEMMA FrameKeepsRevisions ==
  ASSUME TypeInv, RevisionInv, \A k \in Runs : Forward(k), RevisionFrame
  PROVE  RevisionInv'
<1>1. IngestionTypeOK
  BY DEF TypeInv, TypeOK
<1>2. NotesAreSaved'
  BY <1>1 DEF RevisionInv, NotesAreSaved, RevisionFrame, Forward, Message, BeforeNote
<1>3. PriorsAreSaved'
  BY <1>1 DEF RevisionInv, PriorsAreSaved, RevisionFrame, Forward, Message, BeforeNote,
     IngestionTypeOK, NoRun
<1>4. LastSavedStands'
  <2> SUFFICES ASSUME NEW m \in Messages, lastSaved'[m] # NoRun
      PROVE  /\ pc'[lastSaved'[m]] \notin BeforeNote
             /\ inbound'[lastSaved'[m]].msg = m
             /\ \/ note'[lastSaved'[m]] = "active"
                \/ RemovalBegun(m)'
                \/ lastSaved'[m] \in erased'
    BY DEF LastSavedStands, RemovalBegun, Message
  <2>1. lastSaved' = lastSaved /\ lastSaved[m] \in Runs
    BY <1>1 DEF RevisionFrame, IngestionTypeOK
  <2>2. /\ pc[lastSaved[m]] \notin BeforeNote
        /\ Message(lastSaved[m]) = m
        /\ note[lastSaved[m]] = "active" \/ RemovalBegun(m) \/ lastSaved[m] \in erased
    BY <2>1 DEF RevisionInv, LastSavedStands
  <2>3. pc'[lastSaved[m]] \notin BeforeNote /\ inbound'[lastSaved[m]].msg = m
    BY <2>1, <2>2 DEF Forward, Message, BeforeNote
  <2>4. note'[lastSaved[m]] = "active" \/ RemovalBegun(m) \/ lastSaved[m] \in erased'
    BY <2>1, <2>2 DEF RevisionFrame
  <2> QED
    BY <2>1, <2>3, <2>4, RemovalStaysBegun
<1>5. LastSavedSpared'
  BY <1>1 DEF RevisionInv, LastSavedSpared, RevisionFrame, Forward, Message, IsRemoval,
     Kind, Retiring
<1> QED
  BY <1>2, <1>3, <1>4, <1>5 DEF RevisionInv

\* The prior note a run reads was saved, so its own save will come later.
LEMMA LookupKeepsRevisions ==
  ASSUME TypeInv, RevisionInv, NEW r \in Runs, HandlerStep(r), GetActiveNote(r)
  PROVE  RevisionInv'
<1>1. IngestionTypeOK /\ StoreTypeOK
  BY DEF TypeInv, TypeOK
<1>2. UNCHANGED inbound /\ \A k \in Runs : Forward(k)
  BY HandlerForward
<1>3. CASE UNCHANGED priorNote
  <2>1. RevisionFrame
    BY <1>1, <1>3 DEF GetActiveNote, HandlerStep, GoTo, Finish, RevisionFrame, tables,
       operatorVars, IngestionTypeOK, Retiring
  <2> QED
    BY <1>2, <2>1, FrameKeepsRevisions
<1>4. ASSUME NEW n \in Runs, IsNewest(n, ActiveNotes(Message(r))),
             priorNote' = [priorNote EXCEPT ![r] = n], GoTo(r, "get_active_chunk")
      PROVE  RevisionInv'
  <2>1. UNCHANGED <<note, lastSaved, erased>>
    BY DEF GetActiveNote, HandlerStep, tables, operatorVars
  <2>2. /\ note[n] = "active"
        /\ Message(n) = Message(r)
    BY <1>4 DEF IsNewest, ActiveNotes, Message
  <2>3. NotesAreSaved'
    BY <1>2, <2>1 DEF RevisionInv, NotesAreSaved, Forward, Message
  <2>4. PriorsAreSaved'
    <3>1. pc[n] \notin BeforeNote
      BY <2>2 DEF RevisionInv, NotesAreSaved, Absent
    <3>2. \A k \in Runs : priorNote'[k] # NoRun => priorNote'[k] \in Runs
      BY <1>1, <1>4 DEF IngestionTypeOK
    <3> QED
      BY <1>1, <1>2, <1>4, <2>2, <3>1, <3>2 DEF RevisionInv, PriorsAreSaved, Forward,
         Message, GoTo, IngestionTypeOK
  <2>5. LastSavedStands'
    <3>1. \A m \in Messages : lastSaved[m] # NoRun => lastSaved[m] \in Runs
      BY <1>1 DEF IngestionTypeOK
    <3> QED
      BY <1>2, <2>1, <3>1, RemovalStaysBegun DEF RevisionInv, LastSavedStands, Forward, Message
  <2>6. LastSavedSpared'
    BY <1>1, <1>2, <1>4, <2>1 DEF RevisionInv, LastSavedSpared, GoTo, Retiring, Message,
       IsRemoval, Kind, IngestionTypeOK
  <2> QED
    BY <2>3, <2>4, <2>5, <2>6 DEF RevisionInv
<1> QED
  BY <1>3, <1>4 DEF GetActiveNote

\* A note just saved is nobody's prior note: what any run is about to retire
\* was saved before.
LEMMA SavingKeepsRevisions ==
  ASSUME TypeInv, RevisionInv, NEW r \in Runs, HandlerStep(r), IngestSaveNote(r), SaveNote(r),
         lastSaved' = [lastSaved EXCEPT ![Message(r)] = r],
         IF Kind(r) = "note" THEN GoTo(r, "save_chunk") ELSE AfterSaving(r)
  PROVE  RevisionInv'
<1>1. IngestionTypeOK /\ StoreTypeOK
  BY DEF TypeInv, TypeOK
<1>2. UNCHANGED inbound /\ \A k \in Runs : Forward(k)
  BY HandlerForward
<1>3. pc[r] = "save_note" /\ UNCHANGED <<priorNote, erased>>
  BY DEF IngestSaveNote, HandlerStep, operatorVars
<1>4. Message(r) \in Messages
  BY <1>3 DEF TypeInv, Started, Updates, Message
<1>5. pc'[r] \notin BeforeNote
  BY <1>1 DEF AfterSaving, RetireFrom, GoTo, Finish, IngestionTypeOK, BeforeNote
<1>6. /\ note'[r] = "active"
      /\ \A k \in Runs \ {r} : note'[k] = note[k]
  BY <1>1 DEF SaveNote, StoreTypeOK
<1>7. /\ lastSaved'[Message(r)] = r
      /\ \A m \in Messages \ {Message(r)} : lastSaved'[m] = lastSaved[m]
  BY <1>1, <1>4 DEF IngestionTypeOK
<1>8. \A k \in Runs \ {r} : pc'[k] = pc[k]
  BY <1>1 DEF AfterSaving, GoTo, Finish, IngestionTypeOK
<1>9. \A k \in Runs : pc[k] # "unused" => Message(k) \in Messages
  BY DEF TypeInv, Started, Updates, Message
<1>10. r # NoRun
  BY DEF Runs, NoRun
<1>11. NotesAreSaved'
  BY <1>2, <1>5, <1>6, <1>7, <1>8, <1>9, <1>10 DEF RevisionInv, NotesAreSaved, Message, BeforeNote
<1>12. PriorsAreSaved'
  <2>1. \A k \in Runs : priorNote[k] # NoRun => priorNote[k] \in Runs
    BY <1>1 DEF IngestionTypeOK
  <2> QED
    BY <1>2, <1>3, <2>1 DEF RevisionInv, PriorsAreSaved, Forward, Message
<1>13. LastSavedStands'
  <2>1. \A m \in Messages : lastSaved[m] # NoRun => lastSaved[m] \in Runs
    BY <1>1 DEF IngestionTypeOK
  <2>2. \A m \in Messages \ {Message(r)} : lastSaved[m] # r
    BY <1>10 DEF RevisionInv, LastSavedStands
  <2> QED
    BY <1>2, <1>3, <1>5, <1>6, <1>7, <2>1, <2>2, RemovalStaysBegun
       DEF RevisionInv, LastSavedStands, Forward, Message
<1>14. LastSavedSpared'
  <2>1. \A k \in Runs : priorNote[k] # r
    BY <1>3, <1>10 DEF RevisionInv, PriorsAreSaved, BeforeNote
  <2> QED
    BY <1>2, <1>3, <1>7, <1>8, <1>9, <2>1 DEF RevisionInv, LastSavedSpared, Retiring, Message,
       IsRemoval, Kind
<1> QED
  BY <1>11, <1>12, <1>13, <1>14 DEF RevisionInv

\* A run retires the note it read, which is the newest saved one only when it
\* removes the message.
LEMMA RetiringWithinFrame ==
  ASSUME TypeInv, RevisionInv, NEW r \in Runs, HandlerStep(r), RetireNote(r)
  PROVE  RevisionFrame
<1>1. IngestionTypeOK /\ StoreTypeOK
  BY DEF TypeInv, TypeOK
<1>2. pc[r] = "mark_note" /\ UNCHANGED <<priorNote, lastSaved, erased>>
  BY DEF RetireNote, UnchangedLocals, HandlerStep, operatorVars
<1>3. \A k \in Runs : pc'[k] \in Retiring => pc[k] \in Retiring
  BY <1>1 DEF RetireNote, GoTo, Finish, Raise, IngestionTypeOK, Retiring
<1>4. /\ \A n \in Runs : note'[n] # Absent => note[n] # Absent
      /\ \A n \in Runs : n # priorNote[r] => note'[n] = note[n]
  BY <1>1 DEF RetireNote, CanMarkNote, MarkNote, Raise, StoreTypeOK, tables
<1>5. ASSUME NEW n \in Runs, n = priorNote[r], n = lastSaved[Message(n)]
      PROVE  RemovalBegun(Message(n))
  <2>1. Message(n) = Message(r)
    BY <1>5 DEF RevisionInv, PriorsAreSaved, Runs, NoRun
  <2>2. IsRemoval(r)
    BY <1>2, <1>5, <2>1 DEF RevisionInv, LastSavedSpared, Retiring
  <2> QED
    BY <1>2, <2>1, <2>2 DEF RemovalBegun
<1> QED
  BY <1>2, <1>3, <1>4, <1>5 DEF RevisionFrame

\* Every other step of a handler run leaves notes, priors and the newest
\* saved note alone.
LEMMA OtherStepsWithinFrame ==
  ASSUME TypeInv, NEW r \in Runs, HandlerStep(r), ~GetActiveNote(r), ~RetireNote(r),
         IngestSaveNote(r) => Raise(r) /\ UNCHANGED lastSaved
  PROVE  RevisionFrame
<1>1. IngestionTypeOK
  BY DEF TypeInv, TypeOK
<1>2. UNCHANGED <<priorNote, erased>>
  BY DEF HandlerStep, RunStep, FailRun, GetOrCreateSource, Reconstruct, CountChunks,
     GetActiveChunk, IngestSaveNote, IngestSaveChunk, RetireChunk, Embed, MarkFailed,
     WriteDeadLetter, SaveRecords, MarkReady, UnchangedLocals, operatorVars
<1>3. UNCHANGED <<note, lastSaved>>
  BY DEF HandlerStep, RunStep, FailRun, GetOrCreateSource, Reconstruct, CountChunks,
     GetActiveChunk, IngestSaveChunk, RetireChunk, Embed, MarkFailed,
     WriteDeadLetter, SaveRecords, MarkReady, InsertSource, SaveChunk, MarkChunk,
     SetEmbedding, SaveRecord, SaveDeadLetter, Raise, UnchangedLocals, tables
<1>4. \A k \in Runs : pc'[k] \in Retiring => pc[k] \in Retiring \/ IsRemoval(k)'
  <2>1. CASE GetActiveChunk(r)
    BY <1>1, <2>1 DEF GetActiveChunk, GoTo, Retiring, IsRemoval, Kind, IngestionTypeOK
  <2>2. CASE IngestSaveNote(r) /\ Raise(r)
    BY <1>1, <2>2 DEF Raise, Retiring, IngestionTypeOK
  <2>3. CASE ~GetActiveChunk(r) /\ ~IngestSaveNote(r)
    BY <1>1, <2>3 DEF HandlerStep, RunStep, FailRun, GetOrCreateSource, Reconstruct,
       CountChunks, IngestSaveChunk, AfterSaving, RetireFrom, RetireChunk, Embed,
       MarkFailed, WriteDeadLetter, SaveRecords, MarkReady, GoTo, Finish, Raise,
       Retiring, IngestionTypeOK
  <2> QED
    BY <2>1, <2>2, <2>3
<1> QED
  BY <1>2, <1>3, <1>4 DEF RevisionFrame

\* Every step of the system keeps the revisions' invariant.
LEMMA RevisionInvKept ==
  ASSUME TypeInv, RevisionInv, [Next]_vars
  PROVE  RevisionInv'
<1>1. StoreTypeOK /\ IngestionTypeOK
  BY DEF TypeInv, TypeOK
<1>2. \A k \in Runs : Forward(k)
  BY NextForward
<1>3. CASE UNCHANGED vars \/ UserStep \/ Rest
  <2>1. RevisionFrame
    BY <1>3 DEF vars, UserStep, Rest, RevisionFrame, tables, runVars, operatorVars
  <2> QED
    BY <1>2, <2>1, FrameKeepsRevisions
<1>4. ASSUME NEW u \in pending, Deliver(u) PROVE RevisionInv'
  <2>1. RevisionFrame
    BY <1>1, <1>4 DEF Deliver, StartRun, GoTo, RevisionFrame, Retiring, UnchangedLocals,
       IngestionTypeOK, tables, operatorVars
  <2> QED
    BY <1>2, <2>1, FrameKeepsRevisions
<1>5. ASSUME NEW r \in Runs, HandlerStep(r) PROVE RevisionInv'
  <2>1. CASE GetActiveNote(r)
    BY <1>5, <2>1, LookupKeepsRevisions
  <2>2. CASE RetireNote(r)
    BY <1>2, <1>5, <2>2, RetiringWithinFrame, FrameKeepsRevisions
  <2>3. CASE IngestSaveNote(r) /\ ~(Raise(r) /\ UNCHANGED lastSaved)
    BY <1>5, <2>3, SavingKeepsRevisions DEF IngestSaveNote
  <2>4. CASE /\ ~GetActiveNote(r) /\ ~RetireNote(r)
             /\ IngestSaveNote(r) => Raise(r) /\ UNCHANGED lastSaved
    BY <1>2, <1>5, <2>4, OtherStepsWithinFrame, FrameKeepsRevisions
  <2> QED
    BY <2>1, <2>2, <2>3, <2>4
<1>6. ASSUME NEW r \in Runs, Respond(r) PROVE RevisionInv'
  <2>1. RevisionFrame
    BY <1>1, <1>6 DEF Respond, GoTo, RevisionFrame, Retiring, UnchangedLocals,
       IngestionTypeOK, tables, operatorVars
  <2> QED
    BY <1>2, <2>1, FrameKeepsRevisions
<1>7. ASSUME NEW r \in Runs, HardDelete(r) PROVE RevisionInv'
  <2>1. RevisionFrame
    BY <1>1, <1>7 DEF HardDelete, DeleteSource, RevisionFrame, StoreTypeOK, tables, runVars
  <2> QED
    BY <1>2, <2>1, FrameKeepsRevisions
<1>8. ASSUME NEW w \in Operators, OperatorStep(w) PROVE RevisionInv'
  <2>1. UNCHANGED <<note, runVars, operatorVars>>
    BY <1>8 DEF OperatorStep, RetryStep, RetryKilled, ListFailed, RetryEmbed,
       RetrySaveRecords, RetryMarkReady, RetryDeadLetter, SetEmbedding, SaveRecord,
       SaveDeadLetter, tables
  <2>2. RevisionFrame
    BY <2>1 DEF RevisionFrame, runVars, operatorVars
  <2> QED
    BY <1>2, <2>2, FrameKeepsRevisions
<1> QED
  BY <1>3, <1>4, <1>5, <1>6, <1>7, <1>8 DEF Next

\* The revisions' invariant holds of every behaviour.
LEMMA RevisionInvariant == Spec => [](TypeInv /\ RevisionInv)
<1>1. ASSUME Init PROVE RevisionInv
  BY <1>1 DEF Init, StoreInit, IngestionInit, RevisionInv, NotesAreSaved, PriorsAreSaved,
     LastSavedStands, LastSavedSpared, Retiring
<1>2. TypeInv /\ RevisionInv /\ [Next]_vars => RevisionInv'
  BY RevisionInvKept
<1> QED
  BY <1>1, <1>2, InitTypeInv, NextTypeInv, PTL DEF Spec

\* However edits of a message race, fail or die between two store calls, one
\* of its saved notes stays active until it is removed or erased.
THEOREM EditsNeverLoseTheNote == Spec => []NeverZeroActive
<1>1. TypeInv /\ StoreInv /\ RevisionInv => NeverZeroActive
  <2> SUFFICES ASSUME TypeInv, Lineage, RevisionInv,
                      NEW m \in Messages, NEW n \in Runs, note[n] # Absent, Message(n) = m,
                      ~RemovalBegun(m), \A k \in erased : Message(k) # m
               PROVE  ActiveNotes(m) # {}
    BY DEF StoreInv, NeverZeroActive
  <2>1. lastSaved[m] # NoRun /\ lastSaved[m] \in Runs
    BY DEF RevisionInv, NotesAreSaved, TypeInv, TypeOK, IngestionTypeOK
  <2>2. note[lastSaved[m]] = "active" /\ Message(lastSaved[m]) = m
    BY <2>1 DEF RevisionInv, LastSavedStands
  <2>3. lastSaved[m] \in sources
    BY <2>1, <2>2 DEF Lineage, Absent
  <2> QED
    BY <2>1, <2>2, <2>3 DEF ActiveNotes, Message
<1> QED
  BY <1>1, StoreInvariant, RevisionInvariant, PTL

-----------------------------------------------------------------------------
(***************************************************************************)
(* The embedding status.  It leaves pending only when its own run has      *)
(* nothing more to write to it, and retries only touch what has left       *)
(* pending: so nobody ever sets it back.                                   *)
(***************************************************************************)
Settled == {"dead_letter", "done", "replied", "aborted"}

SettledInv ==
    /\ \A c \in Runs : embedding[c] \in {"failed", "ready"} => pc[c] \in Settled
    /\ \A w \in Operators : \A c \in worklist[w] : pc[c] \in Settled

Advances ==
    \A c \in Runs :
        /\ embedding[c] = "ready" => embedding'[c] \in {"ready", Absent}
        /\ embedding[c] = "failed" => embedding'[c] # "pending"

\* A run that has settled never takes its chunk up again.
LEMMA RunsStaySettled ==
  ASSUME TypeInv, [Next]_vars
  PROVE  \A c \in Runs : pc[c] \in Settled => pc'[c] \in Settled
<1>1. IngestionTypeOK
  BY DEF TypeInv, TypeOK
<1>2. CASE UNCHANGED vars \/ UserStep \/ Rest
  BY <1>2 DEF vars, UserStep, Rest, runVars
<1>3. ASSUME NEW u \in pending, Deliver(u)
      PROVE  \A c \in Runs : pc[c] \in Settled => pc'[c] \in Settled
  BY <1>1, <1>3 DEF Deliver, StartRun, GoTo, IngestionTypeOK, Settled
<1>4. ASSUME NEW r \in Runs, HandlerStep(r)
      PROVE  \A c \in Runs : pc[c] \in Settled => pc'[c] \in Settled
  BY <1>1, <1>4 DEF HandlerStep, RunStep, FailRun, GetOrCreateSource, Reconstruct,
     CountChunks, GetActiveNote, GetActiveChunk, IngestSaveNote, IngestSaveChunk,
     RetireChunk, RetireNote, Embed, MarkFailed, WriteDeadLetter, SaveRecords, MarkReady,
     AfterSaving, GoTo, Finish, Raise, IngestionTypeOK, Settled
<1>5. ASSUME NEW r \in Runs, Respond(r) \/ HardDelete(r)
      PROVE  \A c \in Runs : pc[c] \in Settled => pc'[c] \in Settled
  BY <1>1, <1>5 DEF Respond, HardDelete, GoTo, IngestionTypeOK, Settled, runVars
<1>6. ASSUME NEW w \in Operators, OperatorStep(w)
      PROVE  \A c \in Runs : pc[c] \in Settled => pc'[c] \in Settled
  BY <1>6 DEF OperatorStep, runVars
<1> QED
  BY <1>2, <1>3, <1>4, <1>5, <1>6 DEF Next

\* The embedding column changes by the insertion of the chunk and by the marks
\* of the run that owns it, by a retry that listed it, or by its erasure.
EmbeddingStep ==
    \/ UNCHANGED embedding
    \/ \E r \in Runs : /\ pc[r] \notin Settled
                       /\ \E status \in EmbeddingStatus :
                            /\ embedding' = [embedding EXCEPT ![r] = status]
                            /\ status # "pending" => pc'[r] \in Settled
    \/ \E w \in Operators : \E c \in worklist[w] :
            embedding' = [embedding EXCEPT ![c] = "ready"]
    \/ \E r \in Runs : embedding' = [embedding EXCEPT ![r] = Absent]

\* No step changes the embedding column otherwise.
LEMMA NextEmbeddingStep ==
  ASSUME TypeInv, [Next]_vars
  PROVE  EmbeddingStep
<1>1. IngestionTypeOK /\ ReconciliationTypeOK
  BY DEF TypeInv, TypeOK
<1>2. CASE UNCHANGED vars \/ UserStep \/ Rest
  BY <1>2 DEF vars, UserStep, Rest, EmbeddingStep, tables
<1>3. ASSUME NEW u \in pending, Deliver(u) PROVE EmbeddingStep
  BY <1>3 DEF Deliver, StartRun, EmbeddingStep, tables
<1>4. ASSUME NEW r \in Runs, HandlerStep(r) PROVE EmbeddingStep
  <2>1. CASE IngestSaveChunk(r)
    BY <2>1 DEF IngestSaveChunk, SaveChunk, Raise, EmbeddingStep, EmbeddingStatus,
       Settled, tables
  <2>2. CASE MarkFailed(r) \/ MarkReady(r)
    BY <1>1, <2>2 DEF MarkFailed, MarkReady, SetEmbedding, GoTo, Finish, Raise,
       EmbeddingStep, EmbeddingStatus, Settled, IngestionTypeOK, tables
  <2>3. CASE ~IngestSaveChunk(r) /\ ~MarkFailed(r) /\ ~MarkReady(r)
    <3>1. UNCHANGED embedding
      BY <1>4, <2>3 DEF HandlerStep, RunStep, FailRun, GetOrCreateSource, Reconstruct,
         CountChunks, GetActiveNote, GetActiveChunk, IngestSaveNote, RetireChunk,
         RetireNote, Embed, WriteDeadLetter, SaveRecords, InsertSource, SaveNote,
         MarkChunk, MarkNote, SaveRecord, SaveDeadLetter, Raise, tables
    <3> QED
      BY <3>1 DEF EmbeddingStep
  <2> QED
    BY <2>1, <2>2, <2>3
<1>5. ASSUME NEW r \in Runs, Respond(r) \/ HardDelete(r) PROVE EmbeddingStep
  BY <1>5 DEF Respond, HardDelete, DeleteSource, EmbeddingStep, tables
<1>6. ASSUME NEW w \in Operators, OperatorStep(w) PROVE EmbeddingStep
  BY <1>6 DEF OperatorStep, RetryStep, RetryKilled, ListFailed, RetryEmbed,
     RetrySaveRecords, RetryMarkReady, RetryDeadLetter, IsCurrent, SaveRecord,
     SetEmbedding, SaveDeadLetter, EmbeddingStep, tables
<1> QED
  BY <1>2, <1>3, <1>4, <1>5, <1>6 DEF Next

\* A retry's snapshot only grows by chunks that have failed.
LEMMA NextWorklist ==
  ASSUME TypeInv, [Next]_vars
  PROVE  \A w \in Operators : \A c \in worklist'[w] :
            c \in worklist[w] \/ (c \in Runs /\ embedding[c] = "failed")
<1>1. ReconciliationTypeOK
  BY DEF TypeInv, TypeOK
<1>2. CASE UNCHANGED worklist
  BY <1>2
<1>3. ASSUME NEW w \in Operators, OperatorStep(w)
      PROVE  \A k \in Operators : \A c \in worklist'[k] :
                c \in worklist[k] \/ (c \in Runs /\ embedding[c] = "failed")
  BY <1>1, <1>3 DEF OperatorStep, RetryStep, RetryKilled, ListFailed, FailedChunks,
     RetryEmbed, RetrySaveRecords, RetryMarkReady, RetryDeadLetter, RetryGoTo, NextGroup,
     ReconciliationTypeOK
<1>4. (\A w \in Operators : ~OperatorStep(w)) => UNCHANGED worklist
  BY DEF Next, UserStep, Rest, Deliver, HandlerStep, Respond, HardDelete, vars, retryVars
<1> QED
  BY <1>2, <1>3, <1>4

\* Chunks that left pending stay settled, so their status only goes forward.
LEMMA SettledInvKept ==
  ASSUME TypeInv, SettledInv, [Next]_vars
  PROVE  SettledInv' /\ Advances
<1>1. StoreTypeOK /\ ReconciliationTypeOK
  BY DEF TypeInv, TypeOK
<1>2. \A c \in Runs : pc[c] \in Settled => pc'[c] \in Settled
  BY RunsStaySettled
<1>3. EmbeddingStep
  BY NextEmbeddingStep
<1>4. (\A w \in Operators : \A c \in worklist[w] : pc[c] \in Settled)'
  BY <1>1, <1>2, NextWorklist DEF SettledInv, ReconciliationTypeOK
<1>5. (\A c \in Runs : embedding[c] \in {"failed", "ready"} => pc[c] \in Settled)'
  BY <1>1, <1>2, <1>3 DEF SettledInv, EmbeddingStep, EmbeddingStatus, StoreTypeOK, Absent,
     ReconciliationTypeOK
<1>6. Advances
  BY <1>1, <1>3 DEF SettledInv, EmbeddingStep, EmbeddingStatus, StoreTypeOK, Absent,
     ReconciliationTypeOK, Advances
<1> QED
  BY <1>4, <1>5, <1>6 DEF SettledInv

\* Between an ingest, its redeliveries and any number of retries that write
\* the status without reading it, a ready chunk stays ready until erased, and a
\* failed one never goes back to pending.
THEOREM EmbeddingNeverRegresses == Spec => EmbeddingOnlyAdvances
<1>1. ASSUME Init PROVE SettledInv
  BY <1>1 DEF Init, StoreInit, ReconciliationInit, SettledInv, Absent
<1>2. TypeInv /\ SettledInv /\ [Next]_vars => SettledInv' /\ Advances
  BY SettledInvKept
<1>3. Advances <=> \A c \in Runs :
         /\ embedding[c] = "ready" => embedding'[c] \in {"ready", Absent}
         /\ embedding[c] = "failed" => embedding'[c] # "pending"
  BY DEF Advances
<1> QED
  BY <1>1, <1>2, <1>3, InitTypeInv, NextTypeInv, PTL DEF Spec, EmbeddingOnlyAdvances

-----------------------------------------------------------------------------
(***************************************************************************)
(* What the user is told.  A run answers from its own rows, saved on its   *)
(* way, or, for a replay, from rows it has seen; only an erasure can have  *)
(* taken them away since.                                                  *)
(***************************************************************************)
Kept(r) == note[r] # Absent \/ r \in erased
KeptWithChunk(r) == chunk[r] # Absent \/ r \in erased

Retrieving == {"get_active_note", "get_active_chunk", "save_note"}
Enriching == {"embed", "mark_failed", "dead_letter", "save_records", "mark_ready"}
Replaying == {"reconstruct", "count_chunks"}

\* A run has no result before its last call, and only a replay has a row
\* other than its own.
ResultLate(r) ==
    /\ pc[r] \in Calls \union {"unused"} => outcome[r] = "none"
    /\ pc[r] \in Replaying => replayOf[r] # NoRun
    /\ pc[r] \in Calls \union {"unused"} /\ pc[r] \notin Replaying => replayOf[r] = NoRun

SavedOnTheWay(r) ==
    /\ pc[r] = "count_chunks" => Kept(replayOf[r])
    /\ pc[r] \in Retiring /\ ~IsRemoval(r) => Kept(r)
    /\ pc[r] \in {"mark_chunk", "mark_note"} /\ Kind(r) = "note" => KeptWithChunk(r)
    /\ pc[r] \in Enriching => Kind(r) = "note" /\ KeptWithChunk(r)

Confirmed(r) ==
    AnsweredRow(r) \notin erased =>
        /\ outcome[r] = "saved" => chunk[AnsweredRow(r)] # Absent
        /\ outcome[r] \in {"saved", "saved_empty"} => note[AnsweredRow(r)] # Absent

Answers(r) == ResultLate(r) /\ SavedOnTheWay(r) /\ Confirmed(r)

AnswersInv == \A r \in Runs : Answers(r)

\* A row kept stays kept: nothing but an erasure deletes.
RowsKept ==
    /\ erased \subseteq erased'
    /\ \A r \in Runs : note[r] # Absent => note'[r] # Absent \/ r \in erased'
    /\ \A r \in Runs : chunk[r] # Absent => chunk'[r] # Absent \/ r \in erased'

\* Every update writes over a row and only hard_delete removes one.
LEMMA NextRowsKept ==
  ASSUME TypeInv, [Next]_vars
  PROVE  RowsKept
<1>1. StoreTypeOK
  BY DEF TypeInv, TypeOK
<1>2. ASSUME NEW r \in Runs, HardDelete(r) PROVE RowsKept
  BY <1>1, <1>2 DEF HardDelete, DeleteSource, RowsKept, StoreTypeOK, tables
<1>3. CASE \A r \in Runs : ~HardDelete(r)
  <2>1. UNCHANGED erased
    BY <1>3 DEF Next, UserStep, Rest, Deliver, HandlerStep, Respond, OperatorStep, vars,
       operatorVars
  <2>2. /\ \A r \in Runs : note[r] # Absent => note'[r] # Absent
        /\ \A r \in Runs : chunk[r] # Absent => chunk'[r] # Absent
    <3>1. ASSUME NEW r \in Runs, HandlerStep(r)
          PROVE  /\ \A k \in Runs : note[k] # Absent => note'[k] # Absent
                 /\ \A k \in Runs : chunk[k] # Absent => chunk'[k] # Absent
      BY <1>1, <3>1, RetiredStateTyped DEF HandlerStep, RunStep, FailRun, GetOrCreateSource,
         Reconstruct, CountChunks, GetActiveNote, GetActiveChunk, IngestSaveNote,
         IngestSaveChunk, RetireChunk, RetireNote, Embed, MarkFailed, WriteDeadLetter,
         SaveRecords, MarkReady, InsertSource, SaveNote, SaveChunk, MarkChunk, MarkNote,
         SetEmbedding, SaveRecord, SaveDeadLetter, Raise, StoreTypeOK, LifecycleState,
         Absent, tables
    <3>2. ASSUME NEW w \in Operators, OperatorStep(w) PROVE UNCHANGED <<note, chunk>>
      BY <3>2 DEF OperatorStep, RetryStep, RetryKilled, ListFailed, RetryEmbed,
         RetrySaveRecords, RetryMarkReady, RetryDeadLetter, SaveRecord, SetEmbedding,
         SaveDeadLetter, tables
    <3> QED
      BY <1>3, <3>1, <3>2 DEF Next, UserStep, Rest, Deliver, Respond, StartRun, vars, tables
  <2> QED
    BY <2>1, <2>2 DEF RowsKept
<1> QED
  BY <1>2, <1>3

\* A run that a step does not move keeps its answer true.
LEMMA StillRunKeepsAnswer ==
  ASSUME TypeInv, NEW k \in Runs, Answers(k), RowsKept, inbound'[k] = inbound[k],
         pc'[k] = pc[k], outcome'[k] = outcome[k], replayOf'[k] = replayOf[k]
  PROVE  Answers(k)'
<1>1. replayOf[k] = NoRun \/ replayOf[k] \in Runs
  BY DEF TypeInv, TypeOK, IngestionTypeOK
<1>2. ResultLate(k)'
  BY DEF Answers, ResultLate
<1>3. SavedOnTheWay(k)'
  BY <1>1 DEF Answers, ResultLate, SavedOnTheWay, RowsKept, Kept, KeptWithChunk, IsRemoval,
     Kind, Replaying
<1>4. Confirmed(k)'
  BY <1>1 DEF Answers, Confirmed, AnsweredRow, RowsKept
<1> QED
  BY <1>2, <1>3, <1>4 DEF Answers

\* A handler run's step moves no other run.
LEMMA HandlerMovesOne ==
  ASSUME TypeInv, NEW r \in Runs, HandlerStep(r)
  PROVE  /\ UNCHANGED <<inbound, erased>>
         /\ \A k \in Runs \ {r} : /\ pc'[k] = pc[k]
                                 /\ outcome'[k] = outcome[k]
                                 /\ replayOf'[k] = replayOf[k]
  BY DEF TypeInv, TypeOK, IngestionTypeOK, HandlerStep, RunStep, FailRun, GetOrCreateSource,
     Reconstruct, CountChunks, GetActiveNote, GetActiveChunk, IngestSaveNote, IngestSaveChunk,
     RetireChunk, RetireNote, Embed, MarkFailed, WriteDeadLetter, SaveRecords, MarkReady,
     AfterSaving, GoTo, Finish, Raise, UnchangedLocals, operatorVars

\* Whether it saves, retires, enriches or replays, a run answers what it knows.
LEMMA HandlerKeepsAnswer ==
  ASSUME TypeInv, Lineage, NEW r \in Runs, Answers(r), RowsKept, HandlerStep(r)
  PROVE  Answers(r)'
<1>1. IngestionTypeOK /\ StoreTypeOK
  BY DEF TypeInv, TypeOK
<1>2. UNCHANGED <<inbound, erased>>
  BY HandlerMovesOne
<1>3. pc[r] \in Calls
  BY DEF HandlerStep, RunStep, FailRun, Calls, GetOrCreateSource, Reconstruct, CountChunks,
     GetActiveNote, GetActiveChunk, IngestSaveNote, IngestSaveChunk, RetireChunk,
     RetireNote, Embed, MarkFailed, WriteDeadLetter, SaveRecords, MarkReady
<1>4. Kind(r) \in Kinds
  BY <1>3 DEF TypeInv, Started, Updates, Kind, Calls
<1>5. replayOf[r] = NoRun \/ replayOf[r] \in Runs
  BY <1>1 DEF IngestionTypeOK
<1>6. (chunk[r] # Absent => note[r] # Absent) /\ (\A k \in Runs : chunk[k] # Absent => note[k] # Absent)
  BY DEF Lineage
<1> USE DEF Answers, ResultLate, SavedOnTheWay, Confirmed, Kept, KeptWithChunk, Retiring,
        Enriching, Replaying, AnsweredRow, RowsKept
<1>7. CASE GetOrCreateSource(r)
  <2>1. Persisted(r) \subseteq Runs
    BY <1>1 DEF Persisted, StoreTypeOK
  <2>2. CASE UNCHANGED replayOf /\ GoTo(r, "get_active_note")
    BY <1>1, <1>2, <1>7, <2>2 DEF GetOrCreateSource, GoTo, IngestionTypeOK, Calls
  <2>3. CASE UNCHANGED replayOf /\ Kind(r) = "empty" /\ Finish(r, FreshResult(r))
    BY <1>1, <1>2, <1>7, <2>3 DEF GetOrCreateSource, Finish, FreshResult, IngestionTypeOK, Calls
  <2>4. ASSUME NEW s \in Persisted(r), replayOf' = [replayOf EXCEPT ![r] = s],
               GoTo(r, "reconstruct")
        PROVE  Answers(r)'
    <3>1. replayOf'[r] # NoRun /\ pc'[r] = "reconstruct" /\ outcome'[r] = "none"
      BY <1>1, <1>7, <2>1, <2>4 DEF GetOrCreateSource, GoTo, IngestionTypeOK, Calls, Runs, NoRun
    <3> QED
      BY <3>1
  <2> QED
    BY <1>7, <2>2, <2>3, <2>4 DEF GetOrCreateSource
<1>8. CASE Reconstruct(r) \/ CountChunks(r)
  BY <1>1, <1>2, <1>5, <1>6, <1>8 DEF Reconstruct, CountChunks, GoTo, Finish, Raise,
     IngestionTypeOK, UnchangedLocals, Calls, tables
<1>9. CASE GetActiveNote(r) \/ GetActiveChunk(r)
  BY <1>1, <1>2, <1>4, <1>9 DEF GetActiveNote, GetActiveChunk, RetireFrom, GoTo, Finish,
     FreshResult, IsRemoval, RemovalKinds, Kind, IngestionTypeOK, Calls
<1>10. CASE IngestSaveNote(r)
  <2>1. pc[r] = "save_note" /\ outcome[r] = "none" /\ replayOf[r] = NoRun /\ UNCHANGED replayOf
    BY <1>10 DEF IngestSaveNote, Calls
  <2>2. CASE Raise(r)
    BY <1>1, <1>2, <2>1, <2>2 DEF Raise, IngestionTypeOK, Calls
  <2>3. CASE SaveNote(r) /\ (IF Kind(r) = "note" THEN GoTo(r, "save_chunk") ELSE AfterSaving(r))
    <3>1. note'[r] # Absent
      BY <1>1, <2>3 DEF SaveNote, StoreTypeOK, Absent
    <3>2. Kind(r)' = Kind(r)
      BY <1>2 DEF Kind
    <3>3. \/ pc'[r] = "save_chunk" /\ outcome'[r] = "none"
          \/ pc'[r] \in {"mark_chunk", "mark_note"} /\ Kind(r) # "note" /\ outcome'[r] = "none"
          \/ pc'[r] = "done" /\ Kind(r) # "note" /\ outcome'[r] = FreshResult(r)
      BY <1>1, <2>1, <2>3 DEF AfterSaving, RetireFrom, GoTo, Finish, IngestionTypeOK
    <3>4. Kind(r) # "note" => FreshResult(r) # "saved"
      BY <1>4 DEF FreshResult, Kinds, NoteKinds, RemovalKinds
    <3> QED
      BY <2>1, <3>1, <3>2, <3>3, <3>4 DEF Calls
  <2> QED
    BY <1>10, <2>2, <2>3 DEF IngestSaveNote
<1>11. CASE IngestSaveChunk(r)
  <2>1. pc[r] = "save_chunk" /\ outcome[r] = "none" /\ replayOf[r] = NoRun /\ UNCHANGED replayOf
    BY <1>11 DEF IngestSaveChunk, UnchangedLocals, Calls
  <2>2. CASE Raise(r)
    BY <1>1, <1>2, <2>1, <2>2 DEF Raise, IngestionTypeOK, Calls
  <2>3. CASE CanSaveChunk(r) /\ SaveChunk(r) /\ AfterSaving(r)
    <3>1. note'[r] # Absent /\ chunk'[r] # Absent
      BY <1>1, <2>3 DEF CanSaveChunk, SaveChunk, StoreTypeOK, Absent
    <3>2. Kind(r)' = Kind(r)
      BY <1>2 DEF Kind
    <3>3. \/ pc'[r] \in {"mark_chunk", "mark_note"} /\ outcome'[r] = "none"
          \/ pc'[r] = "embed" /\ Kind(r) = "note" /\ outcome'[r] = "none"
          \/ pc'[r] = "done"
      BY <1>1, <2>1, <2>3 DEF AfterSaving, RetireFrom, GoTo, Finish, IngestionTypeOK
    <3> QED
      BY <2>1, <3>1, <3>2, <3>3 DEF Calls
  <2> QED
    BY <1>11, <2>2, <2>3 DEF IngestSaveChunk
<1>12. CASE RetireChunk(r) \/ RetireNote(r)
  <2>1. Kind(r)' = Kind(r) /\ replayOf[r] = NoRun /\ UNCHANGED replayOf
    BY <1>2, <1>12 DEF RetireChunk, RetireNote, UnchangedLocals, Kind, Calls
  <2>2. CASE RetireChunk(r)
    BY <1>1, <1>2, <2>1, <2>2 DEF RetireChunk, GoTo, Raise, IsRemoval, IngestionTypeOK, Calls
  <2>3. CASE RetireNote(r)
    <3>1. \/ pc'[r] = "embed" /\ Kind(r) = "note" /\ outcome'[r] = "none"
          \/ pc'[r] = "done" /\ Kind(r) # "note" /\ outcome'[r] = FreshResult(r)
          \/ pc'[r] = "aborted" /\ outcome'[r] = "none"
      BY <1>1, <2>3 DEF RetireNote, GoTo, Finish, Raise, IngestionTypeOK, Calls
    <3>2. Kind(r) # "note" =>
             FreshResult(r) # "saved" /\ (FreshResult(r) = "saved_empty" => ~IsRemoval(r))
      BY <1>4 DEF FreshResult, IsRemoval, Kinds, NoteKinds, RemovalKinds
    <3> QED
      BY <1>2, <2>1, <2>3, <3>1, <3>2 DEF RetireNote, Calls
  <2> QED
    BY <1>12, <2>2, <2>3
<1>13. CASE Embed(r) \/ MarkFailed(r) \/ WriteDeadLetter(r)
  BY <1>1, <1>2, <1>6, <1>13 DEF Embed, MarkFailed, WriteDeadLetter, GoTo, Finish, Raise,
     FreshResult, Kind, UnchangedLocals, IngestionTypeOK, Calls
<1>14. CASE SaveRecords(r) \/ MarkReady(r) \/ FailRun(r)
  BY <1>1, <1>2, <1>6, <1>14 DEF SaveRecords, MarkReady, FailRun, GoTo, Finish, Raise,
     FreshResult, Kind, UnchangedLocals, IngestionTypeOK, Calls
<1> QED
  BY <1>7, <1>8, <1>9, <1>10, <1>11, <1>12, <1>13, <1>14 DEF HandlerStep, RunStep

\* Every step of the system keeps every answer true.
LEMMA AnswersInvKept ==
  ASSUME TypeInv, Lineage, AnswersInv, [Next]_vars
  PROVE  AnswersInv'
<1> SUFFICES ASSUME NEW k \in Runs PROVE Answers(k)'
  BY DEF AnswersInv
<1>1. RowsKept /\ Answers(k) /\ IngestionTypeOK
  BY NextRowsKept DEF AnswersInv, TypeInv, TypeOK
<1>2. CASE UNCHANGED <<inbound, runVars>>
  BY <1>1, <1>2, StillRunKeepsAnswer DEF runVars
<1>3. ASSUME NEW r \in Runs, HandlerStep(r) PROVE Answers(k)'
  BY <1>1, <1>3, StillRunKeepsAnswer, HandlerKeepsAnswer, HandlerMovesOne
<1>4. ASSUME NEW u \in pending, NEW r \in Runs, StartRun(r, u), Deliver(u) PROVE Answers(k)'
  <2>1. CASE k = r
    BY <1>1, <1>4, <2>1 DEF StartRun, GoTo, UnchangedLocals, IngestionTypeOK, Answers,
       ResultLate, SavedOnTheWay, Confirmed, Calls, Replaying, Retiring, Enriching
  <2>2. CASE k # r
    BY <1>1, <1>4, <2>2, StillRunKeepsAnswer DEF StartRun, GoTo, UnchangedLocals,
       IngestionTypeOK
  <2> QED
    BY <2>1, <2>2
<1>5. ASSUME NEW r \in Runs, Respond(r) PROVE Answers(k)'
  <2>1. CASE k = r
    BY <1>1, <1>5, <2>1 DEF Respond, GoTo, UnchangedLocals, IngestionTypeOK, Answers,
       ResultLate, SavedOnTheWay, Confirmed, AnsweredRow, Calls, Replaying, Retiring,
       Enriching, tables, operatorVars
  <2>2. CASE k # r
    BY <1>1, <1>5, <2>2, StillRunKeepsAnswer DEF Respond, GoTo, UnchangedLocals,
       IngestionTypeOK
  <2> QED
    BY <2>1, <2>2
<1>6. (\E u \in pending : Deliver(u)) \/ (\E r \in Runs : HandlerStep(r) \/ Respond(r))
      \/ UNCHANGED <<inbound, runVars>>
  BY DEF Next, UserStep, Rest, HardDelete, OperatorStep, RetryStep, RetryKilled, ListFailed,
     RetryEmbed, RetrySaveRecords, RetryMarkReady, RetryDeadLetter, vars
<1> QED
  BY <1>2, <1>3, <1>4, <1>5, <1>6 DEF Deliver

\* Whatever fails, races or is delivered again, the user is never told that a
\* note is saved whose rows are not committed, unless an operator erased them.
THEOREM ConfirmationsAreTrue == Spec => []ConfirmedIsStored
<1>1. ASSUME Init PROVE AnswersInv
  BY <1>1 DEF Init, IngestionInit, AnswersInv, Answers, ResultLate, SavedOnTheWay, Confirmed,
     Calls, Replaying, Retiring, Enriching
<1>2. TypeInv /\ StoreInv /\ AnswersInv /\ [Next]_vars => AnswersInv'
  BY AnswersInvKept DEF StoreInv
<1>3. AnswersInv => ConfirmedIsStored
  BY DEF AnswersInv, Answers, Confirmed, ConfirmedIsStored
<1> QED
  BY <1>1, <1>2, <1>3, StoreInvariant, PTL DEF Spec

-----------------------------------------------------------------------------
(***************************************************************************)
(* DiarySystem implements Corpus: whatever deliveries, edits, removals,    *)
(* retries and hard deletes interleave, the chunk of a run goes through    *)
(* the life on which the answering side relies, one move at a time.        *)
(***************************************************************************)
\* A run has no chunk before it has saved one.
BeforeChunk == BeforeNote \union {"save_chunk"}

ChunkOnce == \A r \in Runs : pc[r] \in BeforeChunk => chunk[r] = Absent

\* What one step does to what retrieval sees of the chunks: the row of one is
\* inserted, its status advances, it is retired, its vector is stored while it
\* is not marked ready, or its source is erased.
ChunkWrite ==
    \/ UNCHANGED <<chunk, embedding, records, erased>>
    \/ \E c \in Runs :
        /\ chunk[c] = Absent /\ c \notin erased
        /\ chunk' = [chunk EXCEPT ![c] = "active"]
        /\ embedding' = [embedding EXCEPT ![c] = "pending"]
        /\ UNCHANGED <<records, erased>>
    \/ \E c \in Runs, state \in LifecycleState \ {"active"} :
        /\ chunk[c] # Absent
        /\ chunk' = [chunk EXCEPT ![c] = state]
        /\ UNCHANGED <<embedding, records, erased>>
    \/ \E c \in Runs, status \in EmbeddingStatus :
        /\ chunk[c] # Absent
        /\ embedding[c] = "ready" => status = "ready"
        /\ embedding' = [embedding EXCEPT ![c] = status]
        /\ UNCHANGED <<chunk, records, erased>>
    \/ \E c \in Runs :
        /\ embedding[c] # "ready"
        /\ records' = records \union {c}
        /\ UNCHANGED <<chunk, embedding, erased>>
    \/ \E c \in Runs \ erased :
        /\ chunk' = [chunk EXCEPT ![c] = Absent]
        /\ embedding' = [embedding EXCEPT ![c] = Absent]
        /\ records' = records \ {c}
        /\ erased' = erased \union {c}

-----------------------------------------------------------------------------
\* The actions of a handler run that leave the chunks alone.
LEMMA QuietRunSteps ==
  ASSUME NEW r \in Runs, HandlerStep(r),
         ~IngestSaveChunk(r), ~RetireChunk(r), ~MarkFailed(r), ~SaveRecords(r), ~MarkReady(r)
  PROVE  UNCHANGED <<chunk, embedding, records, erased>>
  BY DEF HandlerStep, RunStep, FailRun, GetOrCreateSource, Reconstruct, CountChunks,
     GetActiveNote, GetActiveChunk, IngestSaveNote, RetireNote, Embed, WriteDeadLetter,
     InsertSource, SaveNote, MarkNote, SaveDeadLetter, Raise, tables, operatorVars

\* Each action of a handler run writes at most one of them.
LEMMA RunChunkWrite ==
  ASSUME TypeInv, StoreInv, SettledInv, ChunkOnce, NEW r \in Runs, HandlerStep(r)
  PROVE  ChunkWrite
<1>1. StoreTypeOK /\ IngestionTypeOK
  BY DEF TypeInv, TypeOK
<1>2. UNCHANGED erased
  BY DEF HandlerStep, operatorVars
<1>3. CASE IngestSaveChunk(r)
  <2>1. CanSaveChunk(r) => chunk[r] = Absent /\ r \notin erased
    BY <1>3 DEF IngestSaveChunk, CanSaveChunk, ChunkOnce, BeforeChunk, StoreInv, SourceOnce
  <2> QED
    BY <1>2, <1>3, <2>1 DEF IngestSaveChunk, SaveChunk, Raise, ChunkWrite, tables
<1>4. CASE RetireChunk(r)
  <2>1. RetiredState(r) \in LifecycleState \ {"active"}
    BY DEF RetiredState, LifecycleState
  <2>2. CASE UNCHANGED tables
    BY <1>2, <2>2 DEF ChunkWrite, tables
  <2>3. CASE CanMarkChunk(priorChunk[r]) /\ MarkChunk(priorChunk[r], RetiredState(r))
    <3>1. CASE priorChunk[r] \in Runs
      BY <1>2, <2>1, <2>3, <3>1 DEF CanMarkChunk, MarkChunk, ChunkWrite
    <3>2. CASE priorChunk[r] \notin Runs
      BY <1>1, <1>2, <2>3, <3>2 DEF MarkChunk, ChunkWrite, StoreTypeOK
    <3> QED  BY <3>1, <3>2
  <2> QED
    BY <1>4, <2>2, <2>3 DEF RetireChunk, Raise
<1>5. CASE MarkFailed(r) \/ MarkReady(r)
  <2>1. embedding[r] # "ready"
    BY <1>5 DEF MarkFailed, MarkReady, SettledInv, Settled
  <2> QED
    BY <1>2, <1>5, <2>1 DEF MarkFailed, MarkReady, CanSetEmbedding, SetEmbedding, Raise,
       ChunkWrite, EmbeddingStatus, tables
<1>6. CASE SaveRecords(r)
  <2>1. embedding[r] # "ready"
    BY <1>6 DEF SaveRecords, SettledInv, Settled
  <2> QED
    BY <1>2, <1>6, <2>1 DEF SaveRecords, SaveRecord, Raise, ChunkWrite, tables
<1>7. CASE ~IngestSaveChunk(r) /\ ~RetireChunk(r) /\ ~MarkFailed(r) /\ ~SaveRecords(r)
           /\ ~MarkReady(r)
  BY <1>7, QuietRunSteps DEF ChunkWrite
<1> QED
  BY <1>3, <1>4, <1>5, <1>6, <1>7

\* So does every step of the system.
LEMMA NextChunkWrite ==
  ASSUME TypeInv, StoreInv, SettledInv, ChunkOnce, [Next]_vars
  PROVE  ChunkWrite
<1>1. CASE UNCHANGED vars \/ UserStep \/ Rest
  BY <1>1 DEF vars, UserStep, Rest, ChunkWrite, tables, operatorVars
<1>2. ASSUME NEW u \in pending, Deliver(u) PROVE ChunkWrite
  BY <1>2 DEF Deliver, StartRun, ChunkWrite, tables, operatorVars
<1>3. ASSUME NEW r \in Runs, HandlerStep(r) PROVE ChunkWrite
  BY <1>3, RunChunkWrite
<1>4. ASSUME NEW r \in Runs, Respond(r) PROVE ChunkWrite
  BY <1>4 DEF Respond, ChunkWrite, tables, operatorVars
<1>5. ASSUME NEW r \in Runs, HardDelete(r) PROVE ChunkWrite
  BY <1>5 DEF HardDelete, DeleteSource, ChunkWrite, StoreInv, SourceOnce, tables
<1>6. ASSUME NEW w \in Operators, OperatorStep(w) PROVE ChunkWrite
  <2>1. UNCHANGED erased
    BY <1>6 DEF OperatorStep, operatorVars
  <2>2. CASE RetrySaveRecords(w)
    BY <2>1, <2>2 DEF RetrySaveRecords, CanSaveRecord, SaveRecord, ChunkWrite, StoreInv,
       RecordFirst, ReadyHasRecord, tables
  <2>3. CASE RetryMarkReady(w)
    BY <2>1, <2>3 DEF RetryMarkReady, CanSetEmbedding, SetEmbedding, ChunkWrite,
       EmbeddingStatus, tables
  <2>4. CASE ~RetrySaveRecords(w) /\ ~RetryMarkReady(w)
    BY <1>6, <2>1, <2>4 DEF OperatorStep, RetryStep, RetryKilled, ListFailed, RetryEmbed,
       RetryDeadLetter, SaveDeadLetter, ChunkWrite, tables
  <2> QED
    BY <2>2, <2>3, <2>4
<1> QED
  BY <1>1, <1>2, <1>3, <1>4, <1>5, <1>6 DEF Next

-----------------------------------------------------------------------------
\* A run saves its chunk once, on the step that takes it past save_chunk.
LEMMA HandlerChunkOnce ==
  ASSUME TypeInv, ChunkOnce, NEW r \in Runs, HandlerStep(r)
  PROVE  ChunkOnce'
<1>1. StoreTypeOK /\ IngestionTypeOK
  BY DEF TypeInv, TypeOK
<1>2. \A k \in Runs : pc'[k] \in BeforeChunk => pc[k] \in BeforeChunk
  BY <1>1 DEF HandlerStep, RunStep, FailRun, GetOrCreateSource, Reconstruct, CountChunks,
     GetActiveNote, GetActiveChunk, IngestSaveNote, IngestSaveChunk, RetireChunk, RetireNote,
     Embed, MarkFailed, WriteDeadLetter, SaveRecords, MarkReady, AfterSaving, RetireFrom,
     GoTo, Finish, Raise, IngestionTypeOK, BeforeChunk, BeforeNote
<1>3. CASE IngestSaveChunk(r)
  <2>1. pc'[r] \notin BeforeChunk
    BY <1>1, <1>3 DEF IngestSaveChunk, AfterSaving, RetireFrom, GoTo, Finish, Raise,
       IngestionTypeOK, BeforeChunk, BeforeNote
  <2>2. \A k \in Runs \ {r} : chunk'[k] = chunk[k]
    BY <1>1, <1>3 DEF IngestSaveChunk, SaveChunk, Raise, StoreTypeOK, tables
  <2> QED
    BY <1>2, <2>1, <2>2 DEF ChunkOnce
<1>4. CASE RetireChunk(r)
  <2>1. \A k \in Runs : chunk[k] = Absent => chunk'[k] = Absent
    BY <1>1, <1>4 DEF RetireChunk, CanMarkChunk, MarkChunk, Raise, StoreTypeOK, tables
  <2> QED
    BY <1>2, <2>1 DEF ChunkOnce
<1>5. CASE ~IngestSaveChunk(r) /\ ~RetireChunk(r)
  <2>1. UNCHANGED chunk
    BY <1>5 DEF HandlerStep, RunStep, FailRun, GetOrCreateSource, Reconstruct, CountChunks,
       GetActiveNote, GetActiveChunk, IngestSaveNote, RetireNote, Embed, MarkFailed,
       WriteDeadLetter, SaveRecords, MarkReady, InsertSource, SaveNote, MarkNote,
       SetEmbedding, SaveRecord, SaveDeadLetter, Raise, tables
  <2> QED
    BY <1>2, <2>1 DEF ChunkOnce
<1> QED
  BY <1>3, <1>4, <1>5

\* Nobody else saves chunks or takes a run back.
LEMMA ChunkOnceKept ==
  ASSUME TypeInv, ChunkOnce, [Next]_vars
  PROVE  ChunkOnce'
<1>1. StoreTypeOK /\ IngestionTypeOK
  BY DEF TypeInv, TypeOK
<1>2. CASE UNCHANGED vars \/ UserStep \/ Rest
  BY <1>2 DEF vars, UserStep, Rest, ChunkOnce, tables, runVars
<1>3. ASSUME NEW u \in pending, Deliver(u) PROVE ChunkOnce'
  BY <1>1, <1>3 DEF Deliver, StartRun, GoTo, ChunkOnce, BeforeChunk, BeforeNote,
     IngestionTypeOK, tables
<1>4. ASSUME NEW r \in Runs, HandlerStep(r) PROVE ChunkOnce'
  BY <1>4, HandlerChunkOnce
<1>5. ASSUME NEW r \in Runs, Respond(r) PROVE ChunkOnce'
  BY <1>1, <1>5 DEF Respond, GoTo, ChunkOnce, BeforeChunk, BeforeNote, IngestionTypeOK, tables
<1>6. ASSUME NEW r \in Runs, HardDelete(r) PROVE ChunkOnce'
  BY <1>1, <1>6 DEF HardDelete, DeleteSource, ChunkOnce, StoreTypeOK, tables, runVars
<1>7. ASSUME NEW w \in Operators, OperatorStep(w) PROVE ChunkOnce'
  BY <1>7 DEF OperatorStep, RetryStep, RetryKilled, ListFailed, RetryEmbed, RetrySaveRecords,
     RetryMarkReady, RetryDeadLetter, SaveRecord, SetEmbedding, SaveDeadLetter, ChunkOnce,
     tables, runVars
<1> QED
  BY <1>2, <1>3, <1>4, <1>5, <1>6, <1>7 DEF Next

-----------------------------------------------------------------------------
View == [c \in Runs |-> ChunkView(c)]

\* The view changes at one chunk and as the abstract step says.
LEMMA OneViewChanges ==
  ASSUME NEW c \in Runs, NEW v, ChunkView(c)' = v,
         \A k \in Runs \ {c} : ChunkView(k)' = ChunkView(k)
  PROVE  View' = [View EXCEPT ![c] = v]
  BY DEF View

\* A write to the chunks is a step of the abstract life or changes no view.
LEMMA WriteIsCorpusStep ==
  ASSUME TypeInv, StoreInv, StoreInv', ChunkWrite
  PROVE  [Capture!CorpusNext]_View
<1>1. StoreTypeOK
  BY DEF TypeInv, TypeOK
<1>2. ReadyHasRecord /\ ReadyHasRecord'
  BY DEF StoreInv, RecordFirst
<1>3. \A c \in Runs : View[c] = ChunkView(c)
  BY DEF View
<1>4. CASE UNCHANGED <<chunk, embedding, records, erased>>
  BY <1>4 DEF View, ChunkView
<1>5. ASSUME NEW c \in Runs, chunk[c] = Absent, c \notin erased,
             chunk' = [chunk EXCEPT ![c] = "active"],
             embedding' = [embedding EXCEPT ![c] = "pending"],
             UNCHANGED <<records, erased>>
      PROVE  Capture!CorpusNext
  <2>1. ChunkView(c) = "none" /\ ChunkView(c)' = "saved"
    BY <1>1, <1>5 DEF ChunkView, StoreTypeOK, Absent
  <2>2. \A k \in Runs \ {c} : ChunkView(k)' = ChunkView(k)
    BY <1>1, <1>5 DEF ChunkView, StoreTypeOK
  <2>3. Capture!SaveChunkRow(c)
    BY <1>3, <2>1, <2>2, OneViewChanges DEF Capture!SaveChunkRow, Capture!Become, View
  <2> QED  BY <2>3 DEF Capture!CorpusNext
<1>6. ASSUME NEW c \in Runs, NEW state \in LifecycleState \ {"active"}, chunk[c] # Absent,
             chunk' = [chunk EXCEPT ![c] = state],
             UNCHANGED <<embedding, records, erased>>
      PROVE  Capture!CorpusNext \/ View' = View
  <2>1. c \notin erased
    BY <1>1, <1>6 DEF StoreInv, Lineage, SourceOnce
  <2>2. ChunkView(c)' = "retired" /\ ChunkView(c) \in {"saved", "ready", "retired"}
    BY <1>1, <1>6, <2>1 DEF ChunkView, StoreTypeOK, LifecycleState, Absent
  <2>3. \A k \in Runs \ {c} : ChunkView(k)' = ChunkView(k)
    BY <1>1, <1>6 DEF ChunkView, StoreTypeOK
  <2>4. CASE ChunkView(c) = "retired"
    BY <2>2, <2>3, <2>4 DEF View
  <2>5. CASE ChunkView(c) # "retired"
    <3>1. Capture!RetireChunk(c)
      BY <1>3, <2>2, <2>3, <2>5, OneViewChanges DEF Capture!RetireChunk, Capture!Become, View
    <3> QED  BY <3>1 DEF Capture!CorpusNext
  <2> QED  BY <2>4, <2>5
<1>7. ASSUME NEW c \in Runs, NEW status \in EmbeddingStatus, chunk[c] # Absent,
             embedding[c] = "ready" => status = "ready",
             embedding' = [embedding EXCEPT ![c] = status],
             UNCHANGED <<chunk, records, erased>>
      PROVE  Capture!CorpusNext \/ View' = View
  <2>1. c \notin erased
    BY <1>1, <1>7 DEF StoreInv, Lineage, SourceOnce
  <2>2. \A k \in Runs \ {c} : ChunkView(k)' = ChunkView(k)
    BY <1>1, <1>7 DEF ChunkView, StoreTypeOK
  <2>3. \/ ChunkView(c)' = ChunkView(c)
        \/ ChunkView(c) = "saved" /\ ChunkView(c)' = "ready"
    BY <1>1, <1>2, <1>7, <2>1 DEF ChunkView, StoreTypeOK, ReadyHasRecord
  <2>4. CASE ChunkView(c)' = ChunkView(c)
    BY <2>2, <2>4 DEF View
  <2>5. CASE ChunkView(c) = "saved" /\ ChunkView(c)' = "ready"
    <3>1. Capture!IndexChunk(c)
      BY <1>3, <2>2, <2>5, OneViewChanges DEF Capture!IndexChunk, Capture!Become, View
    <3> QED  BY <3>1 DEF Capture!CorpusNext
  <2> QED  BY <2>3, <2>4, <2>5
<1>8. ASSUME NEW c \in Runs, embedding[c] # "ready", records' = records \union {c},
             UNCHANGED <<chunk, embedding, erased>>
      PROVE  View' = View
  BY <1>1, <1>8 DEF View, ChunkView, StoreTypeOK
<1>9. ASSUME NEW c \in Runs \ erased,
             chunk' = [chunk EXCEPT ![c] = Absent],
             embedding' = [embedding EXCEPT ![c] = Absent],
             records' = records \ {c},
             erased' = erased \union {c}
      PROVE  Capture!CorpusNext
  <2>1. ChunkView(c) # "erased" /\ ChunkView(c)' = "erased"
    BY <1>1, <1>9 DEF ChunkView, StoreTypeOK
  <2>2. \A k \in Runs \ {c} : ChunkView(k)' = ChunkView(k)
    BY <1>1, <1>9 DEF ChunkView, StoreTypeOK
  <2>3. Capture!EraseChunk(c)
    BY <1>3, <2>1, <2>2, OneViewChanges DEF Capture!EraseChunk, Capture!Become, View
  <2> QED  BY <2>3 DEF Capture!CorpusNext
<1> QED
  BY <1>4, <1>5, <1>6, <1>7, <1>8, <1>9 DEF ChunkWrite

\* The invariants the step lemma needs, of every behaviour.
RefinementInv == TypeInv /\ StoreInv /\ SettledInv /\ ChunkOnce

\* No chunk comes back into retrieval, or loses its vector while it is in it,
\* whatever edits, removals, retries and hard deletes interleave.
THEOREM CaptureImplementsCorpus == Spec => ImplementsCorpus
<1>1. ASSUME Init PROVE SettledInv /\ ChunkOnce /\ Capture!CorpusInit
  <2>1. SettledInv /\ ChunkOnce
    BY <1>1 DEF Init, StoreInit, ReconciliationInit, SettledInv, ChunkOnce, Absent
  <2>2. \A c \in Runs : ChunkView(c) = "none"
    <3>1. erased = {} /\ \A c \in Runs : chunk[c] = Absent
      BY <1>1 DEF Init, StoreInit
    <3> SUFFICES ASSUME NEW c \in Runs PROVE ChunkView(c) = "none"
      OBVIOUS
    <3>2. c \notin erased /\ chunk[c] = Absent
      BY <3>1
    <3> QED  BY <3>2 DEF ChunkView, Absent
  <2> QED
    BY <2>1, <2>2 DEF Capture!CorpusInit
<1>2. RefinementInv /\ [Next]_vars => SettledInv' /\ ChunkOnce'
  BY SettledInvKept, ChunkOnceKept DEF RefinementInv
<1>3. RefinementInv /\ StoreInv' /\ [Next]_vars => [Capture!CorpusNext]_View
  BY NextChunkWrite, WriteIsCorpusStep DEF RefinementInv
<1> QED
  BY <1>1, <1>2, <1>3, StoreInvariant, PTL
     DEF Spec, RefinementInv, ImplementsCorpus, Capture!CorpusSpec, View
=============================================================================
