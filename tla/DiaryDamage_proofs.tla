------------------------- MODULE DiaryDamage_proofs -------------------------
(***************************************************************************)
(* The damage failures do to the capture side: what a store call that      *)
(* raises or a process that is killed leaves behind, and that it leaves no *)
(* more than that.                                                         *)
(***************************************************************************)
EXTENDS DiarySystem_proofs, FiniteSetTheorems

-----------------------------------------------------------------------------
(***************************************************************************)
(* Stranded rows.  A run that captured a note has not left its way to the  *)
(* notes row before it has saved one, unless it was aborted there.         *)
(***************************************************************************)
OnTheWay == {"get_active_note", "get_active_chunk", "save_note", "aborted"}

Noted(r) == r \in sources /\ Kind(r) \in NoteKinds => pc[r] \in OnTheWay \/ note[r] # Absent

NotedInv == \A r \in Runs : Noted(r)

\* A run that a step does not move stays as it was.
LEMMA StillRunNoted ==
  ASSUME TypeInv, SourceOnce', RowsKept, NEW k \in Runs, Noted(k),
         pc'[k] = pc[k], inbound'[k] = inbound[k], k \in sources' => k \in sources
  PROVE  Noted(k)'
  BY DEF Noted, SourceOnce, RowsKept, Kind

\* A handler run saves its note before it goes on to anything else.
LEMMA HandlerNoted ==
  ASSUME TypeInv, SourceOnce, SourceOnce', RowsKept, NEW r \in Runs, Noted(r), HandlerStep(r)
  PROVE  Noted(r)'
<1>1. StoreTypeOK /\ IngestionTypeOK
  BY DEF TypeInv, TypeOK
<1>2. UNCHANGED inbound /\ Kind(r)' = Kind(r)
  BY HandlerForward DEF Kind
<1>3. CASE GetOrCreateSource(r)
  <2>1. r \notin sources
    BY <1>3 DEF GetOrCreateSource, SourceOnce, BeforeSource
  <2> QED
    BY <1>1, <1>2, <1>3, <2>1 DEF GetOrCreateSource, GoTo, Finish, Noted, OnTheWay, NoteKinds,
       IngestionTypeOK, tables
<1>4. CASE IngestSaveNote(r)
  <2>1. CASE SaveNote(r)
    BY <1>1, <2>1 DEF SaveNote, Noted, StoreTypeOK, Absent
  <2>2. CASE Raise(r)
    BY <1>1, <2>2 DEF Raise, Noted, OnTheWay, IngestionTypeOK
  <2> QED
    BY <1>4, <2>1, <2>2 DEF IngestSaveNote
<1>5. CASE ~GetOrCreateSource(r) /\ ~IngestSaveNote(r)
  <2>1. UNCHANGED sources
    BY <1>5 DEF HandlerStep, RunStep, FailRun, Reconstruct, CountChunks, GetActiveNote,
       GetActiveChunk, IngestSaveChunk, RetireChunk, RetireNote, Embed, MarkFailed,
       WriteDeadLetter, SaveRecords, MarkReady, SaveChunk, MarkChunk, MarkNote, SetEmbedding,
       SaveRecord, SaveDeadLetter, Raise, tables
  <2>2. pc[r] \in OnTheWay => pc'[r] \in OnTheWay \/ IsRemoval(r)
    BY <1>1, <1>5 DEF HandlerStep, RunStep, FailRun, Reconstruct, CountChunks, GetActiveNote,
       GetActiveChunk, IngestSaveChunk, RetireChunk, RetireNote, Embed, MarkFailed,
       WriteDeadLetter, SaveRecords, MarkReady, GoTo, Finish, Raise, IngestionTypeOK, OnTheWay
  <2>3. IsRemoval(r) => Kind(r) \notin NoteKinds
    BY DEF IsRemoval, RemovalKinds, NoteKinds
  <2> QED
    BY <1>2, <2>1, <2>2, <2>3 DEF Noted, SourceOnce, RowsKept
<1> QED
  BY <1>3, <1>4, <1>5

\* Every step of the system keeps it.
LEMMA NotedInvKept ==
  ASSUME TypeInv, SourceOnce, SourceOnce', NotedInv, [Next]_vars
  PROVE  NotedInv'
<1> SUFFICES ASSUME NEW k \in Runs PROVE Noted(k)'
  BY DEF NotedInv
<1>1. IngestionTypeOK /\ RowsKept /\ Noted(k)
  BY NextRowsKept DEF NotedInv, TypeInv, TypeOK
<1>2. ASSUME NEW r \in Runs, HandlerStep(r) PROVE Noted(k)'
  <2>1. CASE k = r
    BY <1>1, <1>2, <2>1, HandlerNoted
  <2>2. CASE k # r
    <3>1. pc'[k] = pc[k] /\ UNCHANGED inbound
      BY <1>2, <2>2, HandlerMovesOne
    <3>2. k \in sources' => k \in sources
      BY <1>2, <2>2 DEF HandlerStep, RunStep, FailRun, GetOrCreateSource, Reconstruct,
         CountChunks, GetActiveNote, GetActiveChunk, IngestSaveNote, IngestSaveChunk,
         RetireChunk, RetireNote, Embed, MarkFailed, WriteDeadLetter, SaveRecords, MarkReady,
         InsertSource, SaveNote, SaveChunk, MarkChunk, MarkNote, SetEmbedding, SaveRecord,
         SaveDeadLetter, Raise, tables
    <3> QED
      BY <1>1, <3>1, <3>2, StillRunNoted
  <2> QED
    BY <2>1, <2>2
<1>3. ASSUME NEW u \in pending, Deliver(u) PROVE Noted(k)'
  <2>1. PICK r \in Runs : StartRun(r, u)
    BY <1>3 DEF Deliver
  <2>2. r \notin sources /\ sources' = sources
    BY <2>1 DEF StartRun, SourceOnce, BeforeSource, tables
  <2>3. k # r => pc'[k] = pc[k] /\ inbound'[k] = inbound[k]
    BY <1>1, <2>1 DEF StartRun, GoTo, IngestionTypeOK, TypeInv, TypeOK, StoreTypeOK
  <2> QED
    BY <1>1, <2>2, <2>3, StillRunNoted DEF Noted
<1>4. ASSUME NEW r \in Runs, Respond(r) PROVE Noted(k)'
  <2>1. UNCHANGED <<sources, note, inbound>>
    BY <1>4 DEF Respond, tables
  <2>2. pc'[k] = pc[k] \/ pc[k] = "done"
    BY <1>1, <1>4 DEF Respond, GoTo, IngestionTypeOK
  <2> QED
    BY <1>1, <2>1, <2>2 DEF Noted, Kind, OnTheWay
<1>5. ASSUME NEW r \in Runs, HardDelete(r) PROVE Noted(k)'
  <2>1. UNCHANGED <<pc, inbound>> /\ sources' \subseteq sources
    BY <1>5 DEF HardDelete, DeleteSource, runVars, tables
  <2> QED
    BY <1>1, <2>1, StillRunNoted
<1>6. ASSUME NEW w \in Operators, OperatorStep(w) PROVE Noted(k)'
  <2>1. UNCHANGED <<pc, inbound, sources>>
    BY <1>6 DEF OperatorStep, RetryStep, RetryKilled, ListFailed, RetryEmbed, RetrySaveRecords,
       RetryMarkReady, RetryDeadLetter, SaveRecord, SetEmbedding, SaveDeadLetter, tables, runVars
  <2> QED
    BY <1>1, <2>1, StillRunNoted
<1>7. CASE UNCHANGED vars \/ UserStep \/ Rest
  <2>1. UNCHANGED <<pc, inbound, sources>>
    BY <1>7 DEF UserStep, Rest, vars, tables, runVars
  <2> QED
    BY <1>1, <2>1, StillRunNoted
<1> QED
  BY <1>2, <1>3, <1>4, <1>5, <1>6, <1>7 DEF Next

\* No number of failures goes down.
LEMMA FailuresGrow ==
  ASSUME TypeInv, [Next]_vars
  PROVE  /\ failures \in Nat /\ failures' \in Nat
         /\ failures' >= failures
<1>1. failures \in Nat
  BY FaultBudgets DEF TypeInv, TypeOK, FaultsTypeOK
<1>2. NoFault \/ StoreFault \/ ProviderFault \/ AckLost \/ UNCHANGED failures
  BY DEF Next, UserStep, Rest, vars, faultVars, Deliver, StartRun, HandlerStep, RunStep,
     FailRun, GetOrCreateSource, Reconstruct, CountChunks, GetActiveNote, GetActiveChunk,
     IngestSaveNote, IngestSaveChunk, RetireChunk, RetireNote, Embed, MarkFailed,
     WriteDeadLetter, SaveRecords, MarkReady, Respond, HardDelete, OperatorStep, RetryStep,
     RetryKilled, ListFailed, RetryEmbed, RetrySaveRecords, RetryMarkReady, RetryDeadLetter
<1> QED
  BY <1>1, <1>2 DEF NoFault, StoreFault, ProviderFault, AckLost, faultVars

\* Only a failing store call leaves a row stranded, and only one.
LEMMA StrandingStep ==
  ASSUME TypeInv, SourceOnce, SourceOnce', NotedInv, NotedInv', [Next]_vars
  PROVE  \/ Stranded' \subseteq Stranded
         \/ failures' = failures + 1 /\ \E r \in Runs : Stranded' \subseteq Stranded \union {r}
<1>1. StoreTypeOK /\ IngestionTypeOK /\ RowsKept
  BY NextRowsKept DEF TypeInv, TypeOK
<1>2. SourceStep /\ \A k \in Runs : Forward(k)
  BY NextSourceStep, NextForward
<1>3. ASSUME NEW s \in Stranded', s \notin Stranded
      PROVE  pc'[s] = "aborted" /\ pc[s] \notin {"aborted", "unused", "replied"}
             /\ s \in Runs /\ s \in sources /\ note[s] = Absent
  <2>1. s \in sources' /\ s \in Runs /\ note'[s] = Absent
    <3>1. s \in sources' /\ note'[s] = Absent
      BY <1>3 DEF Stranded
    <3>2. sources' \subseteq Runs
      BY <1>1, <1>2 DEF SourceStep, StoreTypeOK
    <3> QED  BY <3>1, <3>2
  <2>2. Kind(s)' \in NoteKinds /\ pc'[s] \in {"unused", "replied", "aborted"}
    BY <1>3, <2>1 DEF Stranded, InFlight
  <2>3. pc'[s] = "aborted"
    BY <2>1, <2>2 DEF NotedInv, Noted, OnTheWay
  <2>4. s \in sources
    <3> SUFFICES ASSUME s \notin sources PROVE FALSE
      OBVIOUS
    <3>1. pc[s] = "get_or_create_source"
      BY <1>2, <2>1 DEF SourceStep
    <3>2. PICK r \in Runs : HandlerStep(r)
      BY <2>1 DEF Next, UserStep, Rest, vars, Deliver, StartRun, Respond, HardDelete,
         DeleteSource, OperatorStep, RetryStep, RetryKilled, ListFailed, RetryEmbed,
         RetrySaveRecords, RetryMarkReady, RetryDeadLetter, SaveRecord, SetEmbedding,
         SaveDeadLetter, tables
    <3>3. r = s
      BY <2>1, <2>3, <3>1, <3>2, HandlerMovesOne
    <3>4. GetOrCreateSource(s)
      BY <2>1, <3>1, <3>2, <3>3 DEF HandlerStep, RunStep, FailRun, Raise, Reconstruct,
         CountChunks, GetActiveNote, GetActiveChunk, IngestSaveNote, IngestSaveChunk,
         RetireChunk, RetireNote, Embed, MarkFailed, WriteDeadLetter, SaveRecords, MarkReady,
         tables
    <3> QED
      BY <1>1, <2>1, <2>3, <3>4 DEF GetOrCreateSource, GoTo, Finish, IngestionTypeOK
  <2>5. Kind(s)' = Kind(s)
    BY <1>2, <2>1, <2>4 DEF SourceOnce, BeforeSource, Forward, Kind
  <2>6. note[s] = Absent
    BY <1>1, <2>1 DEF RowsKept, SourceOnce
  <2>7. s \in InFlight
    BY <1>3, <2>1, <2>2, <2>4, <2>5, <2>6 DEF Stranded
  <2> QED  BY <2>1, <2>3, <2>4, <2>6, <2>7 DEF InFlight
<1>4. ASSUME NEW r \in Runs, HandlerStep(r), FailRun(r)
      PROVE  failures' = failures + 1 /\ Stranded' \subseteq Stranded \union {r}
  <2>1. \A k \in Runs \ {r} : pc'[k] = pc[k]
    BY <1>4, HandlerMovesOne
  <2> QED  BY <1>3, <1>4, <2>1 DEF FailRun, StoreFault
<1>5. ASSUME NEW r \in Runs, HandlerStep(r), ~FailRun(r) PROVE Stranded' \subseteq Stranded
  <2> SUFFICES ASSUME NEW s \in Stranded', s \notin Stranded PROVE FALSE
    OBVIOUS
  <2>1. pc'[s] = "aborted" /\ pc[s] # "aborted" /\ s \in Runs /\ s \in sources /\ note[s] = Absent
    BY <1>3
  <2>2. s = r
    BY <1>5, <2>1, HandlerMovesOne
  <2>3. Kind(r) \in NoteKinds
    <3>1. Kind(s)' \in NoteKinds
      BY DEF Stranded
    <3> QED  BY <1>5, <2>2, <3>1, HandlerForward DEF Kind
  <2>4. pc[r] \in OnTheWay
    BY <2>1, <2>2, <2>3 DEF NotedInv, Noted
  <2>5. pc'[r] # "aborted"
    BY <1>1, <1>5, <2>1, <2>2, <2>4 DEF HandlerStep, RunStep, GetOrCreateSource, Reconstruct,
       CountChunks, GetActiveNote, GetActiveChunk, IngestSaveNote, IngestSaveChunk, RetireChunk,
       RetireNote, Embed, MarkFailed, WriteDeadLetter, SaveRecords, MarkReady, CanSaveNote,
       AfterSaving, RetireFrom, GoTo, Finish, IngestionTypeOK, OnTheWay
  <2> QED  BY <2>1, <2>2, <2>5
<1>6. ASSUME \A r \in Runs : ~HandlerStep(r) PROVE Stranded' \subseteq Stranded
  <2>1. \A k \in Runs : pc'[k] = "aborted" => pc[k] = "aborted"
    BY <1>1, <1>6 DEF Next, UserStep, Rest, vars, runVars, Deliver, StartRun, Respond, HardDelete,
       OperatorStep, GoTo, IngestionTypeOK
  <2> QED  BY <1>3, <2>1
<1> QED  BY <1>4, <1>5, <1>6

\* A set within another and one element more has at most one element more.
LEMMA AddsAtMostOne ==
  ASSUME NEW S, IsFiniteSet(S), NEW n \in Nat, Cardinality(S) <= n, NEW x, NEW T,
         T \subseteq S \union {x}
  PROVE  IsFiniteSet(T) /\ Cardinality(T) <= n + 1
<1>1. Cardinality(S) \in Nat
  BY FS_CardinalityType
<1>2. IsFiniteSet(S \union {x}) /\ Cardinality(S \union {x}) <= n + 1
  <2>1. CASE x \in S
    <3>1. S \union {x} = S
      BY <2>1
    <3>2. Cardinality(S \union {x}) <= n + 1
      BY <1>1, <3>1
    <3> QED  BY <3>1, <3>2
  <2>2. CASE x \notin S
    <3>1. IsFiniteSet(S \union {x}) /\ Cardinality(S \union {x}) = Cardinality(S) + 1
      BY <2>2, FS_AddElement
    <3>2. Cardinality(S \union {x}) <= n + 1
      BY <1>1, <3>1
    <3> QED  BY <3>1, <3>2
  <2> QED  BY <2>1, <2>2
<1>3. IsFiniteSet(T) /\ Cardinality(T) <= Cardinality(S \union {x})
  BY <1>2, FS_Subset
<1>4. Cardinality(T) \in Nat /\ Cardinality(S \union {x}) \in Nat
  BY <1>2, <1>3, FS_CardinalityType
<1> QED
  BY <1>2, <1>3, <1>4

\* What the stranded rows are counted in.
StrandedInv == NotedInv /\ StrandedBounded

\* Each failure strands at most one captured note without its notes row,
\* however many deliveries, retries and erasures interleave with it.
THEOREM FailuresStrandOneEach == Spec => []StrandedBounded
<1>1. \A S : S \subseteq Runs => IsFiniteSet(S) /\ Cardinality(S) \in Nat
  <2>1. IsFiniteSet(Runs)
    BY StoreAssumption, FS_Interval DEF Runs
  <2> QED  BY <2>1, FS_Subset, FS_CardinalityType
<1>2. /\ TypeInv => Stranded \subseteq Runs
      /\ TypeInv' => Stranded' \subseteq Runs
  BY DEF TypeInv, TypeOK, StoreTypeOK, Stranded
<1>3. ASSUME Init PROVE StrandedInv
  <2>1. Stranded = {} /\ failures = 0
    BY <1>3 DEF Init, StoreInit, FaultsInit, Stranded
  <2>2. NotedInv
    BY <1>3 DEF Init, StoreInit, NotedInv, Noted
  <2> QED  BY <2>1, <2>2, FS_EmptySet DEF StrandedInv, StrandedBounded
<1>4. ASSUME TypeInv, TypeInv', StoreInv, StoreInv', StrandedInv, [Next]_vars
      PROVE  StrandedInv'
  <2>1. NotedInv'
    BY <1>4, NotedInvKept DEF StoreInv, StrandedInv
  <2>2. \/ Stranded' \subseteq Stranded
        \/ failures' = failures + 1 /\ \E r \in Runs : Stranded' \subseteq Stranded \union {r}
    BY <1>4, <2>1, StrandingStep DEF StoreInv, StrandedInv
  <2>3. failures \in Nat /\ failures' \in Nat /\ failures' >= failures
    BY <1>4, FailuresGrow
  <2>4. IsFiniteSet(Stranded) /\ Cardinality(Stranded) \in Nat /\ Cardinality(Stranded) <= failures
    BY <1>1, <1>2, <1>4 DEF StrandedInv, StrandedBounded
  <2>5. Cardinality(Stranded') \in Nat
    BY <1>1, <1>2, <1>4
  <2>6. CASE Stranded' \subseteq Stranded
    <3>1. Cardinality(Stranded') <= Cardinality(Stranded)
      BY <2>4, <2>6, FS_Subset
    <3> QED  BY <2>1, <2>3, <2>4, <2>5, <3>1 DEF StrandedInv, StrandedBounded
  <2>7. ASSUME failures' = failures + 1, NEW r \in Runs, Stranded' \subseteq Stranded \union {r}
        PROVE  StrandedInv'
    <3>1. Cardinality(Stranded') <= failures + 1
      BY <2>3, <2>4, <2>7, AddsAtMostOne
    <3> QED  BY <2>1, <2>7, <3>1 DEF StrandedInv, StrandedBounded
  <2> QED  BY <2>2, <2>6, <2>7
<1>5. StrandedInv => StrandedBounded
  BY DEF StrandedInv
<1> QED
  BY <1>3, <1>4, <1>5, StoreInvariant, PTL DEF Spec

-----------------------------------------------------------------------------
(***************************************************************************)
(* One delivery at a time.  What a run reads of the prior revision then    *)
(* stays true until it acts on it, but for an erasure: it retires what it  *)
(* read, the chunk before the note, and leaves more than one revision      *)
(* active only by dying on the way.                                        *)
(***************************************************************************)
OneInFlight == \A r, s \in InFlight : r = s

BeforeLookup == {"unused", "get_or_create_source", "get_active_note"}
Saving == {"save_note", "save_chunk"}
Replacing == {"get_active_chunk", "mark_chunk", "mark_note"} \union Saving

\* The prior revision a run carries: never its own, and a chunk only as the
\* chunk of the note it carries, there unless erased since.
CarriesPrior(r) ==
    /\ priorNote[r] # r
    /\ pc[r] \in BeforeLookup => priorNote[r] = NoRun
    /\ pc[r] \in BeforeLookup \union {"get_active_chunk"} => priorChunk[r] = NoRun
    /\ pc[r] \in Saving => priorChunk[r] \in {NoRun, priorNote[r]}
    /\ pc[r] = "mark_chunk" => priorChunk[r] = priorNote[r]
    /\ pc[r] \in Replacing \ Saving => priorNote[r] # NoRun
    /\ pc[r] \in Replacing /\ priorChunk[r] # NoRun => KeptWithChunk(priorChunk[r])

\* A run that will not retire the prior note's chunk, or has, carries a note
\* whose chunk is not active; and nobody retires a note it has just saved.
ChunkFirst(r) ==
    /\ pc[r] \in Saving /\ priorChunk[r] = NoRun /\ priorNote[r] # NoRun =>
          chunk[priorNote[r]] # "active"
    /\ pc[r] = "mark_note" => chunk[priorNote[r]] # "active"
    /\ pc[r] = "save_chunk" => note[r] \in {"active", Absent}

PriorInv ==
    /\ OneInFlight
    /\ \A r \in Runs : CarriesPrior(r)
    /\ \A r \in Runs : ChunkFirst(r)
    /\ RetrievableIsCurrent

\* The revisions of a message beside the one a run replaces and its own.
Others(r) == ActiveNotes(Message(r)) \ {priorNote[r], r}

RevisionsCounted ==
    /\ \A m \in Messages :
          \/ Cardinality(ActiveNotes(m)) <= 1 + failures
          \/ \E r \in Runs : pc[r] \in Replacing /\ Message(r) = m
    /\ \A r \in Runs : pc[r] \in Replacing => Cardinality(Others(r)) <= failures

\* Runs are finitely many.
LEMMA RunsFinite == \A S : S \subseteq Runs => IsFiniteSet(S) /\ Cardinality(S) \in Nat
<1>1. IsFiniteSet(Runs)
  BY StoreAssumption, FS_Interval DEF Runs
<1> QED
  BY <1>1, FS_Subset, FS_CardinalityType

\* With one handler thread, a delivery starts only when no run is in flight.
LEMMA OneInFlightKept ==
  ASSUME MaxInFlight <= 1, TypeInv, OneInFlight, [Next]_vars
  PROVE  OneInFlight'
<1>1. IngestionTypeOK
  BY DEF TypeInv, TypeOK
<1>2. ASSUME NEW u \in pending, Deliver(u) PROVE OneInFlight'
  <2>1. IsFiniteSet(InFlight) /\ Cardinality(InFlight) \in Nat
    BY RunsFinite DEF InFlight
  <2>2. Cardinality(InFlight) = 0
    BY <1>2, <2>1, SystemAssumption DEF Deliver
  <2>3. InFlight = {}
    BY <2>1, <2>2, FS_EmptySet
  <2>4. PICK r \in Runs : StartRun(r, u)
    BY <1>2 DEF Deliver
  <2>5. \A k \in InFlight' : k = r
    BY <1>1, <2>3, <2>4 DEF StartRun, GoTo, InFlight, IngestionTypeOK
  <2> QED  BY <2>5 DEF OneInFlight
<1>3. ASSUME NEW r \in Runs, HandlerStep(r) PROVE OneInFlight'
  <2>1. r \in InFlight
    BY <1>3 DEF HandlerStep, RunStep, FailRun, Calls, InFlight, GetOrCreateSource, Reconstruct,
       CountChunks, GetActiveNote, GetActiveChunk, IngestSaveNote, IngestSaveChunk, RetireChunk,
       RetireNote, Embed, MarkFailed, WriteDeadLetter, SaveRecords, MarkReady
  <2>2. \A k \in InFlight' : k \in InFlight
    BY <1>3, <2>1, HandlerMovesOne DEF InFlight
  <2> QED  BY <2>2 DEF OneInFlight
<1>4. ASSUME NEW r \in Runs, Respond(r) PROVE OneInFlight'
  BY <1>1, <1>4 DEF Respond, GoTo, OneInFlight, InFlight, IngestionTypeOK
<1>5. UNCHANGED pc => OneInFlight'
  BY DEF OneInFlight, InFlight
<1> QED
  BY <1>2, <1>3, <1>4, <1>5 DEF Next, UserStep, Rest, vars, runVars, HardDelete, OperatorStep

\* A handler run's step moves no other run's locals.
LEMMA HandlerKeepsLocals ==
  ASSUME TypeInv, NEW r \in Runs, HandlerStep(r)
  PROVE  /\ \A k \in Runs \ {r} : priorNote'[k] = priorNote[k] /\ priorChunk'[k] = priorChunk[k]
         /\ ~GetActiveNote(r) => UNCHANGED priorNote
         /\ ~GetActiveChunk(r) => UNCHANGED priorChunk
  BY DEF TypeInv, TypeOK, IngestionTypeOK, HandlerStep, RunStep, FailRun, GetOrCreateSource,
     Reconstruct, CountChunks, GetActiveNote, GetActiveChunk, IngestSaveNote, IngestSaveChunk,
     RetireChunk, RetireNote, Embed, MarkFailed, WriteDeadLetter, SaveRecords, MarkReady,
     UnchangedLocals

\* What a run carries it has looked up: the newest active note, then that
\* note's chunk.
LEMMA HandlerCarriesPrior ==
  ASSUME TypeInv, NotesAreSaved, RowsKept, NEW r \in Runs, CarriesPrior(r), HandlerStep(r)
  PROVE  CarriesPrior(r)'
<1>1. IngestionTypeOK /\ StoreTypeOK /\ priorChunk[r] \in Runs \union {NoRun}
  BY DEF TypeInv, TypeOK, IngestionTypeOK
<1>2. r # NoRun
  BY DEF Runs, NoRun
<1>3. (priorChunk[r] # NoRun /\ KeptWithChunk(priorChunk[r])) /\ priorChunk'[r] = priorChunk[r] =>
         KeptWithChunk(priorChunk[r])'
  BY <1>1 DEF RowsKept, KeptWithChunk
<1>4. CASE GetActiveNote(r)
  <2>1. \A n \in ActiveNotes(Message(r)) : n # r
    BY <1>4 DEF GetActiveNote, ActiveNotes, NotesAreSaved, BeforeNote, Absent
  <2>2. UNCHANGED priorChunk /\ priorChunk[r] = NoRun
    BY <1>4 DEF GetActiveNote, CarriesPrior, BeforeLookup
  <2>3. priorNote'[r] # r
    BY <1>1, <1>4, <2>1 DEF GetActiveNote, IsNewest, CarriesPrior, IngestionTypeOK
  <2>4. \/ pc'[r] \in {"done", "save_note"}
        \/ pc'[r] = "get_active_chunk" /\ priorNote'[r] # NoRun
    <3>1. \A n \in Runs : n # NoRun
      BY DEF Runs, NoRun
    <3> QED
      BY <1>1, <1>4, <3>1 DEF GetActiveNote, GoTo, Finish, IngestionTypeOK
  <2> QED
    BY <2>2, <2>3, <2>4 DEF CarriesPrior, BeforeLookup, Saving, Replacing
<1>5. CASE GetActiveChunk(r)
  <2>1. UNCHANGED priorNote /\ priorNote[r] \in Runs
    BY <1>1, <1>5 DEF GetActiveChunk, CarriesPrior, Replacing, Saving, IngestionTypeOK
  <2>2. priorChunk'[r] = ActiveChunkOf(priorNote[r])
    BY <1>1, <1>5 DEF GetActiveChunk, IngestionTypeOK
  <2>3. ActiveChunkOf(priorNote[r]) # NoRun =>
           ActiveChunkOf(priorNote[r]) = priorNote[r] /\ chunk[priorNote[r]] # Absent
    BY DEF ActiveChunkOf, Absent
  <2>4. UNCHANGED chunk
    BY <1>5 DEF GetActiveChunk, tables
  <2>5. pc'[r] = IF IsRemoval(r) THEN RetireFrom(r, ActiveChunkOf(priorNote[r])) ELSE "save_note"
    BY <1>1, <1>5 DEF GetActiveChunk, GoTo, IngestionTypeOK
  <2>6. KeptWithChunk(priorChunk[r])' \/ priorChunk'[r] = NoRun
    BY <2>2, <2>3, <2>4 DEF KeptWithChunk
  <2>7. \/ pc'[r] = "save_note"
        \/ pc'[r] = "mark_chunk" /\ ActiveChunkOf(priorNote[r]) # NoRun
        \/ pc'[r] = "mark_note"
    BY <2>1, <2>5 DEF RetireFrom, Runs, NoRun
  <2>8. priorNote[r] # NoRun /\ priorNote[r] # r
    BY <2>1 DEF CarriesPrior, Runs, NoRun
  <2> QED
    BY <2>1, <2>2, <2>3, <2>6, <2>7, <2>8 DEF CarriesPrior, BeforeLookup, Saving, Replacing
<1>6. CASE ~GetActiveNote(r) /\ ~GetActiveChunk(r)
  <2>1. UNCHANGED <<priorNote, priorChunk>>
    BY <1>6, HandlerKeepsLocals
  <2>2. \/ pc'[r] \notin BeforeLookup \union Replacing
        \/ pc[r] = "get_or_create_source" /\ pc'[r] = "get_active_note"
        \/ pc[r] = "save_note" /\ pc'[r] = "save_chunk"
        \/ pc[r] \in Saving /\ pc'[r] = "mark_chunk" /\ priorChunk[r] # NoRun
        \/ pc[r] \in Saving /\ pc'[r] = "mark_note" /\ priorNote[r] # NoRun
        \/ pc[r] = "mark_chunk" /\ pc'[r] = "mark_note"
    BY <1>1, <1>6 DEF HandlerStep, RunStep, FailRun, GetOrCreateSource, Reconstruct,
       CountChunks, IngestSaveNote, IngestSaveChunk, RetireChunk, RetireNote, Embed, MarkFailed,
       WriteDeadLetter, SaveRecords, MarkReady, AfterSaving, RetireFrom, GoTo, Finish, Raise,
       IngestionTypeOK, BeforeLookup, Replacing, Saving
  <2> QED
    BY <1>1, <1>2, <1>3, <2>1, <2>2 DEF CarriesPrior, BeforeLookup, Saving, Replacing
<1> QED
  BY <1>4, <1>5, <1>6

\* A run marks the prior chunk, if it is active, before the prior note, and
\* gives its chunk to a note that is still active.
LEMMA HandlerChunkFirst ==
  ASSUME TypeInv, NEW r \in Runs, CarriesPrior(r), ChunkFirst(r), RetrievableIsCurrent,
         HandlerStep(r)
  PROVE  ChunkFirst(r)' /\ RetrievableIsCurrent'
<1>1. IngestionTypeOK /\ StoreTypeOK
  BY DEF TypeInv, TypeOK
<1>2. RetiredState(r) \in {"superseded", "tombstoned"}
  BY DEF RetiredState
<1>3. CASE GetActiveNote(r) \/ GetActiveChunk(r)
  <2>1. UNCHANGED <<note, chunk>>
    BY <1>3 DEF GetActiveNote, GetActiveChunk, tables
  <2>2. CASE GetActiveNote(r)
    <3>1. \/ pc'[r] \in {"done", "get_active_chunk"}
          \/ pc'[r] = "save_note" /\ priorNote'[r] = NoRun
      BY <1>1, <2>2 DEF GetActiveNote, GoTo, Finish, IngestionTypeOK, CarriesPrior, BeforeLookup
    <3> QED
      BY <2>1, <3>1 DEF ChunkFirst, Saving, RetrievableIsCurrent
  <2>3. CASE GetActiveChunk(r)
    <3>1. UNCHANGED priorNote /\ priorChunk'[r] = ActiveChunkOf(priorNote[r])
      BY <1>1, <2>3 DEF GetActiveChunk, IngestionTypeOK
    <3>2. pc'[r] \in {"save_note", "mark_chunk"} \/ ActiveChunkOf(priorNote[r]) = NoRun
      BY <1>1, <2>3 DEF GetActiveChunk, RetireFrom, GoTo, IngestionTypeOK
    <3>3. pc'[r] # "save_chunk"
      BY <1>1, <2>3 DEF GetActiveChunk, RetireFrom, GoTo, IngestionTypeOK
    <3>4. priorNote[r] # NoRun /\ priorNote[r] \in Runs
      BY <1>1, <2>3 DEF GetActiveChunk, CarriesPrior, Replacing, Saving, IngestionTypeOK
    <3>5. ActiveChunkOf(priorNote[r]) = NoRun => chunk[priorNote[r]] # "active"
      BY <3>4 DEF ActiveChunkOf
    <3> QED
      BY <2>1, <3>1, <3>2, <3>3, <3>5 DEF ChunkFirst, Saving, RetrievableIsCurrent
  <2> QED  BY <1>3, <2>2, <2>3
<1>4. CASE ~GetActiveNote(r) /\ ~GetActiveChunk(r)
  <2>1. UNCHANGED <<priorNote, priorChunk>>
    BY <1>4, HandlerKeepsLocals
  <2>2. CASE IngestSaveNote(r)
    BY <1>1, <2>1, <2>2 DEF IngestSaveNote, SaveNote, AfterSaving, RetireFrom, GoTo, Finish, Raise,
       IngestionTypeOK, StoreTypeOK, ChunkFirst, Saving, RetrievableIsCurrent, tables
  <2>3. CASE IngestSaveChunk(r)
    BY <1>1, <2>1, <2>3 DEF IngestSaveChunk, CanSaveChunk, SaveChunk, AfterSaving, RetireFrom,
       GoTo, Finish, Raise, IngestionTypeOK, StoreTypeOK, ChunkFirst, CarriesPrior, Saving,
       RetrievableIsCurrent, tables
  <2>4. CASE RetireChunk(r)
    <3>1. priorChunk[r] = priorNote[r] /\ priorNote[r] \in Runs
      BY <1>1, <2>4 DEF RetireChunk, CarriesPrior, Replacing, Saving, IngestionTypeOK
    <3> QED
      BY <1>1, <1>2, <2>1, <2>4, <3>1 DEF RetireChunk, MarkChunk, GoTo, Raise, IngestionTypeOK,
         StoreTypeOK, ChunkFirst, Saving, RetrievableIsCurrent, tables
  <2>5. CASE RetireNote(r)
    BY <1>1, <1>2, <2>1, <2>5 DEF RetireNote, MarkNote, GoTo, Finish, Raise, IngestionTypeOK,
       StoreTypeOK, ChunkFirst, CarriesPrior, Saving, RetrievableIsCurrent, tables
  <2>6. CASE ~IngestSaveNote(r) /\ ~IngestSaveChunk(r) /\ ~RetireChunk(r) /\ ~RetireNote(r)
    <3>1. UNCHANGED <<note, chunk>>
      BY <1>4, <2>6 DEF HandlerStep, RunStep, FailRun, GetOrCreateSource, Reconstruct,
         CountChunks, Embed, MarkFailed, WriteDeadLetter, SaveRecords, MarkReady, InsertSource,
         SetEmbedding, SaveRecord, SaveDeadLetter, Raise, tables
    <3>2. pc'[r] \notin Saving \union {"mark_note"}
      BY <1>1, <1>4, <2>6 DEF HandlerStep, RunStep, FailRun, GetOrCreateSource, Reconstruct,
         CountChunks, Embed, MarkFailed, WriteDeadLetter, SaveRecords, MarkReady, GoTo, Finish,
         Raise, IngestionTypeOK, Saving
    <3> QED
      BY <3>1, <3>2 DEF ChunkFirst, Saving, RetrievableIsCurrent
  <2> QED  BY <2>2, <2>3, <2>4, <2>5, <2>6
<1> QED
  BY <1>3, <1>4

\* A run that is not in flight carries nothing it could still act on.
LEMMA RestingRunKeepsPrior ==
  ASSUME NEW k \in Runs, CarriesPrior(k), pc[k] \in {"unused", "done", "replied", "aborted"},
         pc'[k] \in {"unused", "done", "replied", "aborted"}, pc'[k] = "unused" => pc[k] = "unused",
         priorNote'[k] = priorNote[k], priorChunk'[k] = priorChunk[k]
  PROVE  CarriesPrior(k)' /\ ChunkFirst(k)'
  BY DEF CarriesPrior, ChunkFirst, BeforeLookup, Saving, Replacing

\* Erasing a row takes its note with its chunk.
LEMMA ErasureKeepsPrior ==
  ASSUME TypeInv, RowsKept, NEW r \in Runs, HardDelete(r), NEW k \in Runs, CarriesPrior(k),
         ChunkFirst(k), RetrievableIsCurrent
  PROVE  CarriesPrior(k)' /\ ChunkFirst(k)' /\ RetrievableIsCurrent'
<1>1. StoreTypeOK /\ priorNote[k] \in Runs \union {NoRun} /\ priorChunk[k] \in Runs \union {NoRun}
  BY DEF TypeInv, TypeOK, IngestionTypeOK
<1>2. UNCHANGED <<pc, priorNote, priorChunk>>
  BY DEF HardDelete, runVars
<1>3. \A c \in Runs : \/ chunk'[c] = chunk[c] /\ note'[c] = note[c]
                      \/ chunk'[c] = Absent /\ note'[c] = Absent
  <2>1. CASE UNCHANGED tables
    BY <2>1 DEF tables
  <2>2. CASE DeleteSource(r)
    BY <1>1, <2>2 DEF DeleteSource, StoreTypeOK
  <2> QED
    BY <2>1, <2>2 DEF HardDelete
<1>4. Absent # "active"
  BY DEF Absent
<1>5. CarriesPrior(k)'
  BY <1>1, <1>2 DEF CarriesPrior, RowsKept, KeptWithChunk
<1>6. pc[k] = "mark_note" => priorNote[k] # NoRun
  BY DEF CarriesPrior, Replacing, Saving
<1>7. ChunkFirst(k)'
  BY <1>1, <1>2, <1>3, <1>4, <1>6 DEF ChunkFirst
<1>8. RetrievableIsCurrent'
  BY <1>3, <1>4 DEF RetrievableIsCurrent
<1> QED
  BY <1>5, <1>7, <1>8

\* Every step of the system keeps the prior revisions' invariant.
LEMMA PriorInvKept ==
  ASSUME MaxInFlight <= 1, TypeInv, NotesAreSaved, PriorInv, [Next]_vars
  PROVE  PriorInv'
<1>1. IngestionTypeOK /\ StoreTypeOK /\ RowsKept /\ OneInFlight'
  BY NextRowsKept, OneInFlightKept DEF PriorInv, TypeInv, TypeOK
<1> SUFFICES ASSUME NEW k \in Runs PROVE CarriesPrior(k)' /\ ChunkFirst(k)' /\ RetrievableIsCurrent'
  BY <1>1 DEF PriorInv, RetrievableIsCurrent
<1>2. CarriesPrior(k) /\ ChunkFirst(k) /\ RetrievableIsCurrent
  BY DEF PriorInv
<1>3. ASSUME NEW r \in Runs, HandlerStep(r)
      PROVE  CarriesPrior(k)' /\ ChunkFirst(k)' /\ RetrievableIsCurrent'
  <2>1. CarriesPrior(r) /\ ChunkFirst(r)
    BY DEF PriorInv
  <2>2. RetrievableIsCurrent' /\ ChunkFirst(r)' /\ CarriesPrior(r)'
    BY <1>1, <1>2, <1>3, <2>1, HandlerChunkFirst, HandlerCarriesPrior
  <2>3. CASE k # r
    <3>1. r \in InFlight
      BY <1>3 DEF HandlerStep, RunStep, FailRun, Calls, InFlight, GetOrCreateSource, Reconstruct,
         CountChunks, GetActiveNote, GetActiveChunk, IngestSaveNote, IngestSaveChunk, RetireChunk,
         RetireNote, Embed, MarkFailed, WriteDeadLetter, SaveRecords, MarkReady
    <3>2. pc[k] \in {"unused", "replied", "aborted"}
      BY <2>3, <3>1 DEF PriorInv, OneInFlight, InFlight
    <3>3. pc'[k] = pc[k] /\ priorNote'[k] = priorNote[k] /\ priorChunk'[k] = priorChunk[k]
      BY <1>3, <2>3, HandlerMovesOne, HandlerKeepsLocals
    <3> QED
      BY <1>2, <2>2, <3>2, <3>3, RestingRunKeepsPrior
  <2> QED  BY <2>2, <2>3
<1>4. ASSUME NEW u \in pending, Deliver(u)
      PROVE  CarriesPrior(k)' /\ ChunkFirst(k)' /\ RetrievableIsCurrent'
  <2>1. UNCHANGED <<note, chunk, priorNote, priorChunk, erased>>
    BY <1>4 DEF Deliver, StartRun, UnchangedLocals, tables, operatorVars
  <2>2. \/ pc'[k] = pc[k]
        \/ pc[k] = "unused" /\ pc'[k] \in {"get_active_note", "get_or_create_source"}
    BY <1>1, <1>4 DEF Deliver, StartRun, GoTo, IngestionTypeOK
  <2> QED
    BY <1>2, <2>1, <2>2 DEF CarriesPrior, ChunkFirst, RetrievableIsCurrent, BeforeLookup,
       Saving, Replacing, KeptWithChunk
<1>5. ASSUME NEW r \in Runs, Respond(r)
      PROVE  CarriesPrior(k)' /\ ChunkFirst(k)' /\ RetrievableIsCurrent'
  <2>1. UNCHANGED <<note, chunk, priorNote, priorChunk, erased>>
    BY <1>5 DEF Respond, UnchangedLocals, tables, operatorVars
  <2>2. \/ pc'[k] = pc[k]
        \/ pc[k] = "done" /\ pc'[k] = "replied"
    BY <1>1, <1>5 DEF Respond, GoTo, IngestionTypeOK
  <2> QED
    BY <1>2, <2>1, <2>2 DEF CarriesPrior, ChunkFirst, RetrievableIsCurrent, BeforeLookup,
       Saving, Replacing, KeptWithChunk
<1>6. ASSUME NEW r \in Runs, HardDelete(r)
      PROVE  CarriesPrior(k)' /\ ChunkFirst(k)' /\ RetrievableIsCurrent'
  BY <1>1, <1>2, <1>6, ErasureKeepsPrior
<1>7. CASE UNCHANGED <<note, chunk, pc, priorNote, priorChunk, erased>>
  BY <1>2, <1>7 DEF CarriesPrior, ChunkFirst, RetrievableIsCurrent, KeptWithChunk
<1>8. ASSUME NEW w \in Operators, OperatorStep(w)
      PROVE  UNCHANGED <<note, chunk, pc, priorNote, priorChunk, erased>>
  BY <1>8 DEF OperatorStep, RetryStep, RetryKilled, ListFailed, RetryEmbed, RetrySaveRecords,
     RetryMarkReady, RetryDeadLetter, SaveRecord, SetEmbedding, SaveDeadLetter, tables, runVars,
     operatorVars
<1>9. UserStep \/ Rest \/ UNCHANGED vars =>
         UNCHANGED <<note, chunk, pc, priorNote, priorChunk, erased>>
  BY DEF UserStep, Rest, vars, tables, runVars, operatorVars
<1> QED
  BY <1>3, <1>4, <1>5, <1>6, <1>7, <1>8, <1>9 DEF Next

\* The prior revisions' invariant holds of every behaviour of one handler.
LEMMA PriorInvariant ==
  ASSUME MaxInFlight <= 1
  PROVE  Spec => []PriorInv
<1>1. ASSUME Init PROVE PriorInv
  <2>1. \A r \in Runs : r # NoRun
    BY DEF Runs, NoRun
  <2> QED
    BY <1>1, <2>1 DEF Init, StoreInit, IngestionInit, PriorInv, OneInFlight, InFlight, CarriesPrior,
       ChunkFirst, RetrievableIsCurrent, BeforeLookup, Saving, Replacing, Absent
<1>2. RevisionInv => NotesAreSaved
  BY DEF RevisionInv
<1>3. TypeInv /\ NotesAreSaved /\ PriorInv /\ [Next]_vars => PriorInv'
  BY PriorInvKept
<1> QED
  BY <1>1, <1>2, <1>3, RevisionInvariant, PTL DEF Spec

\* While deliveries do not overlap, whatever store call fails and wherever the
\* process dies, no chunk of a superseded or removed note is retrievable.
THEOREM RetiredNoteLeavesRetrieval ==
  ASSUME MaxInFlight <= 1
  PROVE  Spec => []RetrievableIsCurrent
<1>1. PriorInv => RetrievableIsCurrent
  BY DEF PriorInv
<1> QED
  BY <1>1, PriorInvariant, PTL

-----------------------------------------------------------------------------
(***************************************************************************)
(* How many revisions stay active.  A run leaves one, or the prior one     *)
(* beside its own when a failure kills it between saving and retiring.     *)
(***************************************************************************)
\* A note becomes an active revision of a message by being saved for it.
LEMMA ActiveBySaving ==
  ASSUME TypeInv, StoreInv, [Next]_vars, NEW m, NEW n \in Runs,
         n \in ActiveNotes(m)', n \notin ActiveNotes(m)
  PROVE  HandlerStep(n) /\ IngestSaveNote(n) /\ Message(n) = m
<1>1. StoreTypeOK /\ IngestionTypeOK /\ SourceStep /\ \A k \in Runs : Forward(k)
  BY NextSourceStep, NextForward DEF TypeInv, TypeOK
<1>2. n \in sources' /\ note'[n] = "active" /\ inbound'[n].msg = m
  BY DEF ActiveNotes
<1>3. note[n] # "active" => HandlerStep(n) /\ IngestSaveNote(n)
  <2>1. ASSUME NEW r \in Runs, HandlerStep(r), note[n] # "active"
        PROVE  r = n /\ IngestSaveNote(n)
    <3>1. RetiredState(r) # "active"
      BY DEF RetiredState
    <3> QED
      BY <1>1, <1>2, <2>1, <3>1 DEF HandlerStep, RunStep, FailRun, GetOrCreateSource, Reconstruct,
         CountChunks, GetActiveNote, GetActiveChunk, IngestSaveNote, IngestSaveChunk, RetireChunk,
         RetireNote, Embed, MarkFailed, WriteDeadLetter, SaveRecords, MarkReady, InsertSource,
         SaveNote, SaveChunk, MarkChunk, MarkNote, SetEmbedding, SaveRecord, SaveDeadLetter,
         Raise, StoreTypeOK, tables
  <2>2. ASSUME \A r \in Runs : ~HandlerStep(r) PROVE note'[n] = note[n] \/ note'[n] = Absent
    BY <1>1, <2>2 DEF Next, UserStep, Rest, vars, Deliver, StartRun, Respond, HardDelete,
       DeleteSource, OperatorStep, RetryStep, RetryKilled, ListFailed, RetryEmbed,
       RetrySaveRecords, RetryMarkReady, RetryDeadLetter, SaveRecord, SetEmbedding,
       SaveDeadLetter, StoreTypeOK, tables
  <2> QED  BY <1>2, <2>1, <2>2 DEF Absent
<1>4. CASE note[n] = "active"
  <2>1. n \in sources
    BY <1>4 DEF StoreInv, Lineage, Absent
  <2>2. inbound'[n] = inbound[n]
    BY <1>1, <2>1 DEF StoreInv, SourceOnce, BeforeSource, Forward
  <2> QED  BY <1>2, <1>4, <2>1, <2>2 DEF ActiveNotes
<1>5. CASE note[n] # "active"
  BY <1>2, <1>3, <1>5, HandlerForward DEF Message
<1> QED
  BY <1>4, <1>5

\* A step that leaves the runs on their way on their way counts no revision
\* twice.
LEMMA CountFrame ==
  ASSUME TypeInv, TypeInv', RevisionsCounted, [Next]_vars,
         \A m \in Messages : ActiveNotes(m)' \subseteq ActiveNotes(m),
         \A r \in Runs : pc[r] \in Replacing <=> pc'[r] \in Replacing,
         \A r \in Runs : pc[r] \in Replacing => priorNote'[r] = priorNote[r]
  PROVE  RevisionsCounted'
<1>1. failures \in Nat /\ failures' \in Nat /\ failures' >= failures
  BY FailuresGrow
<1>2. \A r \in Runs : pc[r] \in Replacing => Message(r)' = Message(r) /\ Message(r) \in Messages
  BY NextForward DEF Forward, Message, Replacing, Saving, TypeInv, Started, Updates
<1>3. \A m : ActiveNotes(m) \subseteq Runs
  BY DEF ActiveNotes
<1>4. ASSUME NEW r \in Runs, pc'[r] \in Replacing PROVE Cardinality(Others(r)') <= failures'
  <2>1. Others(r)' \subseteq Others(r)
    BY <1>2, <1>4 DEF Others, Message, ActiveNotes
  <2>2. Cardinality(Others(r)) <= failures
    BY <1>4 DEF RevisionsCounted
  <2>3. IsFiniteSet(Others(r)) /\ Cardinality(Others(r)) \in Nat /\ Cardinality(Others(r)') \in Nat
    <3>1. Others(r) \subseteq Runs /\ Others(r)' \subseteq Runs
      BY <1>3, <2>1 DEF Others
    <3> QED  BY <3>1, RunsFinite
  <2>4. Cardinality(Others(r)') <= Cardinality(Others(r))
    BY <2>1, <2>3, FS_Subset
  <2> QED  BY <1>1, <2>2, <2>3, <2>4
<1>5. ASSUME NEW m \in Messages, Cardinality(ActiveNotes(m)) <= 1 + failures
      PROVE  Cardinality(ActiveNotes(m)') <= 1 + failures'
  <2>1. /\ IsFiniteSet(ActiveNotes(m))
        /\ Cardinality(ActiveNotes(m)) \in Nat /\ Cardinality(ActiveNotes(m)') \in Nat
    <3>1. ActiveNotes(m)' \subseteq Runs
      BY <1>3
    <3> QED  BY <1>3, <3>1, RunsFinite
  <2>2. Cardinality(ActiveNotes(m)') <= Cardinality(ActiveNotes(m))
    BY <2>1, FS_Subset
  <2> QED  BY <1>1, <1>5, <2>1, <2>2
<1> QED
  BY <1>2, <1>4, <1>5 DEF RevisionsCounted, Message

\* When a run looks up the newest revision, it finds one of those counted.
LEMMA LookupCounted ==
  ASSUME TypeInv, TypeInv', StoreInv, PriorInv, RevisionsCounted, [Next]_vars,
         NEW r \in Runs, HandlerStep(r), GetActiveNote(r)
  PROVE  RevisionsCounted'
<1>1. IngestionTypeOK /\ failures \in Nat /\ UNCHANGED <<sources, note, inbound, failures>>
  BY FailuresGrow DEF TypeInv, TypeOK, GetActiveNote, tables, faultVars, HandlerStep
<1>2. \A m : ActiveNotes(m)' = ActiveNotes(m)
  BY <1>1 DEF ActiveNotes
<1>3. Message(r) \in Messages /\ pc[r] = "get_active_note"
  BY DEF GetActiveNote, TypeInv, Started, Updates, Message
<1>4. \A k \in Runs : k # r => pc[k] \notin Replacing /\ pc'[k] = pc[k]
  <2>1. r \in InFlight
    BY <1>3 DEF InFlight
  <2> QED
    BY <2>1, HandlerMovesOne DEF PriorInv, OneInFlight, InFlight, Replacing, Saving
<1>5. \A m \in Messages : Cardinality(ActiveNotes(m)) <= 1 + failures
  BY <1>3, <1>4 DEF RevisionsCounted, Replacing, Saving
<1>6. \A m \in Messages : Cardinality(ActiveNotes(m)') <= 1 + failures'
  BY <1>1, <1>2, <1>5
<1>7. ASSUME pc'[r] \in Replacing PROVE Cardinality(Others(r)') <= failures'
  <2>1. IsFiniteSet(ActiveNotes(Message(r))) /\ Cardinality(ActiveNotes(Message(r))) \in Nat
    BY RunsFinite DEF ActiveNotes
  <2>2. Others(r)' = ActiveNotes(Message(r)) \ {priorNote'[r], r}
    BY <1>1, <1>2 DEF Others, Message
  <2>3. CASE ActiveNotes(Message(r)) = {}
    BY <1>1, <2>2, <2>3, FS_EmptySet
  <2>4. CASE ActiveNotes(Message(r)) # {}
    <3>1. priorNote'[r] \in ActiveNotes(Message(r))
      BY <1>1, <2>4 DEF GetActiveNote, IsNewest, IngestionTypeOK
    <3> DEFINE S == ActiveNotes(Message(r)) \ {priorNote'[r]}
    <3>2. IsFiniteSet(S) /\ Cardinality(S) = Cardinality(ActiveNotes(Message(r))) - 1
      BY <2>1, <3>1, FS_RemoveElement
    <3>3. Others(r)' \subseteq S
      BY <2>2
    <3>4. Cardinality(Others(r)') <= Cardinality(S) /\ Cardinality(Others(r)') \in Nat
      BY <3>2, <3>3, FS_Subset, FS_CardinalityType
    <3>5. Cardinality(ActiveNotes(Message(r))) <= 1 + failures
      BY <1>3, <1>5
    <3> HIDE DEF S
    <3> QED  BY <1>1, <2>1, <3>2, <3>4, <3>5
  <2> QED  BY <2>3, <2>4
<1> QED
  BY <1>4, <1>6, <1>7 DEF RevisionsCounted

\* One handler run saves a note in a step.
LEMMA SavesOnlyItself ==
  ASSUME TypeInv, NEW r \in Runs, HandlerStep(r), NEW n \in Runs, IngestSaveNote(n)
  PROVE  n = r
<1>1. pc[n] = "save_note" /\ pc'[n] # pc[n]
  BY DEF TypeInv, TypeOK, IngestionTypeOK, IngestSaveNote, AfterSaving, RetireFrom, GoTo, Finish, Raise
<1> QED
  BY <1>1, HandlerMovesOne

\* A run that leaves the way has retired what it carried, or its own note
\* was never saved, or one of the two is erased; unless a failure killed it.
LEMMA LeavesOneBeside ==
  ASSUME TypeInv, StoreInv, [Next]_vars, NEW r \in Runs, HandlerStep(r), CarriesPrior(r),
         pc[r] \in Replacing, pc'[r] \notin Replacing
  PROVE  \/ \E x : ActiveNotes(Message(r))' \subseteq Others(r) \union {x}
         \/ /\ failures' = failures + 1
            /\ ActiveNotes(Message(r))' \subseteq Others(r) \union {priorNote[r], r}
<1>1. StoreTypeOK /\ IngestionTypeOK
  BY DEF TypeInv, TypeOK
<1>2. ActiveNotes(Message(r))' \subseteq Others(r) \union {priorNote[r], r}
  <2>1. Message(r)' = Message(r)
    BY HandlerForward DEF Message
  <2>2. \A n \in ActiveNotes(Message(r))' : n \in Runs
    BY DEF ActiveNotes
  <2>3. ASSUME NEW n \in Runs, n \in ActiveNotes(Message(r))', n \notin ActiveNotes(Message(r))
        PROVE  n = r
    <3>1. HandlerStep(n) /\ IngestSaveNote(n)
      BY <2>1, <2>3, ActiveBySaving DEF ActiveNotes
    <3> QED
      BY <3>1, SavesOnlyItself
  <2> QED  BY <2>2, <2>3 DEF Others
<1>3. \A n \in ActiveNotes(Message(r))' : n \in Runs /\ n \in sources' /\ note'[n] = "active"
  BY DEF ActiveNotes
<1>4. ASSUME NEW x, x \notin ActiveNotes(Message(r))', x \in {priorNote[r], r}
      PROVE  \E y : ActiveNotes(Message(r))' \subseteq Others(r) \union {y}
  <2>1. CASE x = r
    BY <1>2, <1>4, <2>1
  <2>2. CASE x = priorNote[r]
    BY <1>2, <1>4, <2>2
  <2> QED  BY <1>4, <2>1, <2>2
<1>5. CASE FailRun(r)
  BY <1>2, <1>5 DEF FailRun, StoreFault
<1>6. CASE IngestSaveNote(r) \/ IngestSaveChunk(r)
  <2>1. CASE Raise(r) /\ (~CanSaveNote(r) \/ ~CanSaveChunk(r))
    <3>1. r \notin ActiveNotes(Message(r))'
      BY <1>3, <2>1 DEF CanSaveNote, CanSaveChunk, Raise, Absent, tables
    <3> QED  BY <1>4, <3>1
  <2>2. CASE ~(Raise(r) /\ (~CanSaveNote(r) \/ ~CanSaveChunk(r)))
    <3>1. priorNote[r] = NoRun
      BY <1>1, <1>6, <2>2 DEF IngestSaveNote, IngestSaveChunk, AfterSaving, RetireFrom, GoTo,
         Finish, IngestionTypeOK, Replacing, Saving
    <3>2. NoRun \notin Runs
      BY DEF Runs, NoRun
    <3>3. priorNote[r] \notin ActiveNotes(Message(r))'
      BY <1>3, <3>1, <3>2
    <3> QED  BY <1>4, <3>3
  <2> QED  BY <2>1, <2>2
<1>7. CASE RetireChunk(r)
  <2>1. Raise(r) /\ ~CanMarkChunk(priorChunk[r])
    BY <1>1, <1>7 DEF RetireChunk, GoTo, IngestionTypeOK, Replacing
  <2>2. priorNote[r] \in erased
    BY <1>7, <2>1 DEF RetireChunk, CarriesPrior, CanMarkChunk, KeptWithChunk, Replacing, Saving
  <2>3. priorNote[r] \notin ActiveNotes(Message(r))'
    BY <1>3, <2>1, <2>2 DEF StoreInv, SourceOnce, Raise, tables
  <2> QED  BY <1>4, <2>3
<1>8. CASE RetireNote(r)
  <2>1. RetiredState(r) # "active" /\ Absent # "active"
    BY DEF RetiredState, Absent
  <2>2. priorNote[r] \notin ActiveNotes(Message(r))'
    BY <1>1, <1>3, <1>8, <2>1 DEF RetireNote, CanMarkNote, MarkNote, Raise, StoreTypeOK, tables
  <2> QED  BY <1>4, <2>2
<1>9. ~GetActiveChunk(r)
  BY <1>1 DEF GetActiveChunk, RetireFrom, GoTo, CarriesPrior, IngestionTypeOK, Replacing, Saving
<1> QED
  BY <1>5, <1>6, <1>7, <1>8, <1>9 DEF HandlerStep, RunStep, GetOrCreateSource, Reconstruct,
     CountChunks, GetActiveNote, Embed, MarkFailed, WriteDeadLetter, SaveRecords, MarkReady,
     Replacing, Saving

\* A run on its way leaves the others alone, and counts among the revisions it
\* leaves no more than itself and the one it replaces.
LEMMA ReplacingCounted ==
  ASSUME TypeInv, TypeInv', StoreInv, PriorInv, RevisionsCounted, [Next]_vars,
         NEW r \in Runs, HandlerStep(r), pc[r] \in Replacing
  PROVE  RevisionsCounted'
<1>1. failures \in Nat /\ failures' \in Nat /\ failures' >= failures
  BY FailuresGrow
<1>2. \A k \in Runs : k # r => pc[k] \notin Replacing /\ pc'[k] = pc[k]
  <2>1. r \in InFlight
    BY DEF InFlight, Replacing, Saving
  <2> QED
    BY <2>1, HandlerMovesOne DEF PriorInv, OneInFlight, InFlight, Replacing, Saving
<1>3. Message(r) \in Messages /\ UNCHANGED inbound /\ ~GetActiveNote(r)
  BY HandlerForward DEF TypeInv, Started, Updates, Message, Replacing, Saving, GetActiveNote
<1>4. ASSUME NEW m \in Messages, NEW n \in ActiveNotes(m)', n \notin ActiveNotes(m)
      PROVE  n = r /\ m = Message(r)
  <2>1. n \in Runs
    BY DEF ActiveNotes
  <2>2. HandlerStep(n) /\ IngestSaveNote(n) /\ Message(n) = m
    BY <1>4, <2>1, ActiveBySaving
  <2> QED  BY <2>1, <2>2, SavesOnlyItself
<1>5. IsFiniteSet(Others(r)) /\ Cardinality(Others(r)) \in Nat /\ Cardinality(Others(r)) <= failures
  <2>1. Others(r) \subseteq Runs
    BY DEF Others, ActiveNotes
  <2> QED  BY <2>1, RunsFinite DEF RevisionsCounted
<1>6. ASSUME NEW m \in Messages, m # Message(r) PROVE Cardinality(ActiveNotes(m)') <= 1 + failures'
  <2>1. Cardinality(ActiveNotes(m)) <= 1 + failures
    BY <1>2, <1>6 DEF RevisionsCounted
  <2>2. ActiveNotes(m)' \subseteq ActiveNotes(m)
    BY <1>4, <1>6
  <2>3. IsFiniteSet(ActiveNotes(m)) /\ Cardinality(ActiveNotes(m)) \in Nat
    BY RunsFinite DEF ActiveNotes
  <2>4. Cardinality(ActiveNotes(m)') <= Cardinality(ActiveNotes(m))
        /\ Cardinality(ActiveNotes(m)') \in Nat
    BY <2>2, <2>3, FS_Subset, FS_CardinalityType
  <2> QED  BY <1>1, <2>1, <2>3, <2>4
<1>7. CASE pc'[r] \in Replacing
  <2>1. UNCHANGED priorNote
    BY <1>3, HandlerKeepsLocals
  <2>2. Others(r)' \subseteq Others(r)
    BY <1>3, <1>4, <2>1 DEF Others, Message
  <2>3. Cardinality(Others(r)') <= Cardinality(Others(r)) /\ Cardinality(Others(r)') \in Nat
    BY <1>5, <2>2, FS_Subset, FS_CardinalityType
  <2>4. Cardinality(Others(r)') <= failures'
    BY <1>1, <1>5, <2>3
  <2> QED
    BY <1>2, <1>3, <1>6, <1>7, <2>4 DEF RevisionsCounted, Message
<1>8. CASE pc'[r] \notin Replacing
  <2>1. Cardinality(ActiveNotes(Message(r))') <= 1 + failures'
    <3>1. CASE \E x : ActiveNotes(Message(r))' \subseteq Others(r) \union {x}
      BY <1>1, <1>5, <3>1, AddsAtMostOne
    <3>2. CASE /\ failures' = failures + 1
               /\ ActiveNotes(Message(r))' \subseteq Others(r) \union {priorNote[r], r}
      <4>1. /\ IsFiniteSet(Others(r) \union {r})
            /\ Cardinality(Others(r) \union {r}) <= failures + 1
        BY <1>1, <1>5, AddsAtMostOne
      <4>2. ActiveNotes(Message(r))' \subseteq (Others(r) \union {r}) \union {priorNote[r]}
        BY <3>2
      <4>3. Cardinality(ActiveNotes(Message(r))') <= (failures + 1) + 1
        <5>1. failures + 1 \in Nat
          BY <1>1
        <5> QED  BY <4>1, <4>2, <5>1, AddsAtMostOne
      <4> QED  BY <1>1, <3>2, <4>3
    <3>3. CarriesPrior(r)
      BY DEF PriorInv
    <3> QED  BY <1>8, <3>1, <3>2, <3>3, LeavesOneBeside
  <2> QED
    BY <1>2, <1>3, <1>6, <1>8, <2>1 DEF RevisionsCounted, Message
<1> QED
  BY <1>7, <1>8

\* Every step of the system keeps the count.
LEMMA RevisionsCountedKept ==
  ASSUME TypeInv, TypeInv', StoreInv, PriorInv, RevisionsCounted, [Next]_vars
  PROVE  RevisionsCounted'
<1>1. IngestionTypeOK
  BY DEF TypeInv, TypeOK
<1>2. CASE \E r \in Runs : HandlerStep(r) /\ (GetActiveNote(r) \/ pc[r] \in Replacing)
  BY <1>2, LookupCounted, ReplacingCounted
<1>3. CASE ~\E r \in Runs : HandlerStep(r) /\ (GetActiveNote(r) \/ pc[r] \in Replacing)
  <2>1. \A m \in Messages : ActiveNotes(m)' \subseteq ActiveNotes(m)
    <3> SUFFICES ASSUME NEW m \in Messages, NEW n \in ActiveNotes(m)', n \notin ActiveNotes(m)
                 PROVE  FALSE
      OBVIOUS
    <3>1. n \in Runs
      BY DEF ActiveNotes
    <3>2. HandlerStep(n) /\ IngestSaveNote(n)
      BY <3>1, ActiveBySaving
    <3> QED
      BY <1>3, <3>1, <3>2 DEF IngestSaveNote, Replacing, Saving
  <2>2. \A r \in Runs : /\ pc[r] \in Replacing <=> pc'[r] \in Replacing
                        /\ pc[r] \in Replacing => priorNote'[r] = priorNote[r]
    <3> SUFFICES ASSUME NEW k \in Runs
                 PROVE  /\ pc[k] \in Replacing <=> pc'[k] \in Replacing
                        /\ pc[k] \in Replacing => priorNote'[k] = priorNote[k]
      OBVIOUS
    <3>1. ASSUME NEW r \in Runs, HandlerStep(r)
          PROVE  /\ pc[k] \in Replacing <=> pc'[k] \in Replacing
                 /\ pc[k] \in Replacing => priorNote'[k] = priorNote[k]
      <4>1. pc[r] \notin Replacing /\ ~GetActiveNote(r)
        BY <1>3, <3>1
      <4>2. pc'[r] \notin Replacing
        BY <1>1, <3>1, <4>1 DEF HandlerStep, RunStep, FailRun, GetOrCreateSource, Reconstruct,
           CountChunks, GetActiveChunk, IngestSaveNote, IngestSaveChunk, RetireChunk, RetireNote,
           Embed, MarkFailed, WriteDeadLetter, SaveRecords, MarkReady, GoTo, Finish, Raise,
           IngestionTypeOK, Replacing, Saving
      <4> QED
        BY <3>1, <4>1, <4>2, HandlerMovesOne, HandlerKeepsLocals
    <3>2. CASE \A r \in Runs : ~HandlerStep(r)
      <4>1. UNCHANGED priorNote
        BY <3>2 DEF Next, UserStep, Rest, vars, runVars, Deliver, StartRun, Respond, HardDelete,
           OperatorStep, UnchangedLocals
      <4>2. pc[k] \in Replacing <=> pc'[k] \in Replacing
        BY <1>1, <3>2 DEF Next, UserStep, Rest, vars, runVars, Deliver, StartRun, Respond,
           HardDelete, OperatorStep, GoTo, IngestionTypeOK, Replacing, Saving
      <4> QED  BY <4>1, <4>2
    <3> QED  BY <3>1, <3>2
  <2> QED
    BY <2>1, <2>2, CountFrame
<1> QED
  BY <1>2, <1>3

\* While deliveries do not overlap, a message has one active revision and at
\* most one more for every failure, and for the run in flight.
THEOREM ExtraRevisionPerFailure ==
  ASSUME MaxInFlight <= 1
  PROVE  Spec => []ExtraRevisionsBounded
<1>1. ASSUME Init PROVE RevisionsCounted
  <2>1. \A m : ActiveNotes(m) = {}
    BY <1>1 DEF Init, StoreInit, ActiveNotes
  <2>2. failures = 0 /\ \A r \in Runs : pc[r] \notin Replacing
    BY <1>1 DEF Init, IngestionInit, FaultsInit, Replacing, Saving
  <2> QED  BY <2>1, <2>2, FS_EmptySet DEF RevisionsCounted
<1>2. TypeInv /\ TypeInv' /\ StoreInv /\ PriorInv /\ RevisionsCounted /\ [Next]_vars =>
         RevisionsCounted'
  BY RevisionsCountedKept
<1>3. ASSUME TypeInv, RevisionsCounted PROVE ExtraRevisionsBounded
  <2> SUFFICES ASSUME NEW m \in Messages
               PROVE  Cardinality(ActiveNotes(m)) <= 1 + failures + Cardinality(InFlight)
    BY DEF ExtraRevisionsBounded
  <2>1. failures \in Nat
    BY <1>3, FaultBudgets DEF TypeInv, TypeOK, FaultsTypeOK
  <2>2. IsFiniteSet(InFlight) /\ Cardinality(InFlight) \in Nat /\ Cardinality(ActiveNotes(m)) \in Nat
    BY RunsFinite DEF InFlight, ActiveNotes
  <2>3. CASE Cardinality(ActiveNotes(m)) <= 1 + failures
    BY <2>1, <2>2, <2>3
  <2>4. ASSUME NEW r \in Runs, pc[r] \in Replacing, Message(r) = m
        PROVE  Cardinality(ActiveNotes(m)) <= 1 + failures + Cardinality(InFlight)
    <3>1. InFlight # {}
      BY <2>4 DEF InFlight, Replacing, Saving
    <3>2. Cardinality(InFlight) >= 1
      BY <2>2, <3>1, FS_EmptySet
    <3>3. IsFiniteSet(Others(r)) /\ Cardinality(Others(r)) <= failures
      <4>1. Others(r) \subseteq Runs
        BY DEF Others, ActiveNotes
      <4> QED  BY <1>3, <2>4, <4>1, RunsFinite DEF RevisionsCounted
    <3>4. /\ IsFiniteSet(Others(r) \union {r})
          /\ Cardinality(Others(r) \union {r}) <= failures + 1
      BY <2>1, <3>3, AddsAtMostOne
    <3>5. ActiveNotes(m) \subseteq (Others(r) \union {r}) \union {priorNote[r]}
      BY <2>4 DEF Others
    <3>6. Cardinality(ActiveNotes(m)) <= (failures + 1) + 1
      <4>1. failures + 1 \in Nat
        BY <2>1
      <4> QED  BY <3>4, <3>5, <4>1, AddsAtMostOne
    <3> QED  BY <2>1, <2>2, <3>2, <3>6
  <2> QED  BY <1>3, <2>3, <2>4 DEF RevisionsCounted
<1> QED
  BY <1>1, <1>2, <1>3, StoreInvariant, PriorInvariant, PTL DEF Spec

-----------------------------------------------------------------------------
(***************************************************************************)
(* What makes a delivery raise.  As long as no source is erased, a handler *)
(* finds every row it needs, whatever failures have left half done: only   *)
(* the fault itself raises, and the reply to a /note over a draft.         *)
(***************************************************************************)
BaseInv == TypeInv /\ StoreInv /\ RevisionInv /\ SettledInv /\ AnswersInv /\ ChunkOnce

LEMMA BaseInvariant == Spec => []BaseInv
<1>1. ASSUME Init PROVE SettledInv /\ AnswersInv /\ ChunkOnce
  BY <1>1 DEF Init, StoreInit, IngestionInit, ReconciliationInit, SettledInv, ChunkOnce, Absent,
     AnswersInv, Answers, ResultLate, SavedOnTheWay, Confirmed, Calls, Replaying, Retiring,
     Enriching
<1>2. TypeInv /\ StoreInv /\ SettledInv /\ AnswersInv /\ ChunkOnce /\ [Next]_vars =>
         SettledInv' /\ AnswersInv' /\ ChunkOnce'
  BY SettledInvKept, AnswersInvKept, ChunkOnceKept DEF StoreInv
<1> QED
  BY <1>1, <1>2, StoreInvariant, RevisionInvariant, PTL DEF Spec, BaseInv

\* With a budget of none, no source is erased.
LEMMA NoHardDelete ==
  ASSUME MaxErasures = 0, TypeInv, erased = {}, NEW r \in Runs
  PROVE  ~HardDelete(r)
<1>1. Cardinality(erased) = 0
  BY FS_EmptySet
<1> QED
  BY <1>1 DEF HardDelete

\* Rows stay, and the rows of a run are written by its own steps, but for the
\* lifecycle states others give them and the vectors retries store.
LEMMA HandlerWritesItsRows ==
  ASSUME TypeInv, NEW r \in Runs, HandlerStep(r), NEW k \in Runs, k # r
  PROVE  /\ note'[k] = Absent <=> note[k] = Absent
         /\ chunk'[k] = Absent <=> chunk[k] = Absent
         /\ k \in sources' <=> k \in sources
         /\ k \in records' <=> k \in records
<1>1. StoreTypeOK
  BY DEF TypeInv, TypeOK
<1>2. RetiredState(r) # Absent
  BY DEF RetiredState, Absent
<1>3. CASE RetireChunk(r) \/ RetireNote(r)
  BY <1>1, <1>2, <1>3 DEF RetireChunk, RetireNote, CanMarkChunk, CanMarkNote, MarkChunk, MarkNote,
     Raise, StoreTypeOK, tables
<1>4. CASE ~RetireChunk(r) /\ ~RetireNote(r)
  BY <1>1, <1>4 DEF HandlerStep, RunStep, FailRun, GetOrCreateSource, Reconstruct,
     CountChunks, GetActiveNote, GetActiveChunk, IngestSaveNote, IngestSaveChunk,
     Embed, MarkFailed, WriteDeadLetter, SaveRecords, MarkReady,
     InsertSource, SaveNote, SaveChunk, SetEmbedding, SaveRecord,
     SaveDeadLetter, Raise, tables, StoreTypeOK
<1> QED
  BY <1>3, <1>4

\* Retries only store vectors, and only for runs that have settled.
LEMMA RetryQuiet ==
  ASSUME BaseInv, NEW w \in Operators, OperatorStep(w)
  PROVE  /\ UNCHANGED <<inbound, runVars, operatorVars, sources, note, chunk>>
         /\ \A k \in records' : k \in records \/ pc[k] \in Settled
<1>1. ReconciliationTypeOK /\ SettledInv
  BY DEF BaseInv, TypeInv, TypeOK
<1> QED
  BY <1>1 DEF OperatorStep, RetryStep, RetryKilled, ListFailed, RetryEmbed, RetrySaveRecords,
     RetryMarkReady, RetryDeadLetter, SaveRecord, SetEmbedding, SaveDeadLetter, tables,
     IsCurrent, SettledInv

\* A run carries a prior note that is there, captures what it will save, and
\* has found a row that stays; nobody stores its vector before it does.
Provided(r) ==
    /\ CarriesPrior(r)
    /\ priorNote[r] # NoRun => note[priorNote[r]] # Absent
    /\ pc[r] \in Retrieving => Kind(r) = "delete" \/ r \in sources
    /\ pc[r] \in Saving => ~IsRemoval(r)
    /\ replayOf[r] # NoRun => replayOf[r] \in sources
    /\ r \in records => pc[r] \in Settled \union {"mark_ready"}

ProvidedInv == erased = {} /\ \A r \in Runs : Provided(r)

Abandoned == {r \in Runs : pc[r] = "aborted" /\ ~FoundDraft(r)}

\* A run that a step does not move stays provided for.
LEMMA StillRunProvided ==
  ASSUME TypeInv, SourceOnce, RowsKept, erased' = {}, sources \subseteq sources',
         \A s \in Runs : Forward(s), NEW k \in Runs, Provided(k), inbound'[k] = inbound[k],
         pc'[k] = pc[k], replayOf'[k] = replayOf[k], priorNote'[k] = priorNote[k],
         priorChunk'[k] = priorChunk[k], k \in records' => k \in records \/ pc[k] \in Settled
  PROVE  Provided(k)' /\ (FoundDraft(k) => FoundDraft(k)')
<1>1. IngestionTypeOK /\ StoreTypeOK /\ erased = {}
  BY DEF TypeInv, TypeOK, RowsKept
<1>2. priorNote[k] \in Runs \union {NoRun} /\ priorChunk[k] \in Runs \union {NoRun}
      /\ replayOf[k] \in Runs \union {NoRun}
  BY <1>1 DEF IngestionTypeOK
<1>3. CarriesPrior(k)'
  BY <1>1, <1>2 DEF Provided, CarriesPrior, RowsKept, KeptWithChunk
<1>4. Provided(k)'
  BY <1>1, <1>2, <1>3 DEF Provided, RowsKept, Kind, IsRemoval
<1>5. ASSUME FoundDraft(k) PROVE FoundDraft(k)'
  <2>1. replayOf[k] \in Runs /\ replayOf[k] \in sources
    BY <1>2, <1>5 DEF Provided, FoundDraft
  <2>2. inbound'[replayOf[k]] = inbound[replayOf[k]]
    BY <2>1 DEF SourceOnce, BeforeSource, Forward
  <2> QED  BY <1>5, <2>2 DEF FoundDraft, Undated, Kind
<1> QED  BY <1>4, <1>5

\* Each step of a run provides for the next.
LEMMA HandlerProvided ==
  ASSUME TypeInv, NotesAreSaved, SourceOnce, RowsKept, erased' = {}, NEW r \in Runs, Provided(r),
         HandlerStep(r)
  PROVE  Provided(r)'
<1>1. IngestionTypeOK /\ StoreTypeOK /\ erased = {}
  BY DEF TypeInv, TypeOK, RowsKept
<1>2. UNCHANGED inbound /\ Kind(r)' = Kind(r) /\ IsRemoval(r)' = IsRemoval(r)
  BY HandlerMovesOne DEF Kind, IsRemoval
<1>3. CarriesPrior(r)'
  BY HandlerCarriesPrior DEF Provided
<1>4. sources \subseteq sources'
  BY DEF HandlerStep, RunStep, FailRun, GetOrCreateSource, Reconstruct, CountChunks,
     GetActiveNote, GetActiveChunk, IngestSaveNote, IngestSaveChunk, RetireChunk, RetireNote,
     Embed, MarkFailed, WriteDeadLetter, SaveRecords, MarkReady, InsertSource, SaveNote,
     SaveChunk, MarkChunk, MarkNote, SetEmbedding, SaveRecord, SaveDeadLetter, Raise, tables
<1>5. priorNote'[r] # NoRun => note'[priorNote'[r]] # Absent
  <2>1. CASE GetActiveNote(r)
    BY <1>1, <2>1 DEF GetActiveNote, IsNewest, ActiveNotes, Provided, IngestionTypeOK, Absent,
       tables
  <2>2. CASE ~GetActiveNote(r)
    <3>1. UNCHANGED priorNote /\ priorNote[r] \in Runs \union {NoRun}
      BY <1>1, <2>2, HandlerKeepsLocals DEF IngestionTypeOK
    <3> QED  BY <1>1, <3>1 DEF Provided, RowsKept
  <2> QED  BY <2>1, <2>2
<1>6. /\ pc'[r] \in Retrieving => Kind(r) = "delete" \/ r \in sources'
      /\ pc'[r] \in Saving => ~IsRemoval(r)
  <2>1. CASE GetOrCreateSource(r)
    BY <1>1, <2>1 DEF GetOrCreateSource, InsertSource, GoTo, Finish, Retrieving, Saving,
       IngestionTypeOK
  <2>2. CASE GetActiveNote(r) \/ GetActiveChunk(r)
    BY <1>1, <1>4, <2>2 DEF GetActiveNote, GetActiveChunk, RetireFrom, GoTo, Finish, Retrieving,
       Saving, Provided, IngestionTypeOK
  <2>3. CASE IngestSaveNote(r) \/ IngestSaveChunk(r)
    BY <1>1, <2>3 DEF IngestSaveNote, IngestSaveChunk, AfterSaving, RetireFrom, GoTo, Finish,
       Raise, Retrieving, Saving, Provided, IngestionTypeOK
  <2>4. CASE ~GetOrCreateSource(r) /\ ~GetActiveNote(r) /\ ~GetActiveChunk(r)
             /\ ~IngestSaveNote(r) /\ ~IngestSaveChunk(r)
    BY <1>1, <2>4 DEF HandlerStep, RunStep, FailRun, Reconstruct, CountChunks, RetireChunk,
       RetireNote, Embed, MarkFailed, WriteDeadLetter, SaveRecords, MarkReady, GoTo, Finish, Raise,
       Retrieving, Saving, IngestionTypeOK
  <2> QED  BY <2>1, <2>2, <2>3, <2>4
<1>7. replayOf'[r] # NoRun => replayOf'[r] \in sources'
  <2>1. CASE GetOrCreateSource(r)
    BY <1>1, <1>4, <2>1 DEF GetOrCreateSource, Persisted, Provided, IngestionTypeOK
  <2>2. CASE ~GetOrCreateSource(r)
    <3>1. UNCHANGED replayOf
      BY <2>2 DEF HandlerStep, RunStep, FailRun, Reconstruct, CountChunks, GetActiveNote,
         GetActiveChunk, IngestSaveNote, IngestSaveChunk, RetireChunk, RetireNote, Embed,
         MarkFailed, WriteDeadLetter, SaveRecords, MarkReady, UnchangedLocals
    <3> QED  BY <1>4, <3>1 DEF Provided
  <2> QED  BY <2>1, <2>2
<1>8. r \in records' => pc'[r] \in Settled \union {"mark_ready"}
  <2>1. CASE SaveRecords(r)
    BY <1>1, <2>1 DEF SaveRecords, GoTo, Raise, Settled, IngestionTypeOK
  <2>2. CASE ~SaveRecords(r)
    <3>1. UNCHANGED records
      BY <2>2 DEF HandlerStep, RunStep, FailRun, GetOrCreateSource, Reconstruct, CountChunks,
         GetActiveNote, GetActiveChunk, IngestSaveNote, IngestSaveChunk, RetireChunk, RetireNote,
         Embed, MarkFailed, WriteDeadLetter, MarkReady, InsertSource, SaveNote, SaveChunk,
         MarkChunk, MarkNote, SetEmbedding, SaveDeadLetter, Raise, tables
    <3>2. pc[r] \in Settled \union {"mark_ready"} => pc'[r] \in Settled \union {"mark_ready"}
      BY <1>1, <2>2 DEF HandlerStep, RunStep, FailRun, GetOrCreateSource, Reconstruct,
         CountChunks, GetActiveNote, GetActiveChunk, IngestSaveNote, IngestSaveChunk, RetireChunk,
         RetireNote, Embed, MarkFailed, WriteDeadLetter, MarkReady, GoTo, Finish, Raise, Settled,
         IngestionTypeOK
    <3> QED  BY <3>1, <3>2 DEF Provided
  <2> QED  BY <2>1, <2>2
<1> QED
  BY <1>2, <1>3, <1>5, <1>6, <1>7, <1>8 DEF Provided

\* Left alone, a run is abandoned only by the reply to a /note over a draft.
LEMMA RunRaisesOverDraft ==
  ASSUME BaseInv, ProvidedInv, NEW r \in Runs, HandlerStep(r), RunStep(r), pc'[r] = "aborted"
  PROVE  FoundDraft(r)'
<1>1. /\ IngestionTypeOK /\ erased = {} /\ Provided(r) /\ CarriesPrior(r) /\ Answers(r)
      /\ r # NoRun /\ Lineage
  BY DEF BaseInv, ProvidedInv, Provided, AnswersInv, StoreInv, TypeInv, TypeOK, Runs, NoRun
<1>2. pc[r] = "save_note" => CanSaveNote(r)
  BY <1>1 DEF Provided, Retrieving, Saving, IsRemoval, RemovalKinds, CanSaveNote
<1>3. pc[r] = "save_chunk" => CanSaveChunk(r)
  BY <1>1 DEF Answers, SavedOnTheWay, Kept, Retiring, Provided, Saving, CanSaveChunk, Lineage
<1>4. pc[r] = "mark_chunk" => CanMarkChunk(priorChunk[r])
  BY <1>1 DEF CarriesPrior, Replacing, Saving, KeptWithChunk, CanMarkChunk
<1>5. pc[r] = "mark_note" => CanMarkNote(priorNote[r])
  BY <1>1 DEF CarriesPrior, Replacing, Saving, Provided, CanMarkNote
<1>6. pc[r] \in {"mark_failed", "mark_ready"} => CanSetEmbedding(r)
  BY <1>1 DEF Answers, SavedOnTheWay, Enriching, KeptWithChunk, CanSetEmbedding
<1>7. pc[r] = "save_records" => CanSaveRecord(r)
  BY <1>1 DEF Answers, SavedOnTheWay, Enriching, KeptWithChunk, CanSaveRecord, Provided, Settled
<1>8. Reconstruct(r)
  BY <1>1, <1>2, <1>3, <1>4, <1>5, <1>6, <1>7
     DEF RunStep, GetOrCreateSource, CountChunks, GetActiveNote, GetActiveChunk, IngestSaveNote,
     IngestSaveChunk, RetireChunk, RetireNote, Embed, MarkFailed, WriteDeadLetter, SaveRecords,
     MarkReady, AfterSaving, RetireFrom, GoTo, Finish, IngestionTypeOK
<1>9. pc[r] = "reconstruct" /\ UNCHANGED <<inbound, replayOf>>
  BY <1>8 DEF Reconstruct, UnchangedLocals
<1>10. replayOf[r] # NoRun /\ Undated(r)
  BY <1>1, <1>8, <1>9 DEF Answers, ResultLate, Replaying, Reconstruct, GoTo, Finish,
     IngestionTypeOK
<1> QED
  BY <1>9, <1>10 DEF FoundDraft, Undated, Kind

\* Every step of the system provides for its runs, and forgets no /note that
\* found a draft.
LEMMA ProvidedKept ==
  ASSUME MaxErasures = 0, BaseInv, ProvidedInv, [Next]_vars
  PROVE  /\ ProvidedInv'
         /\ \A k \in Runs : pc[k] = "aborted" /\ FoundDraft(k) => FoundDraft(k)'
<1>1. /\ TypeInv /\ IngestionTypeOK /\ StoreTypeOK /\ RowsKept /\ erased = {} /\ SourceOnce
      /\ NotesAreSaved /\ \A s \in Runs : Forward(s)
  BY NextRowsKept, NextForward DEF BaseInv, ProvidedInv, TypeInv, TypeOK, StoreInv, RevisionInv
<1>2. \A r \in Runs : ~HardDelete(r)
  BY <1>1, NoHardDelete
<1>3. UNCHANGED erased
  BY <1>1, <1>2, HandlerMovesOne DEF Next, UserStep, Rest, vars, Deliver, Respond,
     OperatorStep, operatorVars
<1> SUFFICES ASSUME NEW k \in Runs
             PROVE  Provided(k)' /\ (pc[k] = "aborted" /\ FoundDraft(k) => FoundDraft(k)')
  BY <1>1, <1>3 DEF ProvidedInv
<1>4. Provided(k) /\ erased' = {}
  BY <1>1, <1>3 DEF ProvidedInv
<1>5. ASSUME NEW r \in Runs, HandlerStep(r)
      PROVE  Provided(k)' /\ (pc[k] = "aborted" /\ FoundDraft(k) => FoundDraft(k)')
  <2>1. CASE k = r
    <3>1. pc[r] # "aborted"
      BY <1>5 DEF HandlerStep, RunStep, FailRun, Calls, GetOrCreateSource, Reconstruct,
         CountChunks, GetActiveNote, GetActiveChunk, IngestSaveNote, IngestSaveChunk, RetireChunk,
         RetireNote, Embed, MarkFailed, WriteDeadLetter, SaveRecords, MarkReady
    <3> QED  BY <1>1, <1>4, <1>5, <2>1, <3>1, HandlerProvided
  <2>2. CASE k # r
    <3>1. /\ pc'[k] = pc[k] /\ replayOf'[k] = replayOf[k] /\ inbound'[k] = inbound[k]
          /\ priorNote'[k] = priorNote[k] /\ priorChunk'[k] = priorChunk[k]
      BY <1>1, <1>5, <2>2, HandlerMovesOne, HandlerKeepsLocals
    <3>2. k \in records' => k \in records
      BY <1>1, <1>5, <2>2, HandlerWritesItsRows
    <3>3. sources \subseteq sources'
      BY <1>5 DEF HandlerStep, RunStep, FailRun, GetOrCreateSource, Reconstruct, CountChunks,
         GetActiveNote, GetActiveChunk, IngestSaveNote, IngestSaveChunk, RetireChunk, RetireNote,
         Embed, MarkFailed, WriteDeadLetter, SaveRecords, MarkReady, InsertSource, SaveNote,
         SaveChunk, MarkChunk, MarkNote, SetEmbedding, SaveRecord, SaveDeadLetter, Raise, tables
    <3> QED
      BY <1>1, <1>4, <3>1, <3>2, <3>3, StillRunProvided
  <2> QED  BY <2>1, <2>2
<1>6. ASSUME NEW u \in pending, Deliver(u)
      PROVE  Provided(k)' /\ (pc[k] = "aborted" /\ FoundDraft(k) => FoundDraft(k)')
  <2>1. PICK r \in Runs : StartRun(r, u)
    BY <1>6 DEF Deliver
  <2>2. /\ UNCHANGED <<tables, priorNote, priorChunk, replayOf>>
        /\ pc' = [pc EXCEPT ![r] = IF u.kind = "delete" THEN "get_active_note"
                                   ELSE "get_or_create_source"]
        /\ inbound' = [inbound EXCEPT ![r] = u] /\ pc[r] = "unused"
    BY <1>6, <2>1 DEF Deliver, StartRun, GoTo, UnchangedLocals
  <2>3. CASE k = r
    <3>1. pc[k] = "unused" /\ Kind(k)' = u.kind
      BY <1>1, <2>2, <2>3 DEF StoreTypeOK, Kind
    <3>2. priorNote[k] = NoRun /\ priorChunk[k] = NoRun /\ k \notin records
      BY <1>4, <3>1 DEF Provided, CarriesPrior, BeforeLookup, Settled
    <3>3. replayOf[k] = NoRun
      BY <3>1 DEF BaseInv, AnswersInv, Answers, ResultLate, Calls, Replaying
    <3>4. /\ UNCHANGED <<sources, note, chunk, records, priorNote, priorChunk, replayOf>>
          /\ pc'[k] = IF u.kind = "delete" THEN "get_active_note" ELSE "get_or_create_source"
      BY <1>1, <2>2, <2>3 DEF IngestionTypeOK, tables
    <3>5. CarriesPrior(k)'
      BY <1>4, <3>2, <3>4 DEF Provided, CarriesPrior, BeforeLookup, Saving, Replacing
    <3> QED
      BY <3>1, <3>2, <3>3, <3>4, <3>5 DEF Provided, Retrieving, Saving
  <2>4. CASE k # r
    BY <1>1, <1>4, <2>2, <2>4, StillRunProvided DEF StoreTypeOK, IngestionTypeOK, tables
  <2> QED  BY <2>3, <2>4
<1>7. ASSUME NEW r \in Runs, Respond(r)
      PROVE  Provided(k)' /\ (pc[k] = "aborted" /\ FoundDraft(k) => FoundDraft(k)')
  <2>1. /\ UNCHANGED <<inbound, tables, priorNote, priorChunk, replayOf>>
        /\ pc[r] = "done" /\ pc' = [pc EXCEPT ![r] = "replied"]
    BY <1>7 DEF Respond, GoTo, UnchangedLocals
  <2>2. CASE k = r
    <3>1. pc[k] = "done" /\ pc'[k] = "replied"
      BY <1>1, <2>1, <2>2 DEF IngestionTypeOK
    <3>2. UNCHANGED <<sources, note, chunk, records>>
      BY <2>1 DEF tables
    <3> QED
      BY <1>4, <2>1, <3>1, <3>2 DEF Provided, CarriesPrior, BeforeLookup, Saving, Replacing,
         Retrieving, Settled
  <2>3. CASE k # r
    BY <1>1, <1>4, <2>1, <2>3, StillRunProvided DEF IngestionTypeOK, tables
  <2> QED  BY <2>2, <2>3
<1>8. ASSUME NEW w \in Operators, OperatorStep(w)
      PROVE  Provided(k)' /\ (pc[k] = "aborted" /\ FoundDraft(k) => FoundDraft(k)')
  BY <1>1, <1>4, <1>8, RetryQuiet, StillRunProvided DEF runVars, operatorVars
<1>9. CASE UserStep \/ Rest \/ UNCHANGED vars
  <2>1. UNCHANGED <<inbound, tables, runVars>>
    BY <1>9 DEF UserStep, Rest, vars
  <2> QED
    BY <1>1, <1>4, <2>1, StillRunProvided DEF runVars, tables
<1> QED
  BY <1>2, <1>5, <1>6, <1>7, <1>8, <1>9 DEF Next

\* Only a failing store call abandons a run, and only one.
LEMMA AbandonStep ==
  ASSUME MaxErasures = 0, BaseInv, ProvidedInv, [Next]_vars
  PROVE  \/ Abandoned' \subseteq Abandoned
         \/ failures' = failures + 1 /\ \E r \in Runs : Abandoned' \subseteq Abandoned \union {r}
<1>1. TypeInv /\ IngestionTypeOK
  BY DEF BaseInv, TypeInv, TypeOK
<1>2. ASSUME NEW k \in Abandoned', k \notin Abandoned
      PROVE  k \in Runs /\ pc'[k] = "aborted" /\ pc[k] # "aborted" /\ ~FoundDraft(k)'
  BY <1>2, ProvidedKept DEF Abandoned
<1>3. ASSUME NEW r \in Runs, HandlerStep(r), FailRun(r)
      PROVE  failures' = failures + 1 /\ Abandoned' \subseteq Abandoned \union {r}
  <2>1. \A k \in Runs \ {r} : pc'[k] = pc[k]
    BY <1>1, <1>3, HandlerMovesOne
  <2> QED  BY <1>2, <1>3, <2>1 DEF FailRun, StoreFault
<1>4. ASSUME NEW r \in Runs, HandlerStep(r), ~FailRun(r) PROVE Abandoned' \subseteq Abandoned
  <2> SUFFICES ASSUME NEW k \in Abandoned', k \notin Abandoned PROVE FALSE
    OBVIOUS
  <2>1. k \in Runs /\ pc'[k] = "aborted" /\ pc[k] # "aborted" /\ ~FoundDraft(k)'
    BY <1>2
  <2>2. k = r
    BY <1>1, <1>4, <2>1, HandlerMovesOne
  <2>3. RunStep(r)
    BY <1>4 DEF HandlerStep
  <2> QED  BY <1>4, <2>1, <2>2, <2>3, RunRaisesOverDraft
<1>5. ASSUME \A r \in Runs : ~HandlerStep(r) PROVE Abandoned' \subseteq Abandoned
  <2>1. \A k \in Runs : pc'[k] = "aborted" => pc[k] = "aborted"
    BY <1>1, <1>5 DEF Next, UserStep, Rest, vars, runVars, Deliver, StartRun, Respond, HardDelete,
       OperatorStep, GoTo, IngestionTypeOK
  <2> QED  BY <1>2, <2>1
<1> QED  BY <1>3, <1>4, <1>5

\* As long as no source is erased, each failing store call or killed process
\* costs one delivery, also when deliveries overlap: whatever it leaves half
\* done, no later delivery raises over it.  Unaided, only the delivery of a
\* /note that found the row of a draft does.
THEOREM FailuresAbandonOneEach ==
  ASSUME MaxErasures = 0
  PROVE  Spec => []OnlyFaultsAbandon
<1>1. ASSUME Init PROVE ProvidedInv /\ OnlyFaultsAbandon
  <2>1. Abandoned = {} /\ failures = 0
    BY <1>1 DEF Init, IngestionInit, FaultsInit, Abandoned
  <2>2. ProvidedInv
    <3>1. \A r \in Runs : r # NoRun
      BY DEF Runs, NoRun
    <3> QED
      BY <1>1, <3>1 DEF Init, StoreInit, IngestionInit, ProvidedInv, Provided, CarriesPrior,
         BeforeLookup, Saving, Replacing, Retrieving
  <2> QED  BY <2>1, <2>2, FS_EmptySet DEF OnlyFaultsAbandon, Abandoned
<1>2. ASSUME BaseInv, ProvidedInv, OnlyFaultsAbandon, [Next]_vars
      PROVE  ProvidedInv' /\ OnlyFaultsAbandon'
  <2>1. ProvidedInv'
    BY <1>2, ProvidedKept
  <2>2. \/ Abandoned' \subseteq Abandoned
        \/ failures' = failures + 1 /\ \E r \in Runs : Abandoned' \subseteq Abandoned \union {r}
    BY <1>2, AbandonStep
  <2>3. failures \in Nat /\ failures' \in Nat /\ failures' >= failures
    BY <1>2, FailuresGrow DEF BaseInv
  <2>4. /\ IsFiniteSet(Abandoned) /\ Cardinality(Abandoned) \in Nat
        /\ Cardinality(Abandoned) <= failures
    <3>1. Abandoned \subseteq Runs
      BY DEF Abandoned
    <3> QED  BY <1>2, <3>1, RunsFinite DEF OnlyFaultsAbandon, Abandoned
  <2>5. Cardinality(Abandoned') <= failures'
    <3>1. Cardinality(Abandoned') \in Nat
      <4>1. Abandoned' \subseteq Runs
        BY DEF Abandoned
      <4> QED  BY <4>1, RunsFinite
    <3>2. CASE Abandoned' \subseteq Abandoned
      <4>1. Cardinality(Abandoned') <= Cardinality(Abandoned)
        BY <2>4, <3>2, FS_Subset
      <4> QED  BY <2>3, <2>4, <3>1, <4>1
    <3>3. ASSUME failures' = failures + 1, NEW r \in Runs,
                 Abandoned' \subseteq Abandoned \union {r}
          PROVE  Cardinality(Abandoned') <= failures'
      BY <2>3, <2>4, <3>3, AddsAtMostOne
    <3> QED  BY <2>2, <3>2, <3>3
  <2> QED  BY <2>1, <2>5 DEF OnlyFaultsAbandon, Abandoned
<1> QED
  BY <1>1, <1>2, BaseInvariant, PTL DEF Spec
=============================================================================
