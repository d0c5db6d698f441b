------------------------ MODULE Conversation_proofs -------------------------
(***************************************************************************)
(* What holds of every conversation: that each step of a call, of the      *)
(* corpus, of a hard delete and of a restart keeps AnsweringInv, and the   *)
(* properties of Conversation that follow.                                 *)
(***************************************************************************)
EXTENDS Answering_proofs

HitInv == CorpusTypeOK /\ ErasedLeavesNoHits

-----------------------------------------------------------------------------
\* A call writes hits in one step only, after its rows were checked against
\* the chunks there are.
LEMMA CallStepHits ==
  ASSUME NEW c \in Calls, CallStep(c)
  PROVE  /\ UNCHANGED corpus
         /\ \A h \in hits' : h \in hits \/ h.chunk \in Rows
<1>1. UNCHANGED corpus
  BY DEF CallStep
<1> SUFFICES \A h \in hits' : h \in hits \/ h.chunk \in Rows
  BY <1>1
<1>2. CASE PersistHits(c)
  <2>1. CASE UNCHANGED traceTables
    BY <2>1 DEF traceTables
  <2>2. CASE SaveHits(c, FoundRows(c)) /\ (FoundRows(c) = {} \/ CanSaveHits(c, FoundRows(c)))
    <3>1. \A r \in FoundRows(c) : r.chunk \in Rows
      BY <2>2 DEF CanSaveHits
    <3>2. hits' = hits \union {[call |-> c, leg |-> r.leg, rank |-> r.rank, chunk |-> r.chunk] :
                                 r \in FoundRows(c)}
      BY <2>2 DEF SaveHits
    <3> QED  BY <3>1, <3>2
  <2> QED  BY <1>2, <2>1, <2>2 DEF PersistHits
<1>3. CASE \/ Embed(c) \/ Dense(c) \/ RetrievalUnsupported(c) \/ Sparse(c) \/ Generate(c)
           \/ Remember(c) \/ SendAnswer(c) \/ Recall(c)
  BY <1>3 DEF Embed, Dense, RetrievalUnsupported, Sparse, Generate, Remember, SendAnswer,
     Recall, Tell, traceTables
<1>4. CASE PersistQuery(c) \/ PersistTrace(c)
  BY <1>4 DEF PersistQuery, PersistTrace, SaveQuery, SaveTrace
<1>5. CASE ChatStep(c)
  <2>1. CASE \/ Classify(c) \/ Rewrite(c) \/ RewriteOutward(c) \/ Search(c) \/ SendChat(c)
             \/ GenerateNotesPlusModel(c) \/ GenerateNotesPlusKnowledge(c)
             \/ GenerateModelOnly(c)
    BY <2>1 DEF Classify, Rewrite, RewriteOutward, Search, SendChat, Tell,
       GenerateNotesPlusModel, GenerateNotesPlusKnowledge, GenerateModelOnly, traceTables
  <2>2. CASE PersistDecision(c) \/ PersistRewrite(c) \/ PersistSearch(c)
    BY <2>2 DEF PersistDecision, PersistRewrite, PersistSearch, SaveDecision, SaveRewrite,
       SaveSearch
  <2> QED  BY <1>5, <2>1, <2>2 DEF ChatStep
<1> QED  BY <1>2, <1>3, <1>4, <1>5 DEF CallStep, AnsweringStep

\* What capture does to a chunk never takes its row away.
LEMMA NotesKeepRows ==
  ASSUME CorpusTypeOK, NEW k \in Chunks, NotesStep(k)
  PROVE  CorpusTypeOK' /\ Rows \subseteq Rows' /\ hits' = hits
<1>1. hits' = hits
  BY DEF NotesStep, traceTables
<1>2. PICK v \in {"saved", "ready", "retired"} : corpus' = [corpus EXCEPT ![k] = v]
  BY DEF NotesStep, SaveChunkRow, IndexChunk, RetireChunk, Become
<1> QED  BY <1>1, <1>2 DEF CorpusTypeOK, Visibility, Rows

\* The row of an erased chunk goes with the last of its hits, or stays.
LEMMA EraseTakesHits ==
  ASSUME HitInv, NEW k \in Chunks, FinishHardDelete(k)
  PROVE  HitInv'
<1>1. CASE UNCHANGED <<corpus, traceTables>>
  BY <1>1 DEF HitInv, CorpusTypeOK, ErasedLeavesNoHits, Rows, traceTables
<1>2. CASE EraseChunk(k) /\ DeleteHitsOf(k)
  <2>1. corpus' = [corpus EXCEPT ![k] = "erased"]
    BY <1>2 DEF EraseChunk, Become
  <2>2. hits' = {h \in hits : h.chunk # k}
    BY <1>2 DEF DeleteHitsOf
  <2>3. CorpusTypeOK'
    BY <2>1 DEF HitInv, CorpusTypeOK, Visibility
  <2>4. \A c \in Rows : c # k => c \in Rows'
    BY <2>1 DEF HitInv, CorpusTypeOK, Rows
  <2> QED  BY <2>2, <2>3, <2>4 DEF HitInv, ErasedLeavesNoHits
<1> QED  BY <1>1, <1>2 DEF FinishHardDelete

\* One step of the whole.
LEMMA HitInvKept ==
  ASSUME HitInv, [Next]_vars
  PROVE  HitInv'
<1>1. CASE UNCHANGED <<corpus, hits>>
  BY <1>1 DEF HitInv, CorpusTypeOK, ErasedLeavesNoHits, Rows
<1>2. ASSUME NEW c \in Calls, CallStep(c)
      PROVE  HitInv'
  <2>1. UNCHANGED corpus /\ \A h \in hits' : h \in hits \/ h.chunk \in Rows
    BY <1>2, CallStepHits
  <2> QED  BY <2>1 DEF HitInv, CorpusTypeOK, ErasedLeavesNoHits, Rows
<1>3. ASSUME NEW c \in Calls, BeginCall(c) \/ CallFails(c)
      PROVE  UNCHANGED <<corpus, hits>>
  BY <1>3 DEF BeginCall, CallFails, Ask, Chat, Sources, Begin, StoreCallFails, traceTables
<1>4. ASSUME NEW k \in Chunks, NotesStep(k)
      PROVE  HitInv'
  <2>1. CorpusTypeOK' /\ Rows \subseteq Rows' /\ hits' = hits
    BY <1>4, NotesKeepRows DEF HitInv
  <2> QED  BY <2>1 DEF HitInv, ErasedLeavesNoHits
<1>5. ASSUME NEW k \in Chunks, BeginHardDelete(k)
      PROVE  UNCHANGED <<corpus, hits>>
  BY <1>5 DEF BeginHardDelete, traceTables
<1>6. CASE Restart
  BY <1>1, <1>6 DEF Restart, traceTables
<1>7. CASE Rest \/ UNCHANGED vars
  BY <1>1, <1>7 DEF Rest, vars, traceTables
<1> QED  BY <1>1, <1>2, <1>3, <1>4, <1>5, <1>6, <1>7, EraseTakesHits DEF Next

\* However many answers are recorded while chunks are hard-deleted, and
\* wherever calls, deletions and the process are interrupted, no retrieval
\* hit is left that names a chunk whose row is gone.
THEOREM NoHitOutlivesItsChunk == Spec => []ErasedLeavesNoHits
<1>1. Init => HitInv
  BY DEF Init, CorpusInit, TraceStoreInit, HitInv, CorpusTypeOK, Visibility, ErasedLeavesNoHits
<1>2. HitInv /\ [Next]_vars => HitInv'
  BY HitInvKept
<1>3. HitInv => ErasedLeavesNoHits
  BY DEF HitInv
<1> QED  BY <1>1, <1>2, <1>3, PTL DEF Spec

-----------------------------------------------------------------------------
(***************************************************************************)
(* A call that still reads: before its query is recorded.                  *)
(***************************************************************************)
ReadSteps == {"rewrite", "embed", "dense", "sparse", "outward", "search", "generate"}

\* What is ahead of a reading step.
LEMMA ReadingFacts ==
  ASSUME TypeInv, NEW c \in Calls, OnPlan(c), NEW x \in ReadSteps, AtStep(c, x)
  PROVE  /\ Kind(c) \in {"ask", "chat"} /\ Live(c) /\ ~Undecided(c) /\ c \notin Replied
         /\ "query" \in Ahead(c) \ {x} /\ "trace" \in Ahead(c) \ {x}
         /\ "generate" \in Ahead(c)
         /\ x \in Ahead(c)
         /\ x # "generate" /\ Kind(c) = "chat" => local[c].effective # "model_only"
         /\ x \in {"rewrite", "outward", "search"} =>
               Kind(c) = "chat" /\ local[c].effective \in NotesPlusRoutes
         /\ x \in {"embed", "dense", "sparse"} =>
               "sparse" \in Ahead(c) /\ AfterRetrieval(c) \in Ahead(c) \ {x}
<1>1. /\ Live(c) /\ x \in Ahead(c) /\ x \in StepsOf(c) /\ c \notin Replied
      /\ \A y \in StepsOf(c) : Order[x] < Order[y] => y \in Ahead(c)
  BY AtStepFacts
<1>2. ~Undecided(c)
  BY DEF Undecided, AtStep, ReadSteps
<1>3. /\ Kind(c) \in {"unasked", "ask", "chat", "sources"} /\ local[c].effective \in Routes
  BY PlanFacts
<1>4. Kind(c) \in {"ask", "chat"}
  BY <1>1, <1>3 DEF StepsOf, Live, Begun, ReadSteps
<1>5. /\ "query" \in StepsOf(c) /\ "trace" \in StepsOf(c) /\ "generate" \in StepsOf(c)
      /\ AfterRetrieval(c) \in StepsOf(c)
      /\ x # "generate" /\ Kind(c) = "chat" => local[c].effective # "model_only"
      /\ x \in {"rewrite", "outward", "search"} =>
            Kind(c) = "chat" /\ local[c].effective \in NotesPlusRoutes
      /\ x \in {"embed", "dense", "sparse"} => "sparse" \in StepsOf(c)
  <2>1. CASE Kind(c) = "ask"
    BY <1>1, <2>1 DEF StepsOf, AnswerSteps, AfterRetrieval
  <2>2. CASE Kind(c) = "chat"
    <3>1. StepsOf(c) = StepsOfRoute[local[c].effective]
      BY <1>2, <2>2 DEF StepsOf
    <3> QED  BY <1>1, <1>3, <2>2, <3>1
             DEF StepsOfRoute, Routes, AnswerSteps, AfterRetrieval, ReadSteps, NotesPlusRoutes
  <2> QED  BY <1>4, <2>1, <2>2
<1>6. /\ Order[x] < Order["query"] /\ Order[x] < Order["trace"] /\ Order[x] < Order["decide"]
      /\ Order[x] < Order["remember"] /\ (x = "generate" \/ Order[x] < Order["generate"])
      /\ x \in {"embed", "dense", "sparse"} => x = "sparse" \/ Order[x] < Order["sparse"]
  BY OrderTable DEF ReadSteps
<1>7. "query" # x /\ "trace" # x /\ AfterRetrieval(c) # x
  BY DEF ReadSteps, AfterRetrieval
<1>8. Order[x] < Order[AfterRetrieval(c)]
  BY <1>6 DEF AfterRetrieval
<1> QED  BY <1>1, <1>2, <1>4, <1>5, <1>6, <1>7, <1>8

\* What a reading call has on record stays as it is: nothing.
LEMMA ReadingOn ==
  ASSUME TypeInv, NEW c \in Calls, CallInv(c), Live(c), ~Undecided(c),
         OnPlan(c)', Live(c)', ~Undecided(c)', Kind(c)' = Kind(c), StepsOf(c)' = StepsOf(c),
         Ahead(c)' \subseteq Ahead(c), "query" \in Ahead(c)', UNCHANGED traceTables,
         local'[c].hasQuery = local[c].hasQuery, local'[c].effective = local[c].effective,
         Retrieved(c)'
  PROVE  /\ NotYetRecorded(c)' /\ Recorded(c)' /\ Accounted(c)' /\ Explained(c)' /\ Told(c)'
<1>1. /\ QueryOf(c)' = QueryOf(c) /\ DecisionOf(c)' = DecisionOf(c)
      /\ RewritesOf(c)' = RewritesOf(c) /\ SearchesOf(c)' = SearchesOf(c)
  BY DEF QueryOf, DecisionOf, RewritesOf, SearchesOf, traceTables
<1>2. NotYetRecorded(c)'
  BY <1>1 DEF CallInv, NotYetRecorded, Live
<1>3. "query" \in StepsOf(c) /\ \A y \in StepsOf(c) : Order["query"] < Order[y] => y \in Ahead(c)'
  BY DEF OnPlan
<1>4. /\ Kind(c) \in {"unasked", "ask", "chat", "sources"} /\ local[c].effective \in Routes
  BY PlanFacts
<1>5. /\ Order["query"] < Order["trace"] /\ Order["query"] < Order["hits"]
      /\ Order["query"] < Order["decide"]
  BY OrderTable
<1>6. /\ "trace" \in StepsOf(c)
      /\ "hits" \notin StepsOf(c) => Kind(c) = "chat" /\ local[c].effective = "model_only"
      /\ Kind(c) = "chat" => "decide" \in StepsOf(c)
  <2>1. Kind(c) \in {"ask", "chat"}
    BY <1>3, <1>4 DEF StepsOf, Live, Begun
  <2>2. CASE Kind(c) = "ask"
    BY <2>2 DEF StepsOf, AnswerSteps
  <2>3. CASE Kind(c) = "chat"
    <3>1. StepsOf(c) = StepsOfRoute[local[c].effective]
      BY <2>3 DEF StepsOf
    <3> QED  BY <1>4, <2>3, <3>1 DEF StepsOfRoute, Routes, AnswerSteps
  <2> QED  BY <2>1, <2>2, <2>3
<1>7. "hits" \notin Ahead(c)' => HitsRecorded(c)'
  <2> SUFFICES ASSUME "hits" \notin Ahead(c)' PROVE HitsRecorded(c)'
    OBVIOUS
  <2>1. Kind(c)' = "chat" /\ local'[c].effective = "model_only"
    BY <1>3, <1>5, <1>6
  <2>2. local'[c].dense = <<>> /\ local'[c].sparse = <<>> /\ local'[c].context = <<>>
    BY <2>1 DEF Retrieved
  <2> QED  BY <2>2 DEF HitsRecorded, Legs
<1>8. Recorded(c)'
  BY <1>3, <1>5, <1>6, <1>7 DEF Recorded
<1>9. Accounted(c)'
  BY <1>3, <1>5, <1>6 DEF Accounted
<1>10. Explained(c)'
  BY DEF Explained, Live
<1>11. Told(c)'
  <2>1. todo'[c] # <<>>
    BY DEF Ahead, Range
  <2> QED  BY <2>1 DEF OnPlan, Told
<1> QED  BY <1>2, <1>8, <1>9, <1>10, <1>11

\* An outcome without an answer is true of any context and route.
LEMMA NothingConcluded ==
  ASSUME NEW c \in Calls, NEW f, verdict'[c] = Without(f),
         f = "none" \/ "generate" \notin Ahead(c)'
  PROVE  Concluded(c)'
<1>1. verdict'[c].cites = {} /\ verdict'[c].planes = {}
  BY DEF Without
<1> QED  BY <1>1 DEF Concluded

\* What every reading step keeps, whatever it reads.
LEMMA ReadStep ==
  ASSUME TypeInv, NEW c \in Calls, CallInv(c), NEW x \in ReadSteps, AtStep(c, x),
         GoOn(c) \/ (x = "sparse" /\ SkipTo(c, "query")),
         UNCHANGED <<request, aborted, reply, before, traceTables, deployment, corpus>>,
         local'[c].hasQuery = local[c].hasQuery, local'[c].effective = local[c].effective
  PROVE  /\ OnPlan(c)' /\ Untouched(c)' /\ Unanswered(c)'
         /\ Kind(c)' = Kind(c) /\ Ahead(c)' \subseteq Ahead(c) \ {x}
         /\ SkipTo(c, "query") \/ Ahead(c)' = Ahead(c) \ {x}
         /\ Retrieved(c)' => /\ NotYetRecorded(c)' /\ Recorded(c)' /\ Accounted(c)'
                             /\ Explained(c)' /\ Told(c)'
<1>1. /\ Kind(c) \in {"ask", "chat"} /\ Live(c) /\ ~Undecided(c) /\ c \notin Replied
      /\ "query" \in Ahead(c) \ {x} /\ x \in Ahead(c)
  BY ReadingFacts DEF CallInv
<1>2. x # "classify" /\ c \notin Replied' /\ OnPlan(c)
  BY <1>1 DEF ReadSteps, Replied, CallInv
<1>3. /\ OnPlan(c)' /\ Live(c)' /\ ~Undecided(c)' /\ Kind(c)' = Kind(c)
      /\ StepsOf(c)' = StepsOf(c) /\ Ahead(c)' \subseteq Ahead(c) \ {x}
      /\ "query" \in Ahead(c)'
      /\ SkipTo(c, "query") \/ Ahead(c)' = Ahead(c) \ {x}
  <2>1. CASE GoOn(c)
    BY <1>1, <1>2, <2>1, GoesOn
  <2>2. CASE x = "sparse" /\ SkipTo(c, "query")
    <3>1. /\ OnPlan(c)' /\ Live(c)' /\ ~Undecided(c)' /\ Kind(c)' = Kind(c)
          /\ Ahead(c)' = {y \in Ahead(c) : y = "query" \/ Order["query"] < Order[y]}
          /\ StepsOf(c)' = StepsOf(c)
      BY <1>1, <1>2, <2>2, SkipsTo
    <3>2. ~(Order["query"] < Order["sparse"])
      BY OrderTable
    <3> QED  BY <1>1, <2>2, <3>1, <3>2
  <2> QED  BY <2>1, <2>2
<1>4. local[c].hasQuery
  BY <1>1 DEF CallInv, Unanswered, ReadSteps
<1>5. Untouched(c)' /\ Unanswered(c)'
  BY <1>3, <1>4 DEF Untouched, Unanswered, Live
<1>6. Retrieved(c)' => /\ NotYetRecorded(c)' /\ Recorded(c)' /\ Accounted(c)'
                       /\ Explained(c)' /\ Told(c)'
  BY <1>1, <1>3, ReadingOn
<1> QED  BY <1>3, <1>5, <1>6

\* A step that retrieves nothing leaves what was found in its place.
LEMMA FoundStays ==
  ASSUME NEW c \in Calls, CallInv(c),
         UNCHANGED <<request, reply, before, corpus>>,
         local'[c].dense = local[c].dense, local'[c].sparse = local[c].sparse
  PROVE  FoundInPlace(c)'
<1>1. FoundChunks(c)' = FoundChunks(c) /\ Gone' = Gone /\ Replied' = Replied
  BY DEF FoundChunks, Gone, Replied
<1> QED  BY <1>1 DEF CallInv, FoundInPlace

\* Before the model was asked there is nothing to conclude.
LEMMA NotConcludedYet ==
  ASSUME TypeInv, NEW c \in Calls, CallInv(c), NEW x \in ReadSteps \ {"generate"}, AtStep(c, x),
         verdict'[c] = verdict[c]
  PROVE  Concluded(c)'
<1>1. "generate" \in Ahead(c)
  BY ReadingFacts DEF CallInv
<1> QED  BY <1>1, NothingConcluded DEF CallInv, Concluded

\* The steps that only word or embed what is searched.
LEMMA WordingKeeps ==
  ASSUME TypeInv, NEW c \in Calls, CallInv(c), corpus' = corpus,
         (Embed(c) /\ ~Abort(c)) \/ RewriteOutward(c)
  PROVE  CallInv(c)'
<1>1. PICK x \in {"embed", "outward"} : AtStep(c, x) /\ GoOn(c)
  BY DEF Embed, RewriteOutward
<1>2. UNCHANGED <<request, aborted, local, verdict, reply, before, traceTables, deployment, corpus>>
  BY DEF Embed, RewriteOutward
<1>3. x \in ReadSteps \ {"generate"}
  BY DEF ReadSteps
<1>4. /\ OnPlan(c)' /\ Untouched(c)' /\ Unanswered(c)' /\ Kind(c)' = Kind(c)
      /\ Ahead(c)' \subseteq Ahead(c)
      /\ Retrieved(c)' => /\ NotYetRecorded(c)' /\ Recorded(c)' /\ Accounted(c)'
                          /\ Explained(c)' /\ Told(c)'
  BY <1>1, <1>2, <1>3, ReadStep
<1>5. Retrieved(c)'
  BY <1>2, <1>4 DEF CallInv, Retrieved
<1>6. FoundInPlace(c)'
  BY <1>2, FoundStays
<1>7. Routed(c)'
  BY <1>2, <1>4 DEF CallInv, Routed
<1>8. Concluded(c)'
  BY <1>1, <1>2, <1>3, NotConcludedYet
<1> QED  BY <1>4, <1>5, <1>6, <1>7, <1>8 DEF CallInv

\* What the rewriter returns narrows the search, or leaves it whole.
LEMMA RewriteKeeps ==
  ASSUME TypeInv, NEW c \in Calls, CallInv(c), corpus' = corpus, Rewrite(c)
  PROVE  CallInv(c)'
<1>1. AtStep(c, "rewrite") /\ GoOn(c) /\ "rewrite" \in ReadSteps \ {"generate"}
  BY DEF Rewrite, ReadSteps
<1>2. UNCHANGED <<request, aborted, verdict, reply, before, traceTables, deployment, corpus>>
  BY DEF Rewrite
<1>3. PICK raw \in RawRewrites :
         local' = [local EXCEPT ![c].rewritten = RewriterReads(raw).rewritten,
                                ![c].window = RewriterReads(raw).window]
  BY DEF Rewrite
<1>4. local[c] \in Locals /\ DOMAIN local = Calls
  BY DEF TypeInv
<1>5. local'[c] = [local[c] EXCEPT !.rewritten = RewriterReads(raw).rewritten,
                                   !.window = RewriterReads(raw).window]
  BY <1>3, <1>4
<1>6. /\ local'[c].requested = local[c].requested /\ local'[c].effective = local[c].effective
      /\ local'[c].dense = local[c].dense /\ local'[c].sparse = local[c].sparse
      /\ local'[c].context = local[c].context /\ local'[c].offered = local[c].offered
      /\ local'[c].hasQuery = local[c].hasQuery
      /\ local'[c].rewritten \/ local'[c].window = Chunks
  BY <1>4, <1>5, AdaptersTyped DEF Locals
<1>7. /\ OnPlan(c)' /\ Untouched(c)' /\ Unanswered(c)' /\ Kind(c)' = Kind(c)
      /\ Ahead(c)' \subseteq Ahead(c)
      /\ Retrieved(c)' => /\ NotYetRecorded(c)' /\ Recorded(c)' /\ Accounted(c)'
                          /\ Explained(c)' /\ Told(c)'
  BY <1>1, <1>2, <1>6, ReadStep
<1>8. Retrieved(c)'
  BY <1>6, <1>7 DEF CallInv, Retrieved
<1>9. FoundInPlace(c)'
  BY <1>2, <1>6, FoundStays
<1>10. Routed(c)'
  BY <1>2, <1>6, <1>7 DEF CallInv, Routed
<1>11. Concluded(c)'
  BY <1>1, <1>2, NotConcludedYet
<1> QED  BY <1>7, <1>8, <1>9, <1>10, <1>11 DEF CallInv

\* The references the knowledge source offers.
LEMMA SearchKeeps ==
  ASSUME TypeInv, NEW c \in Calls, CallInv(c), corpus' = corpus, Search(c)
  PROVE  CallInv(c)'
<1>1. AtStep(c, "search") /\ GoOn(c) /\ "search" \in ReadSteps \ {"generate"}
  BY DEF Search, ReadSteps
<1>2. UNCHANGED <<request, aborted, verdict, reply, before, traceTables, deployment, corpus>>
  BY DEF Search
<1>3. PICK response \in SearchResponses :
         local' = [local EXCEPT ![c].offered = KnowledgeReads(response)]
  BY DEF Search
<1>4. local[c] \in Locals /\ DOMAIN local = Calls
  BY DEF TypeInv
<1>5. local'[c] = [local[c] EXCEPT !.offered = KnowledgeReads(response)]
  BY <1>3, <1>4
<1>6. /\ local'[c].requested = local[c].requested /\ local'[c].effective = local[c].effective
      /\ local'[c].dense = local[c].dense /\ local'[c].sparse = local[c].sparse
      /\ local'[c].context = local[c].context /\ local'[c].rewritten = local[c].rewritten
      /\ local'[c].hasQuery = local[c].hasQuery /\ local'[c].window = local[c].window
      /\ IsFiniteSet(local'[c].offered)
  BY <1>4, <1>5, AdaptersTyped DEF Locals
<1>7. /\ OnPlan(c)' /\ Untouched(c)' /\ Unanswered(c)' /\ Kind(c)' = Kind(c)
      /\ Ahead(c)' \subseteq Ahead(c)
      /\ Retrieved(c)' => /\ NotYetRecorded(c)' /\ Recorded(c)' /\ Accounted(c)'
                          /\ Explained(c)' /\ Told(c)'
  BY <1>1, <1>2, <1>6, ReadStep
<1>8. Retrieved(c)'
  BY <1>6, <1>7 DEF CallInv, Retrieved
<1>9. FoundInPlace(c)'
  BY <1>2, <1>6, FoundStays
<1>10. Routed(c)'
  BY <1>2, <1>6, <1>7 DEF CallInv, Routed
<1>11. Concluded(c)'
  BY <1>1, <1>2, NotConcludedYet
<1> QED  BY <1>7, <1>8, <1>9, <1>10, <1>11 DEF CallInv

\* Chunks a leg may return have not been retired, and are the community's.
LEMMA FoundNow ==
  ASSUME TypeInv, NEW c \in Calls, CallInv(c), NEW S,
         S = Active \intersect Searchable(c) \/ S = Ready \intersect Searchable(c),
         UNCHANGED <<request, reply, before, corpus>>,
         \A k \in FoundChunks(c)' : k \in FoundChunks(c) \/ k \in S
  PROVE  FoundInPlace(c)'
<1>1. Gone' = Gone /\ Replied' = Replied
  BY DEF Gone, Replied
<1>2. \A k \in S : /\ HomeOf[k] = request[c].community
                   /\ corpus[k] \in {"saved", "ready"} /\ k \notin Gone
  BY DEF Active, Ready, Searchable, Gone
<1>3. before[c].gone \subseteq Gone
  BY DEF CallInv, FoundInPlace
<1> QED  BY <1>1, <1>2, <1>3 DEF CallInv, FoundInPlace

\* The dense leg.
LEMMA DenseKeeps ==
  ASSUME TypeInv, NEW c \in Calls, CallInv(c), corpus' = corpus, Dense(c)
  PROVE  CallInv(c)'
<1>1. AtStep(c, "dense") /\ GoOn(c) /\ "dense" \in ReadSteps \ {"generate"}
  BY DEF Dense, ReadSteps
<1>2. UNCHANGED <<request, aborted, verdict, reply, before, traceTables, deployment, corpus>>
  BY DEF Dense
<1>3. PICK ranking \in Rankings(Ready \intersect Searchable(c)) :
         local' = [local EXCEPT ![c].dense = ranking]
  BY DEF Dense, DenseRankings
<1>4. local[c] \in Locals /\ DOMAIN local = Calls
  BY DEF TypeInv
<1>5. local'[c] = [local[c] EXCEPT !.dense = ranking]
  BY <1>3, <1>4
<1>6. /\ local'[c].requested = local[c].requested /\ local'[c].effective = local[c].effective
      /\ local'[c].dense = ranking /\ local'[c].sparse = local[c].sparse
      /\ local'[c].context = local[c].context /\ local'[c].rewritten = local[c].rewritten
      /\ local'[c].hasQuery = local[c].hasQuery /\ local'[c].window = local[c].window
      /\ local'[c].offered = local[c].offered
  BY <1>4, <1>5 DEF Locals
<1>7. /\ OnPlan(c)' /\ Untouched(c)' /\ Unanswered(c)' /\ Kind(c)' = Kind(c)
      /\ Ahead(c)' \subseteq Ahead(c)
      /\ Retrieved(c)' => /\ NotYetRecorded(c)' /\ Recorded(c)' /\ Accounted(c)'
                          /\ Explained(c)' /\ Told(c)'
  BY <1>1, <1>2, <1>6, ReadStep
<1>8. /\ Kind(c) = "chat" => local[c].effective # "model_only"
      /\ "sparse" \in Ahead(c)
  BY <1>1, ReadingFacts DEF CallInv
<1>9. Retrieved(c)'
  BY <1>6, <1>7, <1>8 DEF CallInv, Retrieved
<1>10. FoundInPlace(c)'
  <2>1. Range(ranking) \subseteq Ready \intersect Searchable(c)
    BY <1>3, RankingFacts
  <2>2. \A k \in FoundChunks(c)' : k \in FoundChunks(c) \/ k \in Ready \intersect Searchable(c)
    BY <1>6, <2>1 DEF FoundChunks, Found
  <2> QED  BY <1>2, <2>2, FoundNow
<1>11. Routed(c)'
  BY <1>2, <1>6, <1>7 DEF CallInv, Routed
<1>12. Concluded(c)'
  BY <1>1, <1>2, NotConcludedYet
<1> QED  BY <1>7, <1>9, <1>10, <1>11, <1>12 DEF CallInv

\* The sparse leg and the fusion of both; with nothing found, the outcome.
LEMMA SparseKeeps ==
  ASSUME TypeInv, NEW c \in Calls, CallInv(c), corpus' = corpus, Sparse(c)
  PROVE  CallInv(c)'
<1>1. AtStep(c, "sparse") /\ "sparse" \in ReadSteps \ {"generate"}
  BY DEF Sparse, ReadSteps
<1>2. UNCHANGED <<request, aborted, reply, before, traceTables, deployment, corpus>>
  BY DEF Sparse
<1>3. PICK ranking \in SparseRankings(c) :
         /\ local' = [local EXCEPT ![c].sparse = ranking,
                                   ![c].context = Fuse(local[c].dense, ranking)]
         /\ \/ Decide(c, Without("no_evidence")) /\ SkipTo(c, "query")
            \/ GoOn(c) /\ UNCHANGED verdict
  BY DEF Sparse
<1>4. local[c] \in Locals /\ DOMAIN local = Calls /\ DOMAIN verdict = Calls
  BY DEF TypeInv
<1>5. local'[c] = [local[c] EXCEPT !.sparse = ranking,
                                   !.context = Fuse(local[c].dense, ranking)]
  BY <1>3, <1>4
<1>6. /\ local'[c].requested = local[c].requested /\ local'[c].effective = local[c].effective
      /\ local'[c].dense = local[c].dense /\ local'[c].sparse = ranking
      /\ local'[c].context = Fuse(local'[c].dense, local'[c].sparse)
      /\ local'[c].rewritten = local[c].rewritten
      /\ local'[c].hasQuery = local[c].hasQuery /\ local'[c].window = local[c].window
      /\ local'[c].offered = local[c].offered
  BY <1>4, <1>5 DEF Locals
<1>7. /\ OnPlan(c)' /\ Untouched(c)' /\ Unanswered(c)' /\ Kind(c)' = Kind(c)
      /\ Ahead(c)' \subseteq Ahead(c) \ {"sparse"}
      /\ Retrieved(c)' => /\ NotYetRecorded(c)' /\ Recorded(c)' /\ Accounted(c)'
                          /\ Explained(c)' /\ Told(c)'
  BY <1>1, <1>2, <1>3, <1>6, ReadStep
<1>8. /\ Kind(c) = "chat" => local[c].effective # "model_only"
      /\ "query" \in Ahead(c)
  BY <1>1, ReadingFacts DEF CallInv
<1>9. Retrieved(c)'
  BY <1>6, <1>7, <1>8 DEF Retrieved
<1>10. FoundInPlace(c)'
  <2>1. Range(ranking) \subseteq Active \intersect Searchable(c)
    BY <1>3, RankingFacts, EmptyRanking DEF SparseRankings
  <2>2. \A k \in FoundChunks(c)' : k \in FoundChunks(c) \/ k \in Active \intersect Searchable(c)
    BY <1>6, <2>1 DEF FoundChunks, Found
  <2> QED  BY <1>2, <2>2, FoundNow
<1>11. Routed(c)'
  BY <1>2, <1>6, <1>7 DEF CallInv, Routed
<1>12. Concluded(c)'
  <2>1. CASE Decide(c, Without("no_evidence")) /\ SkipTo(c, "query")
    <3>1. verdict'[c] = Without("no_evidence")
      BY <1>4, <2>1 DEF Decide
    <3>2. Ahead(c)' = {y \in Ahead(c) : y = "query" \/ Order["query"] < Order[y]}
      BY <1>8, <2>1, SkipToAhead DEF CallInv, Ahead
    <3>3. ~(Order["query"] < Order["generate"])
      BY OrderTable
    <3> QED  BY <3>1, <3>2, <3>3, NothingConcluded
  <2>2. CASE UNCHANGED verdict
    BY <1>1, <2>2, NotConcludedYet
  <2> QED  BY <1>3, <2>1, <2>2
<1> QED  BY <1>7, <1>9, <1>10, <1>11, <1>12 DEF CallInv

\* What a parser accepts: citations of the context, notes told only with one,
\* web text only with references that were offered, and no plane the route
\* does not have.
Accepted(v, planes, context, offered) ==
    /\ v.planes \subseteq planes
    /\ v.cites \subseteq Range(context)
    /\ "notes" \in v.planes /\ v.fallback # "no_evidence" => v.cites # {}
    /\ "web" \in v.planes => v.refs # {} /\ v.refs \subseteq offered

\* An outcome without an answer claims nothing.
LEMMA WithoutAccepted ==
  ASSUME NEW f, NEW planes, NEW context, NEW offered
  PROVE  Accepted(Without(f), planes, context, offered)
BY DEF Accepted, Without

\* An outcome, by its parts.
LEMMA PartsAccepted ==
  ASSUME NEW fallback, NEW cites, NEW refs, NEW planes, NEW allowed, NEW context, NEW offered,
         planes \subseteq allowed, cites \subseteq Range(context),
         "notes" \in planes /\ fallback # "no_evidence" => cites # {},
         "web" \in planes => refs # {} /\ refs \subseteq offered
  PROVE  Accepted([fallback |-> fallback, cites |-> cites, refs |-> refs, planes |-> planes],
                  allowed, context, offered)
<1> DEFINE v == [fallback |-> fallback, cites |-> cites, refs |-> refs, planes |-> planes]
<1>1. v.fallback = fallback /\ v.cites = cites /\ v.refs = refs /\ v.planes = planes
  OBVIOUS
<1> HIDE DEF v
<1>2. Accepted(v, allowed, context, offered)
  BY <1>1 DEF Accepted
<1> QED  BY <1>2 DEF v

\* The parser of each route.
LEMMA ParsersAccept ==
  ASSUME NEW context, NEW offered
  PROVE  /\ \A raw \in RawAnswers(LookupContents) :
               ~Raises(raw) => Accepted(ParseAnswer(raw, context), {"notes"}, context, offered)
         /\ \A raw \in RawAnswers(NotesPlusModelContents) :
               ~Raises(raw) => Accepted(ParseNotesPlusModel(raw, context), {"notes", "model"},
                                        context, offered)
         /\ \A raw \in RawAnswers(NotesPlusKnowledgeContents) :
               ~Raises(raw) => Accepted(ParseNotesPlusKnowledge(raw, context, offered),
                                        {"notes", "model", "web"}, context, offered)
         /\ \A raw \in {Malformed} \union ModelOnlyContents :
               Accepted(ParseModelOnly(raw), {"model"}, context, offered)
<1>1. \A n, m, w \in BOOLEAN :
         /\ PlanesOf(n, m, w) \subseteq {"notes", "model", "web"}
         /\ "notes" \in PlanesOf(n, m, w) <=> n
         /\ "model" \in PlanesOf(n, m, w) <=> m
         /\ "web" \in PlanesOf(n, m, w) <=> w
  BY DEF PlanesOf, Planes
<1>2. \A m \in Markers : MarkerFallback[m] = "no_evidence" <=> m = "no_evidence"
  BY DEF Markers, MarkerFallback
<1>3. ASSUME NEW raw \in RawAnswers(LookupContents)
      PROVE  Accepted(ParseAnswer(raw, context), {"notes"}, context, offered)
  <2>1. CASE WellFormedAnswer(raw, context)
    <3>1. raw \in LookupContents
      BY <2>1 DEF RawAnswers, Malformed, UnhashableMarker, WellFormedAnswer
    <3>2. raw.marker \in Markers /\ raw.notes \in BOOLEAN
      BY <3>1 DEF LookupContents
    <3>3. ParseAnswer(raw, context) =
            [fallback |-> MarkerFallback[raw.marker], cites |-> raw.cites, refs |-> {},
             planes |-> PlanesOf(raw.notes, FALSE, FALSE)]
      BY <2>1 DEF ParseAnswer
    <3>4. PlanesOf(raw.notes, FALSE, FALSE) \subseteq {"notes"}
      BY <1>1, <3>2
    <3>5. raw.cites \subseteq Range(context) /\ (raw.cites = {} => raw.marker = "no_evidence")
      BY <2>1 DEF WellFormedAnswer
    <3>6. MarkerFallback[raw.marker] # "no_evidence" => raw.cites # {}
      BY <1>2, <3>2, <3>5
    <3>7. "web" \notin PlanesOf(raw.notes, FALSE, FALSE)
      BY <1>1, <3>2
    <3> QED  BY <3>3, <3>4, <3>5, <3>6, <3>7, PartsAccepted
  <2>2. CASE ~WellFormedAnswer(raw, context)
    BY <2>2, WithoutAccepted DEF ParseAnswer
  <2> QED  BY <2>1, <2>2
<1>4. ASSUME NEW raw \in RawAnswers(NotesPlusModelContents)
      PROVE  Accepted(ParseNotesPlusModel(raw, context), {"notes", "model"}, context, offered)
  <2> DEFINE ok == /\ raw.shape = "object" /\ raw.cites \subseteq Range(context)
                   /\ NotesSegmentAgrees(raw)
  <2>1. CASE ok
    <3>1. raw \in NotesPlusModelContents
      BY <2>1 DEF RawAnswers, Malformed, UnhashableMarker
    <3>2. raw.marker \in Markers /\ raw.notes \in BOOLEAN /\ raw.model \in BOOLEAN
      BY <3>1 DEF NotesPlusModelContents
    <3>3. ParseNotesPlusModel(raw, context) =
            [fallback |-> MarkerFallback[raw.marker], cites |-> raw.cites, refs |-> {},
             planes |-> PlanesOf(raw.notes, raw.model, FALSE)]
      BY <2>1 DEF ParseNotesPlusModel
    <3>4. /\ PlanesOf(raw.notes, raw.model, FALSE) \subseteq {"notes", "model"}
          /\ "notes" \in PlanesOf(raw.notes, raw.model, FALSE) <=> raw.notes
          /\ "web" \notin PlanesOf(raw.notes, raw.model, FALSE)
      BY <1>1, <3>2
    <3>5. raw.notes => raw.cites # {}
      BY <2>1 DEF NotesSegmentAgrees
    <3> QED  BY <2>1, <3>3, <3>4, <3>5, PartsAccepted
  <2>2. CASE ~ok
    BY <2>2, WithoutAccepted DEF ParseNotesPlusModel
  <2> QED  BY <2>1, <2>2
<1>5. ASSUME NEW raw \in RawAnswers(NotesPlusKnowledgeContents)
      PROVE  Accepted(ParseNotesPlusKnowledge(raw, context, offered), {"notes", "model", "web"},
                      context, offered)
  <2> DEFINE ok == /\ raw.shape = "object" /\ raw.cites \subseteq Range(context)
                   /\ raw.refs \subseteq offered /\ NotesSegmentAgrees(raw)
                   /\ (raw.web <=> raw.refs # {})
  <2>1. CASE ok
    <3>1. raw \in NotesPlusKnowledgeContents
      BY <2>1 DEF RawAnswers, Malformed, UnhashableMarker
    <3>2. /\ raw.marker \in Markers /\ raw.notes \in BOOLEAN /\ raw.model \in BOOLEAN
          /\ raw.web \in BOOLEAN
      BY <3>1 DEF NotesPlusKnowledgeContents
    <3>3. ParseNotesPlusKnowledge(raw, context, offered) =
            [fallback |-> MarkerFallback[raw.marker], cites |-> raw.cites, refs |-> raw.refs,
             planes |-> PlanesOf(raw.notes, raw.model, raw.web)]
      BY <2>1 DEF ParseNotesPlusKnowledge
    <3>4. /\ PlanesOf(raw.notes, raw.model, raw.web) \subseteq {"notes", "model", "web"}
          /\ "notes" \in PlanesOf(raw.notes, raw.model, raw.web) <=> raw.notes
          /\ "web" \in PlanesOf(raw.notes, raw.model, raw.web) <=> raw.web
      BY <1>1, <3>2
    <3>5. raw.notes => raw.cites # {}
      BY <2>1 DEF NotesSegmentAgrees
    <3> QED  BY <2>1, <3>3, <3>4, <3>5, PartsAccepted
  <2>2. CASE ~ok
    BY <2>2, WithoutAccepted DEF ParseNotesPlusKnowledge
  <2> QED  BY <2>1, <2>2
<1>6. ASSUME NEW raw \in {Malformed} \union ModelOnlyContents
      PROVE  Accepted(ParseModelOnly(raw), {"model"}, context, offered)
  <2>1. CASE raw.shape = "object"
    <3>1. raw.model \in BOOLEAN
      BY <2>1 DEF Malformed, ModelOnlyContents
    <3>2. PlanesOf(FALSE, raw.model, FALSE) \subseteq {"model"}
          /\ "notes" \notin PlanesOf(FALSE, raw.model, FALSE)
          /\ "web" \notin PlanesOf(FALSE, raw.model, FALSE)
      BY <1>1, <3>1
    <3>3. ParseModelOnly(raw) = [fallback |-> "none", cites |-> {}, refs |-> {},
                                 planes |-> PlanesOf(FALSE, raw.model, FALSE)]
      BY <2>1 DEF ParseModelOnly, Without
    <3> QED  BY <3>2, <3>3, PartsAccepted
  <2>2. CASE raw.shape # "object"
    BY <2>2, WithoutAccepted DEF ParseModelOnly
  <2> QED  BY <2>1, <2>2
<1> QED  BY <1>3, <1>4, <1>5, <1>6

PlanesOfRoute ==
    [notes_lookup |-> {"notes"}, model_only |-> {"model"},
     notes_plus_model |-> {"notes", "model"},
     notes_plus_knowledge |-> {"notes", "model", "web"}]

\* The model is asked once on every route, by the parser of that route.
LEMMA GenerateAccepts ==
  ASSUME TypeInv, NEW c \in Calls, CallInv(c),
         \/ Generate(c) \/ GenerateNotesPlusModel(c) \/ GenerateNotesPlusKnowledge(c)
         \/ GenerateModelOnly(c)
  PROVE  /\ AtStep(c, "generate")
         /\ \/ Abort(c) /\ NoFault /\ UNCHANGED verdict
            \/ \E v : /\ Decide(c, v) /\ GoOn(c) /\ UNCHANGED aborted
                      /\ Accepted(v, PlanesOfRoute[local[c].effective], local[c].context,
                                  local[c].offered)
<1> DEFINE accepted(v) == Accepted(v, PlanesOfRoute[local[c].effective], local[c].context,
                                   local[c].offered)
           goal == \/ Abort(c) /\ NoFault /\ UNCHANGED verdict
                   \/ \E v : Decide(c, v) /\ GoOn(c) /\ UNCHANGED aborted /\ accepted(v)
<1>1. ASSUME Unavailable(c) PROVE goal
  BY <1>1, WithoutAccepted DEF Unavailable
<1>2. ASSUME RaiseUncaught(c) PROVE goal
  BY <1>2 DEF RaiseUncaught
<1>3. ASSUME NEW v, Accept(c, v), accepted(v) PROVE goal
  BY <1>3 DEF Accept
<1>4. CASE Generate(c)
  <2>1. local[c].effective = "notes_lookup"
    BY <1>4 DEF Generate, CallInv, Routed
  <2>2. PlanesOfRoute[local[c].effective] = {"notes"}
    BY <2>1 DEF PlanesOfRoute
  <2> QED  BY <1>1, <1>2, <1>3, <1>4, <2>2, ParsersAccept DEF Generate
<1>5. CASE GenerateNotesPlusModel(c)
  <2>1. PlanesOfRoute[local[c].effective] = {"notes", "model"}
    BY <1>5 DEF PlanesOfRoute, GenerateNotesPlusModel, AtGenerate
  <2> QED  BY <1>1, <1>2, <1>3, <1>5, <2>1, ParsersAccept DEF GenerateNotesPlusModel, AtGenerate
<1>6. CASE GenerateNotesPlusKnowledge(c)
  <2>1. PlanesOfRoute[local[c].effective] = {"notes", "model", "web"}
    BY <1>6 DEF PlanesOfRoute, GenerateNotesPlusKnowledge, AtGenerate
  <2> QED  BY <1>1, <1>2, <1>3, <1>6, <2>1, ParsersAccept DEF GenerateNotesPlusKnowledge, AtGenerate
<1>7. CASE GenerateModelOnly(c)
  <2>1. PlanesOfRoute[local[c].effective] = {"model"}
    BY <1>7 DEF PlanesOfRoute, GenerateModelOnly, AtGenerate
  <2> QED  BY <1>1, <1>2, <1>3, <1>7, <2>1, ParsersAccept DEF GenerateModelOnly, AtGenerate
<1> QED  BY <1>4, <1>5, <1>6, <1>7

\* An accepted outcome is the call's conclusion.
LEMMA GenerateKeeps ==
  ASSUME TypeInv, NEW c \in Calls, CallInv(c), corpus' = corpus, ~Abort(c),
         \/ Generate(c) \/ GenerateNotesPlusModel(c) \/ GenerateNotesPlusKnowledge(c)
         \/ GenerateModelOnly(c)
  PROVE  CallInv(c)'
<1>1. PICK v : /\ AtStep(c, "generate") /\ Decide(c, v) /\ GoOn(c) /\ UNCHANGED aborted
               /\ Accepted(v, PlanesOfRoute[local[c].effective], local[c].context,
                           local[c].offered)
  BY GenerateAccepts
<1>2. UNCHANGED <<request, local, reply, before, traceTables, deployment, corpus>>
  BY DEF Generate, GenerateNotesPlusModel, GenerateNotesPlusKnowledge, GenerateModelOnly
<1>3. verdict'[c] = v
  BY <1>1 DEF Decide, TypeInv
<1>4. /\ OnPlan(c)' /\ Untouched(c)' /\ Unanswered(c)' /\ Kind(c)' = Kind(c)
      /\ Ahead(c)' \subseteq Ahead(c) \ {"generate"}
      /\ Retrieved(c)' => /\ NotYetRecorded(c)' /\ Recorded(c)' /\ Accounted(c)'
                          /\ Explained(c)' /\ Told(c)'
  BY <1>1, <1>2, ReadStep DEF ReadSteps
<1>5. Retrieved(c)'
  BY <1>2, <1>4 DEF CallInv, Retrieved
<1>6. FoundInPlace(c)'
  BY <1>2, FoundStays
<1>7. Routed(c)'
  BY <1>2, <1>4 DEF CallInv, Routed
<1>8. Concluded(c)'
  <2>1. local[c].effective \in Routes
    BY PlanFacts
  <2>2. "web" \in v.planes => local[c].effective = "notes_plus_knowledge"
    BY <1>1, <2>1 DEF Accepted, PlanesOfRoute, Routes
  <2>3. /\ local[c].effective = "notes_lookup" => v.planes \subseteq {"notes"}
        /\ local[c].effective = "model_only" => v.planes \subseteq {"model"}
    BY <1>1 DEF Accepted, PlanesOfRoute
  <2>4. Context(c)' = Range(local[c].context)
    BY <1>2 DEF Context
  <2> QED  BY <1>1, <1>2, <1>3, <1>4, <2>2, <2>3, <2>4 DEF Accepted, Concluded
<1> QED  BY <1>4, <1>5, <1>6, <1>7, <1>8 DEF CallInv

\* Without retrieval the call goes straight to what is left of it.
LEMMA UnsupportedKeeps ==
  ASSUME TypeInv, NEW c \in Calls, CallInv(c), corpus' = corpus, RetrievalUnsupported(c)
  PROVE  CallInv(c)'
<1> DEFINE z == AfterRetrieval(c)
<1>1. AtStep(c, "dense") /\ SkipTo(c, z) /\ "dense" \in ReadSteps /\ OnPlan(c)
  BY DEF RetrievalUnsupported, ReadSteps, CallInv
<1>2. UNCHANGED <<request, aborted, reply, before, traceTables, deployment, corpus>>
  BY DEF RetrievalUnsupported
<1>3. /\ Kind(c) \in {"ask", "chat"} /\ Live(c) /\ c \notin Replied
      /\ "query" \in Ahead(c) /\ "sparse" \in Ahead(c) /\ z \in Ahead(c)
  BY <1>1, ReadingFacts
<1>4. local[c] \in Locals /\ DOMAIN local = Calls /\ DOMAIN verdict = Calls
  BY DEF TypeInv
<1>5. local'[c] = [local[c] EXCEPT !.hasQuery = FALSE] /\ verdict'[c] = Without("no_evidence")
  BY <1>4 DEF RetrievalUnsupported, Decide
<1>6. /\ local'[c].requested = local[c].requested /\ local'[c].effective = local[c].effective
      /\ local'[c].dense = local[c].dense /\ local'[c].sparse = local[c].sparse
      /\ local'[c].context = local[c].context /\ local'[c].rewritten = local[c].rewritten
      /\ ~local'[c].hasQuery /\ local'[c].window = local[c].window
      /\ local'[c].offered = local[c].offered
  BY <1>4, <1>5 DEF Locals
<1>7. c \notin Replied'
  BY <1>2, <1>3 DEF Replied
<1>8. /\ OnPlan(c)' /\ Live(c)' /\ ~Undecided(c)' /\ Kind(c)' = Kind(c)
      /\ Ahead(c)' = {y \in Ahead(c) : y = z \/ Order[z] < Order[y]}
      /\ StepsOf(c)' = StepsOf(c)
  BY <1>1, <1>2, <1>3, <1>6, <1>7, SkipsTo
<1>9. z = IF Kind(c) = "chat" THEN "decide" ELSE "remember"
  BY DEF AfterRetrieval
<1>10. Ahead(c)' \subseteq {"decide", "log_rewrite", "log_search", "remember", "send"} \intersect StepsOf(c)
  <2>1. Ahead(c) \subseteq StepsOf(c) /\ StepsOf(c) \subseteq Steps
    BY <1>1, AtStepFacts, PlanFacts
  <2>2. Order[z] = 11
    BY <1>9, OrderTable
  <2>3. \A y \in Steps : 11 < Order[y] => y \in {"log_rewrite", "log_search", "send", "recall"}
    BY OrderTable, StepNames
  <2>4. Kind(c) = "chat" => StepsOf(c) = StepsOfRoute[local[c].effective]
    BY <1>1 DEF StepsOf, Undecided, AtStep
  <2>5. "recall" \notin StepsOf(c)
    BY <1>3, <2>4, PlanFacts DEF StepsOf, StepsOfRoute, AnswerSteps, Routes
  <2> QED  BY <1>8, <1>9, <2>1, <2>2, <2>3, <2>5
<1>11. Kind(c) = "ask" => StepsOf(c) = AnswerSteps \union {"remember", "send"}
  BY DEF StepsOf
<1>12. Unanswered(c)'
  <2>1. Kind(c) = "ask" => Ahead(c)' \subseteq {"remember", "send"}
    BY <1>10, <1>11 DEF AnswerSteps
  <2>2. Kind(c) = "chat" => "decide" \in Ahead(c)'
    BY <1>3, <1>8, <1>9
  <2> QED  BY <1>3, <1>8, <1>10, <2>1, <2>2 DEF Unanswered
<1>13. Untouched(c)' /\ Told(c)' /\ Explained(c)'
  BY <1>7, <1>8 DEF Untouched, Live, Told, Explained
<1>14. Retrieved(c)'
  BY <1>3, <1>6, <1>8 DEF CallInv, Retrieved
<1>15. FoundInPlace(c)'
  BY <1>2, <1>6, FoundStays
<1>16. Routed(c)'
  BY <1>2, <1>6, <1>8 DEF CallInv, Routed
<1>17. Concluded(c)'
  BY <1>5, <1>10, NothingConcluded
<1>18. NotYetRecorded(c)'
  <2>1. QueryOf(c)' = QueryOf(c) /\ DecisionOf(c)' = DecisionOf(c)
        /\ RewritesOf(c)' = RewritesOf(c) /\ SearchesOf(c)' = SearchesOf(c)
    BY <1>2 DEF QueryOf, DecisionOf, RewritesOf, SearchesOf, traceTables
  <2>2. QueryOf(c) = {}
    BY <1>3 DEF CallInv, NotYetRecorded
  <2>3. RewritesOf(c) = {} /\ SearchesOf(c) = {}
    <3>1. CASE Kind(c) = "chat"
      BY <1>3, <1>9, <3>1 DEF CallInv, NotYetRecorded
    <3>2. CASE Kind(c) = "ask"
      BY <3>2 DEF CallInv, NotYetRecorded, Routed, NotesPlusRoutes
    <3> QED  BY <1>3, <3>1, <3>2
  <2>4. "decide" \in Ahead(c)' => DecisionOf(c) = {}
    BY <1>8 DEF CallInv, NotYetRecorded
  <2> QED  BY <1>8, <2>1, <2>2, <2>3, <2>4 DEF NotYetRecorded, Live
<1>19. Recorded(c)'
  BY <1>6 DEF Recorded
<1>20. Accounted(c)'
  BY <1>3, <1>6, <1>8, <1>9 DEF Accounted
<1> QED  BY <1>8, <1>12, <1>13, <1>14, <1>15, <1>16, <1>17, <1>18, <1>19, <1>20 DEF CallInv

-----------------------------------------------------------------------------
(***************************************************************************)
(* A call that writes.                                                     *)
(***************************************************************************)
WriteSteps == {"query", "hits", "trace", "decide", "log_rewrite", "log_search"}

\* What is behind and ahead of a writing step.
LEMMA WritingFacts ==
  ASSUME TypeInv, NEW c \in Calls, CallInv(c), NEW x \in WriteSteps, AtStep(c, x)
  PROVE  /\ Kind(c) \in {"ask", "chat"} /\ Live(c) /\ ~Undecided(c) /\ c \notin Replied
         /\ x # "decide" => local[c].hasQuery
         /\ x \in Ahead(c) /\ "generate" \notin Ahead(c)
         /\ x # "query" => "query" \notin Ahead(c)
         /\ x \notin {"query", "hits"} => "hits" \notin Ahead(c)
         /\ x \in {"decide", "log_rewrite", "log_search"} => Kind(c) = "chat"
         /\ x \in {"query", "hits"} => "trace" \in Ahead(c)
         /\ x = "query" /\ "hits" \notin Ahead(c)
               => Kind(c) = "chat" /\ local[c].effective = "model_only"
         /\ x \in {"decide", "log_rewrite", "log_search"} => "trace" \notin Ahead(c)
         /\ x \in {"query", "hits", "trace"} /\ Kind(c) = "chat" => "decide" \in Ahead(c)
         /\ x \in {"log_rewrite", "log_search"} => "decide" \notin Ahead(c)
         /\ x = "log_rewrite" => local[c].effective \in NotesPlusRoutes
         /\ x = "log_search" => local[c].effective = "notes_plus_knowledge"
                                /\ "log_rewrite" \notin Ahead(c)
         /\ x = "decide" => "send" \in Ahead(c)
         /\ x = "decide" /\ local[c].effective \in NotesPlusRoutes => "log_rewrite" \in Ahead(c)
         /\ x \in {"decide", "log_rewrite"} /\ local[c].effective = "notes_plus_knowledge"
               => "log_search" \in Ahead(c)
<1>1. /\ Live(c) /\ x \in Ahead(c) /\ x \in StepsOf(c) /\ c \notin Replied
      /\ \A y \in Ahead(c) : y = x \/ Order[x] < Order[y]
      /\ \A y \in StepsOf(c) : Order[x] < Order[y] => y \in Ahead(c)
  BY AtStepFacts DEF CallInv
<1>2. ~Undecided(c)
  BY DEF Undecided, AtStep, WriteSteps
<1>3. /\ Kind(c) \in {"unasked", "ask", "chat", "sources"} /\ local[c].effective \in Routes
  BY PlanFacts
<1>4. Kind(c) \in {"ask", "chat"}
  BY <1>1, <1>3 DEF StepsOf, Live, Begun, WriteSteps
<1>5. /\ Kind(c) = "ask" => StepsOf(c) = AnswerSteps \union {"remember", "send"}
      /\ Kind(c) = "chat" => StepsOf(c) = StepsOfRoute[local[c].effective]
  BY <1>2 DEF StepsOf
<1>6. /\ x \in {"decide", "log_rewrite", "log_search"} => Kind(c) = "chat"
      /\ x = "log_rewrite" => local[c].effective \in NotesPlusRoutes
      /\ x = "log_search" => local[c].effective = "notes_plus_knowledge"
  BY <1>1, <1>3, <1>4, <1>5 DEF AnswerSteps, StepsOfRoute, Routes, NotesPlusRoutes
<1>7. /\ x \in {"query", "hits"} => "trace" \in StepsOf(c)
      /\ x = "query" /\ "hits" \notin StepsOf(c)
            => Kind(c) = "chat" /\ local[c].effective = "model_only"
      /\ Kind(c) = "chat" => "decide" \in StepsOf(c) /\ "send" \in StepsOf(c)
      /\ Kind(c) = "chat" /\ local[c].effective \in NotesPlusRoutes => "log_rewrite" \in StepsOf(c)
      /\ Kind(c) = "chat" /\ local[c].effective = "notes_plus_knowledge"
            => "log_search" \in StepsOf(c)
  BY <1>1, <1>3, <1>4, <1>5 DEF AnswerSteps, StepsOfRoute, Routes, NotesPlusRoutes
<1>8. /\ ~(Order[x] < Order["generate"]) /\ "generate" # x
      /\ ~(Order[x] < Order["query"])
      /\ x # "query" => ~(Order[x] < Order["hits"])
      /\ x \in {"query", "hits"} => Order[x] < Order["trace"]
      /\ x = "query" => Order[x] < Order["hits"]
      /\ x \in {"decide", "log_rewrite", "log_search"}
            => ~(Order[x] < Order["trace"]) /\ ~(Order[x] < Order["decide"])
      /\ x \in {"query", "hits", "trace"} => Order[x] < Order["decide"]
      /\ x = "decide" => Order[x] < Order["log_rewrite"] /\ Order[x] < Order["send"]
      /\ x \in {"decide", "log_rewrite"} => Order[x] < Order["log_search"]
      /\ x = "log_search" => ~(Order[x] < Order["log_rewrite"])
  BY OrderTable DEF WriteSteps
<1>9. x # "decide" => local[c].hasQuery
  <2>1. x \in {"log_rewrite", "log_search"} => "decide" \notin Ahead(c)
    BY <1>1, <1>8
  <2> QED  BY <1>1, <2>1 DEF CallInv, Unanswered, WriteSteps
<1>10. /\ "generate" \notin Ahead(c)
       /\ x # "query" => "query" \notin Ahead(c)
       /\ x \notin {"query", "hits"} => "hits" \notin Ahead(c)
       /\ x \in {"query", "hits"} => "trace" \in Ahead(c)
       /\ x = "query" /\ "hits" \notin Ahead(c) => "hits" \notin StepsOf(c)
       /\ x \in {"decide", "log_rewrite", "log_search"} => "trace" \notin Ahead(c)
       /\ x \in {"log_rewrite", "log_search"} => "decide" \notin Ahead(c)
       /\ x = "log_search" => "log_rewrite" \notin Ahead(c)
  BY <1>1, <1>7, <1>8
<1>11. /\ x \in {"query", "hits", "trace"} /\ Kind(c) = "chat" => "decide" \in Ahead(c)
       /\ x = "decide" => "send" \in Ahead(c)
       /\ x = "decide" /\ local[c].effective \in NotesPlusRoutes => "log_rewrite" \in Ahead(c)
       /\ x \in {"decide", "log_rewrite"} /\ local[c].effective = "notes_plus_knowledge"
             => "log_search" \in Ahead(c)
  BY <1>1, <1>6, <1>7, <1>8
<1> QED  BY <1>1, <1>2, <1>4, <1>6, <1>7, <1>9, <1>10, <1>11

\* What a writing step keeps, whatever it writes.
LEMMA WriteStep ==
  ASSUME TypeInv, NEW c \in Calls, CallInv(c), NEW x \in WriteSteps, AtStep(c, x), GoOn(c),
         UNCHANGED <<request, aborted, local, verdict, reply, before, deployment, corpus>>,
         local[c].hasQuery
  PROVE  /\ OnPlan(c)' /\ Untouched(c)' /\ Retrieved(c)' /\ Unanswered(c)' /\ FoundInPlace(c)'
         /\ Routed(c)' /\ Concluded(c)' /\ Explained(c)' /\ Told(c)'
         /\ Live(c)' /\ ~Undecided(c)' /\ Kind(c)' = Kind(c)
         /\ Ahead(c)' = Ahead(c) \ {x}
<1>1. x # "classify" /\ OnPlan(c) /\ c \notin Replied /\ c \notin Replied' /\ x \notin {"send", "recall"}
  BY WritingFacts DEF CallInv, WriteSteps, Replied
<1>2. /\ OnPlan(c)' /\ Live(c)' /\ ~Undecided(c)' /\ Kind(c)' = Kind(c)
      /\ Ahead(c)' = Ahead(c) \ {x}
  BY <1>1, GoesOn
<1>3. Untouched(c)' /\ Unanswered(c)' /\ Explained(c)' /\ Told(c)'
  BY <1>1, <1>2 DEF Untouched, Unanswered, Explained, Told, Live
<1>4. Retrieved(c)'
  BY <1>2 DEF CallInv, Retrieved
<1>5. FoundInPlace(c)'
  BY FoundStays
<1>6. Routed(c)'
  BY <1>2 DEF CallInv, Routed
<1>7. Concluded(c)'
  <2>1. Context(c)' = Context(c)
    BY DEF Context
  <2> QED  BY <1>2, <2>1 DEF CallInv, Concluded
<1> QED  BY <1>2, <1>3, <1>4, <1>5, <1>6, <1>7

\* The query is on record, under the community and the outcome of the call.
LEMMA QueryKeeps ==
  ASSUME TypeInv, NEW c \in Calls, CallInv(c), corpus' = corpus, PersistQuery(c)
  PROVE  CallInv(c)'
<1>1. AtStep(c, "query") /\ GoOn(c) /\ "query" \in WriteSteps
  BY DEF PersistQuery, WriteSteps
<1>2. UNCHANGED <<request, aborted, local, verdict, reply, before, deployment, corpus>>
  BY DEF PersistQuery
<1>3. /\ local[c].hasQuery /\ Live(c) /\ ~Undecided(c) /\ Kind(c) \in {"ask", "chat"}
      /\ "trace" \in Ahead(c) /\ (Kind(c) = "chat" => "decide" \in Ahead(c))
      /\ "hits" \notin Ahead(c) => Kind(c) = "chat" /\ local[c].effective = "model_only"
  BY <1>1, WritingFacts
<1>4. /\ OnPlan(c)' /\ Untouched(c)' /\ Retrieved(c)' /\ Unanswered(c)' /\ FoundInPlace(c)'
      /\ Routed(c)' /\ Concluded(c)' /\ Explained(c)' /\ Told(c)'
      /\ Live(c)' /\ ~Undecided(c)' /\ Kind(c)' = Kind(c)
      /\ Ahead(c)' = Ahead(c) \ {"query"}
  BY <1>1, <1>2, <1>3, WriteStep
<1> DEFINE row == [call |-> c, community |-> request[c].community, fallback |-> verdict[c].fallback]
<1>5. queries' = queries \union {row} /\ UNCHANGED <<hits, traces, decisions, rewrites, searches>>
  BY DEF PersistQuery, SaveQuery
<1>6. /\ row \in QueryOf(c)' /\ row.fallback = verdict[c].fallback
      /\ row.community = request[c].community
  BY <1>5 DEF QueryOf
<1> HIDE DEF row
<1>7. /\ DecisionOf(c)' = DecisionOf(c) /\ RewritesOf(c)' = RewritesOf(c)
      /\ SearchesOf(c)' = SearchesOf(c)
  BY <1>5 DEF DecisionOf, RewritesOf, SearchesOf
<1>8. NotYetRecorded(c)'
  BY <1>2, <1>3, <1>4, <1>7 DEF CallInv, NotYetRecorded, Live
<1>9. Recorded(c)'
  <2>1. "hits" \notin Ahead(c)' => HitsRecorded(c)'
    <3> SUFFICES ASSUME "hits" \notin Ahead(c)' PROVE HitsRecorded(c)'
      OBVIOUS
    <3>1. Kind(c) = "chat" /\ local[c].effective = "model_only"
      BY <1>3, <1>4
    <3>2. local'[c].dense = <<>> /\ local'[c].sparse = <<>> /\ local'[c].context = <<>>
      BY <1>2, <3>1 DEF CallInv, Retrieved
    <3> QED  BY <3>2 DEF HitsRecorded, Legs
  <2> QED  BY <1>2, <1>3, <1>4, <1>6, <2>1 DEF Recorded
<1>10. Accounted(c)'
  BY <1>3, <1>4 DEF Accounted
<1> QED  BY <1>4, <1>8, <1>9, <1>10 DEF CallInv

\* The hits are on record, one for every place of a leg.
LEMMA HitsKeep ==
  ASSUME TypeInv, NEW c \in Calls, CallInv(c), corpus' = corpus, PersistHits(c), ~Abort(c)
  PROVE  CallInv(c)'
<1>1. AtStep(c, "hits") /\ GoOn(c) /\ "hits" \in WriteSteps /\ SaveHits(c, FoundRows(c))
  BY DEF PersistHits, WriteSteps
<1>2. UNCHANGED <<request, aborted, local, verdict, reply, before, deployment, corpus>>
  BY DEF PersistHits
<1>3. /\ local[c].hasQuery /\ Live(c) /\ ~Undecided(c) /\ Kind(c) \in {"ask", "chat"}
      /\ "trace" \in Ahead(c) /\ (Kind(c) = "chat" => "decide" \in Ahead(c))
  BY <1>1, WritingFacts
<1>4. /\ OnPlan(c)' /\ Untouched(c)' /\ Retrieved(c)' /\ Unanswered(c)' /\ FoundInPlace(c)'
      /\ Routed(c)' /\ Concluded(c)' /\ Explained(c)' /\ Told(c)'
      /\ Live(c)' /\ ~Undecided(c)' /\ Kind(c)' = Kind(c)
      /\ Ahead(c)' = Ahead(c) \ {"hits"}
  BY <1>1, <1>2, <1>3, WriteStep
<1>5. /\ hits' = hits \union {[call |-> c, leg |-> h.leg, rank |-> h.rank, chunk |-> h.chunk] :
                                 h \in FoundRows(c)}
      /\ UNCHANGED <<queries, traces, decisions, rewrites, searches>>
  BY <1>1 DEF SaveHits
<1>6. /\ DecisionOf(c)' = DecisionOf(c) /\ RewritesOf(c)' = RewritesOf(c)
      /\ SearchesOf(c)' = SearchesOf(c) /\ QueryOf(c)' = QueryOf(c)
  BY <1>5 DEF DecisionOf, RewritesOf, SearchesOf, QueryOf
<1>7. NotYetRecorded(c)'
  BY <1>2, <1>3, <1>4, <1>6 DEF CallInv, NotYetRecorded, Live
<1>8. HitsRecorded(c)'
  <2> DEFINE found == [dense |-> local[c].dense, sparse |-> local[c].sparse,
                       merged |-> local[c].context]
  <2> SUFFICES ASSUME NEW leg \in Legs, NEW r \in DOMAIN found[leg]
               PROVE  \E h \in HitsOf(c)' : h.leg = leg /\ h.rank = r /\ h.chunk = found[leg][r]
    BY <1>2 DEF HitsRecorded
  <2> DEFINE hit == [leg |-> leg, rank |-> r, chunk |-> found[leg][r]]
             row == [call |-> c, leg |-> leg, rank |-> r, chunk |-> found[leg][r]]
  <2>1. hit \in FoundRows(c)
    BY DEF FoundRows, Hits, Legs
  <2>2. hit.leg = leg /\ hit.rank = r /\ hit.chunk = found[leg][r]
    OBVIOUS
  <2>3. row \in hits'
    <3> HIDE DEF found
    <3> QED  BY <1>5, <2>1, <2>2
  <2> QED  BY <2>3 DEF HitsOf
<1>9. Recorded(c)'
  <2>1. "query" \notin Ahead(c) => "query" \notin Ahead(c)'
    BY <1>4
  <2> QED  BY <1>2, <1>3, <1>4, <1>6, <1>8 DEF CallInv, Recorded
<1>10. Accounted(c)'
  BY <1>3, <1>4 DEF Accounted
<1> QED  BY <1>4, <1>7, <1>9, <1>10 DEF CallInv

\* The trace is on record, with the context.
LEMMA TraceKeeps ==
  ASSUME TypeInv, NEW c \in Calls, CallInv(c), corpus' = corpus, PersistTrace(c)
  PROVE  CallInv(c)'
<1>1. AtStep(c, "trace") /\ GoOn(c) /\ "trace" \in WriteSteps
  BY DEF PersistTrace, WriteSteps
<1>2. UNCHANGED <<request, aborted, local, verdict, reply, before, deployment, corpus>>
  BY DEF PersistTrace
<1>3. /\ local[c].hasQuery /\ Live(c) /\ ~Undecided(c) /\ Kind(c) \in {"ask", "chat"}
      /\ (Kind(c) = "chat" => "decide" \in Ahead(c))
  BY <1>1, WritingFacts
<1>4. /\ OnPlan(c)' /\ Untouched(c)' /\ Retrieved(c)' /\ Unanswered(c)' /\ FoundInPlace(c)'
      /\ Routed(c)' /\ Concluded(c)' /\ Explained(c)' /\ Told(c)'
      /\ Live(c)' /\ ~Undecided(c)' /\ Kind(c)' = Kind(c)
      /\ Ahead(c)' = Ahead(c) \ {"trace"}
  BY <1>1, <1>2, <1>3, WriteStep
<1> DEFINE row == [call |-> c, fallback |-> verdict[c].fallback, context |-> local[c].context]
<1>5. traces' = traces \union {row} /\ UNCHANGED <<queries, hits, decisions, rewrites, searches>>
  BY DEF PersistTrace, SaveTrace
<1>6. row \in TraceOf(c)' /\ row.fallback = verdict[c].fallback /\ row.context = local[c].context
  BY <1>5 DEF TraceOf
<1> HIDE DEF row
<1>7. /\ DecisionOf(c)' = DecisionOf(c) /\ RewritesOf(c)' = RewritesOf(c)
      /\ SearchesOf(c)' = SearchesOf(c) /\ QueryOf(c)' = QueryOf(c)
      /\ HitsRecorded(c) => HitsRecorded(c)'
  BY <1>2, <1>5 DEF DecisionOf, RewritesOf, SearchesOf, QueryOf, HitsRecorded, HitsOf, Rows
<1>8. NotYetRecorded(c)'
  BY <1>2, <1>3, <1>4, <1>7 DEF CallInv, NotYetRecorded, Live
<1>9. Recorded(c)'
  BY <1>2, <1>3, <1>4, <1>6, <1>7 DEF CallInv, Recorded
<1>10. Accounted(c)'
  BY <1>3, <1>4 DEF Accounted
<1> QED  BY <1>4, <1>8, <1>9, <1>10 DEF CallInv

\* The rows of the answer are left as they are by the rows of the route.
LEMMA AnswerRowsStay ==
  ASSUME NEW c \in Calls,
         UNCHANGED <<request, local, verdict, corpus, queries, hits, traces>>,
         Recorded(c), Live(c), ~Undecided(c), Kind(c)' = Kind(c),
         "query" \notin Ahead(c), "hits" \notin Ahead(c), "trace" \notin Ahead(c)
  PROVE  Recorded(c)'
<1>1. /\ QueryOf(c)' = QueryOf(c) /\ TraceOf(c)' = TraceOf(c)
      /\ HitsRecorded(c) => HitsRecorded(c)'
  BY DEF QueryOf, TraceOf, HitsRecorded, HitsOf, Rows
<1> QED  BY <1>1 DEF Recorded

\* The decision is on record.
LEMMA DecisionKeeps ==
  ASSUME TypeInv, NEW c \in Calls, CallInv(c), corpus' = corpus, PersistDecision(c)
  PROVE  CallInv(c)'
<1>1. AtStep(c, "decide") /\ "decide" \in WriteSteps
  BY DEF PersistDecision, WriteSteps
<1>2. UNCHANGED <<request, aborted, local, verdict, reply, before, deployment, corpus>>
  BY DEF PersistDecision
<1>3. /\ Live(c) /\ ~Undecided(c) /\ Kind(c) = "chat" /\ c \notin Replied
      /\ "decide" \in Ahead(c) /\ "send" \in Ahead(c) /\ "generate" \notin Ahead(c)
      /\ "query" \notin Ahead(c) /\ "hits" \notin Ahead(c) /\ "trace" \notin Ahead(c)
      /\ local[c].effective \in NotesPlusRoutes => "log_rewrite" \in Ahead(c)
      /\ local[c].effective = "notes_plus_knowledge" => "log_search" \in Ahead(c)
  BY <1>1, WritingFacts
<1>4. decisions' = decisions \union {Decision(c)}
      /\ UNCHANGED <<queries, hits, traces, rewrites, searches>>
  BY DEF PersistDecision, SaveDecision, Decision, QueryRef
<1>5. /\ QueryOf(c)' = QueryOf(c) /\ RewritesOf(c)' = RewritesOf(c)
      /\ SearchesOf(c)' = SearchesOf(c)
  BY <1>4 DEF QueryOf, RewritesOf, SearchesOf
<1>6. DecisionOf(c)' = {Decision(c)} /\ Decision(c)' = Decision(c)
  <2>1. DecisionOf(c) = {}
    BY <1>3 DEF CallInv, NotYetRecorded
  <2>2. Decision(c).call = c
    BY DEF Decision
  <2>3. Decision(c)' = Decision(c)
    BY <1>2 DEF Decision
  <2> HIDE DEF Decision
  <2> QED  BY <1>4, <2>1, <2>2, <2>3 DEF DecisionOf
<1>7. CASE local[c].hasQuery
  <2>1. GoOn(c)
    BY <1>7 DEF PersistDecision
  <2>2. /\ OnPlan(c)' /\ Untouched(c)' /\ Retrieved(c)' /\ Unanswered(c)' /\ FoundInPlace(c)'
        /\ Routed(c)' /\ Concluded(c)' /\ Explained(c)' /\ Told(c)'
        /\ Live(c)' /\ ~Undecided(c)' /\ Kind(c)' = Kind(c)
        /\ Ahead(c)' = Ahead(c) \ {"decide"}
    BY <1>1, <1>2, <1>7, <2>1, WriteStep
  <2>3. NotYetRecorded(c)'
    BY <1>2, <1>3, <1>5, <2>2 DEF CallInv, NotYetRecorded, Live
  <2>4. Recorded(c)'
    BY <1>2, <1>3, <1>4, <2>2, AnswerRowsStay DEF CallInv
  <2>5. Accounted(c)'
    <3>1. local[c].effective \in NotesPlusRoutes => "log_rewrite" \in Ahead(c)'
      BY <1>3, <2>2
    <3>2. local[c].effective = "notes_plus_knowledge" => "log_search" \in Ahead(c)'
      BY <1>3, <2>2
    <3> QED  BY <1>2, <1>6, <3>1, <3>2 DEF Accounted
  <2> QED  BY <2>2, <2>3, <2>4, <2>5 DEF CallInv
<1>8. CASE ~local[c].hasQuery
  <2>1. SkipTo(c, "send") /\ OnPlan(c)
    BY <1>8 DEF PersistDecision, CallInv
  <2>2. c \notin Replied'
    BY <1>2, <1>3 DEF Replied
  <2>3. /\ OnPlan(c)' /\ Live(c)' /\ ~Undecided(c)' /\ Kind(c)' = Kind(c)
        /\ Ahead(c)' = {y \in Ahead(c) : y = "send" \/ Order["send"] < Order[y]}
    BY <1>1, <1>2, <1>3, <2>1, <2>2, SkipsTo
  <2>4. Ahead(c)' \subseteq {"send"}
    <3>1. Ahead(c) \subseteq Steps
      BY <2>1, <1>1, AtStepFacts, PlanFacts
    <3>2. \A y \in Steps : ~(Order["send"] < Order[y])
      BY OrderTable, OrderIsNumeric
    <3> QED  BY <2>3, <3>1, <3>2
  <2>5. Untouched(c)' /\ Unanswered(c)' /\ Explained(c)' /\ Told(c)'
    BY <2>2, <2>3, <2>4 DEF Untouched, Unanswered, Explained, Told, Live
  <2>6. Retrieved(c)'
    BY <1>2, <2>3, <2>4 DEF CallInv, Retrieved
  <2>7. FoundInPlace(c)'
    BY <1>2, FoundStays
  <2>8. Routed(c)'
    BY <1>2, <2>3 DEF CallInv, Routed
  <2>9. Concluded(c)'
    <3>1. Context(c)' = Context(c)
      BY <1>2 DEF Context
    <3> QED  BY <1>2, <2>4, <3>1 DEF CallInv, Concluded
  <2>10. NotYetRecorded(c)'
    <3>1. QueryOf(c)' = {} /\ RewritesOf(c)' = {} /\ SearchesOf(c)' = {}
      BY <1>5, <1>8 DEF CallInv, NotYetRecorded
    <3> QED  BY <2>3, <2>4, <3>1 DEF NotYetRecorded, Live
  <2>11. Recorded(c)' /\ Accounted(c)'
    BY <1>2, <1>6, <1>8 DEF Recorded, Accounted
  <2> QED  BY <2>3, <2>5, <2>6, <2>7, <2>8, <2>9, <2>10, <2>11 DEF CallInv
<1> QED  BY <1>7, <1>8

\* What became of the rewrite is on record.
LEMMA RewriteRowKeeps ==
  ASSUME TypeInv, NEW c \in Calls, CallInv(c), corpus' = corpus, PersistRewrite(c)
  PROVE  CallInv(c)'
<1>1. AtStep(c, "log_rewrite") /\ GoOn(c) /\ "log_rewrite" \in WriteSteps
  BY DEF PersistRewrite, WriteSteps
<1>2. UNCHANGED <<request, aborted, local, verdict, reply, before, deployment, corpus>>
  BY DEF PersistRewrite
<1>3. /\ Live(c) /\ ~Undecided(c) /\ local[c].hasQuery
      /\ "decide" \notin Ahead(c) /\ local[c].effective \in NotesPlusRoutes
      /\ "query" \notin Ahead(c) /\ "hits" \notin Ahead(c) /\ "trace" \notin Ahead(c)
      /\ local[c].effective = "notes_plus_knowledge" => "log_search" \in Ahead(c)
  BY <1>1, WritingFacts
<1>4. /\ OnPlan(c)' /\ Untouched(c)' /\ Retrieved(c)' /\ Unanswered(c)' /\ FoundInPlace(c)'
      /\ Routed(c)' /\ Concluded(c)' /\ Explained(c)' /\ Told(c)'
      /\ Live(c)' /\ ~Undecided(c)' /\ Kind(c)' = Kind(c)
      /\ Ahead(c)' = Ahead(c) \ {"log_rewrite"}
  BY <1>1, <1>2, <1>3, WriteStep
<1> DEFINE row == [call |-> c, rewritten |-> local[c].rewritten]
<1>5. rewrites' = rewrites \union {row} /\ UNCHANGED <<queries, hits, traces, decisions, searches>>
  BY DEF PersistRewrite, SaveRewrite
<1>6. row \in RewritesOf(c)' /\ row.rewritten = local[c].rewritten
  BY <1>5 DEF RewritesOf
<1> HIDE DEF row
<1>7. /\ QueryOf(c)' = QueryOf(c) /\ DecisionOf(c)' = DecisionOf(c)
      /\ SearchesOf(c)' = SearchesOf(c)
  BY <1>5 DEF QueryOf, DecisionOf, SearchesOf
<1>8. NotYetRecorded(c)'
  BY <1>2, <1>3, <1>4, <1>7 DEF CallInv, NotYetRecorded, Live
<1>9. Recorded(c)'
  BY <1>2, <1>3, <1>4, <1>5, AnswerRowsStay DEF CallInv
<1>10. Accounted(c)'
  <2>1. Decision(c)' = Decision(c)
    BY <1>2 DEF Decision
  <2>2. local[c].effective = "notes_plus_knowledge" => "log_search" \in Ahead(c)'
    BY <1>3, <1>4
  <2> QED  BY <1>2, <1>3, <1>4, <1>6, <1>7, <2>1, <2>2 DEF CallInv, Accounted
<1> QED  BY <1>4, <1>8, <1>9, <1>10 DEF CallInv

\* How much the knowledge source returned is on record.
LEMMA SearchRowKeeps ==
  ASSUME TypeInv, NEW c \in Calls, CallInv(c), corpus' = corpus, PersistSearch(c)
  PROVE  CallInv(c)'
<1>1. AtStep(c, "log_search") /\ GoOn(c) /\ "log_search" \in WriteSteps
  BY DEF PersistSearch, WriteSteps
<1>2. UNCHANGED <<request, aborted, local, verdict, reply, before, deployment, corpus>>
  BY DEF PersistSearch
<1>3. /\ Live(c) /\ ~Undecided(c) /\ local[c].hasQuery
      /\ "decide" \notin Ahead(c) /\ local[c].effective = "notes_plus_knowledge"
      /\ "query" \notin Ahead(c) /\ "hits" \notin Ahead(c) /\ "trace" \notin Ahead(c)
      /\ "log_rewrite" \notin Ahead(c)
  BY <1>1, WritingFacts
<1>4. /\ OnPlan(c)' /\ Untouched(c)' /\ Retrieved(c)' /\ Unanswered(c)' /\ FoundInPlace(c)'
      /\ Routed(c)' /\ Concluded(c)' /\ Explained(c)' /\ Told(c)'
      /\ Live(c)' /\ ~Undecided(c)' /\ Kind(c)' = Kind(c)
      /\ Ahead(c)' = Ahead(c) \ {"log_search"}
  BY <1>1, <1>2, <1>3, WriteStep
<1> DEFINE row == [call |-> c, results |-> Cardinality(local[c].offered)]
<1>5. searches' = searches \union {row} /\ UNCHANGED <<queries, hits, traces, decisions, rewrites>>
  BY DEF PersistSearch, SaveSearch
<1>6. row \in SearchesOf(c)' /\ row.results = Cardinality(local[c].offered)
  BY <1>5 DEF SearchesOf
<1> HIDE DEF row
<1>7. /\ QueryOf(c)' = QueryOf(c) /\ DecisionOf(c)' = DecisionOf(c)
      /\ RewritesOf(c)' = RewritesOf(c)
  BY <1>5 DEF QueryOf, DecisionOf, RewritesOf
<1>8. NotYetRecorded(c)'
  BY <1>2, <1>3, <1>4, <1>7 DEF CallInv, NotYetRecorded, Live, NotesPlusRoutes
<1>9. Recorded(c)'
  BY <1>2, <1>3, <1>4, <1>5, AnswerRowsStay DEF CallInv
<1>10. Accounted(c)'
  <2>1. Decision(c)' = Decision(c)
    BY <1>2 DEF Decision
  <2> QED  BY <1>2, <1>3, <1>4, <1>6, <1>7, <2>1 DEF CallInv, Accounted
<1> QED  BY <1>4, <1>8, <1>9, <1>10 DEF CallInv

-----------------------------------------------------------------------------
(***************************************************************************)
(* A call that tells.                                                      *)
(***************************************************************************)
\* What the last steps of a call keep.
LEMMA LastSteps ==
  ASSUME TypeInv, NEW c \in Calls, CallInv(c), NEW x \in {"remember", "send", "recall"},
         AtStep(c, x), GoOn(c),
         UNCHANGED <<request, aborted, local, verdict, before, traceTables, deployment, corpus>>,
         \A d \in Calls : reply'[d] = reply[d] \/ (d = c /\ x # "remember"),
         Told(c)'
  PROVE  CallInv(c)'
<1>1. x # "classify" /\ OnPlan(c) /\ c \notin Replied
  BY AtStepFacts DEF CallInv
<1>2. c \in Replied' => x \in {"send", "recall"}
  BY <1>1 DEF Replied
<1>3. /\ OnPlan(c)' /\ Live(c)' /\ ~Undecided(c)' /\ Kind(c)' = Kind(c)
      /\ Ahead(c)' = Ahead(c) \ {x} /\ ~Undecided(c)
  BY <1>1, <1>2, GoesOn
<1>4. Live(c) /\ Replied \subseteq Replied' /\ Gone' = Gone /\ FoundChunks(c)' = FoundChunks(c)
      /\ Context(c)' = Context(c)
  BY <1>1, AtStepFacts DEF Replied, Gone, FoundChunks, Context
<1>5. Untouched(c)' /\ Unanswered(c)' /\ Explained(c)'
  BY <1>3 DEF CallInv, Untouched, Unanswered, Explained, Live
<1>6. Retrieved(c)' /\ Routed(c)' /\ Concluded(c)'
  BY <1>3, <1>4 DEF CallInv, Retrieved, Routed, Concluded
<1>7. FoundInPlace(c)'
  BY <1>4 DEF CallInv, FoundInPlace
<1>8. /\ QueryOf(c)' = QueryOf(c) /\ DecisionOf(c)' = DecisionOf(c) /\ TraceOf(c)' = TraceOf(c)
      /\ RewritesOf(c)' = RewritesOf(c) /\ SearchesOf(c)' = SearchesOf(c)
      /\ Decision(c)' = Decision(c)
      /\ HitsRecorded(c) => HitsRecorded(c)'
  BY DEF QueryOf, DecisionOf, TraceOf, RewritesOf, SearchesOf, Decision, HitsRecorded, HitsOf,
     Rows, traceTables
<1>9. NotYetRecorded(c)'
  BY <1>3, <1>4, <1>8 DEF CallInv, NotYetRecorded, Live
<1>10. Recorded(c)'
  BY <1>3, <1>4, <1>8 DEF CallInv, Recorded
<1>11. Accounted(c)'
  BY <1>3, <1>4, <1>8 DEF CallInv, Accounted
<1> QED  BY <1>3, <1>5, <1>6, <1>7, <1>9, <1>10, <1>11 DEF CallInv

\* The cited chunks are cached.
LEMMA RememberKeeps ==
  ASSUME TypeInv, NEW c \in Calls, CallInv(c), corpus' = corpus, Remember(c)
  PROVE  CallInv(c)'
<1>1. AtStep(c, "remember") /\ GoOn(c) /\ reply' = reply
      /\ UNCHANGED <<request, aborted, local, verdict, before, traceTables, deployment, corpus>>
  BY DEF Remember
<1>2. c \notin Replied
  BY <1>1, AtStepFacts DEF CallInv
<1>3. Told(c)'
  BY <1>1, <1>2 DEF Told, Replied
<1> QED  BY <1>1, <1>3, LastSteps

\* A reply shows the cited chunks or none, and tells of the notes only with
\* one of them.
LEMMA RepliesTell ==
  ASSUME NEW v \in Verdicts, NEW blank, NEW evidence,
         "notes" \in v.planes /\ v.fallback # "no_evidence" => v.cites # {}
  PROVE  \A r \in {AnswerReply(v, blank, evidence), MixedReply(v)} :
            /\ r.shown \subseteq v.cites /\ r.planes \subseteq v.planes
            /\ "notes" \in r.planes => r.shown # {}
            /\ r.rerouted = FALSE
<1>1. \A kind : /\ Telling(kind).planes = {} /\ Telling(kind).shown = {}
                /\ Telling(kind).rerouted = FALSE
  BY DEF Telling, NoReply
<1>2. \A kind, planes, shown :
         /\ [Telling(kind) EXCEPT !.planes = planes, !.shown = shown].planes = planes
         /\ [Telling(kind) EXCEPT !.planes = planes, !.shown = shown].shown = shown
         /\ [Telling(kind) EXCEPT !.planes = planes, !.shown = shown].rerouted = FALSE
         /\ [Telling(kind) EXCEPT !.planes = planes].planes = planes
         /\ [Telling(kind) EXCEPT !.planes = planes].shown = {}
         /\ [Telling(kind) EXCEPT !.planes = planes].rerouted = FALSE
  BY DEF Telling, NoReply
<1>3. v.fallback \in Fallbacks
  BY DEF Verdicts
<1>4. ASSUME NEW r, r.rerouted = FALSE,
             \/ r.planes = {} /\ r.shown = {}
             \/ r.planes = v.planes \ {"notes"} /\ r.shown = {}
             \/ v.fallback # "no_evidence" /\ r.planes = v.planes /\ r.shown = v.cites
      PROVE  /\ r.shown \subseteq v.cites /\ r.planes \subseteq v.planes
             /\ "notes" \in r.planes => r.shown # {}
             /\ r.rerouted = FALSE
  BY <1>4
<1>5. \/ \E kind : AnswerReply(v, blank, evidence) = Telling(kind)
      \/ /\ v.fallback # "no_evidence"
         /\ \E kind : AnswerReply(v, blank, evidence)
                         = [Telling(kind) EXCEPT !.planes = v.planes, !.shown = v.cites]
  BY <1>3 DEF AnswerReply, AnswerKinds, Fallbacks
<1>6. \/ \E kind : MixedReply(v) = Telling(kind)
      \/ \E kind : MixedReply(v) = [Telling(kind) EXCEPT !.planes = v.planes \ {"notes"}]
      \/ /\ v.fallback # "no_evidence"
         /\ \E kind : MixedReply(v)
                         = [Telling(kind) EXCEPT !.planes = v.planes, !.shown = v.cites]
  BY <1>3 DEF MixedReply, Fallbacks
<1> DEFINE tells(r) == /\ r.rerouted = FALSE
                       /\ \/ r.planes = {} /\ r.shown = {}
                          \/ r.planes = v.planes \ {"notes"} /\ r.shown = {}
                          \/ v.fallback # "no_evidence" /\ r.planes = v.planes /\ r.shown = v.cites
<1>7. tells(AnswerReply(v, blank, evidence))
  <2>1. ASSUME NEW kind, AnswerReply(v, blank, evidence) = Telling(kind)
        PROVE  tells(AnswerReply(v, blank, evidence))
    BY <1>1, <2>1
  <2>2. ASSUME NEW kind, v.fallback # "no_evidence",
               AnswerReply(v, blank, evidence)
                  = [Telling(kind) EXCEPT !.planes = v.planes, !.shown = v.cites]
        PROVE  tells(AnswerReply(v, blank, evidence))
    BY <1>2, <2>2
  <2> HIDE DEF tells
  <2> QED  BY <1>5, <2>1, <2>2
<1>8. tells(MixedReply(v))
  <2>1. ASSUME NEW kind, MixedReply(v) = Telling(kind)
        PROVE  tells(MixedReply(v))
    BY <1>1, <2>1
  <2>2. ASSUME NEW kind, MixedReply(v) = [Telling(kind) EXCEPT !.planes = v.planes \ {"notes"}]
        PROVE  tells(MixedReply(v))
    BY <1>2, <2>2
  <2>3. ASSUME NEW kind, v.fallback # "no_evidence",
               MixedReply(v) = [Telling(kind) EXCEPT !.planes = v.planes, !.shown = v.cites]
        PROVE  tells(MixedReply(v))
    BY <1>2, <2>3
  <2> HIDE DEF tells
  <2> QED  BY <1>6, <2>1, <2>2, <2>3
<1> QED  BY <1>4, <1>7, <1>8

\* A reply is told, and says what the call concluded.
LEMMA TellKeeps ==
  ASSUME TypeInv, NEW c \in Calls, CallInv(c), corpus' = corpus,
         SendAnswer(c) \/ SendChat(c) \/ Recall(c)
  PROVE  CallInv(c)'
<1>1. PICK r : Tell(c, r) /\ \/ r = AnswerReply(verdict[c], Blank(c), local[c].context # <<>>)
                                /\ AtStep(c, "send") /\ Kind(c) = "ask"
                             \/ r = ChatReply(local[c].requested, local[c].effective, verdict[c],
                                              Blank(c), local[c].context # <<>>)
                                /\ AtStep(c, "send") /\ Kind(c) = "chat"
                             \/ AtStep(c, "recall")
  BY DEF SendAnswer, SendChat, Recall
<1>2. PICK x \in {"send", "recall"} : AtStep(c, x) /\ (x = "send" => Kind(c) \in {"ask", "chat"})
  BY <1>1
<1>3. /\ GoOn(c) /\ reply' = [reply EXCEPT ![c] = r]
      /\ UNCHANGED <<request, aborted, local, verdict, before, traceTables, deployment, corpus>>
  BY <1>1 DEF Tell
<1>4. DOMAIN reply = Calls /\ verdict[c] \in Verdicts
  BY DEF TypeInv
<1>5. \A d \in Calls : reply'[d] = reply[d] \/ (d = c /\ x # "remember")
  BY <1>2, <1>3, <1>4
<1>6. reply'[c] = r /\ Kind(c)' = Kind(c)
  BY <1>3, <1>4 DEF Kind
<1>7. "notes" \in verdict[c].planes /\ verdict[c].fallback # "no_evidence" => verdict[c].cites # {}
  BY DEF CallInv, Concluded
<1>8. Told(c)'
  <2>1. CASE Kind(c) = "ask" /\ r = AnswerReply(verdict[c], Blank(c), local[c].context # <<>>)
    BY <1>3, <1>4, <1>6, <1>7, <2>1, RepliesTell DEF Told
  <2>2. CASE Kind(c) = "chat" /\ r = ChatReply(local[c].requested, local[c].effective, verdict[c],
                                               Blank(c), local[c].context # <<>>)
    <3>1. CASE local[c].effective \in NotesPlusRoutes
      <4>1. r = MixedReply(verdict[c])
        BY <2>2, <3>1 DEF ChatReply
      <4>2. local[c].requested = local[c].effective
        BY <3>1 DEF CallInv, Routed, NotesPlusRoutes
      <4> QED  BY <1>3, <1>4, <1>6, <1>7, <4>1, <4>2, RepliesTell DEF Told
    <3>2. CASE local[c].effective \notin NotesPlusRoutes
      <4> DEFINE a == AnswerReply(verdict[c], Blank(c), local[c].context # <<>>)
                 moved == local[c].requested # local[c].effective
      <4>1. r = [a EXCEPT !.rerouted = moved]
        BY <2>2, <3>2 DEF ChatReply
      <4>2. /\ a.shown \subseteq verdict[c].cites /\ a.planes \subseteq verdict[c].planes
            /\ "notes" \in a.planes => a.shown # {}
            /\ a \in Replies
        BY <1>4, <1>7, RepliesTell, RepliesTyped
      <4> HIDE DEF a
      <4>3. r.shown = a.shown /\ r.planes = a.planes /\ r.rerouted = moved
        BY <4>1, <4>2 DEF Replies
      <4> QED  BY <1>3, <1>6, <4>2, <4>3 DEF Told
    <3> QED  BY <3>1, <3>2
  <2>3. CASE AtStep(c, "recall")
    <3>1. "recall" \in StepsOf(c) /\ Live(c) /\ ~Undecided(c)
      BY <2>3, AtStepFacts DEF CallInv, Undecided, AtStep
    <3>2. Kind(c) = "sources"
      BY <3>1, PlanFacts DEF StepsOf, AnswerSteps, StepsOfRoute, Routes, Live, Begun
    <3> QED  BY <1>6, <3>2 DEF Told
  <2> QED  BY <1>1, <2>1, <2>2, <2>3
<1> QED  BY <1>2, <1>3, <1>5, <1>8, LastSteps

-----------------------------------------------------------------------------
(***************************************************************************)
(* A call that begins, or chooses its route.                               *)
(***************************************************************************)
\* An answering plan, whole or from the recording of the query on.
LEMMA AnswersFrom ==
  ASSUME NEW plan, InOrder(plan), "query" \in Range(plan), NEW question
  PROVE  LET rest == PlanOfAnswer(plan, question)
         IN  /\ InOrder(rest) /\ rest # <<>> /\ Range(rest) \subseteq Range(plan)
             /\ \A x \in Range(rest), y \in Range(plan) : Order[x] < Order[y] => y \in Range(rest)
             /\ "query" \in Range(rest)
             /\ question # "words" => "generate" \notin Range(rest)
<1> DEFINE rest == PlanOfAnswer(plan, question)
<1>1. \A x \in Range(plan) : Order[x] \in 0..14
  BY InOrderFacts, OrderIsNumeric
<1>2. CASE question = "words"
  <2>1. rest = plan
    BY <1>2 DEF PlanOfAnswer
  <2>2. plan # <<>>
    BY DEF Range
  <2> QED  BY <1>2, <2>1, <2>2
<1>3. CASE question # "words"
  <2>1. rest = From(plan, "query")
    BY <1>3 DEF PlanOfAnswer
  <2>2. /\ InOrder(rest) /\ rest # <<>>
        /\ Range(rest) = {y \in Range(plan) : y = "query" \/ Order["query"] < Order[y]}
    BY <2>1, FromInOrder
  <2> HIDE DEF rest
  <2>3. ~(Order["query"] < Order["generate"])
    BY OrderTable
  <2>4. \A x \in Range(rest), y \in Range(plan) : Order[x] < Order[y] => y \in Range(rest)
    BY <1>1, <2>2
  <2> QED  BY <2>2, <2>3, <2>4 DEF rest
<1> QED  BY <1>2, <1>3

\* Nothing is known of a call that takes up a plan.
LEMMA StartKeeps ==
  ASSUME TypeInv, NEW c \in Calls, CallInv(c), ~Begun(c) \/ Undecided(c),
         UNCHANGED <<reply, aborted, traceTables, corpus, deployment>>,
         Begun(c)', InOrder(todo'[c]), todo'[c] # <<>>, Ahead(c)' \subseteq StepsOf(c)',
         \A x \in Ahead(c)', y \in StepsOf(c)' : Order[x] < Order[y] => y \in Ahead(c)',
         Undecided(c)' => local'[c] = NoLocals /\ verdict'[c] = Without("none"),
         ~Undecided(c)' /\ Kind(c)' \in {"ask", "chat"}
            => "query" \in Ahead(c)' /\ "trace" \in Ahead(c)',
         ~Undecided(c)' /\ Kind(c)' = "chat" => "decide" \in Ahead(c)',
         local'[c].dense = <<>>, local'[c].sparse = <<>>, local'[c].context = <<>>,
         local'[c].hasQuery, local'[c].window = Chunks, local'[c].offered = {},
         local'[c].effective \in {local'[c].requested, "notes_lookup"},
         local'[c].effective = "notes_plus_knowledge" => deployment.knowledge,
         Kind(c)' = "ask" => local'[c].effective = "notes_lookup",
         NEW f, verdict'[c] = Without(f), f = "none" \/ "generate" \notin Ahead(c)',
         before'[c] = before[c] \/ before'[c] = [answered |-> Replied, gone |-> Gone]
  PROVE  CallInv(c)'
<1>1. c \notin Replied /\ c \notin aborted
  <2>1. CASE ~Begun(c)
    BY <2>1 DEF CallInv, OnPlan
  <2>2. CASE Undecided(c)
    BY <2>2 DEF CallInv, OnPlan, Undecided, AtStep, Live
  <2> QED  BY <2>1, <2>2
<1>2. c \notin Replied' /\ c \notin aborted' /\ Live(c)'
  BY <1>1 DEF Replied, Live
<1>3. OnPlan(c)'
  BY <1>2 DEF OnPlan
<1>4. Untouched(c)' /\ Retrieved(c)' /\ Unanswered(c)' /\ Explained(c)' /\ Told(c)'
  BY <1>2 DEF Untouched, Retrieved, Unanswered, Explained, Told
<1>5. FoundInPlace(c)'
  <2>1. FoundChunks(c)' = {} /\ Replied' = Replied /\ Gone' = Gone
    BY EmptyRanking DEF FoundChunks, Found, Replied, Gone
  <2> QED  BY <2>1 DEF CallInv, FoundInPlace
<1>6. Routed(c)'
  BY FS_EmptySet DEF Routed
<1>7. Concluded(c)'
  BY NothingConcluded
<1>8. NotYetRecorded(c)'
  <2>1. QueryOf(c) = {} /\ DecisionOf(c) = {} /\ RewritesOf(c) = {} /\ SearchesOf(c) = {}
    BY DEF CallInv, NotYetRecorded
  <2>2. QueryOf(c)' = {} /\ DecisionOf(c)' = {} /\ RewritesOf(c)' = {} /\ SearchesOf(c)' = {}
    BY <2>1 DEF QueryOf, DecisionOf, RewritesOf, SearchesOf, traceTables
  <2> QED  BY <2>2 DEF NotYetRecorded
<1>9. Recorded(c)'
  <2>1. HitsRecorded(c)'
    BY DEF HitsRecorded, Legs
  <2> QED  BY <2>1 DEF Recorded
<1>10. Accounted(c)'
  BY DEF Accounted
<1> QED  BY <1>3, <1>4, <1>5, <1>6, <1>7, <1>8, <1>9, <1>10 DEF CallInv

\* A command takes up the plan of its kind.
LEMMA BeginKeeps ==
  ASSUME TypeInv, NEW c \in Calls, CallInv(c), BeginCall(c)
  PROVE  CallInv(c)'
<1>1. PICK req, plan, f :
         /\ Begin(c, req, plan, Without(f))
         /\ \/ \E question : /\ req.kind = "ask" /\ plan = PlanOfAnswer(AskPlan, question)
                             /\ f = IF question = "words" THEN "none" ELSE "no_evidence"
            \/ req.kind = "chat" /\ plan = <<"classify">> /\ f = "none"
            \/ req.kind = "sources" /\ plan = <<"recall">> /\ f = "none"
  <2>1. ASSUME NEW k, NEW q, Ask(c, k, q)
        PROVE  \E req, plan, f :
                  /\ Begin(c, req, plan, Without(f))
                  /\ \E question : /\ req.kind = "ask" /\ plan = PlanOfAnswer(AskPlan, question)
                                   /\ f = IF question = "words" THEN "none" ELSE "no_evidence"
    <3> DEFINE req == [kind |-> "ask", community |-> k, question |-> q]
               f == IF q = "words" THEN "none" ELSE "no_evidence"
    <3>1. VerdictAtStart(q) = Without(f)
      BY DEF VerdictAtStart
    <3>2. Begin(c, req, PlanOfAnswer(AskPlan, q), Without(f))
      BY <2>1, <3>1 DEF Ask
    <3>3. req.kind = "ask"
      OBVIOUS
    <3> HIDE DEF req
    <3> QED  BY <3>2, <3>3
  <2>2. ASSUME NEW k, NEW q, Chat(c, k, q)
        PROVE  \E req, plan, f : /\ Begin(c, req, plan, Without(f))
                                 /\ req.kind = "chat" /\ plan = <<"classify">> /\ f = "none"
    <3> DEFINE req == [kind |-> "chat", community |-> k, question |-> q]
    <3>1. Begin(c, req, <<"classify">>, Without("none")) /\ req.kind = "chat"
      BY <2>2 DEF Chat
    <3> HIDE DEF req
    <3> QED  BY <3>1
  <2>3. ASSUME NEW k, Sources(c, k)
        PROVE  \E req, plan, f : /\ Begin(c, req, plan, Without(f))
                                 /\ req.kind = "sources" /\ plan = <<"recall">> /\ f = "none"
    <3> DEFINE req == [kind |-> "sources", community |-> k, question |-> "blank"]
    <3>1. Begin(c, req, <<"recall">>, Without("none")) /\ req.kind = "sources"
      BY <2>3 DEF Sources, SourcesPlan
    <3> HIDE DEF req
    <3> QED  BY <3>1
  <2> QED  BY <2>1, <2>2, <2>3 DEF BeginCall
<1>2. /\ DOMAIN request = Calls /\ DOMAIN todo = Calls /\ DOMAIN verdict = Calls
      /\ DOMAIN before = Calls
  BY DEF TypeInv
<1>3. /\ ~Begun(c) /\ request'[c] = req /\ todo'[c] = plan /\ verdict'[c] = Without(f)
      /\ before'[c] = [answered |-> Replied, gone |-> Gone]
      /\ UNCHANGED <<aborted, local, reply, traceTables, deployment, corpus>>
  BY <1>1, <1>2 DEF Begin, Decide, BeginCall
<1>4. local'[c] = NoLocals
  BY <1>3 DEF CallInv, Untouched
<1>5. /\ local'[c].dense = <<>> /\ local'[c].sparse = <<>> /\ local'[c].context = <<>>
      /\ local'[c].hasQuery /\ local'[c].window = Chunks /\ local'[c].offered = {}
      /\ local'[c].effective = "notes_lookup"
  BY <1>4 DEF NoLocals
<1>6. Kind(c)' = req.kind /\ Begun(c)' /\ Ahead(c)' = Range(plan)
  BY <1>1, <1>3 DEF Kind, Begun, Ahead
<1>7. ASSUME NEW question, req.kind = "ask", plan = PlanOfAnswer(AskPlan, question),
             f = IF question = "words" THEN "none" ELSE "no_evidence"
      PROVE  CallInv(c)'
  <2>1. /\ InOrder(AskPlan) /\ Range(AskPlan) = AnswerSteps \union {"remember", "send"}
        /\ "query" \in Range(AskPlan) /\ "trace" \in Range(AskPlan)
    BY PlansInOrder DEF AnswerSteps
  <2>2. /\ InOrder(plan) /\ plan # <<>> /\ Range(plan) \subseteq Range(AskPlan)
        /\ \A x \in Range(plan), y \in Range(AskPlan) : Order[x] < Order[y] => y \in Range(plan)
        /\ "query" \in Range(plan)
        /\ question # "words" => "generate" \notin Range(plan)
    BY <1>7, <2>1, AnswersFrom
  <2>3. StepsOf(c)' = Range(AskPlan) /\ Kind(c)' = "ask"
    BY <1>6, <1>7, <2>1 DEF StepsOf
  <2>4. ~Undecided(c)'
    <3>1. Head(plan) \in Range(plan) /\ "classify" \notin Range(AskPlan)
      BY <2>1, <2>2, TailInOrder DEF AnswerSteps
    <3> QED  BY <1>3, <2>2, <3>1 DEF Undecided, AtStep
  <2>5. "trace" \in Range(plan)
    BY <2>1, <2>2, OrderTable
  <2>6. f = "none" \/ "generate" \notin Ahead(c)'
    BY <1>6, <1>7, <2>2
  <2> QED  BY <1>3, <1>5, <1>6, <2>2, <2>3, <2>4, <2>5, <2>6, StartKeeps
<1>8. CASE req.kind = "chat" /\ plan = <<"classify">> /\ f = "none"
  <2>1. InOrder(plan) /\ Range(plan) = {"classify"} /\ plan # <<>> /\ Head(plan) = "classify"
    BY <1>8, LongerInOrder
  <2>2. Undecided(c)' /\ Kind(c)' = "chat"
    BY <1>3, <1>6, <1>8, <2>1 DEF Undecided, AtStep
  <2>3. StepsOf(c)' = {"classify"}
    BY <2>2 DEF StepsOf
  <2> QED  BY <1>3, <1>4, <1>5, <1>6, <1>8, <2>1, <2>2, <2>3, StartKeeps
<1>9. CASE req.kind = "sources" /\ plan = <<"recall">> /\ f = "none"
  <2>1. InOrder(plan) /\ Range(plan) = {"recall"} /\ plan # <<>> /\ Head(plan) = "recall"
    BY <1>9, LongerInOrder
  <2>2. ~Undecided(c)' /\ Kind(c)' = "sources"
    BY <1>3, <1>6, <1>9, <2>1 DEF Undecided, AtStep
  <2>3. StepsOf(c)' = {"recall"}
    BY <2>2 DEF StepsOf
  <2> QED  BY <1>3, <1>5, <1>6, <1>9, <2>1, <2>2, <2>3, StartKeeps
<1> QED  BY <1>1, <1>7, <1>8, <1>9

\* The plan of the route it goes on with.
LEMMA ClassifyKeeps ==
  ASSUME TypeInv, NEW c \in Calls, CallInv(c), corpus' = corpus, Classify(c)
  PROVE  CallInv(c)'
<1> DEFINE q == request[c].question
<1>1. PICK requested \in Routes \union {Unclassified} :
         LET route == EffectiveRoute(requested)
         IN  /\ local' = [local EXCEPT ![c].requested = requested, ![c].effective = route]
             /\ todo' = [todo EXCEPT ![c] = PlanOfRoute(route, q)]
             /\ Decide(c, IF route = "notes_lookup" THEN VerdictAtStart(q) ELSE Without("none"))
  BY DEF Classify
<1> DEFINE route == EffectiveRoute(requested)
           plan == PlanOfRoute(route, q)
           f == IF route = "notes_lookup" /\ q # "words" THEN "no_evidence" ELSE "none"
<1>2. /\ AtStep(c, "classify")
      /\ UNCHANGED <<request, aborted, reply, before, traceTables, deployment, corpus>>
  BY DEF Classify
<1>3. local[c] \in Locals /\ DOMAIN local = Calls /\ DOMAIN verdict = Calls /\ DOMAIN todo = Calls
  BY DEF TypeInv
<1>4. /\ route \in Routes /\ route \in {requested, "notes_lookup"}
      /\ route = "notes_plus_knowledge" => deployment.knowledge
  BY DEF EffectiveRoute, Routes
<1> HIDE DEF route
<1>5. todo'[c] = plan /\ verdict'[c] = Without(f)
  BY <1>1, <1>3 DEF Decide, VerdictAtStart, route
<1>6. local'[c] = [local[c] EXCEPT !.requested = requested, !.effective = route]
  BY <1>1, <1>3 DEF route
<1>7. Undecided(c) /\ local[c] = NoLocals
  BY <1>2 DEF Undecided, CallInv, Untouched
<1>8. /\ local'[c].dense = <<>> /\ local'[c].sparse = <<>> /\ local'[c].context = <<>>
      /\ local'[c].hasQuery /\ local'[c].window = Chunks /\ local'[c].offered = {}
      /\ local'[c].effective = route /\ local'[c].requested = requested
  BY <1>6, <1>7 DEF NoLocals
<1>9. Kind(c) = "chat" /\ Live(c)
  <2>1. Live(c) /\ "classify" \in StepsOf(c)
    BY <1>2, AtStepFacts DEF CallInv
  <2> QED  BY <2>1, PlanFacts DEF StepsOf, AnswerSteps, Live, Begun
<1>10. Kind(c)' = "chat" /\ Begun(c)'
  BY <1>2, <1>9 DEF Kind, Begun, Live
<1>11. \E whole : /\ InOrder(whole) /\ Range(whole) = StepsOfRoute[route]
                  /\ plan = IF route = "notes_lookup" THEN PlanOfAnswer(whole, q) ELSE whole
  <2> DEFINE fits(whole) ==
               /\ InOrder(whole) /\ Range(whole) = StepsOfRoute[route]
               /\ plan = IF route = "notes_lookup" THEN PlanOfAnswer(whole, q) ELSE whole
  <2>1. CASE route = "notes_lookup"
    <3>1. fits(NotesLookupPlan)
      BY <2>1, PlansInOrder DEF PlanOfRoute
    <3> QED  BY <3>1
  <2>2. CASE route = "model_only"
    <3>1. fits(ModelOnlyPlan)
      BY <2>2, PlansInOrder DEF PlanOfRoute
    <3> QED  BY <3>1
  <2>3. CASE route = "notes_plus_model"
    <3>1. fits(NotesPlusModelPlan)
      BY <2>3, PlansInOrder DEF PlanOfRoute
    <3> QED  BY <3>1
  <2>4. CASE route = "notes_plus_knowledge"
    <3>1. fits(NotesPlusKnowledgePlan)
      BY <2>4, PlansInOrder DEF PlanOfRoute
    <3> QED  BY <3>1
  <2> QED  BY <1>4, <2>1, <2>2, <2>3, <2>4 DEF Routes
<1> HIDE DEF plan, q
<1>12. PICK whole :
          /\ InOrder(whole) /\ Range(whole) = StepsOfRoute[route]
          /\ plan = IF route = "notes_lookup" THEN PlanOfAnswer(whole, q) ELSE whole
  BY <1>11
<1>13. {"query", "trace", "decide"} \subseteq StepsOfRoute[route] /\ "classify" \notin StepsOfRoute[route]
  BY <1>4 DEF StepsOfRoute, Routes, AnswerSteps
<1>14. /\ InOrder(plan) /\ plan # <<>> /\ Range(plan) \subseteq StepsOfRoute[route]
       /\ \A x \in Range(plan), y \in StepsOfRoute[route] : Order[x] < Order[y] => y \in Range(plan)
       /\ "query" \in Range(plan)
       /\ f = "none" \/ "generate" \notin Range(plan)
  <2>1. CASE route = "notes_lookup"
    BY <1>12, <1>13, <2>1, AnswersFrom
  <2>2. CASE route # "notes_lookup"
    <3>1. plan = whole /\ f = "none"
      BY <1>12, <2>2
    <3>2. whole # <<>>
      BY <1>12, <1>13 DEF Range
    <3>3. \A x \in StepsOfRoute[route] : Order[x] \in 0..14
      BY <1>12, InOrderFacts, OrderIsNumeric
    <3> QED  BY <1>12, <1>13, <3>1, <3>2
  <2> QED  BY <2>1, <2>2
<1>15. "trace" \in Range(plan) /\ "decide" \in Range(plan)
  BY <1>13, <1>14, OrderTable
<1>16. ~Undecided(c)'
  <2>1. Head(plan) \in Range(plan)
    BY <1>14, TailInOrder
  <2> QED  BY <1>5, <1>13, <1>14, <2>1 DEF Undecided, AtStep
<1>17. Ahead(c)' = Range(plan) /\ StepsOf(c)' = StepsOfRoute[route]
  BY <1>5, <1>8, <1>10, <1>16 DEF Ahead, StepsOf
<1> HIDE DEF f
<1> QED  BY <1>2, <1>4, <1>5, <1>7, <1>8, <1>10, <1>14, <1>15, <1>16, <1>17, StartKeeps

-----------------------------------------------------------------------------
(***************************************************************************)
(* A call that ends early.                                                 *)
(***************************************************************************)
\* Nothing but the end of the call changes; its query, if on record, lacks a
\* trace for a reason.
LEMMA EndsEarly ==
  ASSUME NEW c \in Calls, CallInv(c), todo[c] # <<>>, todo'[c] = <<>>, c \in aborted',
         UNCHANGED <<request, local, verdict, reply, before, traceTables, deployment, corpus>>,
         failures' > 0 \/ QueryOf(c) = {} \/ \E h \in FoundRows(c) : h.chunk \notin Rows
  PROVE  CallInv(c)'
<1>1. Live(c) /\ c \notin Replied
  BY DEF CallInv, OnPlan
<1>2. /\ Begun(c)' /\ ~Live(c)' /\ c \notin Replied' /\ ~Undecided(c)' /\ Ahead(c)' = {}
      /\ Kind(c)' = Kind(c)
  BY <1>1 DEF Live, Begun, Kind, Replied, Undecided, AtStep, Ahead, Range
<1>3. OnPlan(c)'
  <2>1. InOrder(<<>>)
    BY DEF InOrder
  <2> QED  BY <1>2, <2>1 DEF OnPlan
<1>4. Untouched(c)' /\ Retrieved(c)' /\ Unanswered(c)' /\ Routed(c)' /\ Told(c)'
  BY <1>2 DEF CallInv, Untouched, Retrieved, Unanswered, Routed, Told
<1>5. FoundInPlace(c)'
  BY FoundStays
<1>6. Concluded(c)'
  <2>1. Context(c)' = Context(c)
    BY DEF Context
  <2> QED  BY <1>2, <2>1 DEF CallInv, Concluded
<1>7. /\ QueryOf(c)' = QueryOf(c) /\ DecisionOf(c)' = DecisionOf(c) /\ TraceOf(c)' = TraceOf(c)
      /\ RewritesOf(c)' = RewritesOf(c) /\ SearchesOf(c)' = SearchesOf(c)
      /\ FoundRows(c)' = FoundRows(c) /\ Rows' = Rows
  BY DEF QueryOf, DecisionOf, TraceOf, RewritesOf, SearchesOf, FoundRows, Rows, traceTables
<1>8. NotYetRecorded(c)'
  BY <1>2, <1>7 DEF CallInv, NotYetRecorded
<1>9. Recorded(c)' /\ Accounted(c)'
  BY <1>2 DEF Recorded, Accounted
<1>10. Explained(c)'
  BY <1>7 DEF Explained
<1> QED  BY <1>3, <1>4, <1>5, <1>6, <1>8, <1>9, <1>10 DEF CallInv

\* A leg ranks no chunk twice, so only a missing chunk refuses its hits.
LEMMA HitsRefused ==
  ASSUME TypeInv, NEW c \in Calls, QueryOf(c) # {}, ~CanSaveHits(c, FoundRows(c))
  PROVE  \E h \in FoundRows(c) : h.chunk \notin Rows
<1>1. \A s \in {local[c].dense, local[c].sparse, local[c].context} : IsInjective(s)
  BY RankingFacts DEF TypeInv, Locals
<1>2. \A s \in {local[c].dense, local[c].sparse, local[c].context} :
         \A i, j \in DOMAIN s : s[i] = s[j] => i = j
  BY <1>1 DEF IsInjective
<1>3. \A g, h \in FoundRows(c) : g.leg = h.leg /\ g.chunk = h.chunk => g = h
  <2> DEFINE found == [dense |-> local[c].dense, sparse |-> local[c].sparse,
                       merged |-> local[c].context]
  <2>1. \A h \in FoundRows(c) : /\ h.leg \in Legs /\ h.rank \in DOMAIN found[h.leg]
                                /\ h.chunk = found[h.leg][h.rank]
                                /\ h = [leg |-> h.leg, rank |-> h.rank, chunk |-> h.chunk]
    BY DEF FoundRows, Hits, Legs
  <2>2. \A leg \in Legs : \A i, j \in DOMAIN found[leg] : found[leg][i] = found[leg][j] => i = j
    BY <1>2 DEF Legs
  <2> HIDE DEF found
  <2> QED  BY <2>1, <2>2
<1> QED  BY <1>3 DEF CanSaveHits

\* A provider's failure, an output no handler catches, a hit on a chunk that
\* is gone, a store call that raises.
LEMMA AbortKeeps ==
  ASSUME TypeInv, NEW c \in Calls, CallInv(c), corpus' = corpus, Abort(c),
         CallStep(c) \/ CallFails(c)
  PROVE  CallInv(c)'
<1>1. DOMAIN todo = Calls /\ failures \in Nat
  BY DEF TypeInv, FaultsTypeOK
<1>2. todo'[c] = <<>> /\ c \in aborted'
  BY <1>1 DEF Abort
<1>3. ASSUME NEW x \in ReadSteps, AtStep(c, x)
      PROVE  QueryOf(c) = {} /\ todo[c] # <<>>
  <2>1. "query" \in Ahead(c)
    BY <1>3, ReadingFacts DEF CallInv
  <2> QED  BY <1>3, <2>1 DEF AtStep, CallInv, NotYetRecorded
<1>4. CASE Embed(c)
  BY <1>2, <1>3, <1>4, EndsEarly DEF Embed, ReadSteps
<1>5. CASE \/ Generate(c) \/ GenerateNotesPlusModel(c) \/ GenerateNotesPlusKnowledge(c)
           \/ GenerateModelOnly(c)
  <2>1. AtStep(c, "generate") /\ "generate" \in ReadSteps
    BY <1>5, GenerateAccepts DEF ReadSteps
  <2>2. \/ Abort(c) /\ UNCHANGED verdict
        \/ GoOn(c) /\ UNCHANGED aborted
    BY <1>5, GenerateAccepts
  <2>3. c \notin aborted
    BY <2>1, AtStepFacts DEF CallInv, Live
  <2>4. UNCHANGED <<request, local, verdict, reply, before, traceTables, deployment, corpus>>
    BY <1>2, <1>5, <2>2, <2>3 DEF Generate, GenerateNotesPlusModel, GenerateNotesPlusKnowledge, GenerateModelOnly
  <2> QED  BY <1>2, <1>3, <2>1, <2>4, EndsEarly
<1>6. CASE PersistHits(c)
  <2>1. AtStep(c, "hits") /\ "hits" \in WriteSteps /\ todo[c] # <<>>
    BY <1>6 DEF PersistHits, WriteSteps, AtStep
  <2>2. c \notin aborted /\ Live(c)
    BY <2>1, AtStepFacts DEF CallInv, Live
  <2>3. FoundRows(c) # {} /\ ~CanSaveHits(c, FoundRows(c)) /\ UNCHANGED traceTables
    BY <1>2, <1>6, <2>2 DEF PersistHits
  <2>4. QueryOf(c) # {}
    BY <2>1, WritingFacts DEF CallInv, Recorded
  <2> QED  BY <1>2, <1>6, <2>1, <2>3, <2>4, HitsRefused, EndsEarly DEF PersistHits
<1>7. CASE CallFails(c)
  <2>1. failures' > 0
    BY <1>1, <1>7 DEF CallFails, StoreCallFails, StoreFault
  <2> QED  BY <1>2, <1>7, <2>1, EndsEarly DEF CallFails, StoreCallFails
<1>8. CASE \/ Dense(c) \/ RetrievalUnsupported(c) \/ Sparse(c) \/ PersistQuery(c) \/ PersistTrace(c)
           \/ Remember(c) \/ SendAnswer(c) \/ Recall(c)
  <2>1. aborted' = aborted /\ todo[c] # <<>>
    BY <1>8 DEF Dense, RetrievalUnsupported, Sparse, PersistQuery, PersistTrace, Remember,
       SendAnswer, Recall, Tell, AtStep
  <2> QED  BY <1>2, <2>1 DEF CallInv, OnPlan, Live
<1>9. CASE \/ Classify(c) \/ Rewrite(c) \/ RewriteOutward(c) \/ Search(c)
           \/ PersistDecision(c) \/ PersistRewrite(c) \/ PersistSearch(c) \/ SendChat(c)
  <2>1. aborted' = aborted /\ todo[c] # <<>>
    BY <1>9 DEF Classify, Rewrite, RewriteOutward, Search, PersistDecision, PersistRewrite,
       PersistSearch, SendChat, Tell, AtStep
  <2> QED  BY <1>2, <2>1 DEF CallInv, OnPlan, Live
<1> QED  BY <1>4, <1>5, <1>6, <1>7, <1>8, <1>9 DEF CallStep, AnsweringStep, ChatStep

\* A step of a call, of whatever kind, keeps what is true of it.
LEMMA OwnStepKeeps ==
  ASSUME TypeInv, NEW c \in Calls, CallInv(c), BeginCall(c) \/ CallStep(c) \/ CallFails(c)
  PROVE  CallInv(c)'
<1>1. corpus' = corpus
  BY DEF BeginCall, CallStep, CallFails
<1>2. CASE BeginCall(c)
  BY <1>2, BeginKeeps
<1>3. CASE CallFails(c)
  BY <1>1, <1>3, AbortKeeps DEF CallFails, StoreCallFails
<1>4. CASE CallStep(c) /\ Abort(c)
  BY <1>1, <1>4, AbortKeeps
<1>5. CASE CallStep(c) /\ ~Abort(c)
  <2>1. CASE \/ Embed(c) \/ Dense(c) \/ RetrievalUnsupported(c) \/ Sparse(c) \/ Generate(c)
    BY <1>1, <1>5, <2>1, WordingKeeps, DenseKeeps, UnsupportedKeeps, SparseKeeps, GenerateKeeps
  <2>2. CASE PersistQuery(c) \/ PersistHits(c) \/ PersistTrace(c)
    BY <1>1, <1>5, <2>2, QueryKeeps, HitsKeep, TraceKeeps
  <2>3. CASE Remember(c) \/ SendAnswer(c) \/ Recall(c)
    BY <1>1, <2>3, RememberKeeps, TellKeeps
  <2>4. CASE Classify(c) \/ Rewrite(c) \/ RewriteOutward(c) \/ Search(c)
    BY <1>1, <2>4, ClassifyKeeps, RewriteKeeps, WordingKeeps, SearchKeeps
  <2>5. CASE \/ GenerateNotesPlusModel(c) \/ GenerateNotesPlusKnowledge(c)
             \/ GenerateModelOnly(c)
    BY <1>1, <1>5, <2>5, GenerateKeeps
  <2>6. CASE PersistDecision(c) \/ PersistRewrite(c) \/ PersistSearch(c) \/ SendChat(c)
    BY <1>1, <2>6, DecisionKeeps, RewriteRowKeeps, SearchRowKeeps, TellKeeps
  <2> QED  BY <1>5, <2>1, <2>2, <2>3, <2>4, <2>5, <2>6 DEF CallStep, AnsweringStep, ChatStep
<1> QED  BY <1>2, <1>3, <1>4, <1>5

-----------------------------------------------------------------------------
(***************************************************************************)
(* The notes, hard deletes and the process.                                *)
(***************************************************************************)
\* A note that is saved, indexed or retired leaves every call alone.
LEMMA NotesLeaveCalls ==
  ASSUME TypeInv, NEW k \in Chunks, NotesStep(k)
  PROVE  Around /\ \A c \in Calls : LeftAlone(c)
<1>1. UNCHANGED <<traceTables, deployment, callVars, failures>>
  BY DEF NotesStep, faultVars
<1>2. corpus \in [Chunks -> Visibility]
  BY DEF TypeInv, CorpusTypeOK
<1>3. Ages
  BY <1>2 DEF NotesStep, SaveChunkRow, IndexChunk, RetireChunk, Become, Ages
<1>4. Around
  BY <1>1, <1>3 DEF Around, TypeInv, FaultsTypeOK, Replied, callVars
<1>5. \A c \in Calls : LeftAlone(c)
  BY <1>1 DEF LeftAlone, callVars, traceTables, QueryOf, TraceOf, DecisionOf, RewritesOf,
     SearchesOf, HitsOf
<1> QED  BY <1>4, <1>5

\* A hard delete takes away the hits on the chunk and the chunk's row.
LEMMA EraseLeavesCalls ==
  ASSUME TypeInv, NEW k \in Chunks, FinishHardDelete(k)
  PROVE  Around /\ \A c \in Calls : LeftAlone(c)
<1>1. UNCHANGED <<deployment, callVars, failures>>
  BY DEF FinishHardDelete, faultVars
<1>2. corpus \in [Chunks -> Visibility]
  BY DEF TypeInv, CorpusTypeOK
<1>3. (EraseChunk(k) /\ DeleteHitsOf(k)) \/ UNCHANGED <<corpus, traceTables>>
  BY DEF FinishHardDelete
<1>4. Ages
  BY <1>2, <1>3 DEF EraseChunk, Become, Ages
<1>5. Around
  BY <1>1, <1>4 DEF Around, TypeInv, FaultsTypeOK, Replied, callVars
<1>6. /\ UNCHANGED <<queries, traces, decisions, rewrites, searches>>
      /\ \A h \in hits : h.chunk \in Rows' => h \in hits'
  <2>1. CASE EraseChunk(k) /\ DeleteHitsOf(k)
    <3>1. k \notin Rows'
      BY <1>2, <2>1 DEF EraseChunk, Become, Rows
    <3> QED  BY <2>1, <3>1 DEF DeleteHitsOf
  <2> QED  BY <1>3, <2>1 DEF traceTables
<1>7. \A c \in Calls : LeftAlone(c)
  BY <1>1, <1>6 DEF LeftAlone, callVars, QueryOf, TraceOf, DecisionOf, RewritesOf, SearchesOf,
     HitsOf
<1> QED  BY <1>5, <1>7

\* Nothing happens to the calls.
LEMMA StillLeavesCalls ==
  ASSUME TypeInv, UNCHANGED <<corpus, traceTables, deployment, callVars, faultVars>>
  PROVE  Around /\ \A c \in Calls : LeftAlone(c)
<1>1. Around
  BY DEF Around, Ages, TypeInv, FaultsTypeOK, Replied, callVars, faultVars
<1>2. \A c \in Calls : LeftAlone(c)
  BY DEF LeftAlone, callVars, traceTables, QueryOf, TraceOf, DecisionOf, RewritesOf,
     SearchesOf, HitsOf
<1> QED  BY <1>1, <1>2

\* A killed process ends its calls, and no other.
LEMMA RestartKeeps ==
  ASSUME TypeInv, CorpusTypeOK', NEW c \in Calls, CallInv(c), Restart
  PROVE  CallInv(c)'
<1>1. /\ UNCHANGED <<corpus, traceTables, deployment, request, local, verdict, reply, before>>
      /\ todo'[c] = <<>> /\ aborted' = aborted \union InFlight
  BY DEF Restart
<1>2. failures \in Nat /\ failures' = failures + 1
  BY DEF TypeInv, FaultsTypeOK, Restart, StoreFault
<1>3. CASE todo[c] # <<>>
  <2>1. c \in aborted'
    BY <1>1, <1>3 DEF InFlight
  <2>2. failures' > 0
    BY <1>2
  <2> QED  BY <1>1, <1>3, <2>1, <2>2, EndsEarly
<1>4. CASE todo[c] = <<>>
  <2>1. LeftAlone(c)
    BY <1>1, <1>4 DEF LeftAlone, InFlight, traceTables, QueryOf, TraceOf, DecisionOf, RewritesOf,
       SearchesOf, HitsOf
  <2>2. Around
    BY <1>1, <1>2 DEF Around, Ages, Replied
  <2> QED  BY <2>1, <2>2, LeftAloneKept
<1> QED  BY <1>3, <1>4

\* One step of the whole keeps what is true of every call.
LEMMA CallsKept ==
  ASSUME TypeInv, TypeInv', \A c \in Calls : CallInv(c), [Next]_vars
  PROVE  \A c \in Calls : CallInv(c)'
<1>1. CorpusTypeOK'
  BY DEF TypeInv
<1>2. ASSUME Around, \A c \in Calls : LeftAlone(c)
      PROVE  \A c \in Calls : CallInv(c)'
  BY <1>1, <1>2, LeftAloneKept
<1>3. ASSUME NEW d \in Calls, BeginCall(d) \/ CallStep(d) \/ CallFails(d)
      PROVE  \A c \in Calls : CallInv(c)'
  <2>1. OnPlan(d)
    BY DEF CallInv
  <2>2. Around /\ \A c \in Calls : c # d => LeftAlone(c)
    BY <1>3, <2>1, OthersLeftAlone
  <2>3. CallInv(d)'
    BY <1>3, OwnStepKeeps
  <2>4. ASSUME NEW c \in Calls, c # d
        PROVE  CallInv(c)'
    BY <1>1, <2>2, <2>4, LeftAloneKept
  <2> QED  BY <2>3, <2>4
<1>4. ASSUME NEW k \in Chunks, NotesStep(k) \/ FinishHardDelete(k)
      PROVE  \A c \in Calls : CallInv(c)'
  BY <1>2, <1>4, NotesLeaveCalls, EraseLeavesCalls
<1>5. ASSUME NEW k \in Chunks, BeginHardDelete(k)
      PROVE  \A c \in Calls : CallInv(c)'
  <2>1. UNCHANGED <<corpus, traceTables, deployment, callVars, faultVars>>
    BY <1>5 DEF BeginHardDelete
  <2> QED  BY <1>2, <2>1, StillLeavesCalls
<1>6. CASE Restart
  BY <1>1, <1>6, RestartKeeps
<1>7. CASE Rest \/ UNCHANGED vars
  <2>1. UNCHANGED <<corpus, traceTables, deployment, callVars, faultVars>>
    BY <1>7 DEF Rest, vars
  <2> QED  BY <1>2, <2>1, StillLeavesCalls
<1> QED  BY <1>3, <1>4, <1>5, <1>6, <1>7 DEF Next

\* Before the first call there is nothing to keep.
LEMMA CallsFromInit == Init => \A c \in Calls : CallInv(c)
<1> SUFFICES ASSUME Init, NEW c \in Calls PROVE CallInv(c)
  OBVIOUS
<1>1. /\ request[c] = Unasked /\ todo[c] = <<>> /\ aborted = {} /\ local[c] = NoLocals
      /\ verdict[c] = Without("none") /\ reply[c] = NoReply
      /\ before[c] = [answered |-> {}, gone |-> {}]
  BY DEF Init, AnsweringInit
<1>2. Kind(c) = "unasked" /\ ~Begun(c) /\ ~Live(c) /\ ~Undecided(c) /\ Ahead(c) = {}
      /\ c \notin Replied /\ c \notin aborted
  BY <1>1 DEF Unasked, Kind, Begun, Live, Undecided, AtStep, Ahead, Range, Replied
<1>3. /\ local[c].dense = <<>> /\ local[c].sparse = <<>> /\ local[c].context = <<>>
      /\ local[c].hasQuery /\ local[c].window = Chunks /\ local[c].offered = {}
      /\ local[c].effective = "notes_lookup"
  BY <1>1 DEF NoLocals
<1>4. OnPlan(c)
  <2>1. InOrder(<<>>)
    BY DEF InOrder
  <2> QED  BY <1>1, <1>2, <2>1 DEF OnPlan
<1>5. /\ Untouched(c) /\ Retrieved(c) /\ Unanswered(c) /\ Recorded(c) /\ Accounted(c)
      /\ Explained(c) /\ Told(c)
  BY <1>1, <1>2, <1>3 DEF Untouched, Retrieved, Unanswered, Recorded, Accounted, Explained, Told
<1>6. FoundInPlace(c)
  <2>1. FoundChunks(c) = {}
    BY <1>3, EmptyRanking DEF FoundChunks, Found
  <2> QED  BY <1>1, <2>1 DEF FoundInPlace
<1>7. Routed(c)
  BY <1>2, <1>3, FS_EmptySet DEF Routed
<1>8. Concluded(c)
  BY <1>1 DEF Concluded, Without
<1>9. NotYetRecorded(c)
  <2>1. QueryOf(c) = {} /\ DecisionOf(c) = {} /\ RewritesOf(c) = {} /\ SearchesOf(c) = {}
    BY DEF Init, TraceStoreInit, QueryOf, DecisionOf, RewritesOf, SearchesOf
  <2> QED  BY <2>1 DEF NotYetRecorded
<1> QED  BY <1>4, <1>5, <1>6, <1>7, <1>8, <1>9 DEF CallInv

-----------------------------------------------------------------------------
(***************************************************************************)
(* The /sources cache.                                                     *)
(***************************************************************************)
\* An /ask call that has filled the cache has only its reply to send.
LEMMA RememberedIsLast ==
  ASSUME NEW c \in Calls, CallInv(c), Kind(c) = "ask", Remembered(c)
  PROVE  Ahead(c) \subseteq {"send"}
<1>1. CASE Live(c)
  <2>1. StepsOf(c) = AnswerSteps \union {"remember", "send"}
    BY DEF StepsOf
  <2>2. \A x \in Ahead(c) : x \in StepsOf(c) /\ ~(Order[x] < Order["remember"])
    BY <1>1, <2>1 DEF CallInv, OnPlan, Remembered
  <2>3. \A x \in AnswerSteps : Order[x] < Order["remember"]
    BY OrderTable DEF AnswerSteps
  <2> QED  BY <2>1, <2>2, <2>3 DEF Remembered
<1>2. CASE ~Live(c)
  <2>1. todo[c] = <<>>
    BY <1>2 DEF CallInv, OnPlan
  <2> QED  BY <2>1 DEF Ahead, Range
<1> QED  BY <1>1, <1>2

\* ... which is the one step it still takes.
LEMMA SendOnly ==
  ASSUME TypeInv, NEW c \in Calls, CallInv(c), Kind(c) = "ask", Remembered(c), CallStep(c)
  PROVE  SendAnswer(c) /\ Ahead(c)' \subseteq Ahead(c)
<1>1. \A x : AtStep(c, x) => x = "send"
  BY RememberedIsLast, AtStepFacts DEF CallInv
<1>2. SendAnswer(c) \/ SendChat(c)
  <2>1. CASE AnsweringStep(c)
    BY <1>1, <2>1 DEF AnsweringStep, Embed, Dense, RetrievalUnsupported, Sparse, Generate,
       PersistQuery, PersistHits, PersistTrace, Remember, Recall
  <2>2. CASE ChatStep(c)
    BY <1>1, <2>2, GenerateAccepts DEF ChatStep, Classify, Rewrite, RewriteOutward, Search,
       PersistDecision, PersistRewrite, PersistSearch
  <2> QED  BY <2>1, <2>2 DEF CallStep
<1>3. SendAnswer(c)
  BY <1>2 DEF SendChat
<1>4. Ahead(c)' = Ahead(c) \ {"send"}
  BY <1>3, GoOnAhead DEF SendAnswer, Tell, CallInv, Ahead
<1> QED  BY <1>3, <1>4

\* What it had cited stays what it had cited.
LEMMA RememberedStays ==
  ASSUME TypeInv, NEW c \in Calls, CallInv(c), Kind(c) = "ask", Remembered(c),
         BeginCall(c) \/ CallStep(c) \/ CallFails(c)
  PROVE  UNCHANGED <<request, local, verdict, before>>
<1>1. Begun(c)
  BY DEF Remembered
<1>2. CASE BeginCall(c)
  BY <1>1, <1>2 DEF BeginCall, Ask, Chat, Sources, Begin
<1>3. CASE CallFails(c)
  BY <1>3 DEF CallFails, StoreCallFails
<1>4. CASE CallStep(c)
  BY <1>4, SendOnly DEF SendAnswer, Tell
<1> QED  BY <1>2, <1>3, <1>4

\* Only filling the cache makes an /ask call one that has filled it.
LEMMA OnlyRemembering ==
  ASSUME TypeInv, NEW c \in Calls, CallInv(c), BeginCall(c) \/ CallStep(c) \/ CallFails(c),
         Kind(c)' = "ask", Live(c)', Remembered(c)'
  PROVE  Remember(c) \/ (Kind(c) = "ask" /\ Live(c) /\ Remembered(c))
<1>1. CASE BeginCall(c)
  <2>1. PICK k, q : Ask(c, k, q) \/ Chat(c, k, q) \/ Sources(c, k)
    BY <1>1 DEF BeginCall
  <2>2. DOMAIN request = Calls /\ DOMAIN todo = Calls
    BY DEF TypeInv
  <2>3. Ask(c, k, q)
    BY <2>1, <2>2 DEF Chat, Sources, Begin, Kind
  <2>4. todo'[c] = PlanOfAnswer(AskPlan, q)
    BY <2>2, <2>3 DEF Ask, Begin
  <2>5. "remember" \in Range(AskPlan) /\ "query" \in Range(AskPlan)
        /\ Order["query"] < Order["remember"] /\ InOrder(AskPlan)
    BY PlansInOrder, OrderTable DEF AnswerSteps
  <2>6. "remember" \in Range(PlanOfAnswer(AskPlan, q))
    BY <2>5, AnswersFrom
  <2> QED  BY <2>4, <2>6 DEF Remembered, Ahead
<1>2. CASE CallFails(c)
  BY <1>2 DEF CallFails, StoreCallFails, Abort, Live
<1>3. CASE CallStep(c)
  <2>1. PICK x : AtStep(c, x)
    BY <1>3, GenerateAccepts DEF CallStep, AnsweringStep, ChatStep,
       Embed, Dense, RetrievalUnsupported, Sparse, PersistQuery, PersistHits, PersistTrace,
       Remember, SendAnswer, Recall, Classify, Rewrite, RewriteOutward, Search,
       PersistDecision, PersistRewrite, PersistSearch, SendChat
  <2>2. Live(c) /\ x \in StepsOf(c) /\ x \in Ahead(c)
    BY <2>1, AtStepFacts DEF CallInv
  <2>3. request' = request
    BY <1>3 DEF CallStep, AnsweringStep, ChatStep,
       Embed, Dense, RetrievalUnsupported, Sparse, PersistQuery, PersistHits, PersistTrace,
       Generate, GenerateNotesPlusModel, GenerateNotesPlusKnowledge, GenerateModelOnly,
       Remember, SendAnswer, Recall, Classify, Rewrite, RewriteOutward, Search,
       PersistDecision, PersistRewrite, PersistSearch, SendChat, Tell
  <2>4. Kind(c) = "ask" /\ Begun(c)
    BY <2>3 DEF Kind, Begun
  <2>5. StepsOf(c) = AnswerSteps \union {"remember", "send"}
    BY <2>4 DEF StepsOf
  <2>6. ASSUME "remember" \in Ahead(c), ~Remember(c)
        PROVE  FALSE
    <3>1. ASSUME NEW y, AtStep(c, y), y # "remember", GoOn(c)
          PROVE  FALSE
      <4>1. Range(todo'[c]) = Ahead(c) \ {y}
        BY <3>1, GoOnAhead DEF CallInv
      <4> QED  BY <2>6, <3>1, <4>1 DEF Remembered, Ahead
    <3>2. ASSUME NEW y \in {"query", "remember"}, SkipTo(c, y), y \in Ahead(c)
          PROVE  FALSE
      <4>1. Range(todo'[c]) = {z \in Ahead(c) : z = y \/ Order[y] < Order[z]}
        BY <3>2, SkipToAhead DEF CallInv
      <4>2. "remember" \in Range(todo'[c])
        BY <2>6, <3>2, <4>1, OrderTable
      <4> QED  BY <4>2 DEF Remembered, Ahead
    <3>3. ~Abort(c)
      BY DEF Abort, Live
    <3>4. CASE Dense(c) \/ PersistQuery(c) \/ PersistTrace(c) \/ SendAnswer(c) \/ Recall(c)
      BY <3>1, <3>4 DEF Dense, PersistQuery, PersistTrace, SendAnswer, Recall, Tell
    <3>5. CASE Embed(c) \/ PersistHits(c)
      BY <3>1, <3>3, <3>5 DEF Embed, PersistHits
    <3>6. CASE RetrievalUnsupported(c)
      BY <2>4, <2>6, <3>2, <3>6 DEF RetrievalUnsupported, AfterRetrieval
    <3>7. CASE Sparse(c)
      <4>1. AtStep(c, "sparse") /\ (SkipTo(c, "query") \/ GoOn(c))
        BY <3>7 DEF Sparse
      <4>2. "query" \in Ahead(c)
        <5>1. "query" \in StepsOf(c) /\ Order["sparse"] < Order["query"]
          BY <2>5, OrderTable DEF AnswerSteps
        <5> QED  BY <4>1, <5>1, AtStepFacts DEF CallInv
      <4> QED  BY <3>1, <3>2, <4>1, <4>2
    <3>8. CASE \/ Generate(c) \/ GenerateNotesPlusModel(c) \/ GenerateNotesPlusKnowledge(c)
               \/ GenerateModelOnly(c)
      <4>1. AtStep(c, "generate") /\ (Abort(c) \/ GoOn(c))
        BY <3>8, GenerateAccepts
      <4> QED  BY <3>1, <3>3, <4>1
    <3>9. CASE \/ Classify(c) \/ Rewrite(c) \/ RewriteOutward(c) \/ Search(c)
               \/ PersistDecision(c) \/ PersistRewrite(c) \/ PersistSearch(c)
      <4>1. \E y \in {"classify", "rewrite", "outward", "search", "decide", "log_rewrite", "log_search"} :
               AtStep(c, y)
        BY <3>9 DEF Classify, Rewrite, RewriteOutward, Search, PersistDecision, PersistRewrite, PersistSearch
      <4> QED  BY <2>5, <4>1, AtStepFacts DEF CallInv, AnswerSteps
    <3>10. CASE SendChat(c)
      BY <2>4, <3>10 DEF SendChat
    <3> QED  BY <1>3, <2>6, <3>4, <3>5, <3>6, <3>7, <3>8, <3>9, <3>10 DEF CallStep, AnsweringStep, ChatStep
  <2> QED  BY <2>2, <2>4, <2>6 DEF Remembered
<1> QED  BY <1>1, <1>2, <1>3

\* A cache that is not filled anew is still what its call cited.
LEMMA CacheStays ==
  ASSUME NEW k \in Communities,
         latest[k].asked => \E c \in Calls :
            /\ AskOf(c, k) /\ Remembered(c)
            /\ latest[k].chunks = CitedInOrder(c)
            /\ \A d \in Calls : AskOf(d, k) /\ Live(d) /\ Remembered(d)
                                   => c \notin before[d].answered,
         latest'[k] = latest[k],
         \A c \in Calls : AskOf(c, k) /\ Remembered(c) =>
            /\ request'[c] = request[c] /\ local'[c] = local[c] /\ verdict'[c] = verdict[c]
            /\ Ahead(c)' \subseteq Ahead(c),
         \A d \in Calls : AskOf(d, k)' /\ Live(d)' /\ Remembered(d)' =>
            AskOf(d, k) /\ Live(d) /\ Remembered(d) /\ before'[d] = before[d]
  PROVE  latest'[k].asked => \E c \in Calls :
            /\ AskOf(c, k)' /\ Remembered(c)'
            /\ latest'[k].chunks = CitedInOrder(c)'
            /\ \A d \in Calls : AskOf(d, k)' /\ Live(d)' /\ Remembered(d)'
                                   => c \notin before'[d].answered
<1> SUFFICES ASSUME latest'[k].asked
             PROVE  \E c \in Calls :
                       /\ AskOf(c, k)' /\ Remembered(c)'
                       /\ latest'[k].chunks = CitedInOrder(c)'
                       /\ \A d \in Calls : AskOf(d, k)' /\ Live(d)' /\ Remembered(d)'
                                              => c \notin before'[d].answered
  OBVIOUS
<1>1. PICK c \in Calls :
         /\ AskOf(c, k) /\ Remembered(c)
         /\ latest[k].chunks = CitedInOrder(c)
         /\ \A d \in Calls : AskOf(d, k) /\ Live(d) /\ Remembered(d) => c \notin before[d].answered
  OBVIOUS
<1>2. /\ request'[c] = request[c] /\ local'[c] = local[c] /\ verdict'[c] = verdict[c]
      /\ Ahead(c)' \subseteq Ahead(c)
  BY <1>1
<1>3. AskOf(c, k)' /\ Remembered(c)'
  BY <1>1, <1>2 DEF AskOf, Remembered, Kind, Begun
<1>4. CitedInOrder(c)' = CitedInOrder(c)
  BY <1>2 DEF CitedInOrder, RestrictValues, Restrict
<1> QED  BY <1>1, <1>3, <1>4

\* A call that has filled the cache and is left alone.
LEMMA CacheLeftAlone ==
  ASSUME NEW c \in Calls, LeftAlone(c)
  PROVE  /\ \A k : AskOf(c, k)' <=> AskOf(c, k)
         /\ (Live(c)' <=> Live(c)) /\ (Remembered(c)' <=> Remembered(c))
         /\ Ahead(c)' = Ahead(c)
BY DEF LeftAlone, AskOf, Live, Remembered, Kind, Begun, Ahead

\* One step of a call keeps the caches.
LEMMA CacheKeptByCalls ==
  ASSUME TypeInv, \A c \in Calls : CallInv(c), CacheInv,
         NEW e \in Calls, BeginCall(e) \/ CallStep(e) \/ CallFails(e)
  PROVE  CacheInv'
<1>1. \A c \in Calls : c # e => LeftAlone(c)
  BY OthersLeftAlone DEF CallInv
<1>2. CASE Remember(e)
  <2> DEFINE home == request[e].community
  <2>1. /\ AtStep(e, "remember") /\ GoOn(e)
        /\ latest' = [latest EXCEPT ![home] = [asked |-> TRUE, chunks |-> CitedInOrder(e)]]
        /\ UNCHANGED <<request, aborted, local, verdict, reply, before>>
    BY <1>2 DEF Remember
  <2>2. Live(e) /\ e \notin Replied /\ "remember" \in StepsOf(e) /\ ~Undecided(e)
    BY <2>1, AtStepFacts DEF CallInv, Undecided, AtStep
  <2>3. Kind(e) = "ask"
    <3>1. local[e].effective \in Routes /\ Kind(e) \in {"unasked", "ask", "chat", "sources"}
      BY PlanFacts
    <3>2. CASE Kind(e) = "chat"
      BY <2>2, <3>1, <3>2 DEF StepsOf, StepsOfRoute, AnswerSteps, Routes
    <3> QED  BY <2>2, <3>1, <3>2 DEF StepsOf, Live, Begun
  <2>4. DOMAIN latest = Communities /\ home \in Communities
    BY DEF TypeInv, Requests
  <2>5. Ahead(e)' = Ahead(e) \ {"remember"}
    BY <2>1, GoOnAhead DEF CallInv, Ahead
  <2>6. ASSUME NEW k \in Communities, k # home
        PROVE  latest'[k].asked => \E c \in Calls :
                  /\ AskOf(c, k)' /\ Remembered(c)'
                  /\ latest'[k].chunks = CitedInOrder(c)'
                  /\ \A d \in Calls : AskOf(d, k)' /\ Live(d)' /\ Remembered(d)'
                                         => c \notin before'[d].answered
    <3>1. latest'[k] = latest[k]
      BY <2>1, <2>6
    <3>2. ~AskOf(e, k) /\ ~AskOf(e, k)'
      BY <2>1, <2>6 DEF AskOf
    <3>3. \A c \in Calls : AskOf(c, k) /\ Remembered(c) =>
            /\ request'[c] = request[c] /\ local'[c] = local[c] /\ verdict'[c] = verdict[c]
            /\ Ahead(c)' \subseteq Ahead(c)
      BY <1>1, <2>1, <3>2, CacheLeftAlone
    <3>4. \A d \in Calls : AskOf(d, k)' /\ Live(d)' /\ Remembered(d)' =>
            AskOf(d, k) /\ Live(d) /\ Remembered(d) /\ before'[d] = before[d]
      BY <1>1, <2>1, <3>2, CacheLeftAlone
    <3> QED  BY <3>1, <3>3, <3>4, CacheStays DEF CacheInv
  <2>7. ASSUME NEW k \in Communities, k = home
        PROVE  latest'[k].asked => \E c \in Calls :
                  /\ AskOf(c, k)' /\ Remembered(c)'
                  /\ latest'[k].chunks = CitedInOrder(c)'
                  /\ \A d \in Calls : AskOf(d, k)' /\ Live(d)' /\ Remembered(d)'
                                         => c \notin before'[d].answered
    <3>1. AskOf(e, k)' /\ Remembered(e)'
      BY <2>1, <2>2, <2>3, <2>5, <2>7 DEF AskOf, Remembered, Kind, Begun, Live
    <3>2. CitedInOrder(e)' = CitedInOrder(e)
      BY <2>1 DEF CitedInOrder, RestrictValues, Restrict
    <3>3. latest'[k].chunks = CitedInOrder(e)
      BY <2>1, <2>4, <2>7
    <3>4. \A d \in Calls : e \notin before'[d].answered
      BY <2>1, <2>2 DEF CallInv, FoundInPlace
    <3> QED  BY <3>1, <3>2, <3>3, <3>4
  <2> QED  BY <2>6, <2>7 DEF CacheInv
<1>3. CASE ~Remember(e)
  <2>1. latest' = latest
    BY <1>3, GenerateAccepts DEF BeginCall, Ask, Chat, Sources, Begin, CallFails, StoreCallFails,
       CallStep, AnsweringStep, ChatStep,
       Embed, Dense, RetrievalUnsupported, Sparse, PersistQuery, PersistHits, PersistTrace,
       Generate, GenerateNotesPlusModel, GenerateNotesPlusKnowledge, GenerateModelOnly,
       SendAnswer, Recall, Classify, Rewrite, RewriteOutward, Search,
       PersistDecision, PersistRewrite, PersistSearch, SendChat, Tell
  <2>2. ASSUME NEW k \in Communities, AskOf(e, k), Remembered(e)
        PROVE  /\ request'[e] = request[e] /\ local'[e] = local[e] /\ verdict'[e] = verdict[e]
               /\ before'[e] = before[e] /\ Ahead(e)' \subseteq Ahead(e)
    <3>1. UNCHANGED <<request, local, verdict, before>> /\ Ahead(e) \subseteq {"send"}
      BY <2>2, RememberedStays, RememberedIsLast DEF AskOf
    <3>2. Ahead(e)' \subseteq Ahead(e)
      <4>1. DOMAIN todo = Calls
        BY DEF TypeInv
      <4>2. CASE BeginCall(e)
        BY <2>2, <4>2 DEF BeginCall, Ask, Chat, Sources, Begin, Remembered
      <4>3. CASE CallFails(e)
        BY <4>1, <4>3 DEF CallFails, StoreCallFails, Abort, Ahead, Range
      <4>4. CASE CallStep(e)
        BY <2>2, <3>1, <4>4, SendOnly DEF AskOf
      <4> QED  BY <4>2, <4>3, <4>4
    <3> QED  BY <3>1, <3>2
  <2>3. ASSUME NEW k \in Communities, AskOf(e, k)', Live(e)', Remembered(e)'
        PROVE  AskOf(e, k) /\ Live(e) /\ Remembered(e) /\ before'[e] = before[e]
    <3>1. Kind(e) = "ask" /\ Live(e) /\ Remembered(e)
      BY <1>3, <2>3, OnlyRemembering DEF AskOf
    <3>2. UNCHANGED <<request, before>>
      BY <3>1, RememberedStays
    <3> QED  BY <2>3, <3>1, <3>2 DEF AskOf
  <2>4. ASSUME NEW k \in Communities
        PROVE  latest'[k].asked => \E c \in Calls :
                  /\ AskOf(c, k)' /\ Remembered(c)'
                  /\ latest'[k].chunks = CitedInOrder(c)'
                  /\ \A d \in Calls : AskOf(d, k)' /\ Live(d)' /\ Remembered(d)'
                                         => c \notin before'[d].answered
    <3>1. \A c \in Calls : AskOf(c, k) /\ Remembered(c) =>
            /\ request'[c] = request[c] /\ local'[c] = local[c] /\ verdict'[c] = verdict[c]
            /\ Ahead(c)' \subseteq Ahead(c)
      BY <1>1, <2>2, CacheLeftAlone DEF LeftAlone
    <3>2. \A d \in Calls : AskOf(d, k)' /\ Live(d)' /\ Remembered(d)' =>
            AskOf(d, k) /\ Live(d) /\ Remembered(d) /\ before'[d] = before[d]
      BY <1>1, <2>3, CacheLeftAlone DEF LeftAlone
    <3> QED  BY <2>1, <3>1, <3>2, CacheStays DEF CacheInv
  <2> QED  BY <2>4 DEF CacheInv
<1> QED  BY <1>2, <1>3

\* So does everything else; a restart empties them.
LEMMA CacheKept ==
  ASSUME TypeInv, \A c \in Calls : CallInv(c), CacheInv, [Next]_vars
  PROVE  CacheInv'
<1>1. ASSUME UNCHANGED <<callVars, latest>>
      PROVE  CacheInv'
  <2>1. UNCHANGED <<request, todo, aborted, local, verdict, before, latest>>
    BY <1>1 DEF callVars
  <2>2. ASSUME NEW k \in Communities
        PROVE  /\ \A c \in Calls : AskOf(c, k) /\ Remembered(c) =>
                     /\ request'[c] = request[c] /\ local'[c] = local[c] /\ verdict'[c] = verdict[c]
                     /\ Ahead(c)' \subseteq Ahead(c)
               /\ \A d \in Calls : AskOf(d, k)' /\ Live(d)' /\ Remembered(d)' =>
                     AskOf(d, k) /\ Live(d) /\ Remembered(d) /\ before'[d] = before[d]
    BY <2>1 DEF AskOf, Remembered, Live, Kind, Begun, Ahead
  <2>3. \A k \in Communities : latest'[k].asked =>
           \E c \in Calls :
              /\ AskOf(c, k)' /\ Remembered(c)'
              /\ latest'[k].chunks = CitedInOrder(c)'
              /\ \A d \in Calls : AskOf(d, k)' /\ Live(d)' /\ Remembered(d)'
                                     => c \notin before'[d].answered
    BY <2>1, <2>2, CacheStays DEF CacheInv
  <2> QED  BY <2>3 DEF CacheInv
<1>2. ASSUME NEW e \in Calls, BeginCall(e) \/ CallStep(e) \/ CallFails(e)
      PROVE  CacheInv'
  BY <1>2, CacheKeptByCalls
<1>3. ASSUME NEW k \in Chunks, NotesStep(k) \/ BeginHardDelete(k) \/ FinishHardDelete(k)
      PROVE  CacheInv'
  BY <1>1, <1>3 DEF NotesStep, BeginHardDelete, FinishHardDelete
<1>4. CASE Restart
  <2>1. \A k \in Communities : ~latest'[k].asked
    BY <1>4 DEF Restart, NotAsked
  <2> QED  BY <2>1 DEF CacheInv
<1>5. CASE Rest \/ UNCHANGED vars
  BY <1>1, <1>5 DEF Rest, vars
<1> QED  BY <1>2, <1>3, <1>4, <1>5 DEF Next

\* The invariant holds throughout.
LEMMA AnsweringInvHolds == Spec => []AnsweringInv
<1>1. Init => AnsweringInv
  <2>1. Init => CacheInv
    BY DEF Init, AnsweringInit, CacheInv, NotAsked
  <2> QED  BY <2>1, TypesFromInit, CallsFromInit DEF AnsweringInv
<1>2. AnsweringInv /\ [Next]_vars => AnsweringInv'
  <2> SUFFICES ASSUME AnsweringInv, [Next]_vars PROVE AnsweringInv'
    OBVIOUS
  <2>1. TypeInv /\ CacheInv /\ \A c \in Calls : CallInv(c)
    BY DEF AnsweringInv
  <2>2. TypeInv'
    BY <2>1, TypesKept DEF CallInv, Routed
  <2>3. \A c \in Calls : CallInv(c)'
    BY <2>1, <2>2, CallsKept
  <2>4. CacheInv'
    BY <2>1, CacheKept
  <2> QED  BY <2>2, <2>3, <2>4 DEF AnsweringInv
<1> QED  BY <1>1, <1>2, PTL DEF Spec

-----------------------------------------------------------------------------
(***************************************************************************)
(* Results.                                                                *)
(***************************************************************************)
\* The stores, the cache and what each call keeps in its variables have their
\* types, whatever a model, a provider or a knowledge source returned.
THEOREM AnsweringIsTyped == Spec => []TypeOK
<1>1. AnsweringInv => TypeOK
  <2> SUFFICES ASSUME TypeInv PROVE TypeOK
    BY DEF AnsweringInv
  <2>1. AnsweringTypeOK
    BY DEF TypeInv, AnsweringTypeOK, Locals, Replies
  <2> QED  BY <2>1 DEF TypeInv, TypeOK
<1> QED  BY <1>1, AnsweringInvHolds, PTL

\* What a parser accepted, a call concluded and a reply shows: text told as
\* coming from the notes shows a chunk, and only chunks of the context, of the
\* asking community, not retired when the question came in.
THEOREM ToldFromNotesIsCited == Spec => []RepliesAreGrounded
<1>1. AnsweringInv => RepliesAreGrounded
  <2> SUFFICES ASSUME AnsweringInv, NEW c \in Replied, Kind(c) \in {"ask", "chat"}
               PROVE  /\ "notes" \in reply[c].planes => reply[c].shown # {}
                      /\ reply[c].shown \subseteq Context(c) \ before[c].gone
                      /\ \A k \in reply[c].shown : HomeOf[k] = request[c].community
    BY DEF RepliesAreGrounded
  <2>1. TypeInv /\ c \in Calls /\ CallInv(c)
    BY DEF AnsweringInv, Replied
  <2>2. /\ reply[c].shown \subseteq verdict[c].cites
        /\ "notes" \in reply[c].planes => reply[c].shown # {}
    BY <2>1 DEF CallInv, Told
  <2>3. verdict[c].cites \subseteq Context(c)
    BY <2>1 DEF CallInv, Concluded
  <2>4. Context(c) \subseteq FoundChunks(c)
    BY <2>1, FoundChunksFacts DEF CallInv
  <2>5. \A k \in FoundChunks(c) : HomeOf[k] = request[c].community /\ k \notin before[c].gone
    BY <2>1 DEF CallInv, FoundInPlace
  <2> QED  BY <2>2, <2>3, <2>4, <2>5
<1> QED  BY <1>1, AnsweringInvHolds, PTL

\* A call that has replied is over, and was neither raised nor killed.
LEMMA RepliedIsOver ==
  ASSUME AnsweringInv, NEW c \in Replied
  PROVE  /\ c \in Calls /\ TypeInv /\ CallInv(c)
         /\ Live(c) /\ ~Undecided(c) /\ Ahead(c) = {}
<1>1. c \in Calls /\ TypeInv /\ CallInv(c)
  BY DEF AnsweringInv, Replied
<1>2. Live(c) /\ todo[c] = <<>>
  BY <1>1 DEF CallInv, OnPlan, Live
<1> QED  BY <1>1, <1>2 DEF Undecided, AtStep, Ahead, Range

\* A reply is told only after its query, its hits and its trace were
\* committed, and says what they say.
THEOREM ToldIsOnRecord == Spec => []RepliesAreTraced
<1>1. AnsweringInv => RepliesAreTraced
  <2> SUFFICES ASSUME AnsweringInv, NEW c \in Replied, Kind(c) \in {"ask", "chat"},
                      local[c].hasQuery
               PROVE  /\ \E q \in QueryOf(c), t \in TraceOf(c) :
                            /\ q.fallback = t.fallback /\ q.fallback = verdict[c].fallback
                            /\ q.community = request[c].community
                            /\ t.context = local[c].context
                      /\ HitsRecorded(c)
    BY DEF RepliesAreTraced, HitsRecorded
  <2>1. CallInv(c) /\ Live(c) /\ ~Undecided(c) /\ Ahead(c) = {}
    BY RepliedIsOver
  <2> QED  BY <2>1 DEF CallInv, Recorded
<1> QED  BY <1>1, AnsweringInvHolds, PTL

\* A query without a trace belongs to a call on its way, or to one that met a
\* failed store call, a killed process or a chunk that is gone: a provider
\* that gives up and a model that answers nonsense leave none.
THEOREM UntracedHasAReason == Spec => []UntracedIsExplained
<1>1. AnsweringInv => UntracedIsExplained
  <2> SUFFICES ASSUME AnsweringInv, NEW q \in queries
               PROVE  \/ TraceOf(q.call) # {}
                      \/ q.call \in InFlight
                      \/ failures > 0
                      \/ \E h \in FoundRows(q.call) : h.chunk \notin Rows
    BY DEF UntracedIsExplained
  <2> DEFINE c == q.call
  <2>1. TypeInv /\ c \in Calls /\ CallInv(c)
    BY DEF AnsweringInv, TypeInv, TraceStoreTypeOK
  <2>2. QueryOf(c) # {}
    BY DEF QueryOf
  <2>3. Begun(c) /\ ~Undecided(c) /\ local[c].hasQuery /\ Kind(c) \in {"ask", "chat"}
    <3>1. Kind(c) \in {"unasked", "ask", "chat", "sources"}
      BY <2>1, PlanFacts
    <3> QED  BY <2>1, <2>2, <3>1 DEF CallInv, NotYetRecorded, Begun
  <2>4. CASE c \in aborted
    BY <2>1, <2>2, <2>4 DEF CallInv, Explained
  <2>5. CASE c \notin aborted /\ todo[c] # <<>>
    BY <2>1, <2>5 DEF InFlight
  <2>6. CASE c \notin aborted /\ todo[c] = <<>>
    <3>1. Live(c) /\ Ahead(c) = {}
      BY <2>3, <2>6 DEF Live, Ahead, Range
    <3> QED  BY <2>1, <2>3, <3>1 DEF CallInv, Recorded
  <2> QED  BY <2>4, <2>5, <2>6
<1> QED  BY <1>1, AnsweringInvHolds, PTL

\* The cache of a community holds what one of its /ask calls cited, and that
\* call had not been answered when a later answered one began.
THEOREM CacheIsOfTheLatest == Spec => []SourcesAreLatest
<1>1. AnsweringInv => SourcesAreLatest
  <2> SUFFICES ASSUME AnsweringInv, NEW k \in Communities, latest[k].asked
               PROVE  \E c \in Calls :
                         /\ Kind(c) = "ask" /\ request[c].community = k
                         /\ latest[k].chunks = CitedInOrder(c)
                         /\ \A d \in Replied : Kind(d) = "ask" /\ request[d].community = k
                                                  => c \notin before[d].answered
    BY DEF SourcesAreLatest
  <2>1. PICK c \in Calls :
           /\ AskOf(c, k) /\ Remembered(c)
           /\ latest[k].chunks = CitedInOrder(c)
           /\ \A d \in Calls : AskOf(d, k) /\ Live(d) /\ Remembered(d) => c \notin before[d].answered
    BY DEF AnsweringInv, CacheInv
  <2>2. ASSUME NEW d \in Replied, Kind(d) = "ask", request[d].community = k
        PROVE  c \notin before[d].answered
    <3>1. d \in Calls /\ Live(d) /\ Ahead(d) = {}
      BY RepliedIsOver
    <3> QED  BY <2>1, <2>2, <3>1 DEF AskOf, Remembered, Live
  <2> QED  BY <2>1, <2>2 DEF AskOf
<1> QED  BY <1>1, AnsweringInvHolds, PTL

\* An answered /chat left one decision row, which names the query when there
\* is one, and a rewrite and a search row exactly when its route made them.
THEOREM ChatsLeaveTheirRows == Spec => []ChatsAreAccounted
<1>1. AnsweringInv => ChatsAreAccounted
  <2> SUFFICES ASSUME AnsweringInv, NEW c \in Replied, Kind(c) = "chat"
               PROVE  \E d \in DecisionOf(c) :
                         /\ DecisionOf(c) = {d}
                         /\ d.effective = local[c].effective /\ d.requested = local[c].requested
                         /\ d.hasQuery <=> QueryOf(c) # {}
                         /\ d.effective \in NotesPlusRoutes /\ d.hasQuery
                              <=> \E w \in rewrites : w.call = c /\ (w.rewritten \/ local[c].window = Chunks)
                         /\ d.effective = "notes_plus_knowledge" /\ d.hasQuery
                              <=> \E s \in searches : s.call = c /\ s.results = Cardinality(local[c].offered)
    BY DEF ChatsAreAccounted
  <2>1. CallInv(c) /\ Live(c) /\ ~Undecided(c) /\ Ahead(c) = {} /\ Begun(c)
    BY RepliedIsOver DEF Live
  <2>2. /\ DecisionOf(c) = {Decision(c)}
        /\ Decision(c).effective = local[c].effective /\ Decision(c).requested = local[c].requested
        /\ Decision(c).hasQuery = local[c].hasQuery
    BY <2>1 DEF CallInv, Accounted, Decision
  <2>3. local[c].hasQuery <=> QueryOf(c) # {}
    BY <2>1 DEF CallInv, NotYetRecorded, Recorded
  <2>4. local[c].effective \in NotesPlusRoutes /\ local[c].hasQuery
          <=> \E w \in rewrites : w.call = c /\ (w.rewritten \/ local[c].window = Chunks)
    <3>1. CASE local[c].effective \in NotesPlusRoutes /\ local[c].hasQuery
      <4>1. PICK w \in RewritesOf(c) : w.rewritten = local[c].rewritten
        BY <2>1, <3>1 DEF CallInv, Accounted
      <4> QED  BY <2>1, <3>1, <4>1 DEF CallInv, Routed, RewritesOf
    <3>2. CASE ~(local[c].effective \in NotesPlusRoutes /\ local[c].hasQuery)
      <4>1. RewritesOf(c) = {}
        BY <2>1, <3>2 DEF CallInv, NotYetRecorded
      <4> QED  BY <3>2, <4>1 DEF RewritesOf
    <3> QED  BY <3>1, <3>2
  <2>5. local[c].effective = "notes_plus_knowledge" /\ local[c].hasQuery
          <=> \E s \in searches : s.call = c /\ s.results = Cardinality(local[c].offered)
    <3>1. CASE local[c].effective = "notes_plus_knowledge" /\ local[c].hasQuery
      <4>1. PICK s \in SearchesOf(c) : s.results = Cardinality(local[c].offered)
        BY <2>1, <3>1 DEF CallInv, Accounted
      <4> QED  BY <3>1, <4>1 DEF SearchesOf
    <3>2. CASE ~(local[c].effective = "notes_plus_knowledge" /\ local[c].hasQuery)
      <4>1. SearchesOf(c) = {}
        BY <2>1, <3>2 DEF CallInv, NotYetRecorded
      <4> QED  BY <3>2, <4>1 DEF SearchesOf
    <3> QED  BY <3>1, <3>2
  <2> QED  BY <2>2, <2>3, <2>4, <2>5
<1> QED  BY <1>1, AnsweringInvHolds, PTL

\* A chat answered by another route than the one asked for says so, and each
\* route tells only the planes it may.
THEOREM RoutesTellTheirPlanes == Spec => []RoutesAreHonest
<1>1. AnsweringInv => RoutesAreHonest
  <2> SUFFICES ASSUME AnsweringInv, NEW c \in Replied, Kind(c) = "chat"
               PROVE  /\ reply[c].rerouted <=> local[c].requested # local[c].effective
                      /\ local[c].effective = "notes_lookup" => reply[c].planes \subseteq {"notes"}
                      /\ local[c].effective = "model_only" => reply[c].planes \subseteq {"model"}
                      /\ "web" \in reply[c].planes =>
                            /\ deployment.knowledge
                            /\ verdict[c].refs # {} /\ verdict[c].refs \subseteq local[c].offered
    BY DEF RoutesAreHonest
  <2>1. CallInv(c)
    BY RepliedIsOver
  <2>2. /\ reply[c].planes \subseteq verdict[c].planes
        /\ reply[c].rerouted <=> local[c].requested # local[c].effective
    BY <2>1 DEF CallInv, Told
  <2>3. /\ local[c].effective = "notes_lookup" => verdict[c].planes \subseteq {"notes"}
        /\ local[c].effective = "model_only" => verdict[c].planes \subseteq {"model"}
        /\ "web" \in verdict[c].planes =>
              /\ local[c].effective = "notes_plus_knowledge"
              /\ verdict[c].refs # {} /\ verdict[c].refs \subseteq local[c].offered
    BY <2>1 DEF CallInv, Concluded
  <2>4. local[c].effective = "notes_plus_knowledge" => deployment.knowledge
    BY <2>1 DEF CallInv, Routed
  <2> QED  BY <2>2, <2>3, <2>4
<1> QED  BY <1>1, AnsweringInvHolds, PTL

\* A chunk a leg ranks no lower scores no less in it.
LEMMA RankedHigher ==
  ASSUME NEW s \in Rankings(Chunks), NEW b \in Chunks, NEW w \in Chunks,
         RankedBy(b, s) <= RankedBy(w, s)
  PROVE  /\ ~Exceeds(ScoreIn(w, s), ScoreIn(b, s))
         /\ w \in Range(s) => /\ b \in Range(s)
                              /\ b # w => Rank(b, s) < Rank(w, s)
<1>1. Len(s) \in 0..CandidateK /\ CandidateK \in Nat /\ RrfK \in Nat
  BY RankingFacts, FusionAssumption
<1>2. \A c \in Range(s) : Rank(c, s) \in 1..Len(s) /\ s[Rank(c, s)] = c
  BY RankingFacts
<1>3. w \in Range(s) => b \in Range(s) /\ Rank(b, s) <= Rank(w, s)
  BY <1>1, <1>2 DEF RankedBy
<1>4. w \in Range(s) /\ b # w => Rank(b, s) < Rank(w, s)
  BY <1>1, <1>2, <1>3
<1>5. CASE w \in Range(s)
  <2>1. /\ ScoreIn(w, s) = [num |-> 1, den |-> RrfK + Rank(w, s)]
        /\ ScoreIn(b, s) = [num |-> 1, den |-> RrfK + Rank(b, s)]
    BY <1>3, <1>5 DEF ScoreIn, LegScore
  <2>2. RrfK + Rank(b, s) <= RrfK + Rank(w, s)
    BY <1>1, <1>2, <1>3, <1>5
  <2>3. ~(1 * (RrfK + Rank(b, s)) > 1 * (RrfK + Rank(w, s)))
    BY <1>1, <1>2, <1>3, <1>5, <2>2
  <2> QED  BY <1>3, <1>4, <2>1, <2>3 DEF Exceeds
<1>6. CASE w \notin Range(s)
  <2>1. ScoreIn(w, s).num = 0 /\ ScoreIn(w, s).den = 1
    BY <1>6 DEF ScoreIn
  <2>2. ScoreIn(b, s).num \in Nat /\ ScoreIn(b, s).den \in Nat
    BY ScoresAreFractions DEF Fractions
  <2> QED  BY <1>6, <2>1, <2>2 DEF Exceeds
<1> QED  BY <1>5, <1>6

\* 1/a + 1/b exceeds 1/c when both a and b are below twice c.
LEMMA TwoExceedOne ==
  ASSUME NEW a \in Nat \ {0}, NEW b \in Nat \ {0}, NEW c \in Nat, a < 2 * c, b < 2 * c
  PROVE  (a + b) * c > a * b
<1>1. a * b < a * (2 * c) /\ a * b < b * (2 * c)
  <2>1. \A x, y, z \in Nat : x > 0 /\ y < z => x * y < x * z
    OBVIOUS
  <2>2. b * a < b * (2 * c)
    BY <2>1
  <2>3. a * b < a * (2 * c)
    BY <2>1
  <2> QED  BY <2>2, <2>3
<1>2. a * (2 * c) + b * (2 * c) = 2 * ((a + b) * c)
  OBVIOUS
<1>3. a * b \in Nat /\ (a + b) * c \in Nat /\ a * (2 * c) \in Nat /\ b * (2 * c) \in Nat
  OBVIOUS
<1> QED  BY <1>1, <1>2, <1>3

\* The better of two chunks found sorts first.
LEMMA BetterSortsFirst ==
  ASSUME NEW l \in Locals, NEW b \in Chunks, NEW w \in Found(l.dense, l.sparse), Better(b, w, l)
  PROVE  b \in Found(l.dense, l.sparse) /\ Before(b, w, l.dense, l.sparse)
<1> DEFINE dense == l.dense
           sparse == l.sparse
<1>1. dense \in Rankings(Chunks) /\ sparse \in Rankings(Chunks)
  BY DEF Locals
<1>2. /\ Len(dense) \in 0..CandidateK /\ Len(sparse) \in 0..CandidateK
      /\ Range(dense) \subseteq Chunks /\ Range(sparse) \subseteq Chunks
      /\ \A c \in Range(dense) : Rank(c, dense) \in 1..Len(dense)
      /\ \A c \in Range(sparse) : Rank(c, sparse) \in 1..Len(sparse)
  BY <1>1, RankingFacts
<1>3. w \in Chunks /\ (w \in Range(dense) \/ w \in Range(sparse))
  BY <1>2 DEF Found
<1>4. CASE /\ RankedBy(b, dense) <= RankedBy(w, dense)
           /\ RankedBy(b, sparse) <= RankedBy(w, sparse)
           /\ b # w
  <2>1. /\ ~Exceeds(ScoreIn(w, dense), ScoreIn(b, dense))
        /\ ~Exceeds(ScoreIn(w, sparse), ScoreIn(b, sparse))
        /\ w \in Range(dense) => b \in Range(dense) /\ Rank(b, dense) < Rank(w, dense)
        /\ w \in Range(sparse) => b \in Range(sparse) /\ Rank(b, sparse) < Rank(w, sparse)
    BY <1>1, <1>3, <1>4, RankedHigher
  <2>2. b \in Found(dense, sparse)
    BY <1>3, <2>1 DEF Found
  <2>3. ~Exceeds(Score(w, dense, sparse), Score(b, dense, sparse))
    BY <1>1, <2>1, ScoresAreFractions, PlusMonotone DEF Score
  <2>4. FirstSeen(b, dense, sparse) < FirstSeen(w, dense, sparse)
    BY <1>2, <1>3, <2>1, FusionAssumption DEF FirstSeen
  <2> QED  BY <2>2, <2>3, <2>4 DEF Before
<1>5. CASE FoundByBoth(b, l) /\ ~FoundByBoth(w, l) /\ CandidateK < RrfK + 2
  <2>1. b \in Range(dense) /\ b \in Range(sparse) /\ ~(w \in Range(dense) /\ w \in Range(sparse))
    BY <1>5 DEF FoundByBoth
  <2> DEFINE x == RrfK + Rank(b, dense)
             y == RrfK + Rank(b, sparse)
             z == IF w \in Range(dense) THEN RrfK + Rank(w, dense) ELSE RrfK + Rank(w, sparse)
  <2>2. x \in Nat \ {0} /\ y \in Nat \ {0} /\ z \in Nat /\ x < 2 * z /\ y < 2 * z
    <3>1. \A n \in 0..CandidateK : \A r \in 1..n : r \in Nat /\ 1 <= r /\ r < RrfK + 2
      BY <1>5, FusionAssumption
    <3>2. Rank(b, dense) \in Nat /\ Rank(b, dense) < RrfK + 2
          /\ Rank(b, sparse) \in Nat /\ Rank(b, sparse) < RrfK + 2
      BY <1>2, <2>1, <3>1
    <3>3. \E r \in Nat : 1 <= r /\ z = RrfK + r
      BY <1>2, <1>3, <3>1
    <3> HIDE DEF z
    <3>4. RrfK \in Nat /\ RrfK > 0
      BY FusionAssumption
    <3>5. \A i, j, k \in Nat : 1 <= j /\ i < k + 2 => k + i < 2 * (k + j)
      OBVIOUS
    <3> QED  BY <3>2, <3>3, <3>4, <3>5
  <2>3. Score(b, dense, sparse) = [num |-> 1 * y + 1 * x, den |-> x * y]
    BY <2>1 DEF Score, ScoreIn, LegScore, Plus
  <2>4. \/ Score(w, dense, sparse) = [num |-> 1 * 1 + 0 * z, den |-> z * 1]
        \/ Score(w, dense, sparse) = [num |-> 0 * z + 1 * 1, den |-> 1 * z]
    BY <1>3, <2>1 DEF Score, ScoreIn, LegScore, Plus
  <2> HIDE DEF x, y, z
  <2>5. Score(w, dense, sparse).num = 1 /\ Score(w, dense, sparse).den = z
    BY <2>2, <2>4
  <2>6. Score(b, dense, sparse).num = x + y /\ Score(b, dense, sparse).den = x * y
    BY <2>2, <2>3
  <2>7. (x + y) * z > x * y /\ x * y \in Nat
    <3>1. \A p, q \in Nat : p * q \in Nat
      OBVIOUS
    <3> QED  BY <2>2, <3>1, TwoExceedOne
  <2>8. (x + y) * z > 1 * (x * y)
    BY <2>7
  <2>9. Exceeds(Score(b, dense, sparse), Score(w, dense, sparse))
    BY <2>5, <2>6, <2>8 DEF Exceeds
  <2> QED  BY <2>1, <2>9 DEF Before, Found
<1> QED  BY <1>4, <1>5 DEF Better

\* The context handed to the model leaves no chunk out for a worse one, and
\* ranks none behind a worse one: one both legs rank no lower, or that both
\* found where only one found the other.
THEOREM ContextPrefersTheBetter == Spec => []NoBetterChunkLeftOut
<1>1. AnsweringInv => NoBetterChunkLeftOut
  <2> SUFFICES ASSUME AnsweringInv, NEW c \in Calls, NEW b \in Chunks, NEW w \in Context(c),
                      Better(b, w, local[c])
               PROVE  b \in Context(c) /\ Rank(b, local[c].context) < Rank(w, local[c].context)
    BY DEF NoBetterChunkLeftOut
  <2>1. TypeInv /\ Retrieved(c) /\ local[c] \in Locals
    BY DEF AnsweringInv, CallInv, TypeInv
  <2>2. /\ local[c].dense \in Rankings(Chunks) /\ local[c].sparse \in Rankings(Chunks)
        /\ w \in FoundChunks(c)
    BY <2>1, FoundChunksFacts
  <2>3. local[c].context = Fuse(local[c].dense, local[c].sparse)
    BY <2>1, EmptyRanking DEF Retrieved, Context
  <2>4. b \in FoundChunks(c) /\ Before(b, w, local[c].dense, local[c].sparse)
    BY <2>1, <2>2, BetterSortsFirst DEF FoundChunks
  <2> QED  BY <2>2, <2>3, <2>4, FusionTakesTheTop DEF FoundChunks, Context
<1> QED  BY <1>1, AnsweringInvHolds, PTL
=============================================================================
