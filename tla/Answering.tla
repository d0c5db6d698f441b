----------------------------- MODULE Answering ------------------------------
(***************************************************************************)
(* /ask, step by step: QueryService.answer, QueryService.retrieve and what *)
(* the dispatcher does around them.  /chat shares the steps (RoutedChat).  *)
(*                                                                         *)
(* A call carries the list of the steps it still has to take; each step is *)
(* one provider call, one read of the store or one transaction, so that    *)
(* between two of them other calls run, notes are edited and deleted, and  *)
(* the process may die.  A call that raises ends without a reply: the      *)
(* webhook answers HTTP 500 and Telegram delivers the update again, as     *)
(* another call.                                                           *)
(***************************************************************************)
EXTENDS Answers, Faults

CONSTANTS
    HomeOf,      \* community_id of a chunk
    Deployments  \* the configurations the bot may run in

ASSUME AnsweringAssumption ==
    /\ HomeOf \in [Chunks -> Communities]
    /\ Deployments \subseteq [store : {"postgres", "sqlite"}, knowledge : BOOLEAN]

VARIABLES
    deployment,  \* the configured store, of which "sqlite" implements no
                 \* retrieval, and whether a knowledge source is wired
    request,   \* what a call was asked
    todo,      \* steps left; empty before and after the call
    aborted,   \* calls that raised or died
    local,     \* what the code of a call keeps in its variables
    verdict,   \* ... and the outcome it will record and tell
    reply,     \* the reply text handed to the webhook
    latest,    \* Dispatcher._latest_sources, lost when the process restarts
    before     \* history: per call, the calls answered and the chunks gone
               \* when it began

callVars == <<request, todo, aborted, local, verdict, reply, before>>

\* "marks": punctuation only, which strip() leaves and normalize_query does not.
Questions == {"words", "marks", "blank"}
Requests == [kind : {"unasked", "ask", "chat", "sources"},
             community : Communities, question : Questions]
Unasked == [kind |-> "unasked", community |-> CHOOSE k \in Communities : TRUE,
            question |-> "blank"]

NoLocals == [requested |-> Unclassified, effective |-> "notes_lookup", rewritten |-> FALSE,
             window |-> Chunks, dense |-> <<>>, sparse |-> <<>>, context |-> <<>>,
             offered |-> {}, hasQuery |-> TRUE]

NotAsked == [asked |-> FALSE, chunks |-> <<>>]

Kind(c) == request[c].kind
Begun(c) == Kind(c) # "unasked"
InFlight == {c \in Calls : todo[c] # <<>>}
Context(c) == Range(local[c].context)
Replied == {c \in Calls : reply[c] # NoReply}
Gone == {k \in Chunks : corpus[k] \in {"retired", "erased"}}

AnsweringTypeOK ==
    /\ deployment \in Deployments
    /\ request \in [Calls -> Requests]
    /\ aborted \subseteq Calls
    /\ verdict \in [Calls -> Verdicts]
    /\ \A c \in Calls :
          /\ local[c].requested \in Routes \union {Unclassified}
          /\ local[c].effective \in Routes
          /\ local[c].window \subseteq Chunks
          /\ local[c].dense \in Rankings(Chunks)
          /\ local[c].sparse \in Rankings(Chunks)
          /\ local[c].context \in Rankings(Chunks)
          /\ local[c].offered \subseteq Refs
          /\ reply[c].planes \subseteq Planes /\ reply[c].shown \subseteq Chunks
    /\ \A k \in Communities :
          DOMAIN latest[k].chunks \subseteq 1..TopK /\ Range(latest[k].chunks) \subseteq Chunks

AnsweringInit ==
    /\ deployment \in Deployments
    /\ request = [c \in Calls |-> Unasked]
    /\ todo = [c \in Calls |-> <<>>]
    /\ aborted = {}
    /\ local = [c \in Calls |-> NoLocals]
    /\ verdict = [c \in Calls |-> Without("none")]
    /\ reply = [c \in Calls |-> NoReply]
    /\ latest = [k \in Communities |-> NotAsked]
    /\ before = [c \in Calls |-> [answered |-> {}, gone |-> {}]]

-----------------------------------------------------------------------------
(***************************************************************************)
(* Plans.                                                                  *)
(***************************************************************************)
RetrieveSteps == <<"embed", "dense", "sparse">>
PersistSteps == <<"query", "hits", "trace">>

\* Defect: the query is recorded before the model is asked.
QueryFirstPlan == RetrieveSteps \o <<"query", "generate", "hits", "trace">>

AnswerPlan == RetrieveSteps \o <<"generate">> \o PersistSteps

AskPlan == AnswerPlan \o <<"remember", "send">>

SourcesPlan == <<"recall">>

AtStep(c, step) == todo[c] # <<>> /\ Head(todo[c]) = step

From(plan, step) == SubSeq(plan, CHOOSE i \in DOMAIN plan : plan[i] = step, Len(plan))

GoOn(c) == todo' = [todo EXCEPT ![c] = Tail(@)]

SkipTo(c, step) == todo' = [todo EXCEPT ![c] = From(@, step)]

Decide(c, v) == verdict' = [verdict EXCEPT ![c] = v]

Abort(c) ==
    /\ todo' = [todo EXCEPT ![c] = <<>>]
    /\ aborted' = aborted \union {c}

\* normalize_query leaves nothing: answer finalizes without retrieving.
Blank(c) == request[c].question # "words"

\* The path of answer that calls neither retrieval nor the model.
PlanOfAnswer(plan, question) == IF question = "words" THEN plan ELSE From(plan, "query")

VerdictAtStart(question) == IF question = "words" THEN Without("none") ELSE Without("no_evidence")

Begin(c, req, plan, v) ==
    /\ ~Begun(c) /\ \A d \in 1..(c - 1) : Begun(d)
    /\ request' = [request EXCEPT ![c] = req]
    /\ todo' = [todo EXCEPT ![c] = plan]
    /\ Decide(c, v)
    /\ before' = [before EXCEPT ![c] = [answered |-> Replied, gone |-> Gone]]
    /\ UNCHANGED <<aborted, local, reply, latest, traceTables, deployment>>
    /\ NoFault

\* normalize_query makes the same of punctuation and of nothing at all.
Ask(c, community, question) ==
    /\ question # "marks"
    /\ Begin(c, [kind |-> "ask", community |-> community, question |-> question],
             PlanOfAnswer(AskPlan, question), VerdictAtStart(question))

Sources(c, community) ==
    Begin(c, [kind |-> "sources", community |-> community, question |-> "blank"],
          SourcesPlan, Without("none"))

-----------------------------------------------------------------------------
(***************************************************************************)
(* Retrieval.                                                              *)
(***************************************************************************)
\* Only /chat turns a missing retrieval or an empty context into a decision
\* row; /ask goes straight to the /sources cache and the reply.
AfterRetrieval(c) == IF Kind(c) = "chat" THEN "decide" ELSE "remember"

EnrichedRoute(c) == Kind(c) = "chat" /\ local[c].effective \in NotesPlusRoutes

\* The embedding call raises after its retries, and answer does not catch it.
Embed(c) ==
    /\ AtStep(c, "embed")
    /\ \/ GoOn(c) /\ NoFault /\ UNCHANGED aborted
       \/ Abort(c) /\ ProviderFault
    /\ UNCHANGED <<request, local, verdict, reply, latest, before, traceTables, deployment>>

\* Defect: the leg is not restricted to the community.
WithinWindow(c) == local[c].window

\* WHERE community_id = ... AND note_date within the window.
Searchable(c) == {k \in local[c].window : HomeOf[k] = request[c].community}

Dense(c) ==
    /\ AtStep(c, "dense") /\ deployment.store # "sqlite"
    /\ \E ranking \in DenseRankings(Ready \intersect Searchable(c)) :
          local' = [local EXCEPT ![c].dense = ranking]
    /\ GoOn(c) /\ NoFault
    /\ UNCHANGED <<request, aborted, verdict, reply, latest, before, traceTables, deployment>>

\* The SQLite store raises NotImplementedError: the reply is the one of "no
\* evidence", with no query id and no row in any provenance table.
RetrievalUnsupported(c) ==
    /\ AtStep(c, "dense") /\ deployment.store = "sqlite"
    /\ SkipTo(c, AfterRetrieval(c))
    /\ Decide(c, Without("no_evidence"))
    /\ local' = [local EXCEPT ![c].hasQuery = FALSE]
    /\ NoFault
    /\ UNCHANGED <<request, aborted, reply, latest, before, traceTables, deployment>>

\* The chunks whose text matches: any of those it may search, in any order.
\* A search text of nothing but blanks matches none.
SparseRankings(c) ==
    IF Blank(c) /\ ~local[c].rewritten THEN {<<>>}
    ELSE Rankings(Active \intersect Searchable(c))

\* sparse_candidates, reciprocal_rank_fusion, assemble_answer_context; with
\* nothing found, answer skips the model, the mixed routes do not.
Sparse(c) ==
    /\ AtStep(c, "sparse")
    /\ \E ranking \in SparseRankings(c) :
          LET context == Fuse(local[c].dense, ranking)
          IN  /\ local' = [local EXCEPT ![c].sparse = ranking, ![c].context = context]
              /\ IF context = <<>> /\ ~EnrichedRoute(c)
                 THEN Decide(c, Without("no_evidence")) /\ SkipTo(c, "query")
                 ELSE GoOn(c) /\ UNCHANGED verdict
    /\ NoFault
    /\ UNCHANGED <<request, aborted, reply, latest, before, traceTables, deployment>>

-----------------------------------------------------------------------------
(***************************************************************************)
(* Generation.                                                             *)
(***************************************************************************)
\* The chat client gives up: the outcome is recorded and told.
Unavailable(c) ==
    /\ Decide(c, Without("provider_unavailable"))
    /\ GoOn(c) /\ ProviderFault /\ UNCHANGED aborted

\* Defect: after an answer that does not parse the call starts over.
AcceptOrStartOver(c, v) ==
    /\ Decide(c, v) /\ NoFault /\ UNCHANGED aborted
    /\ IF v.fallback = "parse_failure"
       THEN todo' = [todo EXCEPT ![c] = RetrieveSteps \o @] ELSE GoOn(c)

Accept(c, v) == Decide(c, v) /\ GoOn(c) /\ NoFault /\ UNCHANGED aborted

RaiseUncaught(c) == Abort(c) /\ NoFault /\ UNCHANGED verdict

Generate(c) ==
    /\ AtStep(c, "generate") /\ (Kind(c) = "ask" \/ local[c].effective = "notes_lookup")
    /\ \/ Unavailable(c)
       \/ \E raw \in RawAnswers(LookupContents) :
             IF Raises(raw) THEN RaiseUncaught(c)
             ELSE Accept(c, ParseAnswer(raw, local[c].context))
    /\ UNCHANGED <<request, local, reply, latest, before, traceTables, deployment>>

-----------------------------------------------------------------------------
(***************************************************************************)
(* Persistence: three transactions.                                        *)
(***************************************************************************)
PersistQuery(c) ==
    /\ AtStep(c, "query")
    /\ SaveQuery(c, request[c].community, verdict[c].fallback)
    /\ GoOn(c) /\ NoFault
    /\ UNCHANGED <<request, aborted, local, verdict, reply, latest, before, deployment>>

FoundRows(c) == Hits(local[c].dense, local[c].sparse, local[c].context)

\* A chunk hard-deleted since it was found makes the insert violate its
\* foreign key: the call raises, the queries row stays.
PersistHits(c) ==
    /\ AtStep(c, "hits")
    /\ IF FoundRows(c) # {} /\ ~CanSaveHits(c, FoundRows(c))
       THEN Abort(c) /\ UNCHANGED traceTables
       ELSE SaveHits(c, FoundRows(c)) /\ GoOn(c) /\ UNCHANGED aborted
    /\ NoFault
    /\ UNCHANGED <<request, local, verdict, reply, latest, before, deployment>>

PersistTrace(c) ==
    /\ AtStep(c, "trace") /\ CanSaveTrace(c)
    /\ SaveTrace(c, verdict[c].fallback, local[c].context)
    /\ GoOn(c) /\ NoFault
    /\ UNCHANGED <<request, aborted, local, verdict, reply, latest, before, deployment>>

-----------------------------------------------------------------------------
(***************************************************************************)
(* The dispatcher.                                                         *)
(***************************************************************************)
\* The chunks of the context that were cited, each at its place there.
CitedInOrder(c) == RestrictValues(local[c].context, LAMBDA k : k \in verdict[c].cites)

\* Defect: an answer without citations leaves the previous ones in the cache.
RememberIfCited(c) ==
    /\ AtStep(c, "remember")
    /\ latest' = IF verdict[c].cites = {} /\ latest[request[c].community].asked THEN latest
                 ELSE [latest EXCEPT ![request[c].community] =
                         [asked |-> TRUE, chunks |-> CitedInOrder(c)]]
    /\ GoOn(c) /\ NoFault
    /\ UNCHANGED <<request, aborted, local, verdict, reply, before, traceTables, deployment>>

\* _update_latest_sources.
Remember(c) ==
    /\ AtStep(c, "remember")
    /\ latest' = [latest EXCEPT ![request[c].community] =
                    [asked |-> TRUE, chunks |-> CitedInOrder(c)]]
    /\ GoOn(c) /\ NoFault
    /\ UNCHANGED <<request, aborted, local, verdict, reply, before, traceTables, deployment>>

Tell(c, r) ==
    /\ reply' = [reply EXCEPT ![c] = r]
    /\ GoOn(c) /\ NoFault
    /\ UNCHANGED <<request, aborted, local, verdict, latest, before, traceTables, deployment>>

\* The trace row stands for what the question was answered with; the reply
\* is worded by what normalize_query or strip left of the question.
SendAnswer(c) ==
    /\ AtStep(c, "send") /\ Kind(c) = "ask"
    /\ Tell(c, AnswerReply(verdict[c], Blank(c), local[c].context # <<>>))

\* _dispatch_sources: the cached chunks as they were when they were cited.
SourcesReply(cache) ==
    CASE ~cache.asked -> Telling("sources_none")
      [] cache.asked /\ cache.chunks = <<>> -> Telling("sources_none_cited")
      [] OTHER -> [Telling("sources") EXCEPT !.shown = Range(cache.chunks)]

Recall(c) ==
    /\ AtStep(c, "recall")
    /\ Tell(c, SourcesReply(latest[request[c].community]))

\* A read or a write of the store raises (pool timeout, lost connection).
StoreSteps == {"dense", "sparse", "query", "hits", "trace", "decide", "log_rewrite", "log_search"}

StoreCallFails(c) ==
    /\ todo[c] # <<>> /\ Head(todo[c]) \in StoreSteps
    /\ deployment.store = "sqlite" => Head(todo[c]) # "dense"
    /\ Abort(c) /\ StoreFault
    /\ UNCHANGED <<request, local, verdict, reply, latest, before, traceTables, deployment>>

AnsweringStep(c) ==
    \/ Embed(c) \/ Dense(c) \/ RetrievalUnsupported(c) \/ Sparse(c) \/ Generate(c)
    \/ PersistQuery(c) \/ PersistHits(c) \/ PersistTrace(c)
    \/ Remember(c) \/ SendAnswer(c) \/ Recall(c)
=============================================================================
