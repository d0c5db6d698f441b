----------------------------- MODULE RoutedChat -----------------------------
(***************************************************************************)
(* /chat: RoutedChatService.  A classifier picks one of four routes; each  *)
(* route is a plan of the steps of Answering and of the ones below; a      *)
(* decision row, and the rows of what the route did beside answering, are  *)
(* written once the answer is known.                                       *)
(***************************************************************************)
EXTENDS Answering

\* What follows the answer of any route.
Accounting == <<"decide", "send">>

NotesLookupPlan == AnswerPlan \o Accounting

\* Defect: an answer without notes is not traced.
ModelOnlyUntraced == <<"generate", "query">> \o Accounting

ModelOnlyPlan == <<"generate", "query", "trace">> \o Accounting

NotesPlusModelPlan ==
    <<"rewrite">> \o RetrieveSteps \o <<"generate">> \o PersistSteps
        \o <<"decide", "log_rewrite", "send">>

NotesPlusKnowledgePlan ==
    <<"rewrite">> \o RetrieveSteps \o <<"outward", "search", "generate">> \o PersistSteps
        \o <<"decide", "log_rewrite", "log_search", "send">>

\* The classifier is not asked about an empty message.
Chat(c, community, question) ==
    Begin(c, [kind |-> "chat", community |-> community, question |-> question],
          <<"classify">>, Without("none"))

\* Defect: the request is dispatched as asked, knowledge source or not.
DispatchAsRequested(requested) ==
    IF requested = Unclassified THEN "notes_lookup" ELSE requested

\* The effective route: notes_lookup whenever the requested one is unknown or
\* needs a knowledge source there is not.
EffectiveRoute(requested) ==
    IF \/ requested = Unclassified
       \/ requested = "notes_plus_knowledge" /\ ~deployment.knowledge
    THEN "notes_lookup" ELSE requested

PlanOfRoute(route, question) ==
    CASE route = "notes_lookup" -> PlanOfAnswer(NotesLookupPlan, question)
      [] route = "model_only" -> ModelOnlyPlan
      [] route = "notes_plus_model" -> NotesPlusModelPlan
      [] OTHER -> NotesPlusKnowledgePlan

\* The classifier names a route, or nothing usable, or is down: none of the
\* three stops the call.
Classify(c) ==
    /\ AtStep(c, "classify")
    /\ \E requested \in Routes \union {Unclassified} :
          LET route == EffectiveRoute(requested)
          IN  /\ request[c].question = "blank" => requested = Unclassified
              /\ local' = [local EXCEPT ![c].requested = requested, ![c].effective = route]
              /\ todo' = [todo EXCEPT ![c] = PlanOfRoute(route, request[c].question)]
              /\ Decide(c, IF route = "notes_lookup" THEN VerdictAtStart(request[c].question)
                                                      ELSE Without("none"))
    /\ NoFault
    /\ UNCHANGED <<request, aborted, reply, latest, before, traceTables, deployment>>

\* _rewrite never raises: without a usable rewrite the question itself is
\* searched, in all the notes.
Rewrite(c) ==
    /\ AtStep(c, "rewrite")
    /\ \E raw \in RawRewrites :
          local' = [local EXCEPT ![c].rewritten = RewriterReads(raw).rewritten,
                                 ![c].window = RewriterReads(raw).window]
    /\ GoOn(c) /\ NoFault
    /\ UNCHANGED <<request, aborted, verdict, reply, latest, before, traceTables, deployment>>

\* _rewrite_outward never raises either; it only words the search.
RewriteOutward(c) ==
    /\ AtStep(c, "outward")
    /\ GoOn(c) /\ NoFault
    /\ UNCHANGED <<request, aborted, local, verdict, reply, latest, before, traceTables, deployment>>

\* knowledge.search: usable, unusable or down (an empty response).
Search(c) ==
    /\ AtStep(c, "search")
    /\ \E response \in SearchResponses :
          local' = [local EXCEPT ![c].offered = KnowledgeReads(response)]
    /\ GoOn(c) /\ NoFault
    /\ UNCHANGED <<request, aborted, verdict, reply, latest, before, traceTables, deployment>>

AtGenerate(c, route) ==
    AtStep(c, "generate") /\ Kind(c) = "chat" /\ local[c].effective = route

GenerateNotesPlusModel(c) ==
    /\ AtGenerate(c, "notes_plus_model")
    /\ \/ Unavailable(c)
       \/ \E raw \in RawAnswers(NotesPlusModelContents) :
             IF Raises(raw) THEN RaiseUncaught(c)
             ELSE Accept(c, ParseNotesPlusModel(raw, local[c].context))
    /\ UNCHANGED <<request, local, reply, latest, before, traceTables, deployment>>

GenerateNotesPlusKnowledge(c) ==
    /\ AtGenerate(c, "notes_plus_knowledge")
    /\ \/ Unavailable(c)
       \/ \E raw \in RawAnswers(NotesPlusKnowledgeContents) :
             IF Raises(raw) THEN RaiseUncaught(c)
             ELSE Accept(c, ParseNotesPlusKnowledge(raw, local[c].context, local[c].offered))
    /\ UNCHANGED <<request, local, reply, latest, before, traceTables, deployment>>

GenerateModelOnly(c) ==
    /\ AtGenerate(c, "model_only")
    /\ \/ Unavailable(c)
       \/ \E raw \in {Malformed} \union ModelOnlyContents : Accept(c, ParseModelOnly(raw))
    /\ UNCHANGED <<request, local, reply, latest, before, traceTables, deployment>>

\* Defect: the decision does not name the query of a fallback.
QueryRefOnSuccess(c) == local[c].hasQuery /\ verdict[c].fallback = "none"

QueryRef(c) == local[c].hasQuery

PersistDecision(c) ==
    /\ AtStep(c, "decide") /\ CanSaveDecision(c, QueryRef(c))
    /\ SaveDecision(c, local[c].requested, local[c].effective, QueryRef(c))
    /\ IF local[c].hasQuery THEN GoOn(c) ELSE SkipTo(c, "send")
    /\ NoFault
    /\ UNCHANGED <<request, aborted, local, verdict, reply, latest, before, deployment>>

PersistRewrite(c) ==
    /\ AtStep(c, "log_rewrite") /\ CanSaveRewrite(c)
    /\ SaveRewrite(c, local[c].rewritten)
    /\ GoOn(c) /\ NoFault
    /\ UNCHANGED <<request, aborted, local, verdict, reply, latest, before, deployment>>

PersistSearch(c) ==
    /\ AtStep(c, "log_search") /\ CanSaveSearch(c)
    /\ SaveSearch(c, Cardinality(local[c].offered))
    /\ GoOn(c) /\ NoFault
    /\ UNCHANGED <<request, aborted, local, verdict, reply, latest, before, deployment>>

SendChat(c) ==
    /\ AtStep(c, "send") /\ Kind(c) = "chat"
    /\ Tell(c, ChatReply(local[c].requested, local[c].effective, verdict[c],
                         Blank(c), local[c].context # <<>>))

ChatStep(c) ==
    \/ Classify(c) \/ Rewrite(c) \/ RewriteOutward(c) \/ Search(c)
    \/ GenerateNotesPlusModel(c) \/ GenerateNotesPlusKnowledge(c) \/ GenerateModelOnly(c)
    \/ PersistDecision(c) \/ PersistRewrite(c) \/ PersistSearch(c) \/ SendChat(c)
=============================================================================
