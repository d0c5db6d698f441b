---------------------------- MODULE Conversation ----------------------------
(***************************************************************************)
(* The answering side of the diary as a whole: concurrent /ask, /chat and  *)
(* /sources calls over notes that are captured, edited, deleted and        *)
(* hard-deleted meanwhile (Corpus), with store calls that raise, providers *)
(* that stay down and a process that is killed and restarted.              *)
(***************************************************************************)
EXTENDS RoutedChat

CONSTANTS
    Kinds,      \* the commands sent
    Meanwhile   \* TRUE: notes change, and are hard-deleted, during calls

ASSUME ConversationAssumption ==
    /\ Kinds \subseteq {"ask", "chat", "sources"}
    /\ Meanwhile \in BOOLEAN

\* Hard deletes whose transaction is open, with the hits the first of its
\* statements found.
VARIABLE erasing

vars == <<corpus, traceTables, deployment, callVars, latest, erasing, faultVars>>

TypeOK ==
    /\ CorpusTypeOK
    /\ TraceStoreTypeOK
    /\ AnsweringTypeOK
    /\ FaultsTypeOK
    /\ \A e \in erasing : e.chunk \in Chunks /\ e.seen \subseteq hits

Init ==
    /\ CorpusInit
    /\ TraceStoreInit
    /\ AnsweringInit
    /\ FaultsInit
    /\ erasing = {}

-----------------------------------------------------------------------------
BeginCall(c) ==
    /\ \E k \in Communities :
          \/ "ask" \in Kinds /\ \E q \in Questions : Ask(c, k, q)
          \/ "chat" \in Kinds /\ \E q \in Questions : Chat(c, k, q)
          \/ "sources" \in Kinds /\ Sources(c, k)
    /\ UNCHANGED <<corpus, erasing>>

CallStep(c) ==
    /\ AnsweringStep(c) \/ ChatStep(c)
    /\ UNCHANGED <<corpus, erasing>>

CallFails(c) ==
    /\ StoreCallFails(c)
    /\ UNCHANGED <<corpus, erasing>>

\* The capture side; what it may do to a chunk is DiarySystem's business.
NotesStep(k) ==
    /\ Meanwhile \/ InFlight = {}
    /\ SaveChunkRow(k) \/ IndexChunk(k) \/ RetireChunk(k)
    /\ UNCHANGED <<traceTables, deployment, callVars, latest, erasing, faultVars>>

\* hard_delete_source_message deletes the hits on the chunk first ...
BeginHardDelete(k) ==
    /\ Meanwhile
    /\ k \in Rows /\ erasing = {}
    /\ erasing' = {[chunk |-> k, seen |-> {h \in hits : h.chunk = k}]}
    /\ UNCHANGED <<corpus, traceTables, deployment, callVars, latest, faultVars>>

\* ... and its row later in the same transaction: a hit committed in between
\* still references the row, the delete is refused and all is rolled back.
FinishHardDelete(k) ==
    /\ \E e \in erasing :
          /\ e.chunk = k
          /\ IF {h \in hits : h.chunk = k} \subseteq e.seen
             THEN EraseChunk(k) /\ DeleteHitsOf(k)
             ELSE UNCHANGED <<corpus, traceTables>>
    /\ erasing' = {}
    /\ UNCHANGED <<deployment, callVars, latest, faultVars>>

\* The process dies and comes back: calls and cache are gone.
Restart ==
    /\ StoreFault
    /\ todo' = [c \in Calls |-> <<>>]
    /\ aborted' = aborted \union InFlight
    /\ latest' = [k \in Communities |-> NotAsked]
    /\ erasing' = {}
    /\ UNCHANGED <<corpus, traceTables, deployment, request, local, verdict, reply, before>>

Rest == InFlight = {} /\ erasing = {} /\ UNCHANGED vars

Next ==
    \/ \E c \in Calls : BeginCall(c) \/ CallStep(c) \/ CallFails(c)
    \/ \E k \in Chunks : NotesStep(k) \/ BeginHardDelete(k) \/ FinishHardDelete(k)
    \/ Restart
    \/ Rest

Spec == Init /\ [][Next]_vars

\* Handler threads are scheduled, and every provider call returns or raises
\* (Resilience).
FairSpec == Spec /\ \A c \in Calls : WF_vars(CallStep(c))

-----------------------------------------------------------------------------
(***************************************************************************)
(* What holds whatever interleaves, fails or is erased.                    *)
(***************************************************************************)
\* R-3, R-4, R-8, I-9 and D-099: text told as coming from the notes cites at
\* least one chunk, and only chunks the model was given, of the asking
\* community, that were not yet retired when the question came in.
RepliesAreGrounded ==
    \A c \in Replied : Kind(c) \in {"ask", "chat"} =>
        /\ "notes" \in reply[c].planes => reply[c].shown # {}
        /\ reply[c].shown \subseteq Context(c) \ before[c].gone
        /\ \A k \in reply[c].shown : HomeOf[k] = request[c].community

\* R-5: what the user is told is on record, under one fallback: its query,
\* its trace with the context the model was given, and every hit of either
\* leg on a chunk that still exists.
RepliesAreTraced ==
    \A c \in Replied : Kind(c) \in {"ask", "chat"} /\ local[c].hasQuery =>
        /\ \E q \in QueryOf(c), t \in TraceOf(c) :
              /\ q.fallback = t.fallback /\ q.fallback = verdict[c].fallback
              /\ q.community = request[c].community
              /\ t.context = local[c].context
        /\ LET found == [dense |-> local[c].dense, sparse |-> local[c].sparse,
                         merged |-> local[c].context]
           IN  \A leg \in Legs : \A r \in DOMAIN found[leg] :
                  found[leg][r] \in Rows =>
                      \E h \in HitsOf(c) : h.leg = leg /\ h.rank = r /\ h.chunk = found[leg][r]

\* Hard delete removes the hits of the chunk, and none comes after.
ErasedLeavesNoHits == \A h \in hits : h.chunk \in Rows

\* A query is left without its trace only by a failed store call, a killed
\* process or a hard delete of something it found: never by a provider, the
\* model's output or an edit.
UntracedIsExplained ==
    \A q \in queries :
        \/ TraceOf(q.call) # {}
        \/ q.call \in InFlight
        \/ failures > 0
        \/ \E h \in FoundRows(q.call) : h.chunk \notin Rows

\* "/sources shows the chunks of the chat's most recent /ask turn" (R-6): the
\* cache of a community is what one of its /ask calls cited, and not one
\* answered before another, answered since, had even begun.
SourcesAreLatest ==
    \A k \in Communities : latest[k].asked =>
        \E c \in Calls :
            /\ Kind(c) = "ask" /\ request[c].community = k
            /\ latest[k].chunks = CitedInOrder(c)
            /\ \A d \in Replied :
                  Kind(d) = "ask" /\ request[d].community = k => c \notin before[d].answered

\* Fusion never prefers the worse chunk: one that both legs rank no lower
\* than another (absence being lowest), or that both legs found where only
\* one found the other, comes before it, or both are left out.  The second
\* half needs candidate_k < k + 2; the defaults are 20 and 60.
RankedBy(k, ranking) == IF k \in Range(ranking) THEN Rank(k, ranking) ELSE CandidateK + 1

FoundByBoth(k, l) == k \in Range(l.dense) \intersect Range(l.sparse)

Better(b, w, l) ==
    \/ /\ RankedBy(b, l.dense) <= RankedBy(w, l.dense)
       /\ RankedBy(b, l.sparse) <= RankedBy(w, l.sparse)
       /\ b # w
    \/ FoundByBoth(b, l) /\ ~FoundByBoth(w, l) /\ CandidateK < RrfK + 2

NoBetterChunkLeftOut ==
    \A c \in Calls : \A b \in Chunks : \A w \in Context(c) :
        Better(b, w, local[c])
            => b \in Context(c) /\ Rank(b, local[c].context) < Rank(w, local[c].context)

-----------------------------------------------------------------------------
(***************************************************************************)
(* What holds of /chat.                                                    *)
(***************************************************************************)
\* R-11: an answered /chat has one decision row, which names the query it was
\* answered by, and the rows of what its route did beside: a rewrite on the
\* mixed routes, a search on the knowledge route.  A rewrite recorded as
\* failed has not narrowed what was searched.
ChatsAreAccounted ==
    \A c \in Replied : Kind(c) = "chat" =>
        /\ \E d \in DecisionOf(c) :
              /\ DecisionOf(c) = {d}
              /\ d.effective = local[c].effective /\ d.requested = local[c].requested
              /\ d.hasQuery <=> QueryOf(c) # {}
              /\ d.effective \in NotesPlusRoutes /\ d.hasQuery
                   <=> \E w \in rewrites : w.call = c /\ (w.rewritten \/ local[c].window = Chunks)
              /\ d.effective = "notes_plus_knowledge" /\ d.hasQuery
                   <=> \E s \in searches : s.call = c /\ s.results = Cardinality(local[c].offered)

\* R-6: a chat that was not answered the way it asked for says so; general
\* knowledge is told as such, never as the notes, and never by the route that
\* answers from the notes; web text carries references its search returned.
RoutesAreHonest ==
    \A c \in Replied : Kind(c) = "chat" =>
        /\ reply[c].rerouted <=> local[c].requested # local[c].effective
        /\ local[c].effective = "notes_lookup" => reply[c].planes \subseteq {"notes"}
        /\ local[c].effective = "model_only" => reply[c].planes \subseteq {"model"}
        /\ "web" \in reply[c].planes =>
              /\ deployment.knowledge
              /\ verdict[c].refs # {} /\ verdict[c].refs \subseteq local[c].offered

\* Every call ends, with a reply or an error.
EveryCallEnds == \A c \in Calls : Begun(c) ~> c \in Replied \union aborted

-----------------------------------------------------------------------------
(***************************************************************************)
(* What the documentation says and the code does not do.                   *)
(***************************************************************************)
\* /sources lists what an answer rested on; "both NO_EVIDENCE paths" cache an
\* empty tuple (D-099, D-100).
SourcesWereAnswered ==
    \A s \in Replied : Kind(s) = "sources" /\ reply[s].shown # {} =>
        \E c \in Calls :
            /\ Kind(c) = "ask" /\ request[c].community = request[s].community
            /\ verdict[c].cites = reply[s].shown
            /\ verdict[c].fallback # "no_evidence"

\* "Every call - every contour - persists exactly one ChatRouteDecision row"
\* (routed_chat.py), whatever its providers do.
EveryChatIsDecided ==
    \A c \in Calls : Kind(c) = "chat" /\ Begun(c) /\ c \notin InFlight /\ failures = 0
        => DecisionOf(c) # {}
=============================================================================
