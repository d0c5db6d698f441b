----------------------------- MODULE TraceStore -----------------------------
(***************************************************************************)
(* The provenance tables of the Postgres store: what is written about a    *)
(* question while it is answered.  As in DiaryStore a row is named by the  *)
(* call that inserts it, one operator is one committed transaction, and    *)
(* CanX is what the constraints of the schema demand of X.                 *)
(***************************************************************************)
EXTENDS Corpus, Fusion

CONSTANTS MaxCalls, Communities

\* A bot serves one configured community at least.
ASSUME TraceStoreAssumption == MaxCalls \in Nat /\ Communities # {}

Calls == 1..MaxCalls

Fallbacks == {"none", "no_evidence", "weak_evidence", "ambiguous",
              "provider_unavailable", "parse_failure"}
Routes == {"notes_lookup", "notes_plus_model", "notes_plus_knowledge", "model_only"}
NotesPlusRoutes == {"notes_plus_model", "notes_plus_knowledge"}
Unclassified == "unclassified"

VARIABLES
    queries,    \* queries: the outcome of a call, known before it is told
    hits,       \* retrieval_hits: what each leg returned
    traces,     \* answer_traces: the answer and the context it was given
    decisions,  \* chat_route_decisions; hasQuery: query_id is not null
    rewrites,   \* chat_query_rewrites; rewritten: rewritten_query is not null
    searches    \* chat_knowledge_searches; results: result_count

traceTables == <<queries, hits, traces, decisions, rewrites, searches>>

TraceStoreTypeOK ==
    /\ queries \subseteq [call : Calls, community : Communities, fallback : Fallbacks]
    /\ hits \subseteq [call : Calls, leg : Legs, rank : 1..(2 * CandidateK), chunk : Chunks]
    /\ \A t \in traces :
          /\ t.call \in Calls /\ t.fallback \in Fallbacks
          /\ t.context \in Rankings(Chunks)
    /\ decisions \subseteq [call : Calls, requested : Routes \union {Unclassified},
                            effective : Routes, hasQuery : BOOLEAN]
    /\ rewrites \subseteq [call : Calls, rewritten : BOOLEAN]
    /\ \A s \in searches : s.call \in Calls /\ s.results \in Nat

TraceStoreInit ==
    /\ queries = {} /\ hits = {} /\ traces = {}
    /\ decisions = {} /\ rewrites = {} /\ searches = {}

QueryOf(c) == {q \in queries : q.call = c}
HitsOf(c) == {h \in hits : h.call = c}
TraceOf(c) == {t \in traces : t.call = c}
DecisionOf(c) == {d \in decisions : d.call = c}

(***************************************************************************)
(* Writes.                                                                 *)
(***************************************************************************)
SaveQuery(c, community, fallback) ==
    /\ queries' = queries \union {[call |-> c, community |-> community, fallback |-> fallback]}
    /\ UNCHANGED <<hits, traces, decisions, rewrites, searches>>

\* Defect: no foreign key from retrieval_hits to event_chunks.
CanSaveDanglingHits(c, rows) == QueryOf(c) # {}

CanSaveHits(c, rows) ==
    /\ QueryOf(c) # {}
    /\ \A h \in rows : h.chunk \in Rows
    /\ \A g, h \in rows : g.leg = h.leg /\ g.chunk = h.chunk => g = h

SaveHits(c, rows) ==
    /\ hits' = hits \union
         {[call |-> c, leg |-> h.leg, rank |-> h.rank, chunk |-> h.chunk] : h \in rows}
    /\ UNCHANGED <<queries, traces, decisions, rewrites, searches>>

CanSaveTrace(c) == QueryOf(c) # {} /\ TraceOf(c) = {}

SaveTrace(c, fallback, context) ==
    /\ traces' = traces \union {[call |-> c, fallback |-> fallback, context |-> context]}
    /\ UNCHANGED <<queries, hits, decisions, rewrites, searches>>

CanSaveDecision(c, hasQuery) == hasQuery => QueryOf(c) # {}

SaveDecision(c, requested, effective, hasQuery) ==
    /\ decisions' = decisions \union
         {[call |-> c, requested |-> requested, effective |-> effective, hasQuery |-> hasQuery]}
    /\ UNCHANGED <<queries, hits, traces, rewrites, searches>>

CanSaveRewrite(c) == DecisionOf(c) # {} /\ \A w \in rewrites : w.call # c

SaveRewrite(c, rewritten) ==
    /\ rewrites' = rewrites \union {[call |-> c, rewritten |-> rewritten]}
    /\ UNCHANGED <<queries, hits, traces, decisions, searches>>

CanSaveSearch(c) == DecisionOf(c) # {} /\ \A s \in searches : s.call # c

SaveSearch(c, results) ==
    /\ searches' = searches \union {[call |-> c, results |-> results]}
    /\ UNCHANGED <<queries, hits, traces, decisions, rewrites>>

\* What hard_delete_source_message does to these tables: the hits on the
\* chunk go; the context_chunk_ids of answer_traces are an array, not a
\* reference, and stay, as does the answer text.
DeleteHitsOf(k) ==
    /\ hits' = {h \in hits : h.chunk # k}
    /\ UNCHANGED <<queries, traces, decisions, rewrites, searches>>
=============================================================================
