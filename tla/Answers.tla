------------------------------ MODULE Answers -------------------------------
(***************************************************************************)
(* The pure part of answering: what the parsers make of a model's output,  *)
(* what the adapters make of a tool call or a search response, and which   *)
(* reply the dispatcher formats.                                           *)
(*                                                                         *)
(* Texts are reduced to whether they are empty.  A text shown to the user  *)
(* is one of three planes: "notes" (from the saved notes), "model" (the    *)
(* model's general knowledge), "web" (from the knowledge source).          *)
(***************************************************************************)
EXTENDS TraceStore

CONSTANTS
    Refs,       \* urls a knowledge source may return
    MaxResults  \* excerpts read from one search response

ASSUME AnswersAssumption == MaxResults \in Nat \ {0}

Planes == {"notes", "model", "web"}
Markers == {"confident", "uncertain", "no_evidence", "ambiguous"}

\* A JSON object of the demanded fields and types; JSON with a field missing,
\* unexpected or ill-typed, an unknown marker, or no JSON object at all; or an
\* object whose marker is a JSON array or object.
Malformed == [shape |-> "malformed"]
UnhashableMarker == [shape |-> "unhashable_marker"]

RawAnswers(contents) == {Malformed, UnhashableMarker} \union contents

LookupContents ==
    [shape : {"object"}, notes : BOOLEAN, cites : SUBSET Chunks, marker : Markers]
NotesPlusModelContents ==
    [shape : {"object"}, notes : BOOLEAN, cites : SUBSET Chunks,
     marker : Markers \ {"ambiguous"}, model : BOOLEAN]
NotesPlusKnowledgeContents ==
    [shape : {"object"}, notes : BOOLEAN, cites : SUBSET Chunks,
     marker : Markers \ {"ambiguous"}, model : BOOLEAN, web : BOOLEAN, refs : SUBSET Refs]
ModelOnlyContents == [shape : {"object"}, model : BOOLEAN]

(***************************************************************************)
(* Verdicts: what a call goes on with once the model has answered.         *)
(***************************************************************************)
Verdicts == [fallback : Fallbacks, cites : SUBSET Chunks, refs : SUBSET Refs,
             planes : SUBSET Planes]

Without(fallback) == [fallback |-> fallback, cites |-> {}, refs |-> {}, planes |-> {}]

PlanesOf(notes, model, web) ==
    {p \in Planes : [notes |-> notes, model |-> model, web |-> web][p]}

MarkerFallback == [confident |-> "none", uncertain |-> "weak_evidence",
                   no_evidence |-> "no_evidence", ambiguous |-> "ambiguous"]

\* Looking an array or object up in the frozenset of markers is a TypeError,
\* which no handler of the service catches.
Raises(raw) == raw.shape = "unhashable_marker"

\* parse_structured_answer accepts; an empty text or a no_evidence marker
\* with citations is accepted too.
WellFormedAnswer(raw, context) ==
    /\ raw.shape = "object"
    /\ raw.cites \subseteq Range(context)
    /\ raw.cites = {} => raw.marker = "no_evidence"

ParseAnswer(raw, context) ==
    IF WellFormedAnswer(raw, context)
    THEN [fallback |-> MarkerFallback[raw.marker], cites |-> raw.cites, refs |-> {},
          planes |-> PlanesOf(raw.notes, FALSE, FALSE)]
    ELSE Without("parse_failure")

\* The notes segment is whole or absent.
NotesSegmentAgrees(raw) ==
    IF raw.marker = "no_evidence" THEN raw.cites = {} /\ ~raw.notes
                                  ELSE raw.cites # {} /\ raw.notes

\* Defect: the agreement of the segments is left to the prompt.
ParseSegmentsAsGiven(raw, context) ==
    IF raw.shape = "object" /\ raw.cites \subseteq Range(context)
    THEN [fallback |-> MarkerFallback[raw.marker], cites |-> raw.cites, refs |-> {},
          planes |-> PlanesOf(raw.notes, raw.model, FALSE)]
    ELSE Without("parse_failure")

ParseNotesPlusModel(raw, context) ==
    IF raw.shape = "object" /\ raw.cites \subseteq Range(context) /\ NotesSegmentAgrees(raw)
    THEN [fallback |-> MarkerFallback[raw.marker], cites |-> raw.cites, refs |-> {},
          planes |-> PlanesOf(raw.notes, raw.model, FALSE)]
    ELSE Without("parse_failure")

ParseNotesPlusKnowledge(raw, context, offered) ==
    IF /\ raw.shape = "object"
       /\ raw.cites \subseteq Range(context)
       /\ raw.refs \subseteq offered
       /\ NotesSegmentAgrees(raw)
       /\ raw.web <=> raw.refs # {}
    THEN [fallback |-> MarkerFallback[raw.marker], cites |-> raw.cites, refs |-> raw.refs,
          planes |-> PlanesOf(raw.notes, raw.model, raw.web)]
    ELSE Without("parse_failure")

\* One string field is read, whatever else the object holds.
ParseModelOnly(raw) ==
    IF raw.shape = "object"
    THEN [Without("none") EXCEPT !.planes = PlanesOf(FALSE, raw.model, FALSE)]
    ELSE Without("parse_failure")

(***************************************************************************)
(* The adapters of /chat.  A provider that stays down after the bounded    *)
(* retries, or answers with something unusable, never stops the call.      *)
(***************************************************************************)
\* What the rewriter's tool call names: the words to search ("marks" are
\* punctuation only, which normalize_query strips to nothing) and a date
\* window, given as the chunks whose note_date lies in it.
RawRewrites ==
    [tool : {"named"}, query : {"words", "marks"}, dates : {"none", "valid"},
     window : SUBSET Chunks]
    \union [tool : {"unusable", "down"}]

RewriterReads(raw) ==
    IF raw.tool = "named" /\ raw.query = "words"
    THEN [rewritten |-> TRUE, window |-> IF raw.dates = "valid" THEN raw.window ELSE Chunks]
    ELSE [rewritten |-> FALSE, window |-> Chunks]

\* A search response lists entries, some unusable; one unusable entry among
\* the first max_results spoils the response, one beyond them is not read.
\* No url is listed twice.
Unusable == "unusable"
SearchResponses ==
    {s \in SeqOf(Refs \union {Unusable}, MaxResults + 1) :
        IsInjective(SelectSeq(s, LAMBDA entry : entry # Unusable))}

KnowledgeReads(response) ==
    LET read == Range(SubSeq(response, 1, Min({MaxResults, Len(response)})))
    IN  IF Unusable \in read THEN {} ELSE read

(***************************************************************************)
(* Replies.  shown: the chunks whose text the reply rests on or lists.     *)
(***************************************************************************)
NoReply == [kind |-> "none_yet", planes |-> {}, shown |-> {}, rerouted |-> FALSE]

Telling(kind) == [NoReply EXCEPT !.kind = kind]

AnswerKinds == [none |-> "answer", weak_evidence |-> "weak", ambiguous |-> "ambiguous"]

AnswerReply(v, blank, evidence) ==
    CASE v.fallback \in DOMAIN AnswerKinds ->
            [Telling(AnswerKinds[v.fallback]) EXCEPT !.planes = v.planes, !.shown = v.cites]
      [] v.fallback = "no_evidence" ->
            Telling(IF blank THEN "no_query" ELSE IF evidence THEN "ungrounded" ELSE "no_match")
      [] OTHER -> Telling(v.fallback)

\* The two mixed routes: a notes segment unless there is no evidence, then a
\* web segment and a model segment if there is text for them.
MixedReply(v) ==
    CASE v.fallback \in {"provider_unavailable", "parse_failure"} -> Telling(v.fallback)
      [] v.fallback = "no_evidence" ->
            [Telling("no_notes") EXCEPT !.planes = v.planes \ {"notes"}]
      [] OTHER ->
            [Telling(IF v.fallback = "weak_evidence" THEN "weak" ELSE "answer")
                EXCEPT !.planes = v.planes, !.shown = v.cites]

ChatReply(requested, effective, v, blank, evidence) ==
    IF effective \in NotesPlusRoutes THEN MixedReply(v)
    ELSE [AnswerReply(v, blank, evidence) EXCEPT !.rerouted = requested # effective]
=============================================================================
