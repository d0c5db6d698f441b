-------------------------- MODULE Answering_proofs --------------------------
(***************************************************************************)
(* The inductive invariant of the answering side: what is true of a call   *)
(* at each point of its plan, for every number of chunks, calls and        *)
(* communities, every depth of retrieval and every fault budget.           *)
(***************************************************************************)
EXTENDS Conversation, Fusion_proofs

-----------------------------------------------------------------------------
(***************************************************************************)
(* Plans.  Every plan takes its steps in this order.                       *)
(***************************************************************************)
Order == [classify |-> 0, rewrite |-> 1, embed |-> 2, dense |-> 3, sparse |-> 4, outward |-> 5,
          search |-> 6, generate |-> 7, query |-> 8, hits |-> 9, trace |-> 10, decide |-> 11,
          remember |-> 11, log_rewrite |-> 12, log_search |-> 13, send |-> 14, recall |-> 14]

Steps == DOMAIN Order

InOrder(plan) ==
    /\ plan \in Seq(Steps)
    /\ \A i, j \in DOMAIN plan : i < j => Order[plan[i]] < Order[plan[j]]

Ahead(c) == Range(todo[c])

AnswerSteps == {"embed", "dense", "sparse", "generate", "query", "hits", "trace"}

StepsOfRoute ==
    [notes_lookup |-> AnswerSteps \union {"decide", "send"},
     model_only |-> {"generate", "query", "trace", "decide", "send"},
     notes_plus_model |-> AnswerSteps \union {"rewrite", "decide", "log_rewrite", "send"},
     notes_plus_knowledge |-> AnswerSteps \union {"rewrite", "outward", "search", "decide",
                                                  "log_rewrite", "log_search", "send"}]

Undecided(c) == AtStep(c, "classify")

StepsOf(c) ==
    CASE Kind(c) = "ask" -> AnswerSteps \union {"remember", "send"}
      [] Kind(c) = "sources" -> {"recall"}
      [] OTHER -> IF Undecided(c) THEN {"classify"} ELSE StepsOfRoute[local[c].effective]

\* Begun, and neither raised nor killed.
Live(c) == Begun(c) /\ c \notin aborted

\* What is ahead of a call is an end of the plan of its kind and route.
OnPlan(c) ==
    /\ InOrder(todo[c])
    /\ Live(c) =>
          /\ Ahead(c) \subseteq StepsOf(c)
          /\ \A x \in Ahead(c), y \in StepsOf(c) : Order[x] < Order[y] => y \in Ahead(c)
    /\ todo[c] # <<>> => Live(c) /\ c \notin Replied
    /\ c \in Replied \union aborted => Begun(c)
    /\ c \in Replied => c \notin aborted

(***************************************************************************)
(* Types.                                                                  *)
(***************************************************************************)
Locals ==
    [requested : Routes \union {Unclassified}, effective : Routes, rewritten : BOOLEAN,
     window : SUBSET Chunks, dense : Rankings(Chunks), sparse : Rankings(Chunks),
     context : Rankings(Chunks), offered : SUBSET Refs, hasQuery : BOOLEAN]

ReplyKinds ==
    {"none_yet", "answer", "weak", "ambiguous", "no_query", "ungrounded", "no_match",
     "no_notes", "sources_none", "sources_none_cited", "sources"} \union Fallbacks

Replies == [kind : ReplyKinds, planes : SUBSET Planes, shown : SUBSET Chunks, rerouted : BOOLEAN]

TypeInv ==
    /\ CorpusTypeOK
    /\ TraceStoreTypeOK
    /\ FaultsTypeOK
    /\ deployment \in Deployments
    /\ request \in [Calls -> Requests]
    /\ DOMAIN todo = Calls
    /\ aborted \subseteq Calls
    /\ local \in [Calls -> Locals]
    /\ verdict \in [Calls -> Verdicts]
    /\ reply \in [Calls -> Replies]
    /\ DOMAIN latest = Communities
    /\ \A k \in Communities :
          DOMAIN latest[k].chunks \subseteq 1..TopK /\ Range(latest[k].chunks) \subseteq Chunks
    /\ before \in [Calls -> [answered : SUBSET Calls, gone : SUBSET Chunks]]
    /\ \A e \in erasing : e.chunk \in Chunks /\ e.seen \subseteq hits

(***************************************************************************)
(* What a call keeps.                                                      *)
(***************************************************************************)
\* Nothing is known or recorded of a call that has not begun or chosen a
\* route.
Untouched(c) ==
    ~Begun(c) \/ Undecided(c) =>
        local[c] = NoLocals /\ verdict[c] = Without("none")

\* Retrieval, once it is over.
Retrieved(c) ==
    /\ "sparse" \in Ahead(c) => local[c].context = <<>>
    /\ local[c].context = <<>> \/ local[c].context = Fuse(local[c].dense, local[c].sparse)
    /\ Kind(c) = "chat" /\ local[c].effective = "model_only"
          => local[c].dense = <<>> /\ local[c].sparse = <<>> /\ local[c].context = <<>>

\* Without retrieval there is no query, and little more to do.
Unanswered(c) ==
    ~local[c].hasQuery =>
        /\ ~Undecided(c)
        /\ Ahead(c) \subseteq {"decide", "log_rewrite", "log_search", "remember", "send"}
        /\ "decide" \notin Ahead(c) => Ahead(c) \subseteq {"remember", "send"}

FoundChunks(c) == Found(local[c].dense, local[c].sparse)

\* Only chunks of the community, saved, and not retired when the call began.
FoundInPlace(c) ==
    /\ before[c].gone \subseteq Gone
    /\ before[c].answered \subseteq Replied
    /\ \A k \in FoundChunks(c) :
          /\ HomeOf[k] = request[c].community
          /\ corpus[k] # "none" /\ k \notin before[c].gone

\* The route is the one asked for or notes_lookup, and can be taken; an
\* unsuccessful rewrite searches all the notes.
Routed(c) ==
    /\ local[c].effective \in {local[c].requested, "notes_lookup"}
    /\ local[c].effective = "notes_plus_knowledge" => deployment.knowledge
    /\ local[c].rewritten \/ local[c].window = Chunks
    /\ IsFiniteSet(local[c].offered)
    /\ Kind(c) = "ask" => local[c].effective = "notes_lookup"

\* The outcome: none before the model was asked, and then one a parser of the
\* route accepts.
Concluded(c) ==
    /\ "generate" \in Ahead(c) => verdict[c] = Without("none")
    /\ verdict[c].cites \subseteq Context(c)
    /\ "notes" \in verdict[c].planes /\ verdict[c].fallback # "no_evidence"
          => verdict[c].cites # {}
    /\ local[c].effective = "notes_lookup" => verdict[c].planes \subseteq {"notes"}
    /\ local[c].effective = "model_only" => verdict[c].planes \subseteq {"model"}
    /\ "web" \in verdict[c].planes =>
          /\ local[c].effective = "notes_plus_knowledge"
          /\ verdict[c].refs # {} /\ verdict[c].refs \subseteq local[c].offered

(***************************************************************************)
(* What is recorded of a call.                                             *)
(***************************************************************************)
RewritesOf(c) == {w \in rewrites : w.call = c}
SearchesOf(c) == {s \in searches : s.call = c}

\* Nothing before its step, ...
NotYetRecorded(c) ==
    /\ ~Begun(c) \/ Kind(c) = "sources" \/ Undecided(c) \/ "query" \in Ahead(c)
          \/ ~local[c].hasQuery => QueryOf(c) = {}
    /\ ~Begun(c) \/ Undecided(c) \/ "decide" \in Ahead(c) => DecisionOf(c) = {}
    /\ ~Begun(c) \/ Undecided(c) \/ "decide" \in Ahead(c) \/ "log_rewrite" \in Ahead(c)
          \/ ~local[c].hasQuery \/ local[c].effective \notin NotesPlusRoutes => RewritesOf(c) = {}
    /\ ~Begun(c) \/ Undecided(c) \/ "decide" \in Ahead(c) \/ "log_search" \in Ahead(c)
          \/ ~local[c].hasQuery \/ local[c].effective # "notes_plus_knowledge"
          => SearchesOf(c) = {}

HitsRecorded(c) ==
    LET found == [dense |-> local[c].dense, sparse |-> local[c].sparse,
                  merged |-> local[c].context]
    IN  \A leg \in Legs : \A r \in DOMAIN found[leg] :
           found[leg][r] \in Rows =>
               \E h \in HitsOf(c) : h.leg = leg /\ h.rank = r /\ h.chunk = found[leg][r]

\* ... and what the call knows after it.
Recorded(c) ==
    Live(c) /\ ~Undecided(c) /\ Kind(c) \in {"ask", "chat"} /\ local[c].hasQuery =>
        /\ "query" \notin Ahead(c) =>
              \E q \in QueryOf(c) : /\ q.fallback = verdict[c].fallback
                                    /\ q.community = request[c].community
        /\ "hits" \notin Ahead(c) => HitsRecorded(c)
        /\ "trace" \notin Ahead(c) =>
              \E t \in TraceOf(c) : /\ t.fallback = verdict[c].fallback
                                    /\ t.context = local[c].context

Decision(c) == [call |-> c, requested |-> local[c].requested,
                effective |-> local[c].effective, hasQuery |-> local[c].hasQuery]

Accounted(c) ==
    Live(c) /\ ~Undecided(c) /\ Kind(c) = "chat" =>
        /\ "decide" \notin Ahead(c) => DecisionOf(c) = {Decision(c)}
        /\ local[c].hasQuery /\ local[c].effective \in NotesPlusRoutes
              /\ "decide" \notin Ahead(c) /\ "log_rewrite" \notin Ahead(c)
              => \E w \in RewritesOf(c) : w.rewritten = local[c].rewritten
        /\ local[c].hasQuery /\ local[c].effective = "notes_plus_knowledge"
              /\ "decide" \notin Ahead(c) /\ "log_search" \notin Ahead(c)
              => \E s \in SearchesOf(c) : s.results = Cardinality(local[c].offered)

\* A call that ended early with its query on record had a reason to.
Explained(c) ==
    c \in aborted /\ QueryOf(c) # {} =>
        \/ TraceOf(c) # {}
        \/ failures > 0
        \/ \E h \in FoundRows(c) : h.chunk \notin Rows

\* The reply tells the outcome.
Told(c) ==
    c \in Replied /\ Kind(c) \in {"ask", "chat"} =>
        /\ reply[c].shown \subseteq verdict[c].cites
        /\ reply[c].planes \subseteq verdict[c].planes
        /\ "notes" \in reply[c].planes => reply[c].shown # {}
        /\ Kind(c) = "chat" => (reply[c].rerouted <=> local[c].requested # local[c].effective)

CallInv(c) ==
    /\ OnPlan(c) /\ Untouched(c) /\ Retrieved(c) /\ Unanswered(c) /\ FoundInPlace(c) /\ Routed(c)
    /\ Concluded(c)
    /\ NotYetRecorded(c) /\ Recorded(c) /\ Accounted(c) /\ Explained(c) /\ Told(c)

(***************************************************************************)
(* The /sources cache.                                                     *)
(***************************************************************************)
AskOf(c, k) == Kind(c) = "ask" /\ request[c].community = k

Remembered(c) == Begun(c) /\ "remember" \notin Ahead(c)

CacheInv ==
    \A k \in Communities : latest[k].asked =>
        \E c \in Calls :
            /\ AskOf(c, k) /\ Remembered(c)
            /\ latest[k].chunks = CitedInOrder(c)
            /\ \A d \in Calls : AskOf(d, k) /\ Live(d) /\ Remembered(d)
                                   => c \notin before[d].answered

AnsweringInv == TypeInv /\ (\A c \in Calls : CallInv(c)) /\ CacheInv

-----------------------------------------------------------------------------
(***************************************************************************)
(* Plans as sequences.                                                     *)
(***************************************************************************)
\* The steps are ordered by number.
LEMMA OrderIsNumeric == \A x \in Steps : Order[x] \in 0..14
BY DEF Steps, Order

\* A sequence in order, by its parts.
LEMMA InOrderFacts ==
  ASSUME NEW plan, InOrder(plan)
  PROVE  /\ Len(plan) \in Nat /\ DOMAIN plan = 1..Len(plan)
         /\ \A i \in 1..Len(plan) : plan[i] \in Steps /\ Order[plan[i]] \in Nat
         /\ Range(plan) = {plan[i] : i \in 1..Len(plan)}
<1>1. plan \in Seq(Steps)
  BY DEF InOrder
<1>2. Len(plan) \in Nat /\ DOMAIN plan = 1..Len(plan)
  BY <1>1
<1>3. \A i \in 1..Len(plan) : plan[i] \in Steps
  BY <1>1
<1> QED  BY <1>2, <1>3, OrderIsNumeric DEF Range

\* Taking the first step leaves the others, all of them later.
LEMMA TailInOrder ==
  ASSUME NEW plan, InOrder(plan), plan # <<>>
  PROVE  /\ InOrder(Tail(plan))
         /\ Head(plan) \in Range(plan)
         /\ Range(Tail(plan)) = Range(plan) \ {Head(plan)}
         /\ \A y \in Range(plan) : y = Head(plan) \/ Order[Head(plan)] < Order[y]
<1>1. plan \in Seq(Steps) /\ Len(plan) \in Nat \ {0} /\ DOMAIN plan = 1..Len(plan)
  BY DEF InOrder
<1>2. Head(plan) = plan[1]
  BY <1>1
<1>3. /\ Tail(plan) \in Seq(Steps) /\ Len(Tail(plan)) = Len(plan) - 1
      /\ DOMAIN Tail(plan) = 1..(Len(plan) - 1)
      /\ \A i \in 1..(Len(plan) - 1) : Tail(plan)[i] = plan[i + 1]
  BY <1>1
<1>4. \A i, j \in 1..Len(plan) : i < j => Order[plan[i]] < Order[plan[j]]
  BY <1>1 DEF InOrder
<1>5. InOrder(Tail(plan))
  BY <1>1, <1>3, <1>4 DEF InOrder
<1>6. \A i \in 1..Len(plan) : Order[plan[i]] \in Nat
  BY InOrderFacts
<1>7. \A y \in Range(plan) : y = Head(plan) \/ Order[Head(plan)] < Order[y]
  BY <1>1, <1>2, <1>4 DEF Range
<1>8. \A i \in 2..Len(plan) : plan[i] # plan[1]
  BY <1>1, <1>4, <1>6
<1>9. ASSUME NEW y \in Range(Tail(plan))
      PROVE  y \in Range(plan) /\ y # Head(plan)
  <2>1. PICK i \in 1..(Len(plan) - 1) : Tail(plan)[i] = y
    BY <1>3 DEF Range
  <2>2. i + 1 \in 2..Len(plan) /\ i + 1 \in 1..Len(plan) /\ plan[i + 1] = y
    BY <1>1, <1>3, <2>1
  <2> QED  BY <1>1, <1>2, <1>8, <2>2 DEF Range
<1>10. ASSUME NEW y \in Range(plan), y # Head(plan)
       PROVE  y \in Range(Tail(plan))
  <2>1. PICK i \in 1..Len(plan) : plan[i] = y
    BY <1>1 DEF Range
  <2>2. i # 1
    BY <1>2, <1>10, <2>1
  <2>3. i - 1 \in 1..(Len(plan) - 1) /\ Tail(plan)[i - 1] = y
    <3>1. i - 1 \in 1..(Len(plan) - 1) /\ (i - 1) + 1 = i
      BY <1>1, <2>2
    <3> QED  BY <1>3, <2>1, <3>1
  <2> QED  BY <1>3, <2>3 DEF Range
<1>11. Head(plan) \in Range(plan)
  BY <1>1, <1>2 DEF Range
<1> QED  BY <1>5, <1>7, <1>9, <1>10, <1>11

\* Jumping to a step leaves it and the later ones.
LEMMA FromInOrder ==
  ASSUME NEW plan, InOrder(plan), NEW x \in Range(plan)
  PROVE  /\ InOrder(From(plan, x))
         /\ From(plan, x) # <<>> /\ Head(From(plan, x)) = x
         /\ Range(From(plan, x)) = {y \in Range(plan) : y = x \/ Order[x] < Order[y]}
<1> DEFINE i == CHOOSE i \in DOMAIN plan : plan[i] = x
           n == Len(plan)
           rest == SubSeq(plan, i, n)
<1>1. plan \in Seq(Steps) /\ n \in Nat /\ DOMAIN plan = 1..n
  BY DEF InOrder
<1>2. i \in 1..n /\ plan[i] = x
  BY <1>1 DEF Range
<1>3. From(plan, x) = rest
  BY DEF From
<1> HIDE DEF i
<1>4. /\ rest \in Seq(Steps) /\ Len(rest) = n - i + 1 /\ DOMAIN rest = 1..(n - i + 1)
      /\ \A j \in 1..(n - i + 1) : rest[j] = plan[i + j - 1]
  BY <1>1, <1>2
<1> HIDE DEF rest, n
<1>5. \A j, k \in 1..n : j < k => Order[plan[j]] < Order[plan[k]]
  BY <1>1 DEF InOrder
<1>6. \A j \in 1..n : Order[plan[j]] \in Nat
  BY InOrderFacts DEF n
<1>7. InOrder(rest)
  BY <1>1, <1>2, <1>4, <1>5 DEF InOrder
<1>8. rest # <<>> /\ Head(rest) = x
  BY <1>1, <1>2, <1>4
<1>9. \A j \in 1..n : j \in i..n <=> plan[j] = x \/ Order[x] < Order[plan[j]]
  BY <1>1, <1>2, <1>5, <1>6
<1>10. ASSUME NEW y \in Range(rest)
       PROVE  y \in Range(plan) /\ (y = x \/ Order[x] < Order[y])
  <2>1. PICK j \in 1..(n - i + 1) : rest[j] = y
    BY <1>4 DEF Range
  <2>2. i + j - 1 \in 1..n /\ i + j - 1 \in i..n /\ plan[i + j - 1] = y
    BY <1>1, <1>2, <1>4, <2>1
  <2> QED  BY <1>1, <1>9, <2>2 DEF Range
<1>11. ASSUME NEW y \in Range(plan), y = x \/ Order[x] < Order[y]
       PROVE  y \in Range(rest)
  <2>1. PICK j \in 1..n : plan[j] = y
    BY <1>1 DEF Range
  <2>2. j \in i..n
    BY <1>9, <1>11, <2>1
  <2>3. j - i + 1 \in 1..(n - i + 1) /\ i + (j - i + 1) - 1 = j
    BY <1>1, <1>2, <2>2
  <2>4. rest[j - i + 1] = y
    BY <1>4, <2>1, <2>3
  <2> QED  BY <1>4, <2>3, <2>4 DEF Range
<1> QED  BY <1>3, <1>7, <1>8, <1>10, <1>11

\* One plan after another.
LEMMA ConcatInOrder ==
  ASSUME NEW p, NEW q, InOrder(p), InOrder(q),
         \A x \in Range(p), y \in Range(q) : Order[x] < Order[y]
  PROVE  InOrder(p \o q) /\ Range(p \o q) = Range(p) \union Range(q)
<1>1. /\ p \in Seq(Steps) /\ Len(p) \in Nat /\ DOMAIN p = 1..Len(p)
      /\ q \in Seq(Steps) /\ Len(q) \in Nat /\ DOMAIN q = 1..Len(q)
  BY DEF InOrder
<1>2. /\ p \o q \in Seq(Steps) /\ DOMAIN (p \o q) = 1..(Len(p) + Len(q))
      /\ \A i \in 1..Len(p) : (p \o q)[i] = p[i]
      /\ \A i \in (Len(p) + 1)..(Len(p) + Len(q)) : (p \o q)[i] = q[i - Len(p)]
  BY <1>1
<1>3. /\ \A i, j \in 1..Len(p) : i < j => Order[p[i]] < Order[p[j]]
      /\ \A i, j \in 1..Len(q) : i < j => Order[q[i]] < Order[q[j]]
  BY <1>1 DEF InOrder
<1>4. \A i \in 1..Len(p), j \in 1..Len(q) : Order[p[i]] < Order[q[j]]
  BY <1>1 DEF Range
<1>5. InOrder(p \o q)
  <2> DEFINE s == p \o q
  <2> SUFFICES ASSUME NEW i \in DOMAIN s, NEW j \in DOMAIN s, i < j
               PROVE  Order[s[i]] < Order[s[j]]
    BY <1>2 DEF InOrder
  <2>1. CASE j <= Len(p)
    <3>1. i \in 1..Len(p) /\ j \in 1..Len(p)
      BY <1>1, <1>2, <2>1
    <3> QED  BY <1>2, <1>3, <3>1
  <2>2. CASE i > Len(p)
    <3>1. /\ i \in (Len(p) + 1)..(Len(p) + Len(q)) /\ j \in (Len(p) + 1)..(Len(p) + Len(q))
          /\ i - Len(p) \in 1..Len(q) /\ j - Len(p) \in 1..Len(q) /\ i - Len(p) < j - Len(p)
      BY <1>1, <1>2, <2>2
    <3> QED  BY <1>2, <1>3, <3>1
  <2>3. CASE i <= Len(p) /\ j > Len(p)
    <3>1. i \in 1..Len(p) /\ j \in (Len(p) + 1)..(Len(p) + Len(q)) /\ j - Len(p) \in 1..Len(q)
      BY <1>1, <1>2, <2>3
    <3> QED  BY <1>2, <1>4, <3>1
  <2> QED  BY <1>1, <1>2, <2>1, <2>2, <2>3
<1>6. Range(p \o q) = Range(p) \union Range(q)
  <2>1. \A i \in 1..Len(p) : i \in 1..(Len(p) + Len(q)) /\ (p \o q)[i] = p[i]
    BY <1>1, <1>2
  <2>2. \A i \in 1..Len(q) : /\ Len(p) + i \in 1..(Len(p) + Len(q))
                             /\ (p \o q)[Len(p) + i] = q[i]
    BY <1>1, <1>2
  <2>3. ASSUME NEW y \in Range(p \o q)
        PROVE  y \in Range(p) \union Range(q)
    <3>1. PICK i \in 1..(Len(p) + Len(q)) : (p \o q)[i] = y
      BY <1>2 DEF Range
    <3>2. CASE i <= Len(p)
      <4>1. i \in 1..Len(p) /\ p[i] = y
        BY <1>1, <1>2, <3>1, <3>2
      <4> QED  BY <1>1, <4>1 DEF Range
    <3>3. CASE i > Len(p)
      <4>1. i - Len(p) \in 1..Len(q) /\ q[i - Len(p)] = y
        BY <1>1, <1>2, <3>1, <3>3
      <4> QED  BY <1>1, <4>1 DEF Range
    <3> QED  BY <1>1, <3>2, <3>3
  <2>4. Range(p) \subseteq Range(p \o q)
    BY <1>1, <1>2, <2>1 DEF Range
  <2>5. ASSUME NEW y \in Range(q)
        PROVE  y \in Range(p \o q)
    <3>1. PICK i \in 1..Len(q) : q[i] = y
      BY <1>1 DEF Range
    <3> QED  BY <1>2, <2>2, <3>1 DEF Range
  <2> QED  BY <2>3, <2>4, <2>5
<1> QED  BY <1>5, <1>6

\* The numbers of the steps.
LEMMA OrderTable ==
  /\ Order["classify"] = 0 /\ Order["rewrite"] = 1 /\ Order["embed"] = 2
  /\ Order["dense"] = 3 /\ Order["sparse"] = 4 /\ Order["outward"] = 5
  /\ Order["search"] = 6 /\ Order["generate"] = 7 /\ Order["query"] = 8
  /\ Order["hits"] = 9 /\ Order["trace"] = 10 /\ Order["decide"] = 11
  /\ Order["remember"] = 11 /\ Order["log_rewrite"] = 12 /\ Order["log_search"] = 13
  /\ Order["send"] = 14 /\ Order["recall"] = 14
BY DEF Order

\* Short sequences in order.
LEMMA ShortInOrder ==
  /\ \A x \in Steps : InOrder(<<x>>) /\ Range(<<x>>) = {x}
  /\ \A x, y \in Steps : Order[x] < Order[y] => InOrder(<<x, y>>) /\ Range(<<x, y>>) = {x, y}
  /\ \A x, y, z \in Steps : Order[x] < Order[y] /\ Order[y] < Order[z]
        => InOrder(<<x, y, z>>) /\ Range(<<x, y, z>>) = {x, y, z}
  /\ \A v, x, y, z \in Steps : Order[v] < Order[x] /\ Order[x] < Order[y] /\ Order[y] < Order[z]
        => InOrder(<<v, x, y, z>>) /\ Range(<<v, x, y, z>>) = {v, x, y, z}
<1>1. ASSUME NEW x \in Steps
      PROVE  InOrder(<<x>>) /\ Range(<<x>>) = {x}
  BY DEF InOrder, Range
<1>2. ASSUME NEW x \in Steps, NEW y \in Steps, Order[x] < Order[y]
      PROVE  InOrder(<<x, y>>) /\ Range(<<x, y>>) = {x, y}
  BY <1>2 DEF InOrder, Range
<1>3. ASSUME NEW x \in Steps, NEW y \in Steps, NEW z \in Steps,
             Order[x] < Order[y], Order[y] < Order[z]
      PROVE  InOrder(<<x, y, z>>) /\ Range(<<x, y, z>>) = {x, y, z}
  <2>1. Order[x] < Order[z]
    BY <1>3, OrderIsNumeric
  <2> QED  BY <1>3, <2>1 DEF InOrder, Range
<1>4. ASSUME NEW v \in Steps, NEW x \in Steps, NEW y \in Steps, NEW z \in Steps,
             Order[v] < Order[x], Order[x] < Order[y], Order[y] < Order[z]
      PROVE  InOrder(<<v, x, y, z>>) /\ Range(<<v, x, y, z>>) = {v, x, y, z}
  <2>1. Order[v] < Order[y] /\ Order[x] < Order[z] /\ Order[v] < Order[z]
    BY <1>4, OrderIsNumeric
  <2> QED  BY <1>4, <2>1 DEF InOrder, Range
<1> QED  BY <1>1, <1>2, <1>3, <1>4

\* The steps of answering from the notes.
LEMMA AnswerPlanInOrder ==
  /\ InOrder(RetrieveSteps) /\ Range(RetrieveSteps) = {"embed", "dense", "sparse"}
  /\ InOrder(PersistSteps) /\ Range(PersistSteps) = {"query", "hits", "trace"}
  /\ InOrder(AnswerPlan) /\ Range(AnswerPlan) = AnswerSteps
<1>1. Steps = {"classify", "rewrite", "embed", "dense", "sparse", "outward", "search", "generate",
               "query", "hits", "trace", "decide", "remember", "log_rewrite", "log_search",
               "send", "recall"}
  BY DEF Steps, Order
<1>2. InOrder(RetrieveSteps) /\ Range(RetrieveSteps) = {"embed", "dense", "sparse"}
  <2>1. "embed" \in Steps /\ "dense" \in Steps /\ "sparse" \in Steps
    BY <1>1
  <2>2. Order["embed"] < Order["dense"] /\ Order["dense"] < Order["sparse"]
    BY OrderTable
  <2>3. /\ InOrder(<<"embed", "dense", "sparse">>)
        /\ Range(<<"embed", "dense", "sparse">>) = {"embed", "dense", "sparse"}
    BY <2>1, <2>2, ShortInOrder
  <2> QED  BY <2>3 DEF RetrieveSteps
<1>3. InOrder(PersistSteps) /\ Range(PersistSteps) = {"query", "hits", "trace"}
  <2>1. "query" \in Steps /\ "hits" \in Steps /\ "trace" \in Steps
    BY <1>1
  <2>2. Order["query"] < Order["hits"] /\ Order["hits"] < Order["trace"]
    BY OrderTable
  <2>3. /\ InOrder(<<"query", "hits", "trace">>)
        /\ Range(<<"query", "hits", "trace">>) = {"query", "hits", "trace"}
    BY <2>1, <2>2, ShortInOrder
  <2> QED  BY <2>3 DEF PersistSteps
<1>4. InOrder(<<"generate">>) /\ Range(<<"generate">>) = {"generate"}
  BY <1>1, ShortInOrder
<1> DEFINE start == RetrieveSteps \o <<"generate">>
<1>5. InOrder(start) /\ Range(start) = {"embed", "dense", "sparse", "generate"}
  <2>1. \A x \in Range(RetrieveSteps), y \in Range(<<"generate">>) : Order[x] < Order[y]
    BY <1>2, <1>4, OrderTable
  <2> QED  BY <1>2, <1>4, <2>1, ConcatInOrder
<1> HIDE DEF start
<1>6. InOrder(start \o PersistSteps) /\ Range(start \o PersistSteps) = AnswerSteps
  <2>1. \A x \in Range(start), y \in Range(PersistSteps) : Order[x] < Order[y]
    BY <1>3, <1>5, OrderTable
  <2>2. InOrder(start \o PersistSteps)
        /\ Range(start \o PersistSteps) = Range(start) \union Range(PersistSteps)
    BY <1>3, <1>5, <2>1, ConcatInOrder
  <2> QED  BY <1>3, <1>5, <2>2 DEF AnswerSteps
<1> QED  BY <1>2, <1>3, <1>6 DEF AnswerPlan, start

\* The names of the steps.
LEMMA StepNames ==
  /\ {"classify", "rewrite", "embed", "dense", "sparse", "outward", "search", "generate", "query",
      "hits", "trace", "decide", "remember", "log_rewrite", "log_search", "send", "recall"} = Steps
BY DEF Steps, Order

\* What a mixed route does before it asks the model.
LEMMA MixedStart ==
  /\ InOrder(<<"rewrite">> \o RetrieveSteps)
  /\ Range(<<"rewrite">> \o RetrieveSteps) = {"rewrite", "embed", "dense", "sparse"}
<1>1. InOrder(<<"rewrite">>) /\ Range(<<"rewrite">>) = {"rewrite"}
  BY StepNames, ShortInOrder
<1>2. \A x \in Range(<<"rewrite">>), y \in Range(RetrieveSteps) : Order[x] < Order[y]
  BY <1>1, AnswerPlanInOrder, OrderTable
<1> QED  BY <1>1, <1>2, AnswerPlanInOrder, ConcatInOrder

\* The other pieces of the plans.
LEMMA LongerInOrder ==
  /\ InOrder(<<"decide", "log_rewrite", "send">>)
  /\ Range(<<"decide", "log_rewrite", "send">>) = {"decide", "log_rewrite", "send"}
  /\ InOrder(<<"decide", "log_rewrite", "log_search", "send">>)
  /\ Range(<<"decide", "log_rewrite", "log_search", "send">>)
        = {"decide", "log_rewrite", "log_search", "send"}
  /\ InOrder(<<"outward", "search", "generate">>)
  /\ Range(<<"outward", "search", "generate">>) = {"outward", "search", "generate"}
  /\ InOrder(<<"generate", "query", "trace">>)
  /\ Range(<<"generate", "query", "trace">>) = {"generate", "query", "trace"}
  /\ InOrder(<<"decide", "send">>) /\ Range(<<"decide", "send">>) = {"decide", "send"}
  /\ InOrder(<<"remember", "send">>) /\ Range(<<"remember", "send">>) = {"remember", "send"}
  /\ InOrder(<<"recall">>) /\ Range(<<"recall">>) = {"recall"}
  /\ InOrder(<<"classify">>) /\ Range(<<"classify">>) = {"classify"}
  /\ InOrder(<<"generate">>) /\ Range(<<"generate">>) = {"generate"}
<1>1. /\ InOrder(<<"decide", "log_rewrite", "send">>)
      /\ Range(<<"decide", "log_rewrite", "send">>) = {"decide", "log_rewrite", "send"}
  <2>1. Order["decide"] < Order["log_rewrite"] /\ Order["log_rewrite"] < Order["send"]
    BY OrderTable
  <2> QED  BY <2>1, StepNames, ShortInOrder
<1>2. /\ InOrder(<<"outward", "search", "generate">>)
      /\ Range(<<"outward", "search", "generate">>) = {"outward", "search", "generate"}
  <2>1. Order["outward"] < Order["search"] /\ Order["search"] < Order["generate"]
    BY OrderTable
  <2> QED  BY <2>1, StepNames, ShortInOrder
<1>3. /\ InOrder(<<"generate", "query", "trace">>)
      /\ Range(<<"generate", "query", "trace">>) = {"generate", "query", "trace"}
  <2>1. Order["generate"] < Order["query"] /\ Order["query"] < Order["trace"]
    BY OrderTable
  <2> QED  BY <2>1, StepNames, ShortInOrder
<1>4. InOrder(<<"decide", "send">>) /\ Range(<<"decide", "send">>) = {"decide", "send"}
  <2>1. Order["decide"] < Order["send"]
    BY OrderTable
  <2> QED  BY <2>1, StepNames, ShortInOrder
<1>5. InOrder(<<"remember", "send">>) /\ Range(<<"remember", "send">>) = {"remember", "send"}
  <2>1. Order["remember"] < Order["send"]
    BY OrderTable
  <2> QED  BY <2>1, StepNames, ShortInOrder
<1>6. /\ InOrder(<<"decide", "log_rewrite", "log_search", "send">>)
      /\ Range(<<"decide", "log_rewrite", "log_search", "send">>)
            = {"decide", "log_rewrite", "log_search", "send"}
  <2>1. Order["decide"] < Order["log_rewrite"] /\ Order["log_rewrite"] < Order["log_search"]
        /\ Order["log_search"] < Order["send"]
    BY OrderTable
  <2> QED  BY <2>1, StepNames, ShortInOrder
<1>7. /\ InOrder(<<"recall">>) /\ Range(<<"recall">>) = {"recall"}
      /\ InOrder(<<"classify">>) /\ Range(<<"classify">>) = {"classify"}
      /\ InOrder(<<"generate">>) /\ Range(<<"generate">>) = {"generate"}
  BY StepNames, ShortInOrder
<1> QED  BY <1>1, <1>2, <1>3, <1>4, <1>5, <1>6, <1>7

\* Every plan is in order and takes the steps of its kind or route.
LEMMA PlansInOrder ==
  /\ InOrder(AskPlan) /\ Range(AskPlan) = AnswerSteps \union {"remember", "send"}
  /\ InOrder(NotesLookupPlan) /\ Range(NotesLookupPlan) = StepsOfRoute["notes_lookup"]
  /\ InOrder(ModelOnlyPlan) /\ Range(ModelOnlyPlan) = StepsOfRoute["model_only"]
  /\ InOrder(NotesPlusModelPlan) /\ Range(NotesPlusModelPlan) = StepsOfRoute["notes_plus_model"]
  /\ InOrder(NotesPlusKnowledgePlan) /\ Range(NotesPlusKnowledgePlan) = StepsOfRoute["notes_plus_knowledge"]
<1>1. InOrder(AskPlan) /\ Range(AskPlan) = AnswerSteps \union {"remember", "send"}
  <2> DEFINE p1 == AnswerPlan
             p2 == p1 \o <<"remember", "send">>
  <2>1. InOrder(p1) /\ Range(p1) = AnswerSteps
    BY AnswerPlanInOrder, MixedStart, LongerInOrder
  <2> HIDE DEF p1
  <2>2. InOrder(p2) /\ Range(p2) = Range(p1) \union {"remember", "send"}
    <3>1. InOrder(<<"remember", "send">>) /\ Range(<<"remember", "send">>) = {"remember", "send"}
      BY AnswerPlanInOrder, LongerInOrder
    <3>2. \A x \in Range(p1), y \in Range(<<"remember", "send">>) : Order[x] < Order[y]
      BY <2>1, <3>1, OrderTable DEF AnswerSteps
    <3> QED  BY <2>1, <3>1, <3>2, ConcatInOrder
  <2> HIDE DEF p2
  <2> QED  BY <2>1, <2>2 DEF p1, p2, AskPlan, StepsOfRoute, AnswerSteps
<1>2. InOrder(NotesLookupPlan) /\ Range(NotesLookupPlan) = StepsOfRoute["notes_lookup"]
  <2> DEFINE p1 == AnswerPlan
             p2 == p1 \o <<"decide", "send">>
  <2>1. InOrder(p1) /\ Range(p1) = AnswerSteps
    BY AnswerPlanInOrder, MixedStart, LongerInOrder
  <2> HIDE DEF p1
  <2>2. InOrder(p2) /\ Range(p2) = Range(p1) \union {"decide", "send"}
    <3>1. InOrder(<<"decide", "send">>) /\ Range(<<"decide", "send">>) = {"decide", "send"}
      BY AnswerPlanInOrder, LongerInOrder
    <3>2. \A x \in Range(p1), y \in Range(<<"decide", "send">>) : Order[x] < Order[y]
      BY <2>1, <3>1, OrderTable DEF AnswerSteps
    <3> QED  BY <2>1, <3>1, <3>2, ConcatInOrder
  <2> HIDE DEF p2
  <2> QED  BY <2>1, <2>2 DEF p1, p2, NotesLookupPlan, Accounting, StepsOfRoute, AnswerSteps
<1>3. InOrder(ModelOnlyPlan) /\ Range(ModelOnlyPlan) = StepsOfRoute["model_only"]
  <2> DEFINE p1 == <<"generate", "query", "trace">>
             p2 == p1 \o <<"decide", "send">>
  <2>1. InOrder(p1) /\ Range(p1) = {"generate", "query", "trace"}
    BY AnswerPlanInOrder, MixedStart, LongerInOrder
  <2> HIDE DEF p1
  <2>2. InOrder(p2) /\ Range(p2) = Range(p1) \union {"decide", "send"}
    <3>1. InOrder(<<"decide", "send">>) /\ Range(<<"decide", "send">>) = {"decide", "send"}
      BY AnswerPlanInOrder, LongerInOrder
    <3>2. \A x \in Range(p1), y \in Range(<<"decide", "send">>) : Order[x] < Order[y]
      BY <2>1, <3>1, OrderTable DEF AnswerSteps
    <3> QED  BY <2>1, <3>1, <3>2, ConcatInOrder
  <2> HIDE DEF p2
  <2> QED  BY <2>1, <2>2 DEF p1, p2, ModelOnlyPlan, Accounting, StepsOfRoute, AnswerSteps
<1>4. InOrder(NotesPlusModelPlan) /\ Range(NotesPlusModelPlan) = StepsOfRoute["notes_plus_model"]
  <2> DEFINE p1 == <<"rewrite">> \o RetrieveSteps
             p2 == p1 \o <<"generate">>
             p3 == p2 \o PersistSteps
             p4 == p3 \o <<"decide", "log_rewrite", "send">>
  <2>1. InOrder(p1) /\ Range(p1) = {"rewrite", "embed", "dense", "sparse"}
    BY AnswerPlanInOrder, MixedStart, LongerInOrder
  <2> HIDE DEF p1
  <2>2. InOrder(p2) /\ Range(p2) = Range(p1) \union {"generate"}
    <3>1. InOrder(<<"generate">>) /\ Range(<<"generate">>) = {"generate"}
      BY AnswerPlanInOrder, LongerInOrder
    <3>2. \A x \in Range(p1), y \in Range(<<"generate">>) : Order[x] < Order[y]
      BY <2>1, <3>1, OrderTable DEF AnswerSteps
    <3> QED  BY <2>1, <3>1, <3>2, ConcatInOrder
  <2> HIDE DEF p2
  <2>3. InOrder(p3) /\ Range(p3) = Range(p2) \union {"query", "hits", "trace"}
    <3>1. InOrder(PersistSteps) /\ Range(PersistSteps) = {"query", "hits", "trace"}
      BY AnswerPlanInOrder, LongerInOrder
    <3>2. \A x \in Range(p2), y \in Range(PersistSteps) : Order[x] < Order[y]
      BY <2>1, <2>2, <3>1, OrderTable DEF AnswerSteps
    <3> QED  BY <2>2, <3>1, <3>2, ConcatInOrder
  <2> HIDE DEF p3
  <2>4. InOrder(p4) /\ Range(p4) = Range(p3) \union {"decide", "log_rewrite", "send"}
    <3>1. InOrder(<<"decide", "log_rewrite", "send">>) /\ Range(<<"decide", "log_rewrite", "send">>) = {"decide", "log_rewrite", "send"}
      BY AnswerPlanInOrder, LongerInOrder
    <3>2. \A x \in Range(p3), y \in Range(<<"decide", "log_rewrite", "send">>) : Order[x] < Order[y]
      BY <2>1, <2>2, <2>3, <3>1, OrderTable DEF AnswerSteps
    <3> QED  BY <2>3, <3>1, <3>2, ConcatInOrder
  <2> HIDE DEF p4
  <2> QED  BY <2>1, <2>2, <2>3, <2>4 DEF p1, p2, p3, p4, NotesPlusModelPlan, StepsOfRoute, AnswerSteps
<1>5. InOrder(NotesPlusKnowledgePlan) /\ Range(NotesPlusKnowledgePlan) = StepsOfRoute["notes_plus_knowledge"]
  <2> DEFINE p1 == <<"rewrite">> \o RetrieveSteps
             p2 == p1 \o <<"outward", "search", "generate">>
             p3 == p2 \o PersistSteps
             p4 == p3 \o <<"decide", "log_rewrite", "log_search", "send">>
  <2>1. InOrder(p1) /\ Range(p1) = {"rewrite", "embed", "dense", "sparse"}
    BY AnswerPlanInOrder, MixedStart, LongerInOrder
  <2> HIDE DEF p1
  <2>2. InOrder(p2) /\ Range(p2) = Range(p1) \union {"outward", "search", "generate"}
    <3>1. InOrder(<<"outward", "search", "generate">>) /\ Range(<<"outward", "search", "generate">>) = {"outward", "search", "generate"}
      BY AnswerPlanInOrder, LongerInOrder
    <3>2. \A x \in Range(p1), y \in Range(<<"outward", "search", "generate">>) : Order[x] < Order[y]
      BY <2>1, <3>1, OrderTable DEF AnswerSteps
    <3> QED  BY <2>1, <3>1, <3>2, ConcatInOrder
  <2> HIDE DEF p2
  <2>3. InOrder(p3) /\ Range(p3) = Range(p2) \union {"query", "hits", "trace"}
    <3>1. InOrder(PersistSteps) /\ Range(PersistSteps) = {"query", "hits", "trace"}
      BY AnswerPlanInOrder, LongerInOrder
    <3>2. \A x \in Range(p2), y \in Range(PersistSteps) : Order[x] < Order[y]
      BY <2>1, <2>2, <3>1, OrderTable DEF AnswerSteps
    <3> QED  BY <2>2, <3>1, <3>2, ConcatInOrder
  <2> HIDE DEF p3
  <2>4. InOrder(p4) /\ Range(p4) = Range(p3) \union {"decide", "log_rewrite", "log_search", "send"}
    <3>1. InOrder(<<"decide", "log_rewrite", "log_search", "send">>) /\ Range(<<"decide", "log_rewrite", "log_search", "send">>) = {"decide", "log_rewrite", "log_search", "send"}
      BY AnswerPlanInOrder, LongerInOrder
    <3>2. \A x \in Range(p3), y \in Range(<<"decide", "log_rewrite", "log_search", "send">>) : Order[x] < Order[y]
      BY <2>1, <2>2, <2>3, <3>1, OrderTable DEF AnswerSteps
    <3> QED  BY <2>3, <3>1, <3>2, ConcatInOrder
  <2> HIDE DEF p4
  <2> QED  BY <2>1, <2>2, <2>3, <2>4 DEF p1, p2, p3, p4, NotesPlusKnowledgePlan, StepsOfRoute, AnswerSteps
<1> QED  BY <1>1, <1>2, <1>3, <1>4, <1>5

-----------------------------------------------------------------------------
(***************************************************************************)
(* A call and its plan.                                                    *)
(***************************************************************************)
\* The kinds of calls and the steps of a plan are what they are named.
LEMMA PlanFacts ==
  ASSUME TypeInv, NEW c \in Calls
  PROVE  /\ Kind(c) \in {"unasked", "ask", "chat", "sources"}
         /\ local[c].effective \in Routes
         /\ StepsOf(c) \subseteq Steps
<1>1. Kind(c) \in {"unasked", "ask", "chat", "sources"}
  BY DEF TypeInv, Requests, Kind
<1>2. local[c].effective \in Routes
  BY DEF TypeInv, Locals
<1>3. StepsOfRoute[local[c].effective] \subseteq Steps
  BY <1>2, StepNames DEF Routes, StepsOfRoute, AnswerSteps
<1>4. StepsOf(c) \subseteq Steps
  BY <1>3, StepNames DEF StepsOf, AnswerSteps
<1> QED  BY <1>1, <1>2, <1>4

\* A call at a step has it ahead, with what follows it on its plan.
LEMMA AtStepFacts ==
  ASSUME NEW c \in Calls, OnPlan(c), NEW x, AtStep(c, x)
  PROVE  /\ Live(c) /\ c \notin Replied
         /\ x \in Ahead(c) /\ x \in StepsOf(c)
         /\ \A y \in Ahead(c) : y = x \/ Order[x] < Order[y]
         /\ \A y \in StepsOf(c) : Order[x] < Order[y] => y \in Ahead(c)
         /\ Ahead(c) \subseteq StepsOf(c)
<1>1. todo[c] # <<>> /\ x = Head(todo[c])
  BY DEF AtStep
<1>2. InOrder(todo[c]) /\ Live(c) /\ c \notin Replied
  BY <1>1 DEF OnPlan
<1>3. x \in Ahead(c) /\ \A y \in Ahead(c) : y = x \/ Order[x] < Order[y]
  BY <1>1, <1>2, TailInOrder DEF Ahead
<1> QED  BY <1>2, <1>3 DEF OnPlan

\* Going on leaves the step behind.
LEMMA GoOnAhead ==
  ASSUME TypeInv, NEW c \in Calls, OnPlan(c), NEW x, AtStep(c, x), GoOn(c)
  PROVE  /\ InOrder(todo'[c]) /\ Range(todo'[c]) = Ahead(c) \ {x}
         /\ DOMAIN todo' = Calls
         /\ \A d \in Calls : d # c => todo'[d] = todo[d]
<1>1. todo[c] # <<>> /\ x = Head(todo[c]) /\ InOrder(todo[c])
  BY DEF AtStep, OnPlan
<1>2. DOMAIN todo = Calls
  BY DEF TypeInv
<1>3. todo'[c] = Tail(todo[c]) /\ DOMAIN todo' = Calls
      /\ \A d \in Calls : d # c => todo'[d] = todo[d]
  BY <1>2 DEF GoOn
<1> QED  BY <1>1, <1>3, TailInOrder DEF Ahead

\* Skipping leaves behind what comes before the step skipped to.
LEMMA SkipToAhead ==
  ASSUME TypeInv, NEW c \in Calls, OnPlan(c), NEW y \in Ahead(c), SkipTo(c, y)
  PROVE  /\ InOrder(todo'[c])
         /\ Range(todo'[c]) = {z \in Ahead(c) : z = y \/ Order[y] < Order[z]}
         /\ todo'[c] # <<>> /\ Head(todo'[c]) = y
         /\ DOMAIN todo' = Calls
         /\ \A d \in Calls : d # c => todo'[d] = todo[d]
<1>1. InOrder(todo[c])
  BY DEF OnPlan
<1>2. DOMAIN todo = Calls
  BY DEF TypeInv
<1>3. todo'[c] = From(todo[c], y) /\ DOMAIN todo' = Calls
      /\ \A d \in Calls : d # c => todo'[d] = todo[d]
  BY <1>2 DEF SkipTo
<1> QED  BY <1>1, <1>3, FromInOrder DEF Ahead

\* A call that has chosen its route keeps to the end of its plan.
LEMMA StaysOnPlan ==
  ASSUME TypeInv, NEW c \in Calls, OnPlan(c), Live(c), ~Undecided(c),
         request'[c] = request[c], local'[c].effective = local[c].effective,
         c \notin aborted', c \notin Replied' \/ todo'[c] = <<>>,
         InOrder(todo'[c]), Ahead(c)' \subseteq Ahead(c),
         \A x \in Ahead(c)', y \in Ahead(c) : Order[x] < Order[y] => y \in Ahead(c)'
  PROVE  /\ OnPlan(c)' /\ Live(c)' /\ ~Undecided(c)' /\ Kind(c)' = Kind(c)
         /\ StepsOf(c)' = StepsOf(c)
<1>1. Kind(c)' = Kind(c) /\ Live(c)'
  BY DEF Kind, Live, Begun
<1>2. "classify" \notin Ahead(c)
  <2>1. Kind(c) \in {"ask", "chat", "sources"} /\ local[c].effective \in Routes
    BY PlanFacts DEF Live, Begun
  <2>2. "classify" \notin StepsOf(c)
    BY <2>1 DEF StepsOf, AnswerSteps, StepsOfRoute, Routes
  <2> QED  BY <2>2 DEF OnPlan
<1>3. ~Undecided(c)'
  <2>1. CASE todo'[c] = <<>>
    BY <2>1 DEF Undecided, AtStep
  <2>2. CASE todo'[c] # <<>>
    BY <1>2, <2>2, TailInOrder DEF Undecided, AtStep, Ahead
  <2> QED  BY <2>1, <2>2
<1>4. StepsOf(c)' = StepsOf(c)
  BY <1>1, <1>3 DEF StepsOf
<1>5. OnPlan(c)'
  <2>1. Ahead(c)' \subseteq StepsOf(c)'
    BY <1>4 DEF OnPlan
  <2>2. \A x \in Ahead(c)', y \in StepsOf(c)' : Order[x] < Order[y] => y \in Ahead(c)'
    BY <1>4 DEF OnPlan
  <2> QED  BY <1>1, <2>1, <2>2 DEF OnPlan, Live
<1> QED  BY <1>1, <1>3, <1>4, <1>5

\* The step just taken is behind, the rest still ahead.
LEMMA GoesOn ==
  ASSUME TypeInv, NEW c \in Calls, OnPlan(c), NEW x, AtStep(c, x), x # "classify", GoOn(c),
         request'[c] = request[c], local'[c].effective = local[c].effective,
         aborted' = aborted, c \in Replied' => x \in {"send", "recall"}
  PROVE  /\ OnPlan(c)' /\ Live(c)' /\ ~Undecided(c)' /\ Kind(c)' = Kind(c)
         /\ Ahead(c)' = Ahead(c) \ {x}
         /\ StepsOf(c)' = StepsOf(c) /\ ~Undecided(c)
<1>1. /\ Live(c) /\ x \in Ahead(c) /\ c \notin Replied /\ Ahead(c) \subseteq StepsOf(c)
      /\ \A y \in Ahead(c) : y = x \/ Order[x] < Order[y]
  BY AtStepFacts
<1>2. InOrder(todo'[c]) /\ Ahead(c)' = Ahead(c) \ {x}
  BY GoOnAhead DEF Ahead
<1>3. Ahead(c) \subseteq Steps
  BY <1>1, PlanFacts
<1>4. x \in {"send", "recall"} => todo'[c] = <<>>
  <2> SUFFICES ASSUME x \in {"send", "recall"} PROVE todo'[c] = <<>>
    OBVIOUS
  <2>1. \A y \in Ahead(c) : Order[y] \in 0..14
    BY <1>3, OrderIsNumeric
  <2>2. Order[x] = 14
    BY OrderTable
  <2>3. \A y \in Ahead(c) : ~(Order[x] < Order[y])
    BY <2>1, <2>2
  <2>4. Ahead(c)' = {}
    BY <1>1, <1>2, <2>3
  <2> QED  BY <1>2, <2>4, TailInOrder DEF Ahead
<1>5. ~Undecided(c)
  BY DEF Undecided, AtStep
<1>6. \A y \in Ahead(c)', z \in Ahead(c) : Order[y] < Order[z] => z \in Ahead(c)'
  <2> SUFFICES ASSUME NEW y \in Ahead(c)', NEW z \in Ahead(c), Order[y] < Order[z]
               PROVE  z # x
    BY <1>2
  <2>1. Order[x] < Order[y] /\ Order[x] \in 0..14 /\ Order[y] \in 0..14 /\ Order[z] \in 0..14
    BY <1>1, <1>2, <1>3, OrderIsNumeric
  <2> QED  BY <2>1
<1>7. c \notin aborted'
  BY <1>1 DEF Live
<1> QED  BY <1>1, <1>2, <1>4, <1>5, <1>6, <1>7, StaysOnPlan

\* The step skipped to is ahead, with what was ahead after it.
LEMMA SkipsTo ==
  ASSUME TypeInv, NEW c \in Calls, OnPlan(c), NEW x, AtStep(c, x), x # "classify",
         NEW z \in Ahead(c), SkipTo(c, z),
         request'[c] = request[c], local'[c].effective = local[c].effective,
         aborted' = aborted, c \notin Replied'
  PROVE  /\ OnPlan(c)' /\ Live(c)' /\ ~Undecided(c)' /\ Kind(c)' = Kind(c)
         /\ Ahead(c)' = {y \in Ahead(c) : y = z \/ Order[z] < Order[y]}
         /\ StepsOf(c)' = StepsOf(c) /\ ~Undecided(c)
<1>1. Live(c) /\ Ahead(c) \subseteq StepsOf(c)
  BY AtStepFacts
<1>2. /\ InOrder(todo'[c])
      /\ Ahead(c)' = {y \in Ahead(c) : y = z \/ Order[z] < Order[y]}
  BY SkipToAhead DEF Ahead
<1>3. ~Undecided(c)
  BY DEF Undecided, AtStep
<1>4. \A y \in Ahead(c) : Order[y] \in 0..14
  BY <1>1, PlanFacts, OrderIsNumeric
<1>5. \A y \in Ahead(c)', w \in Ahead(c) : Order[y] < Order[w] => w \in Ahead(c)'
  BY <1>2, <1>4
<1>6. c \notin aborted'
  BY <1>1 DEF Live
<1> QED  BY <1>1, <1>2, <1>3, <1>5, <1>6, StaysOnPlan

-----------------------------------------------------------------------------
(***************************************************************************)
(* Calls that a step leaves alone.                                         *)
(***************************************************************************)
\* Chunks only grow older.
Ages ==
    \A k \in Chunks :
        /\ corpus[k] # "none" => corpus'[k] # "none"
        /\ corpus[k] \in {"retired", "erased"} => corpus'[k] \in {corpus[k], "erased"}

\* A call is left alone: its hits may go with the rows of their chunks.
LeftAlone(c) ==
    /\ todo'[c] = todo[c] /\ request'[c] = request[c] /\ local'[c] = local[c]
    /\ verdict'[c] = verdict[c] /\ reply'[c] = reply[c] /\ before'[c] = before[c]
    /\ c \in aborted' <=> c \in aborted
    /\ QueryOf(c)' = QueryOf(c) /\ TraceOf(c)' = TraceOf(c) /\ DecisionOf(c)' = DecisionOf(c)
    /\ RewritesOf(c)' = RewritesOf(c) /\ SearchesOf(c)' = SearchesOf(c)
    /\ \A h \in HitsOf(c) : h.chunk \in Rows' => h \in HitsOf(c)'

\* What may happen around a call.
Around ==
    /\ Ages /\ deployment' = deployment
    /\ failures' \in Nat /\ failures' >= failures
    /\ Replied \subseteq Replied'

\* Chunks found are still what they were, or gone.
LEMMA AgedChunks ==
  ASSUME TypeInv, Ages, CorpusTypeOK'
  PROVE  /\ Gone \subseteq Gone'
         /\ \A k \in Chunks : corpus[k] # "none" => corpus'[k] # "none"
                                                     /\ (k \in Rows' => k \in Rows)
<1>1. corpus \in [Chunks -> Visibility] /\ corpus' \in [Chunks -> Visibility]
  BY DEF TypeInv, CorpusTypeOK
<1>2. Gone \subseteq Gone'
  BY <1>1 DEF Ages, Gone
<1>3. \A k \in Chunks : corpus[k] # "none" => corpus'[k] # "none" /\ (k \in Rows' => k \in Rows)
  BY <1>1 DEF Ages, Rows, Visibility
<1> QED  BY <1>2, <1>3

\* The chunks of the legs and of their fusion are those found.
LEMMA FoundChunksFacts ==
  ASSUME TypeInv, NEW c \in Calls, Retrieved(c)
  PROVE  /\ FoundChunks(c) \subseteq Chunks
         /\ Range(local[c].dense) \subseteq FoundChunks(c)
         /\ Range(local[c].sparse) \subseteq FoundChunks(c)
         /\ Context(c) \subseteq FoundChunks(c)
         /\ local[c].dense \in Rankings(Chunks) /\ local[c].sparse \in Rankings(Chunks)
         /\ local[c].context \in Rankings(Chunks)
         /\ \A h \in FoundRows(c) : h.chunk \in FoundChunks(c)
<1>1. local[c].dense \in Rankings(Chunks) /\ local[c].sparse \in Rankings(Chunks)
      /\ local[c].context \in Rankings(Chunks)
  BY DEF TypeInv, Locals
<1>2. Range(local[c].dense) \subseteq Chunks /\ Range(local[c].sparse) \subseteq Chunks
  BY <1>1, RankingFacts
<1>3. Context(c) \subseteq FoundChunks(c)
  <2>1. CASE local[c].context = <<>>
    BY <2>1 DEF Context, Range
  <2>2. CASE local[c].context = Fuse(local[c].dense, local[c].sparse)
    BY <1>1, <2>2, FusionTakesTheTop DEF Context, FoundChunks
  <2> QED  BY <2>1, <2>2 DEF Retrieved
<1>4. \A h \in FoundRows(c) : h.chunk \in FoundChunks(c)
  <2>1. \A h \in FoundRows(c) : h.chunk \in Range(local[c].dense) \union Range(local[c].sparse)
                                              \union Range(local[c].context)
    BY DEF FoundRows, Hits, Range
  <2> QED  BY <1>3, <2>1 DEF FoundChunks, Found, Context
<1> QED  BY <1>1, <1>2, <1>3, <1>4 DEF FoundChunks, Found

\* A call left alone keeps its invariant.
LEMMA LeftAloneKept ==
  ASSUME TypeInv, CorpusTypeOK', NEW c \in Calls, CallInv(c), LeftAlone(c), Around
  PROVE  CallInv(c)'
<1>1. /\ Kind(c)' = Kind(c) /\ (Begun(c)' <=> Begun(c)) /\ (Live(c)' <=> Live(c))
      /\ Ahead(c)' = Ahead(c) /\ (Undecided(c)' <=> Undecided(c))
      /\ StepsOf(c)' = StepsOf(c) /\ (c \in Replied' <=> c \in Replied)
      /\ FoundChunks(c)' = FoundChunks(c) /\ Context(c)' = Context(c)
      /\ FoundRows(c)' = FoundRows(c)
  BY DEF LeftAlone, Kind, Begun, Live, Ahead, Undecided, AtStep, StepsOf, Replied, FoundChunks,
     Context, FoundRows
<1>2. OnPlan(c)'
  BY <1>1 DEF CallInv, OnPlan, LeftAlone
<1>3. Untouched(c)' /\ Retrieved(c)' /\ Unanswered(c)'
  BY <1>1 DEF CallInv, Untouched, Retrieved, Unanswered, LeftAlone
<1>4. FoundInPlace(c)'
  <2>1. FoundChunks(c) \subseteq Chunks
    BY FoundChunksFacts DEF CallInv
  <2> QED  BY <1>1, <2>1, AgedChunks DEF CallInv, FoundInPlace, LeftAlone, Around
<1>5. Routed(c)' /\ Concluded(c)'
  BY <1>1 DEF CallInv, Routed, Concluded, LeftAlone, Around
<1>6. NotYetRecorded(c)'
  BY <1>1 DEF CallInv, NotYetRecorded, LeftAlone
<1>7. HitsRecorded(c) => HitsRecorded(c)'
  <2> DEFINE found == [dense |-> local[c].dense, sparse |-> local[c].sparse,
                       merged |-> local[c].context]
  <2> SUFFICES ASSUME HitsRecorded(c), NEW leg \in Legs, NEW r \in DOMAIN found[leg],
                      found[leg][r] \in Rows'
               PROVE  \E h \in HitsOf(c)' : h.leg = leg /\ h.rank = r /\ h.chunk = found[leg][r]
    BY DEF HitsRecorded, LeftAlone
  <2>1. found[leg][r] \in FoundChunks(c) /\ FoundChunks(c) \subseteq Chunks
    BY FoundChunksFacts DEF Legs, Range, Context, CallInv
  <2>2. found[leg][r] \in Rows
    BY <2>1, AgedChunks DEF CallInv, FoundInPlace, Around
  <2>3. PICK h \in HitsOf(c) : h.leg = leg /\ h.rank = r /\ h.chunk = found[leg][r]
    BY <2>2 DEF HitsRecorded
  <2> QED  BY <2>3 DEF LeftAlone
<1>8. Recorded(c)'
  BY <1>1, <1>7 DEF CallInv, Recorded, LeftAlone
<1>9. Accounted(c)'
  BY <1>1 DEF CallInv, Accounted, Decision, LeftAlone
<1>10. Explained(c)'
  <2>1. failures > 0 => failures' > 0
    BY DEF Around, TypeInv, FaultsTypeOK
  <2>2. \A h \in FoundRows(c) : h.chunk \notin Rows => h.chunk \notin Rows'
    BY AgedChunks, FoundChunksFacts DEF CallInv, FoundInPlace, Around
  <2> QED  BY <1>1, <2>1, <2>2 DEF CallInv, Explained, LeftAlone
<1>11. Told(c)'
  BY <1>1 DEF CallInv, Told, LeftAlone
<1> QED  BY <1>2, <1>3, <1>4, <1>5, <1>6, <1>8, <1>9, <1>10, <1>11 DEF CallInv

\* A call changes its own variables only.
Own(c) ==
    /\ \A d \in Calls \ {c} :
          /\ todo'[d] = todo[d] /\ request'[d] = request[d] /\ local'[d] = local[d]
          /\ verdict'[d] = verdict[d] /\ reply'[d] = reply[d] /\ before'[d] = before[d]
          /\ d \in aborted' <=> d \in aborted
    /\ deployment' = deployment
    /\ failures' \in Nat /\ failures' >= failures

\* A call writes rows under its own id only.
OwnRows(c) ==
    \A d \in Calls \ {c} :
        /\ QueryOf(d)' = QueryOf(d) /\ TraceOf(d)' = TraceOf(d) /\ DecisionOf(d)' = DecisionOf(d)
        /\ RewritesOf(d)' = RewritesOf(d) /\ SearchesOf(d)' = SearchesOf(d)
        /\ HitsOf(d)' = HitsOf(d)

\* The answering steps of a call keep to what is its own.
LEMMA AnsweringStepIsOwn ==
  ASSUME TypeInv, NEW c \in Calls, AnsweringStep(c)
  PROVE  Own(c)
<1>1. /\ DOMAIN todo = Calls /\ DOMAIN request = Calls /\ DOMAIN local = Calls
      /\ DOMAIN verdict = Calls /\ DOMAIN reply = Calls /\ DOMAIN before = Calls
      /\ failures \in Nat
  BY DEF TypeInv, FaultsTypeOK
<1>2. CASE Embed(c)
  BY <1>1, <1>2 DEF Own, Embed, GoOn, Abort, NoFault, ProviderFault, faultVars
<1>3. CASE Dense(c)
  BY <1>1, <1>3 DEF Own, Dense, GoOn, NoFault, ProviderFault, faultVars
<1>4. CASE RetrievalUnsupported(c)
  BY <1>1, <1>4 DEF Own, RetrievalUnsupported, SkipTo, Decide, NoFault, ProviderFault, faultVars
<1>5. CASE Sparse(c)
  BY <1>1, <1>5 DEF Own, Sparse, SkipTo, GoOn, Decide, NoFault, ProviderFault, faultVars
<1>6. CASE Generate(c)
  BY <1>1, <1>6 DEF Own, Generate, GoOn, Abort, Decide, Unavailable, Accept, RaiseUncaught, NoFault, ProviderFault, faultVars
<1>7. CASE PersistQuery(c)
  BY <1>1, <1>7 DEF Own, PersistQuery, GoOn, NoFault, ProviderFault, faultVars
<1>8. CASE PersistHits(c)
  BY <1>1, <1>8 DEF Own, PersistHits, GoOn, Abort, NoFault, ProviderFault, faultVars
<1>9. CASE PersistTrace(c)
  BY <1>1, <1>9 DEF Own, PersistTrace, GoOn, NoFault, ProviderFault, faultVars
<1>10. CASE Remember(c)
  BY <1>1, <1>10 DEF Own, Remember, GoOn, NoFault, ProviderFault, faultVars
<1>11. CASE SendAnswer(c)
  BY <1>1, <1>11 DEF Own, SendAnswer, Tell, GoOn, NoFault, ProviderFault, faultVars
<1>12. CASE Recall(c)
  BY <1>1, <1>12 DEF Own, Recall, Tell, GoOn, NoFault, ProviderFault, faultVars
<1> QED  BY <1>2, <1>3, <1>4, <1>5, <1>6, <1>7, <1>8, <1>9, <1>10, <1>11, <1>12 DEF AnsweringStep

\* So do those of /chat, ...
LEMMA ChatStepIsOwn ==
  ASSUME TypeInv, NEW c \in Calls, ChatStep(c)
  PROVE  Own(c)
<1>1. /\ DOMAIN todo = Calls /\ DOMAIN request = Calls /\ DOMAIN local = Calls
      /\ DOMAIN verdict = Calls /\ DOMAIN reply = Calls /\ DOMAIN before = Calls
      /\ failures \in Nat
  BY DEF TypeInv, FaultsTypeOK
<1>2. CASE Classify(c)
  BY <1>1, <1>2 DEF Own, Classify, Decide, NoFault, ProviderFault, faultVars
<1>3. CASE Rewrite(c)
  BY <1>1, <1>3 DEF Own, Rewrite, GoOn, NoFault, ProviderFault, faultVars
<1>4. CASE RewriteOutward(c)
  BY <1>1, <1>4 DEF Own, RewriteOutward, GoOn, NoFault, ProviderFault, faultVars
<1>5. CASE Search(c)
  BY <1>1, <1>5 DEF Own, Search, GoOn, NoFault, ProviderFault, faultVars
<1>6. CASE GenerateNotesPlusModel(c)
  BY <1>1, <1>6 DEF Own, GenerateNotesPlusModel, GoOn, Abort, Decide, Unavailable, Accept, RaiseUncaught, NoFault, ProviderFault, faultVars
<1>7. CASE GenerateNotesPlusKnowledge(c)
  BY <1>1, <1>7 DEF Own, GenerateNotesPlusKnowledge, GoOn, Abort, Decide, Unavailable, Accept, RaiseUncaught, NoFault, ProviderFault, faultVars
<1>8. CASE GenerateModelOnly(c)
  BY <1>1, <1>8 DEF Own, GenerateModelOnly, GoOn, Decide, Unavailable, Accept, NoFault, ProviderFault, faultVars
<1>9. CASE PersistDecision(c)
  BY <1>1, <1>9 DEF Own, PersistDecision, GoOn, SkipTo, NoFault, ProviderFault, faultVars
<1>10. CASE PersistRewrite(c)
  BY <1>1, <1>10 DEF Own, PersistRewrite, GoOn, NoFault, ProviderFault, faultVars
<1>11. CASE PersistSearch(c)
  BY <1>1, <1>11 DEF Own, PersistSearch, GoOn, NoFault, ProviderFault, faultVars
<1>12. CASE SendChat(c)
  BY <1>1, <1>12 DEF Own, SendChat, Tell, GoOn, NoFault, ProviderFault, faultVars
<1> QED  BY <1>2, <1>3, <1>4, <1>5, <1>6, <1>7, <1>8, <1>9, <1>10, <1>11, <1>12 DEF ChatStep

\* ... its beginning and its failures.
LEMMA BeginAndFailAreOwn ==
  ASSUME TypeInv, NEW c \in Calls, BeginCall(c) \/ CallFails(c)
  PROVE  Own(c) /\ OwnRows(c)
<1>1. /\ DOMAIN todo = Calls /\ DOMAIN request = Calls /\ DOMAIN local = Calls
      /\ DOMAIN verdict = Calls /\ DOMAIN reply = Calls /\ DOMAIN before = Calls
      /\ failures \in Nat
  BY DEF TypeInv, FaultsTypeOK
<1>2. CASE BeginCall(c)
  <2>1. PICK req, plan, v : Begin(c, req, plan, v)
    BY <1>2 DEF BeginCall, Ask, Chat, Sources
  <2>2. Own(c)
    BY <1>1, <2>1 DEF Own, Begin, Decide, NoFault, faultVars
  <2>3. UNCHANGED traceTables
    BY <2>1 DEF Begin
  <2> QED  BY <2>2, <2>3 DEF OwnRows, traceTables, QueryOf, TraceOf, DecisionOf, RewritesOf,
           SearchesOf, HitsOf
<1>3. CASE CallFails(c)
  <2>1. Own(c)
    BY <1>1, <1>3 DEF Own, CallFails, StoreCallFails, Abort, StoreFault
  <2>2. UNCHANGED traceTables
    BY <1>3 DEF CallFails, StoreCallFails
  <2> QED  BY <2>1, <2>2 DEF OwnRows, traceTables, QueryOf, TraceOf, DecisionOf, RewritesOf,
           SearchesOf, HitsOf
<1> QED  BY <1>2, <1>3

\* The rows a call writes.
LEMMA CallStepWritesOwn ==
  ASSUME NEW c \in Calls, CallStep(c)
  PROVE  OwnRows(c)
<1>1. CASE UNCHANGED traceTables
  BY <1>1 DEF traceTables, OwnRows, QueryOf, TraceOf, DecisionOf, RewritesOf,
     SearchesOf, HitsOf
<1>2. CASE \/ Embed(c) \/ Dense(c) \/ RetrievalUnsupported(c) \/ Sparse(c) \/ Generate(c)
           \/ Remember(c) \/ SendAnswer(c) \/ Recall(c)
  BY <1>1, <1>2 DEF Embed, Dense, RetrievalUnsupported, Sparse, Generate, Remember, SendAnswer,
     Recall, Tell
<1>3. CASE \/ Classify(c) \/ Rewrite(c) \/ RewriteOutward(c) \/ Search(c) \/ SendChat(c)
           \/ GenerateNotesPlusModel(c) \/ GenerateNotesPlusKnowledge(c)
           \/ GenerateModelOnly(c)
  BY <1>1, <1>3 DEF Classify, Rewrite, RewriteOutward, Search, SendChat, Tell,
     GenerateNotesPlusModel, GenerateNotesPlusKnowledge, GenerateModelOnly
<1>4. CASE PersistQuery(c)
  BY <1>4 DEF PersistQuery, SaveQuery, OwnRows, QueryOf, TraceOf, DecisionOf, RewritesOf,
     SearchesOf, HitsOf
<1>5. CASE PersistTrace(c)
  BY <1>5 DEF PersistTrace, SaveTrace, OwnRows, QueryOf, TraceOf, DecisionOf, RewritesOf,
     SearchesOf, HitsOf
<1>6. CASE PersistDecision(c)
  BY <1>6 DEF PersistDecision, SaveDecision, OwnRows, QueryOf, TraceOf, DecisionOf, RewritesOf,
     SearchesOf, HitsOf
<1>7. CASE PersistRewrite(c)
  BY <1>7 DEF PersistRewrite, SaveRewrite, OwnRows, QueryOf, TraceOf, DecisionOf, RewritesOf,
     SearchesOf, HitsOf
<1>8. CASE PersistSearch(c)
  BY <1>8 DEF PersistSearch, SaveSearch, OwnRows, QueryOf, TraceOf, DecisionOf, RewritesOf,
     SearchesOf, HitsOf
<1>9. CASE PersistHits(c)
  <2>1. CASE SaveHits(c, FoundRows(c))
    BY <2>1 DEF SaveHits, OwnRows, QueryOf, TraceOf, DecisionOf, RewritesOf,
       SearchesOf, HitsOf
  <2> QED  BY <1>1, <1>9, <2>1 DEF PersistHits
<1> QED  BY <1>2, <1>3, <1>4, <1>5, <1>6, <1>7, <1>8, <1>9 DEF CallStep, AnsweringStep, ChatStep

\* A step of a call leaves the others alone.
LEMMA OthersLeftAlone ==
  ASSUME TypeInv, NEW c \in Calls, OnPlan(c), BeginCall(c) \/ CallStep(c) \/ CallFails(c)
  PROVE  /\ corpus' = corpus /\ Around
         /\ \A d \in Calls : d # c => LeftAlone(d)
<1>1. corpus' = corpus
  BY DEF BeginCall, CallStep, CallFails
<1>2. Own(c) /\ OwnRows(c)
  BY AnsweringStepIsOwn, ChatStepIsOwn, BeginAndFailAreOwn, CallStepWritesOwn DEF CallStep
<1>3. c \notin Replied
  <2>1. CASE BeginCall(c)
    <3>1. ~Begun(c)
      BY <2>1 DEF BeginCall, Ask, Chat, Sources, Begin
    <3> QED  BY <3>1 DEF OnPlan
  <2>2. CASE CallFails(c)
    BY <2>2 DEF CallFails, StoreCallFails, OnPlan
  <2>3. CASE CallStep(c)
    <3>1. todo[c] # <<>>
      BY <2>3 DEF CallStep, AnsweringStep, ChatStep, AtStep, AtGenerate, Embed, Dense,
         RetrievalUnsupported, Sparse, Generate, PersistQuery, PersistHits, PersistTrace,
         Remember, SendAnswer, Recall, Classify, Rewrite, RewriteOutward, Search,
         GenerateNotesPlusModel, GenerateNotesPlusKnowledge, GenerateModelOnly,
         PersistDecision, PersistRewrite, PersistSearch, SendChat
    <3> QED  BY <3>1 DEF OnPlan
  <2> QED  BY <2>1, <2>2, <2>3
<1>4. Replied \subseteq Replied'
  BY <1>2, <1>3 DEF Own, Replied
<1>5. Ages
  BY <1>1 DEF Ages
<1>6. Around
  BY <1>2, <1>4, <1>5 DEF Around, Own
<1>7. ASSUME NEW d \in Calls, d # c
      PROVE  LeftAlone(d)
  BY <1>2, <1>7 DEF LeftAlone, Own, OwnRows
<1> QED  BY <1>1, <1>6, <1>7

-----------------------------------------------------------------------------
(***************************************************************************)
(* Types: what the parsers, the adapters and the replies return.           *)
(***************************************************************************)
\* Nothing retrieved is a ranking.
LEMMA EmptyRanking ==
  ASSUME NEW S
  PROVE  <<>> \in Rankings(S) /\ Len(<<>>) = 0 /\ Range(<<>>) = {}
<1>1. <<>> \in [1..0 -> S] /\ 0 \in 0..CandidateK
  BY FusionAssumption
<1>2. <<>> \in SeqOf(S, CandidateK)
  BY <1>1 DEF SeqOf
<1>3. IsInjective(<<>>)
  BY DEF IsInjective
<1> QED  BY <1>2, <1>3 DEF Rankings, Range

\* An outcome without an answer is a verdict.
LEMMA WithoutTyped ==
  ASSUME NEW f \in Fallbacks
  PROVE  Without(f) \in Verdicts
BY DEF Without, Verdicts

\* The four parsers return verdicts whatever the model says.
LEMMA ParsersTyped ==
  ASSUME NEW context, NEW offered
  PROVE  /\ \A raw \in RawAnswers(LookupContents) :
               ~Raises(raw) => ParseAnswer(raw, context) \in Verdicts
         /\ \A raw \in RawAnswers(NotesPlusModelContents) :
               ~Raises(raw) => ParseNotesPlusModel(raw, context) \in Verdicts
         /\ \A raw \in RawAnswers(NotesPlusKnowledgeContents) :
               ~Raises(raw) => ParseNotesPlusKnowledge(raw, context, offered) \in Verdicts
         /\ \A raw \in {Malformed} \union ModelOnlyContents : ParseModelOnly(raw) \in Verdicts
<1>1. Without("parse_failure") \in Verdicts
  BY WithoutTyped DEF Fallbacks
<1>2. \A n, m, w \in BOOLEAN : PlanesOf(n, m, w) \in SUBSET Planes
  BY DEF PlanesOf
<1>3. \A m \in Markers : MarkerFallback[m] \in Fallbacks
  BY DEF Markers, MarkerFallback, Fallbacks
<1>4. \A raw \in RawAnswers(LookupContents) :
         ~Raises(raw) => ParseAnswer(raw, context) \in Verdicts
  <2> TAKE raw \in RawAnswers(LookupContents)
  <2>1. CASE WellFormedAnswer(raw, context)
    <3>1. raw \in LookupContents
      BY <2>1 DEF RawAnswers, Malformed, UnhashableMarker, WellFormedAnswer
    <3>2. raw.marker \in Markers /\ raw.cites \in SUBSET Chunks /\ raw.notes \in BOOLEAN
      BY <3>1 DEF LookupContents
    <3>3. MarkerFallback[raw.marker] \in Fallbacks /\ PlanesOf(raw.notes, FALSE, FALSE) \in SUBSET Planes
      BY <1>2, <1>3, <3>2
    <3> QED  BY <2>1, <3>2, <3>3 DEF ParseAnswer, Verdicts
  <2>2. CASE ~WellFormedAnswer(raw, context)
    BY <1>1, <2>2 DEF ParseAnswer
  <2> QED  BY <2>1, <2>2
<1>5. \A raw \in RawAnswers(NotesPlusModelContents) :
         ~Raises(raw) => ParseNotesPlusModel(raw, context) \in Verdicts
  <2> TAKE raw \in RawAnswers(NotesPlusModelContents)
  <2>1. CASE raw.shape = "object"
    <3>1. raw \in NotesPlusModelContents
      BY <2>1 DEF RawAnswers, Malformed, UnhashableMarker
    <3>2. /\ raw.marker \in Markers /\ raw.cites \in SUBSET Chunks
          /\ raw.notes \in BOOLEAN /\ raw.model \in BOOLEAN
      BY <3>1 DEF NotesPlusModelContents
    <3>3. MarkerFallback[raw.marker] \in Fallbacks
          /\ PlanesOf(raw.notes, raw.model, FALSE) \in SUBSET Planes
      BY <1>2, <1>3, <3>2
    <3> QED  BY <1>1, <3>2, <3>3 DEF ParseNotesPlusModel, Verdicts
  <2>2. CASE raw.shape # "object"
    BY <1>1, <2>2 DEF ParseNotesPlusModel
  <2> QED  BY <2>1, <2>2
<1>6. \A raw \in RawAnswers(NotesPlusKnowledgeContents) :
         ~Raises(raw) => ParseNotesPlusKnowledge(raw, context, offered) \in Verdicts
  <2> TAKE raw \in RawAnswers(NotesPlusKnowledgeContents)
  <2>1. CASE raw.shape = "object"
    <3>1. raw \in NotesPlusKnowledgeContents
      BY <2>1 DEF RawAnswers, Malformed, UnhashableMarker
    <3>2. /\ raw.marker \in Markers /\ raw.cites \in SUBSET Chunks /\ raw.refs \in SUBSET Refs
          /\ raw.notes \in BOOLEAN /\ raw.model \in BOOLEAN /\ raw.web \in BOOLEAN
      BY <3>1 DEF NotesPlusKnowledgeContents
    <3>3. MarkerFallback[raw.marker] \in Fallbacks
          /\ PlanesOf(raw.notes, raw.model, raw.web) \in SUBSET Planes
      BY <1>2, <1>3, <3>2
    <3> QED  BY <1>1, <3>2, <3>3 DEF ParseNotesPlusKnowledge, Verdicts
  <2>2. CASE raw.shape # "object"
    BY <1>1, <2>2 DEF ParseNotesPlusKnowledge
  <2> QED  BY <2>1, <2>2
<1>7. \A raw \in {Malformed} \union ModelOnlyContents : ParseModelOnly(raw) \in Verdicts
  <2> TAKE raw \in {Malformed} \union ModelOnlyContents
  <2>1. CASE raw.shape = "object"
    <3>1. raw.model \in BOOLEAN
      BY <2>1 DEF Malformed, ModelOnlyContents
    <3>2. PlanesOf(FALSE, raw.model, FALSE) \in SUBSET Planes
      BY <1>2, <3>1
    <3> QED  BY <2>1, <3>2 DEF ParseModelOnly, Without, Verdicts, Fallbacks
  <2>2. CASE raw.shape # "object"
    BY <1>1, <2>2 DEF ParseModelOnly
  <2> QED  BY <2>1, <2>2
<1> QED  BY <1>4, <1>5, <1>6, <1>7

\* What the adapters read of a tool call and of a search response.
LEMMA AdaptersTyped ==
  /\ \A raw \in RawRewrites :
        /\ RewriterReads(raw).rewritten \in BOOLEAN
        /\ RewriterReads(raw).window \in SUBSET Chunks
        /\ RewriterReads(raw).rewritten \/ RewriterReads(raw).window = Chunks
  /\ \A response \in SearchResponses :
        KnowledgeReads(response) \in SUBSET Refs /\ IsFiniteSet(KnowledgeReads(response))
<1>1. ASSUME NEW raw \in RawRewrites
      PROVE  /\ RewriterReads(raw).rewritten \in BOOLEAN
             /\ RewriterReads(raw).window \in SUBSET Chunks
             /\ RewriterReads(raw).rewritten \/ RewriterReads(raw).window = Chunks
  <2>1. CASE raw.tool = "named" /\ raw.query = "words"
    <3>1. raw.window \in SUBSET Chunks
      BY <2>1 DEF RawRewrites
    <3> QED  BY <2>1, <3>1 DEF RewriterReads
  <2>2. CASE ~(raw.tool = "named" /\ raw.query = "words")
    BY <2>2 DEF RewriterReads
  <2> QED  BY <2>1, <2>2
<1>2. ASSUME NEW response \in SearchResponses
      PROVE  KnowledgeReads(response) \in SUBSET Refs /\ IsFiniteSet(KnowledgeReads(response))
  <2>1. PICK n \in 0..(MaxResults + 1) : response \in [1..n -> Refs \union {Unusable}]
    BY DEF SearchResponses, SeqOf
  <2> DEFINE m == Min({MaxResults, Len(response)})
             read == SubSeq(response, 1, m)
  <2>2. n \in Nat /\ Len(response) = n
    BY <2>1, AnswersAssumption
  <2>3. m \in Nat /\ m <= n
    BY <2>2, MinOfTwo, AnswersAssumption
  <2>4. response \in Seq(Refs \union {Unusable})
    BY <2>1, <2>2
  <2> HIDE DEF m
  <2>5. read \in Seq(Refs \union {Unusable}) /\ Len(read) = m
    BY <2>2, <2>3, <2>4
  <2> HIDE DEF read
  <2>6. Range(read) \subseteq Refs \union {Unusable} /\ IsFiniteSet(Range(read))
    <3>1. read \in [1..m -> Refs \union {Unusable}]
      BY <2>3, <2>5
    <3>2. IsFiniteSet(1..m)
      BY <2>3, FS_Interval
    <3>3. read \in Surjection(1..m, Range(read))
      BY <3>1 DEF Surjection, Range
    <3>4. IsFiniteSet(Range(read))
      BY <3>2, <3>3, FS_Surjection
    <3>5. Range(read) \subseteq Refs \union {Unusable}
      BY <3>1 DEF Range
    <3> QED  BY <3>4, <3>5
  <2>7. KnowledgeReads(response) = IF Unusable \in Range(read) THEN {} ELSE Range(read)
    BY DEF KnowledgeReads, m, read
  <2> QED  BY <2>6, <2>7, FS_EmptySet
<1> QED  BY <1>1, <1>2

\* Every reply is one.
LEMMA RepliesTyped ==
  ASSUME NEW v \in Verdicts, NEW blank, NEW evidence
  PROVE  /\ NoReply \in Replies
         /\ \A kind \in ReplyKinds : Telling(kind) \in Replies
         /\ AnswerReply(v, blank, evidence) \in Replies
         /\ \A requested, effective : ChatReply(requested, effective, v, blank, evidence) \in Replies
<1>1. \A kind \in ReplyKinds : Telling(kind) \in Replies
  BY DEF Telling, NoReply, Replies, ReplyKinds
<1>2. v.fallback \in ReplyKinds /\ v.cites \in SUBSET Chunks /\ v.planes \in SUBSET Planes
  BY DEF Verdicts, ReplyKinds
<1>3. AnswerReply(v, blank, evidence) \in Replies
  <2>1. CASE v.fallback \in {"none", "weak_evidence", "ambiguous"}
    <3>1. AnswerKinds[v.fallback] \in ReplyKinds /\ v.fallback \in DOMAIN AnswerKinds
      BY <2>1 DEF AnswerKinds, ReplyKinds
    <3>2. \A t \in Replies : [t EXCEPT !.planes = v.planes, !.shown = v.cites] \in Replies
      BY <1>2 DEF Replies
    <3>3. Telling(AnswerKinds[v.fallback]) \in Replies
      BY <1>1, <3>1
    <3>4. AnswerReply(v, blank, evidence)
            = [Telling(AnswerKinds[v.fallback]) EXCEPT !.planes = v.planes, !.shown = v.cites]
      BY <2>1, <3>1 DEF AnswerReply
    <3> QED  BY <3>2, <3>3, <3>4
  <2>2. CASE v.fallback \notin {"none", "weak_evidence", "ambiguous"}
    <3>1. v.fallback \notin DOMAIN AnswerKinds
      BY <2>2 DEF AnswerKinds
    <3>2. /\ Telling("no_query") \in Replies /\ Telling("ungrounded") \in Replies
          /\ Telling("no_match") \in Replies /\ Telling(v.fallback) \in Replies
      BY <1>1, <1>2 DEF ReplyKinds
    <3> QED  BY <3>1, <3>2 DEF AnswerReply
  <2> QED  BY <2>1, <2>2
<1>4. MixedReply(v) \in Replies
  <2>1. Telling("no_notes") \in Replies /\ Telling("weak") \in Replies
        /\ Telling("answer") \in Replies /\ Telling(v.fallback) \in Replies
    BY <1>1, <1>2 DEF ReplyKinds
  <2> QED  BY <1>2, <2>1 DEF MixedReply, Replies
<1>5. \A requested, effective : ChatReply(requested, effective, v, blank, evidence) \in Replies
  BY <1>3, <1>4 DEF ChatReply, Replies
<1>6. NoReply \in Replies
  BY DEF NoReply, Replies, ReplyKinds
<1> QED  BY <1>1, <1>3, <1>5, <1>6

-----------------------------------------------------------------------------
(***************************************************************************)
(* Types: one step.                                                        *)
(***************************************************************************)
CacheTypes ==
    /\ DOMAIN latest = Communities
    /\ \A k \in Communities :
          DOMAIN latest[k].chunks \subseteq 1..TopK /\ Range(latest[k].chunks) \subseteq Chunks

\* What the steps of a call keep of the types.
CallTypes ==
    /\ TraceStoreTypeOK /\ FaultsTypeOK /\ CacheTypes
    /\ request \in [Calls -> Requests] /\ DOMAIN todo = Calls /\ aborted \subseteq Calls
    /\ local \in [Calls -> Locals] /\ verdict \in [Calls -> Verdicts]
    /\ reply \in [Calls -> Replies]
    /\ before \in [Calls -> [answered : SUBSET Calls, gone : SUBSET Chunks]]

\* Types and the steps that leave the tables or the faults alone.
LEMMA SameTypes ==
  /\ TypeInv => CallTypes
  /\ TraceStoreTypeOK /\ UNCHANGED traceTables => TraceStoreTypeOK'
  /\ FaultsTypeOK /\ (NoFault \/ StoreFault \/ ProviderFault) => FaultsTypeOK'
  /\ CacheTypes /\ latest' = latest => CacheTypes'
<1>1. TypeInv => CallTypes
  BY DEF TypeInv, CallTypes, CacheTypes
<1>2. TraceStoreTypeOK /\ UNCHANGED traceTables => TraceStoreTypeOK'
  BY DEF TraceStoreTypeOK, traceTables
<1>3. FaultsTypeOK /\ (NoFault \/ StoreFault \/ ProviderFault) => FaultsTypeOK'
  BY FaultBudgets DEF FaultsTypeOK, NoFault, StoreFault, ProviderFault, faultVars
<1>4. CacheTypes /\ latest' = latest => CacheTypes'
  BY DEF CacheTypes
<1> QED  BY <1>1, <1>2, <1>3, <1>4

\* The variables of a call's code keep their types, one by one.
LEMMA LocalsTyped ==
  ASSUME NEW l \in Locals
  PROVE  /\ \A r \in Rankings(Chunks) : [l EXCEPT !.dense = r] \in Locals
         /\ \A r, m \in Rankings(Chunks) : [l EXCEPT !.sparse = r, !.context = m] \in Locals
         /\ [l EXCEPT !.hasQuery = FALSE] \in Locals
         /\ \A q \in Routes \union {Unclassified}, e \in Routes :
               [l EXCEPT !.requested = q, !.effective = e] \in Locals
         /\ \A b \in BOOLEAN, w \in SUBSET Chunks :
               [l EXCEPT !.rewritten = b, !.window = w] \in Locals
         /\ \A o \in SUBSET Refs : [l EXCEPT !.offered = o] \in Locals
BY DEF Locals

\* A call begins with an untold reply and no outcome, or one without evidence.
LEMMA BeginTyped ==
  ASSUME TypeInv, NEW c \in Calls, BeginCall(c)
  PROVE  CallTypes'
<1>1. PICK req \in Requests, v \in Verdicts : \E plan : Begin(c, req, plan, v)
  <2>1. Without("none") \in Verdicts /\ Without("no_evidence") \in Verdicts
    BY WithoutTyped DEF Fallbacks
  <2>2. \A q : VerdictAtStart(q) \in Verdicts
    BY <2>1 DEF VerdictAtStart
  <2>3. PICK k \in Communities :
           \/ \E q \in Questions : Ask(c, k, q) \/ Chat(c, k, q)
           \/ Sources(c, k)
    BY DEF BeginCall
  <2>4. CASE Sources(c, k)
    <3>1. [kind |-> "sources", community |-> k, question |-> "blank"] \in Requests
      BY DEF Requests, Questions
    <3> QED  BY <2>1, <2>4, <3>1 DEF Sources
  <2>5. ASSUME NEW q \in Questions, Ask(c, k, q)
        PROVE  \E req \in Requests, v \in Verdicts : \E plan : Begin(c, req, plan, v)
    <3>1. [kind |-> "ask", community |-> k, question |-> q] \in Requests
      BY DEF Requests
    <3> QED  BY <2>2, <2>5, <3>1 DEF Ask
  <2>6. ASSUME NEW q \in Questions, Chat(c, k, q)
        PROVE  \E req \in Requests, v \in Verdicts : \E plan : Begin(c, req, plan, v)
    <3>1. [kind |-> "chat", community |-> k, question |-> q] \in Requests
      BY DEF Requests
    <3> QED  BY <2>1, <2>6, <3>1 DEF Chat
  <2> QED  BY <2>3, <2>4, <2>5, <2>6
<1>2. CallTypes
  BY SameTypes
<1>3. TraceStoreTypeOK' /\ FaultsTypeOK' /\ CacheTypes'
  BY <1>1, <1>2, SameTypes DEF Begin, CallTypes
<1>4. Replied \in SUBSET Calls /\ Gone \in SUBSET Chunks
  BY DEF Replied, Gone
<1>5. before' \in [Calls -> [answered : SUBSET Calls, gone : SUBSET Chunks]]
  BY <1>1, <1>2, <1>4 DEF Begin, CallTypes
<1> QED  BY <1>1, <1>2, <1>3, <1>5 DEF CallTypes, Begin, Decide

\* A failed call only ends.
LEMMA FailTyped ==
  ASSUME TypeInv, NEW c \in Calls, CallFails(c)
  PROVE  CallTypes'
<1>1. CallTypes /\ TraceStoreTypeOK' /\ FaultsTypeOK' /\ CacheTypes'
  BY SameTypes DEF CallFails, StoreCallFails, CallTypes
<1> QED  BY <1>1 DEF CallTypes, CallFails, StoreCallFails, Abort

\* What retrieval finds is ranked.
LEMMA RetrievalTyped ==
  ASSUME TypeInv, NEW c \in Calls,
         Embed(c) \/ Dense(c) \/ RetrievalUnsupported(c) \/ Sparse(c)
  PROVE  CallTypes'
<1>1. CallTypes /\ TraceStoreTypeOK' /\ FaultsTypeOK' /\ CacheTypes'
  BY SameTypes DEF Embed, Dense, RetrievalUnsupported, Sparse, CallTypes
<1>2. \A S, T : S \subseteq T => Rankings(S) \subseteq Rankings(T)
  BY DEF Rankings, SeqOf
<1>3. Without("no_evidence") \in Verdicts
  BY WithoutTyped DEF Fallbacks
<1>4. CASE Embed(c)
  BY <1>1, <1>4 DEF Embed, GoOn, Abort, CallTypes
<1>5. CASE Dense(c)
  <2>1. PICK ranking \in DenseRankings(Ready \intersect Searchable(c)) :
           local' = [local EXCEPT ![c].dense = ranking]
    BY <1>5 DEF Dense
  <2>2. ranking \in Rankings(Chunks)
    BY <1>2, <2>1 DEF DenseRankings, Ready
  <2>3. local' = [local EXCEPT ![c] = [local[c] EXCEPT !.dense = ranking]]
    BY <1>1, <2>1 DEF CallTypes
  <2>4. local' \in [Calls -> Locals]
    BY <1>1, <2>2, <2>3, LocalsTyped DEF CallTypes
  <2> QED  BY <1>1, <1>5, <2>4 DEF Dense, GoOn, CallTypes
<1>6. CASE RetrievalUnsupported(c)
  <2>1. local' \in [Calls -> Locals]
    <3>1. local' = [local EXCEPT ![c] = [local[c] EXCEPT !.hasQuery = FALSE]]
      BY <1>1, <1>6 DEF RetrievalUnsupported, CallTypes
    <3> QED  BY <1>1, <3>1, LocalsTyped DEF CallTypes
  <2> QED  BY <1>1, <1>3, <1>6, <2>1 DEF RetrievalUnsupported, SkipTo, Decide, CallTypes
<1>7. CASE Sparse(c)
  <2>1. PICK ranking \in SparseRankings(c) :
           /\ local' = [local EXCEPT ![c].sparse = ranking,
                                     ![c].context = Fuse(local[c].dense, ranking)]
           /\ \/ Decide(c, Without("no_evidence")) /\ SkipTo(c, "query")
              \/ GoOn(c) /\ UNCHANGED verdict
    BY <1>7 DEF Sparse
  <2>2. ranking \in Rankings(Chunks)
    BY <1>2, <2>1, EmptyRanking DEF SparseRankings, Active
  <2>3. Fuse(local[c].dense, ranking) \in Rankings(Chunks)
    BY <1>1, <2>2, FusionTakesTheTop DEF CallTypes, Locals
  <2>4. local' \in [Calls -> Locals]
    <3>1. local' = [local EXCEPT ![c] = [local[c] EXCEPT !.sparse = ranking,
                                                         !.context = Fuse(local[c].dense, ranking)]]
      BY <1>1, <2>1 DEF CallTypes
    <3> QED  BY <1>1, <2>2, <2>3, <3>1, LocalsTyped DEF CallTypes
  <2>5. verdict' \in [Calls -> Verdicts] /\ DOMAIN todo' = Calls
    BY <1>1, <1>3, <2>1 DEF CallTypes, Decide, SkipTo, GoOn
  <2> QED  BY <1>1, <1>7, <2>4, <2>5 DEF Sparse, CallTypes
<1> QED  BY <1>4, <1>5, <1>6, <1>7

\* What a model says leaves a verdict.
LEMMA GenerateTyped ==
  ASSUME TypeInv, NEW c \in Calls,
         \/ Generate(c) \/ GenerateNotesPlusModel(c) \/ GenerateNotesPlusKnowledge(c)
         \/ GenerateModelOnly(c)
  PROVE  CallTypes'
<1>1. Without("provider_unavailable") \in Verdicts
  BY WithoutTyped DEF Fallbacks
<1>2. \/ \E v \in Verdicts : Accept(c, v)
      \/ Unavailable(c) \/ RaiseUncaught(c)
  BY ParsersTyped DEF Generate, GenerateNotesPlusModel, GenerateNotesPlusKnowledge, GenerateModelOnly
<1>3. UNCHANGED <<request, local, reply, latest, before, traceTables, deployment>>
  BY DEF Generate, GenerateNotesPlusModel, GenerateNotesPlusKnowledge, GenerateModelOnly
<1>4. NoFault \/ ProviderFault
  BY <1>2 DEF Accept, Unavailable, RaiseUncaught
<1>5. CallTypes /\ TraceStoreTypeOK' /\ FaultsTypeOK' /\ CacheTypes'
  BY <1>3, <1>4, SameTypes DEF CallTypes
<1>6. verdict' \in [Calls -> Verdicts] /\ DOMAIN todo' = Calls /\ aborted' \subseteq Calls
  BY <1>1, <1>2, <1>5 DEF CallTypes, Accept, Unavailable, RaiseUncaught, Decide, GoOn, Abort
<1> QED  BY <1>3, <1>5, <1>6 DEF CallTypes

\* The route and what its adapters return.
LEMMA RoutingTyped ==
  ASSUME TypeInv, NEW c \in Calls,
         Classify(c) \/ Rewrite(c) \/ RewriteOutward(c) \/ Search(c)
  PROVE  CallTypes'
<1>1. CallTypes /\ TraceStoreTypeOK' /\ FaultsTypeOK' /\ CacheTypes'
  BY SameTypes DEF Classify, Rewrite, RewriteOutward, Search, CallTypes
<1>2. CASE Classify(c)
  <2>1. PICK requested \in Routes \union {Unclassified} :
           /\ local' = [local EXCEPT ![c].requested = requested,
                                     ![c].effective = EffectiveRoute(requested)]
           /\ DOMAIN todo' = DOMAIN todo
           /\ \E q : verdict' = [verdict EXCEPT ![c] = VerdictAtStart(q)]
                    \/ verdict' = [verdict EXCEPT ![c] = Without("none")]
    BY <1>2 DEF Classify, Decide
  <2>2. EffectiveRoute(requested) \in Routes
    BY DEF EffectiveRoute, Routes
  <2>3. local' \in [Calls -> Locals]
    <3>1. local' = [local EXCEPT ![c] = [local[c] EXCEPT !.requested = requested,
                                                         !.effective = EffectiveRoute(requested)]]
      BY <1>1, <2>1 DEF CallTypes
    <3> QED  BY <1>1, <2>2, <3>1, LocalsTyped DEF CallTypes
  <2>4. Without("none") \in Verdicts /\ \A q : VerdictAtStart(q) \in Verdicts
    BY WithoutTyped DEF VerdictAtStart, Fallbacks
  <2>5. verdict' \in [Calls -> Verdicts]
    BY <1>1, <2>1, <2>4 DEF CallTypes
  <2> QED  BY <1>1, <1>2, <2>1, <2>3, <2>5 DEF Classify, CallTypes
<1>3. CASE Rewrite(c)
  <2>1. PICK raw \in RawRewrites :
           local' = [local EXCEPT ![c].rewritten = RewriterReads(raw).rewritten,
                                  ![c].window = RewriterReads(raw).window]
    BY <1>3 DEF Rewrite
  <2>2. local' \in [Calls -> Locals]
    <3>1. local' = [local EXCEPT ![c] = [local[c] EXCEPT !.rewritten = RewriterReads(raw).rewritten,
                                                         !.window = RewriterReads(raw).window]]
      BY <1>1, <2>1 DEF CallTypes
    <3> QED  BY <1>1, <3>1, AdaptersTyped, LocalsTyped DEF CallTypes
  <2> QED  BY <1>1, <1>3, <2>2 DEF Rewrite, GoOn, CallTypes
<1>4. CASE RewriteOutward(c)
  BY <1>1, <1>4 DEF RewriteOutward, GoOn, CallTypes
<1>5. CASE Search(c)
  <2>1. PICK response \in SearchResponses :
           local' = [local EXCEPT ![c].offered = KnowledgeReads(response)]
    BY <1>5 DEF Search
  <2>2. local' \in [Calls -> Locals]
    <3>1. local' = [local EXCEPT ![c] = [local[c] EXCEPT !.offered = KnowledgeReads(response)]]
      BY <1>1, <2>1 DEF CallTypes
    <3> QED  BY <1>1, <3>1, AdaptersTyped, LocalsTyped DEF CallTypes
  <2> QED  BY <1>1, <1>5, <2>2 DEF Search, GoOn, CallTypes
<1> QED  BY <1>2, <1>3, <1>4, <1>5

\* Every hit has a leg, a rank and a chunk.
LEMMA HitsTyped ==
  ASSUME TypeInv, NEW c \in Calls
  PROVE  \A h \in FoundRows(c) :
            [call |-> c, leg |-> h.leg, rank |-> h.rank, chunk |-> h.chunk]
               \in [call : Calls, leg : Legs, rank : 1..(2 * CandidateK), chunk : Chunks]
<1>1. local[c].dense \in Rankings(Chunks) /\ local[c].sparse \in Rankings(Chunks)
      /\ local[c].context \in Rankings(Chunks)
  BY DEF TypeInv, Locals
<1>2. ASSUME NEW s \in Rankings(Chunks), NEW r \in DOMAIN s
      PROVE  r \in 1..(2 * CandidateK) /\ s[r] \in Chunks
  <2>1. Len(s) \in 0..CandidateK /\ DOMAIN s = 1..Len(s) /\ s \in [1..Len(s) -> Chunks]
    BY RankingFacts
  <2> QED  BY <1>2, <2>1, FusionAssumption
<1>3. \A h \in FoundRows(c) : h.leg \in Legs /\ h.rank \in 1..(2 * CandidateK) /\ h.chunk \in Chunks
  BY <1>1, <1>2 DEF FoundRows, Hits, Legs
<1> QED  BY <1>3

\* What is written has the types of the tables.
LEMMA PersistTyped ==
  ASSUME TypeInv, NEW c \in Calls,
         \/ PersistQuery(c) \/ PersistHits(c) \/ PersistTrace(c)
         \/ PersistDecision(c) \/ PersistRewrite(c) \/ PersistSearch(c),
         IsFiniteSet(local[c].offered)
  PROVE  CallTypes' /\ hits \subseteq hits'
<1>1. CallTypes /\ FaultsTypeOK' /\ CacheTypes'
  BY SameTypes DEF PersistQuery, PersistHits, PersistTrace, PersistDecision, PersistRewrite,
     PersistSearch, CallTypes
<1>2. TraceStoreTypeOK
  BY <1>1 DEF CallTypes
<1>3. /\ request[c].community \in Communities /\ verdict[c].fallback \in Fallbacks
      /\ local[c] \in Locals
  BY <1>1 DEF CallTypes, Requests, Verdicts
<1>4. CASE PersistQuery(c)
  <2>1. TraceStoreTypeOK' /\ hits' = hits
    BY <1>2, <1>3, <1>4 DEF PersistQuery, SaveQuery, TraceStoreTypeOK
  <2> QED  BY <1>1, <1>4, <2>1 DEF PersistQuery, GoOn, CallTypes
<1>5. CASE PersistHits(c)
  <2>1. CASE UNCHANGED traceTables
    BY <1>1, <1>2, <1>5, <2>1, SameTypes DEF PersistHits, GoOn, Abort, CallTypes, traceTables
  <2>2. CASE SaveHits(c, FoundRows(c))
    <3>1. TraceStoreTypeOK' /\ hits \subseteq hits'
      BY <1>2, <2>2, HitsTyped DEF SaveHits, TraceStoreTypeOK
    <3> QED  BY <1>1, <1>5, <3>1 DEF PersistHits, GoOn, Abort, CallTypes
  <2> QED  BY <1>5, <2>1, <2>2 DEF PersistHits
<1>6. CASE PersistTrace(c)
  <2>1. TraceStoreTypeOK' /\ hits' = hits
    BY <1>2, <1>3, <1>6 DEF PersistTrace, SaveTrace, TraceStoreTypeOK, Locals
  <2> QED  BY <1>1, <1>6, <2>1 DEF PersistTrace, GoOn, CallTypes
<1>7. CASE PersistDecision(c)
  <2>1. TraceStoreTypeOK' /\ hits' = hits
    <3>1. [call |-> c, requested |-> local[c].requested, effective |-> local[c].effective,
           hasQuery |-> QueryRef(c)]
             \in [call : Calls, requested : Routes \union {Unclassified}, effective : Routes,
                  hasQuery : BOOLEAN]
      BY <1>3 DEF Locals, QueryRef
    <3> QED  BY <1>2, <1>7, <3>1 DEF PersistDecision, SaveDecision, TraceStoreTypeOK
  <2>2. DOMAIN todo' = Calls
    BY <1>1, <1>7 DEF PersistDecision, GoOn, SkipTo, CallTypes
  <2> QED  BY <1>1, <1>7, <2>1, <2>2 DEF PersistDecision, CallTypes
<1>8. CASE PersistRewrite(c)
  <2>1. TraceStoreTypeOK' /\ hits' = hits
    BY <1>2, <1>3, <1>8 DEF PersistRewrite, SaveRewrite, TraceStoreTypeOK, Locals
  <2> QED  BY <1>1, <1>8, <2>1 DEF PersistRewrite, GoOn, CallTypes
<1>9. CASE PersistSearch(c)
  <2>1. Cardinality(local[c].offered) \in Nat
    BY FS_CardinalityType
  <2>2. TraceStoreTypeOK' /\ hits' = hits
    BY <1>2, <1>9, <2>1 DEF PersistSearch, SaveSearch, TraceStoreTypeOK
  <2> QED  BY <1>1, <1>9, <2>2 DEF PersistSearch, GoOn, CallTypes
<1> QED  BY <1>4, <1>5, <1>6, <1>7, <1>8, <1>9

\* The cited chunks, in their places.
LEMMA CitedTyped ==
  ASSUME TypeInv, NEW c \in Calls, Retrieved(c)
  PROVE  /\ DOMAIN CitedInOrder(c) \subseteq 1..TopK
         /\ Range(CitedInOrder(c)) \subseteq Chunks
<1> DEFINE context == local[c].context
           places == {r \in DOMAIN context : context[r] \in verdict[c].cites}
<1>1. context \in Rankings(Chunks) /\ Len(context) \in 0..TopK
  <2>1. local[c].dense \in Rankings(Chunks) /\ local[c].sparse \in Rankings(Chunks)
    BY FoundChunksFacts
  <2>2. CASE context = <<>>
    BY <2>2, EmptyRanking, FusionAssumption
  <2>3. CASE context = Fuse(local[c].dense, local[c].sparse)
    BY <2>1, <2>3, FusionTakesTheTop
  <2> QED  BY <2>2, <2>3 DEF Retrieved
<1>2. DOMAIN context = 1..Len(context) /\ context \in [1..Len(context) -> Chunks]
  BY <1>1, RankingFacts
<1>3. CitedInOrder(c) = [r \in places |-> context[r]]
  BY DEF CitedInOrder, RestrictValues, Restrict
<1> HIDE DEF context
<1>4. places \subseteq 1..TopK
  BY <1>1, <1>2, FusionAssumption
<1>5. \A r \in places : context[r] \in Chunks
  BY <1>2
<1> QED  BY <1>3, <1>4, <1>5 DEF Range

\* What is remembered and told has its types.
LEMMA TellTyped ==
  ASSUME TypeInv, NEW c \in Calls, Retrieved(c),
         Remember(c) \/ SendAnswer(c) \/ SendChat(c) \/ Recall(c)
  PROVE  CallTypes'
<1>1. CallTypes /\ TraceStoreTypeOK' /\ FaultsTypeOK'
  BY SameTypes DEF Remember, SendAnswer, SendChat, Recall, Tell, CallTypes
<1>2. CASE Remember(c)
  <2>1. request[c].community \in Communities
    BY <1>1 DEF CallTypes, Requests
  <2>2. CacheTypes'
    BY <1>1, <1>2, <2>1, CitedTyped DEF Remember, CallTypes, CacheTypes
  <2> QED  BY <1>1, <1>2, <2>2 DEF Remember, GoOn, CallTypes
<1>3. ASSUME NEW r \in Replies, Tell(c, r)
      PROVE  CallTypes'
  <2>1. CacheTypes'
    BY <1>1, <1>3, SameTypes DEF Tell, CallTypes
  <2> QED  BY <1>1, <1>3, <2>1 DEF Tell, GoOn, CallTypes
<1>4. verdict[c] \in Verdicts
  BY <1>1 DEF CallTypes
<1>5. CASE SendAnswer(c)
  BY <1>3, <1>4, <1>5, RepliesTyped DEF SendAnswer
<1>6. CASE SendChat(c)
  BY <1>3, <1>4, <1>6, RepliesTyped DEF SendChat
<1>7. CASE Recall(c)
  <2> DEFINE cache == latest[request[c].community]
  <2>1. request[c].community \in Communities
    BY <1>1 DEF CallTypes, Requests
  <2>2. Range(cache.chunks) \in SUBSET Chunks
    BY <1>1, <2>1 DEF CallTypes, CacheTypes
  <2>3. /\ Telling("sources_none") \in Replies /\ Telling("sources_none_cited") \in Replies
        /\ Telling("sources") \in Replies
    BY <1>4, RepliesTyped DEF ReplyKinds
  <2>4. [Telling("sources") EXCEPT !.shown = Range(cache.chunks)] \in Replies
    BY <2>2, <2>3 DEF Replies
  <2>5. SourcesReply(cache) \in {Telling("sources_none"), Telling("sources_none_cited"),
                                 [Telling("sources") EXCEPT !.shown = Range(cache.chunks)]}
    BY DEF SourcesReply
  <2>6. SourcesReply(cache) \in Replies
    BY <2>3, <2>4, <2>5
  <2> QED  BY <1>3, <1>7, <2>6 DEF Recall
<1> QED  BY <1>2, <1>5, <1>6, <1>7

\* Before the first call everything is empty, and typed.
LEMMA TypesFromInit == Init => TypeInv
<1> SUFFICES ASSUME Init PROVE TypeInv
  OBVIOUS
<1> USE DEF Init, AnsweringInit
<1>1. CorpusTypeOK /\ TraceStoreTypeOK
  BY DEF CorpusInit, CorpusTypeOK, Visibility, TraceStoreInit, TraceStoreTypeOK
<1>2. FaultsTypeOK
  BY FaultBudgets DEF FaultsInit, FaultsTypeOK
<1>3. Unasked \in Requests
  BY TraceStoreAssumption DEF Unasked, Requests, Questions
<1>4. NoLocals \in Locals
  BY EmptyRanking DEF NoLocals, Locals, Routes
<1>5. Without("none") \in Verdicts
  BY WithoutTyped DEF Fallbacks
<1>6. NoReply \in Replies
  BY <1>5, RepliesTyped
<1>7. \A k \in Communities : latest[k].chunks = <<>>
  BY DEF NotAsked
<1>8. DOMAIN <<>> = {} /\ Range(<<>>) = {}
  BY DEF Range
<1> QED  BY <1>1, <1>2, <1>3, <1>4, <1>5, <1>6, <1>7, <1>8 DEF TypeInv

\* Whatever a call, the notes, a hard delete or a restart does keeps the types.
LEMMA TypesKept ==
  ASSUME TypeInv, \A c \in Calls : Retrieved(c) /\ IsFiniteSet(local[c].offered), [Next]_vars
  PROVE  TypeInv'
<1>1. CallTypes /\ CorpusTypeOK /\ deployment \in Deployments
      /\ \A e \in erasing : e.chunk \in Chunks /\ e.seen \subseteq hits
  BY SameTypes DEF TypeInv
<1>2. ASSUME NEW c \in Calls, BeginCall(c) \/ CallStep(c) \/ CallFails(c)
      PROVE  TypeInv'
  <2>1. CallTypes' /\ hits \subseteq hits'
    <3>1. CASE BeginCall(c)
      BY <3>1, BeginTyped DEF BeginCall, Ask, Chat, Sources, Begin, traceTables
    <3>2. CASE CallFails(c)
      BY <3>2, FailTyped DEF CallFails, StoreCallFails, traceTables
    <3>3. CASE Embed(c) \/ Dense(c) \/ RetrievalUnsupported(c) \/ Sparse(c)
      BY <3>3, RetrievalTyped DEF Embed, Dense, RetrievalUnsupported, Sparse, traceTables
    <3>4. CASE \/ Generate(c) \/ GenerateNotesPlusModel(c) \/ GenerateNotesPlusKnowledge(c)
               \/ GenerateModelOnly(c)
      BY <3>4, GenerateTyped DEF Generate, GenerateNotesPlusModel, GenerateNotesPlusKnowledge,
         GenerateModelOnly, traceTables
    <3>5. CASE Classify(c) \/ Rewrite(c) \/ RewriteOutward(c) \/ Search(c)
      BY <3>5, RoutingTyped DEF Classify, Rewrite, RewriteOutward, Search, traceTables
    <3>6. CASE \/ PersistQuery(c) \/ PersistHits(c) \/ PersistTrace(c)
               \/ PersistDecision(c) \/ PersistRewrite(c) \/ PersistSearch(c)
      BY <3>6, PersistTyped
    <3>7. CASE Remember(c) \/ SendAnswer(c) \/ SendChat(c) \/ Recall(c)
      BY <3>7, TellTyped DEF Remember, SendAnswer, SendChat, Recall, Tell, traceTables
    <3> QED  BY <1>2, <3>1, <3>2, <3>3, <3>4, <3>5, <3>6, <3>7 DEF CallStep, AnsweringStep, ChatStep
  <2>2. corpus' = corpus /\ erasing' = erasing
    BY <1>2 DEF BeginCall, CallStep, CallFails
  <2>3. deployment' = deployment
    BY <1>2, AnsweringStepIsOwn, ChatStepIsOwn, BeginAndFailAreOwn DEF CallStep, Own
  <2>4. CorpusTypeOK'
    BY <1>1, <2>2 DEF CorpusTypeOK
  <2> QED  BY <1>1, <2>1, <2>2, <2>3, <2>4 DEF TypeInv, CallTypes, CacheTypes
<1>3. ASSUME UNCHANGED <<traceTables, deployment, callVars, latest, faultVars>>
      PROVE  CallTypes' /\ deployment' = deployment /\ hits' = hits
  BY <1>1, <1>3, SameTypes DEF CallTypes, callVars, NoFault, traceTables
<1>4. ASSUME NEW k \in Chunks, NotesStep(k)
      PROVE  TypeInv'
  <2>1. CorpusTypeOK' /\ erasing' = erasing
    BY <1>1, <1>4 DEF NotesStep, SaveChunkRow, IndexChunk, RetireChunk, Become, CorpusTypeOK,
       Visibility
  <2>2. CallTypes' /\ deployment' = deployment /\ hits' = hits
    BY <1>3, <1>4 DEF NotesStep
  <2> QED  BY <1>1, <2>1, <2>2 DEF TypeInv, CallTypes, CacheTypes
<1>5. ASSUME NEW k \in Chunks, BeginHardDelete(k)
      PROVE  TypeInv'
  <2>1. CallTypes' /\ deployment' = deployment /\ hits' = hits
    BY <1>3, <1>5 DEF BeginHardDelete
  <2>2. CorpusTypeOK' /\ \A e \in erasing' : e.chunk \in Chunks /\ e.seen \subseteq hits
    BY <1>1, <1>5 DEF BeginHardDelete, CorpusTypeOK
  <2> QED  BY <1>1, <2>1, <2>2 DEF TypeInv, CallTypes, CacheTypes
<1>6. ASSUME NEW k \in Chunks, FinishHardDelete(k)
      PROVE  TypeInv'
  <2>1. CorpusTypeOK' /\ TraceStoreTypeOK'
    <3>1. CASE EraseChunk(k) /\ DeleteHitsOf(k)
      BY <1>1, <3>1 DEF EraseChunk, DeleteHitsOf, Become, CorpusTypeOK, Visibility, CallTypes,
         TraceStoreTypeOK
    <3>2. CASE UNCHANGED <<corpus, traceTables>>
      BY <1>1, <3>2, SameTypes DEF CorpusTypeOK, CallTypes
    <3> QED  BY <1>6, <3>1, <3>2 DEF FinishHardDelete
  <2>2. FaultsTypeOK' /\ CacheTypes'
    BY <1>1, <1>6, SameTypes DEF FinishHardDelete, CallTypes, NoFault
  <2> QED  BY <1>1, <1>6, <2>1, <2>2 DEF FinishHardDelete, TypeInv, CallTypes, CacheTypes, callVars
<1>7. CASE Restart
  <2>1. CorpusTypeOK' /\ TraceStoreTypeOK' /\ FaultsTypeOK'
    BY <1>1, <1>7, SameTypes DEF Restart, CorpusTypeOK, CallTypes
  <2>2. aborted' \subseteq Calls /\ DOMAIN todo' = Calls /\ DOMAIN latest' = Communities
    BY <1>1, <1>7 DEF Restart, CallTypes, InFlight
  <2>3. \A k \in Communities : DOMAIN latest'[k].chunks = {} /\ Range(latest'[k].chunks) = {}
    BY <1>7 DEF Restart, NotAsked, Range
  <2> QED  BY <1>1, <1>7, <2>1, <2>2, <2>3 DEF Restart, TypeInv, CallTypes
<1>8. CASE Rest \/ UNCHANGED vars
  <2>1. CallTypes' /\ deployment' = deployment /\ hits' = hits
    BY <1>3, <1>8 DEF Rest, vars
  <2>2. CorpusTypeOK' /\ erasing' = erasing
    BY <1>1, <1>8 DEF Rest, vars, CorpusTypeOK
  <2> QED  BY <1>1, <2>1, <2>2 DEF TypeInv, CallTypes, CacheTypes
<1> QED  BY <1>2, <1>4, <1>5, <1>6, <1>7, <1>8 DEF Next
=============================================================================
