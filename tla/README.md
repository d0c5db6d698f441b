# A TLA+ verification of the diary memory service

The repository is a Telegram diary: messages are captured into PostgreSQL,
split into chunks, embedded, and later searched and answered from. This
directory models it in three parts: the **capture** side (`DomainService`,
`ReconciliationService` and the tables they share), the **answering** side
(`/ask`, `/chat`, `/sources`: the query service, the routed chat, retrieval, the
provenance tables) and **delivery** (the webhook handler, the provider retry
loop, message packing). TLC checks them on small instances; TLAPS proves the
safety properties for all.

All paths are relative to the repository root (`src/memory_rag/...`).

## 1. Inventory

### The system's parts

| Part | State it keeps | Operations | Made correct by |
|---|---|---|---|
| Telegram webhook (`adapters/telegram/webhook.py`) | none; Telegram keeps an update until it sees HTTP 200 | `telegram_webhook`: map the update (`edit_seq` from `edit_date`), dispatch, send the reply, answer | every update is answered in the end; a redelivery has no effect beyond the first |
| Dispatcher (`services/dispatcher.py`) | `_latest_sources`, the last `/ask`'s evidence per community, in memory | normalise `/note`, classify plain text, route to the services, render replies | `/sources` shows the evidence of the last answer of the same community |
| Domain service (`services/domain_service.py`) | none of its own; the tables | `ingest`, `delete_note_for_external_message`, `hard_delete_source_message`, `_embed_chunks`, `_reconstruct_result` | raw first; idempotent per message state; the retrievable revision is the intended one; nothing erased returns |
| Reconciliation (`services/reconciliation.py`) | none; an operator's command line with a snapshot of failed chunks | `discover_failed_chunks`, `retry_failed_chunks` | records before status; failed chunks become ready in the end |
| Query service (`services/query_service.py`) | `queries`, `retrieval_hits`, `answer_traces` | `answer`: embed, retrieve, call the answer client, save query, hits and trace | one trace per call (R-5); only active chunks of the caller's community |
| Hybrid retrieval (`services/retrieval.py`) | none | dense and sparse legs, RRF fusion | fusion equals its definition, deterministic order |
| Routed chat (`services/routed_chat.py`) | `chat_route_decisions`, `chat_query_rewrites`, `chat_knowledge_searches` | `chat`: classify, rewrite, retrieve, search, answer, record | which provenance rows each path leaves; a rerouted answer says so |
| Provider resilience (`adapters/resilience.py`) | none | bounded retries with capped waits | at most `max_attempts` calls, bounded wall time (R-9) |
| Draft packing (`adapters/telegram/drafts_packing.py`) | none | split a listing into numbered parts within the limit | no part over the limit, nothing dropped |
| Postgres store (`storage/postgres/store.py`, migrations) | all tables | one method, one transaction | constraints, row counts |
| SQLite and mock stores | the same contract | the same | the same |
| Parser, routing, models (`core/`) | none | pure functions | what a text is classified as |
| Author display, export, provider adapters, migrations runner, boot gates (`app.py`), evaluation harness, backup scripts | see PROJECT.json | | |

### How they interact

`telegram_webhook` is a plain `def`, so FastAPI runs every delivery on a thread
of a pool: **handlers run concurrently** and interleave between any two store
calls. Every store method takes a pooled connection, runs its statements and
commits; the services open no transaction around several calls. An operator
runs `reconciliation --retry` and hard deletes in processes of their own against
the same tables. The embedding call sits between two transactions and may take
tens of seconds. An exception out of the handler is HTTP 500: what was committed
stays, and Telegram delivers the update again.

The two sides meet in the database only. What answering needs to know of capture
is the life of a chunk: when which retrieval leg may return it, and when its row
is gone. The module `Corpus` states that life; the capture model implements it
and the answering model runs beside it.

### What is hard

* Two handlers for one message (a redelivery, two edits, an edit and a
  `/delete`) read the prior revision before either has written.
* `ingest` is up to ten transactions; the process may die, or a call raise,
  between any two. The redelivery then takes the *replay* path, which repairs
  nothing.
* A retry works on a snapshot while the webhook supersedes, removes or marks the
  same chunks, and while another retry works on the same snapshot.
* A hard delete removes rows a handler or a retry is about to reference.
* Same-second edits share a key; a redelivered `/delete` has none.
* `created_at` is taken before the row is inserted: concurrent captures may commit
  in the other order.
* An answer is up to six provider calls, two reads and six transactions; notes
  change and go between any two of them, and a failure leaves what was written.
* The `/sources` cache is written by concurrent `/ask`s and read without a lock.
* A listing is several messages, each of which may arrive, fail, or arrive and
  be taken for failed.

`PROJECT.json` lists each hazard at its line with the property that covers it,
or why none does.

## 2. The modules

| Module | Models | Lines that matter |
|---|---|---|
| `DiaryStore` | the ingestion tables, their constraints, one operator per store transaction | `storage/postgres/store.py`, `migrations/0001`, `0003` |
| `Faults` | failing store calls and killed processes, provider outages, lost answers, each with a budget | environment |
| `Ingestion` | `ingest`, its replay path, removals and `_embed_chunks`, one action per store or provider call | `services/domain_service.py` |
| `Reconciliation` | `retry_failed_chunks`, one action per call | `services/reconciliation.py` |
| `DiarySystem` | the composition: the user, Telegram, handler threads, operators, hard deletes; the properties | `adapters/telegram/webhook.py`, `domain_service.py` |
| `Diary` | the abstract promise: what a user may assume about each message | implemented by `DiarySystem` |
| `Corpus` | the life of a chunk as retrieval sees it | implemented by `DiarySystem`, used by `Conversation` |
| `Fusion` | reciprocal rank fusion and the hit rows | `services/retrieval.py` |
| `TraceStore` | the provenance tables and their constraints | `storage/postgres/store.py`, `migrations/0001`, `0007`-`0009` |
| `Answers` | the four answer parsers, what the adapters make of a provider's output, the replies | `core/domain/answer_schema.py`, `core/chat/*`, `adapters/chat_routing`, `adapters/knowledge`, `services/dispatcher.py` |
| `Answering` | `/ask` and `/sources`, one action per provider call, read or transaction | `services/query_service.py`, `dispatcher.py` |
| `RoutedChat` | `/chat`: the routes and their further steps | `services/routed_chat.py` |
| `Conversation` | the composition: calls, changing notes, hard deletes, restarts; the properties | |
| `Resilience` | `run_with_retries`, attempt by attempt, with its waits | `adapters/resilience.py` |
| `Packing` | `pack_drafts_into_messages` and what a reader can put together again | `adapters/telegram/drafts_packing.py` |
| `Delivery` | the webhook handler: redelivery, author snapshots, listings, exports, provider calls | `adapters/telegram/webhook.py`, `dispatcher.py`, `author_display.py`, `services/export_service.py` |
| `MCDiary`, `MCConversation`, `MCDelivery` | symmetry, and the sets the configurations choose from | |
| `DiarySystem_proofs`, `DiaryDamage_proofs`, `DiaryQuiet_proofs` | the proofs about capture: types, rows, revisions, embedding, answers and the refinement of `Corpus`; the damage of failures; what the user gets without them, and the refinement of `Diary` | |
| `Places_proofs`, `Fusion_proofs` | places in a strict order, and going through a range step by step; what fusion returns | |
| `Answering_proofs`, `Conversation_proofs` | the invariant of the answering side; that every step keeps it, and what follows | |
| `Delivery_proofs` | the proofs about provider calls, author snapshots, listings, the packer and what of a listing arrives | |

### Capture: state and code

A *run* is one delivery of one update, numbered in starting order. A delivery
inserts at most one row into each of `source_messages`, `notes`, `event_chunks`
(one explicit note is one chunk, I-5) and `embedding_records`, so **a row is
named by the run that inserted it**: `note[r]` is the `lifecycle_state` of the
notes row of run `r`, or `Absent`. `now` is taken on the first line of `ingest`,
so the order of run numbers is the order of `created_at`, which
`get_active_note_for_external_message` sorts by. `inbound[r]` is what the run
handles: the message, its `edit_seq`, and a `kind`, which is what
`_normalize_note_first_line`, `parse_note` and the routing make of the text:

* `note`: a note with a body; `date_only`: a note with a date and no body,
  which gets a notes row and no chunk;
* `empty`: the bare command, which `parse_note` refuses after the raw row is
  saved;
* `draft`: text without a command; as an edit of a note it removes the note;
* `delete`: `/delete` in reply to the message; it saves no row.

A replay rebuilds its result from the row it found (`Reconstruct`), by the route
stored there, while the reply is formatted by the route of the delivery.
`Undated` is the one pair that does not fit: a `/note` over the row of a draft,
which only a same-second edit can bring about, fails the assertion in
`_format_ingest_reply` and is an exception out of the handler.

`pc[r]` names the call the handler makes next. The locals the code carries from
one call to the next (`priorNote`, `priorChunk`, `replayOf`) are variables,
because what they hold may be stale when used. `Raise` is an exception out of
the handler; `FailRun` is a store call that raises before committing, or a
process killed there. A store call that *must* fail (a foreign key, a row count)
raises without a fault being counted. `lastSaved`, `intended`, `erased` and
`refused` are history: no guard of the code reads them (a bound on hard deletes
counts `erased`).

`Reconciliation` keeps, per operator, the snapshot `list_failed_event_chunks`
returned and the next call. A group is the failed chunks of one source, hence
one chunk.

`Deliver` starts a handler for any update Telegram has not seen answered, up to
`MaxInFlight` at once, in any order; `Respond` answers it, and the answer may be
lost. `Patient` restricts the *user* to write only when nothing is pending.
`Rest` is the only step allowed when nothing is under way, so deadlock checking
stays on in every run and finds a handler or retry left without a step.

### Answering: state and code

A call is one `/ask`, `/chat` or `/sources`. `todo[c]` is the list of steps it
has left: the *plan* of a route is the order in which its method makes its
provider calls, reads and transactions, written once (`AskPlan`,
`NotesPlusModelPlan`, ...), and an early return is a jump to a later step
(`SkipTo`). `local[c]` holds what the code keeps in variables between two steps,
`verdict[c]` the outcome it will both record and tell. A row is named by the call
that inserts it, which is possible because every call draws fresh ids.

What a model, a classifier, a rewriter or the search service may answer is a set
(`RawAnswers`, `RawRewrites`, `SearchResponses`), the unusable outputs included:
malformed JSON, a marker that cannot be hashed, fabricated citations, empty
texts, an unusable entry beyond the ones read. The parsers are the code's
conditions over them. A text is reduced to whether it is empty and to its plane
(from the notes, from the model, from the web); a leg of retrieval returns any
ranking of what its WHERE clause admits, since what a vector or a text search
prefers is not the code's to decide.

`Conversation` changes the corpus during calls, lets a hard delete be two
statements of one transaction with a commit of a hit in between, and kills the
process. `deployment` picks the store and whether a knowledge source is wired:
on SQLite there is no retrieval, which `docs/RUNBOOK.md` calls the canonical
contour.

### Delivery: state and code

One chat. `handler[h]` is what a webhook thread is doing: the update, the next
step, the rows it will show, the packed messages and the chat's `inbox`. A note
or draft is reduced to the row of `source_messages` it leaves, a question to its
two provider calls and the notes it cites, in any order; the other two parts have
the rest.
`captured` lists the rows in the order of `created_at`, by which
`list_recent_drafts` sorts and which *newer* means here. `ingest` takes the time
before it inserts the row, so a new row comes after every row there was when its
handler started (`rows`) and anywhere among those inserted since (`Insert`). Two
rows never have the same microsecond, and the clock does not go back.
`Send` has three outcomes: the message arrives; it does not; it arrives and the
client sees an error. `call[h]` is the retry loop of `Resilience`, whose elapsed
time is counted in units.

`Packing` works on lengths: a message is the pieces it carries and its length, a
piece a block or a stretch of one. `Take` is one turn of the packer's loop,
`Flushed` the message sent off when a block does not join it, `Split` an oversized
block; `IsFaithful` says what a reader must be able to put together. The loop that
looks for the number of parts is the first number that does (`IsPartCount`), up to
`MostParts` (999, four million characters at Telegram's limit). The packer is
pure, so `Delivery` looks its results up in a table (`Packings`) of all listings of
the blocks there are, which spares TLC from packing anew in every state.

## 3. What the runs check

| Run | Asks | Bounds | Distinct states |
|---|---|---|---|
| `diary_concurrent` | what holds whatever interleaves and fails | 3 deliveries, 2 updates of one message (same-second edits included), 2 handlers at once, 1 retry run, 1 outage, 1 failure, 1 hard delete | 2.8 million |
| `diary_crash` | the damage of failures when deliveries do not overlap | 5 deliveries, 3 updates, 2 messages, 2 failures, 1 outage, 1 lost answer | 2.5 million (with symmetry) |
| `diary_quiet` | what the user gets when no store call fails, with outages | 4 deliveries, 3 updates, 1 message, 2 outages, 1 lost answer, 2 retry runs at once | 150 thousand, with fairness |
| `ask` | what answers and their records are worth while notes change and calls overlap | 2 calls, 2 communities, 1 chunk with its whole life, 1 failure or restart, 1 outage, hard deletes, both stores | 2.4 million |
| `chat` | every route with every provider output | 1 call, 2 chunks in any state, candidate_k 2, top_k 1, 1 url, 1 failure, 1 outage, both stores, with and without a knowledge source | 490 thousand, with fairness |
| `delivery` | what reaches the chat | 2 updates of any kind beside 2 earlier rows, 2 threads, 1 failure or restart, 1 outage, 1 lost answer; a limit of 20 characters, so that a block of 24 is split | 960 thousand, with fairness |

**`diary_concurrent`.** `ReadyHasRecord`: the dense leg joins on the record, so a
ready chunk without one would be lost with nobody to repair it.
`EmbeddingOnlyAdvances`: the status column is written blindly by the ingest and
by retries, and still never goes back. `OneNotePerMessageState` (R-2): no double
note from redeliveries. `NeverZeroActive`: racing or dying edits always leave an
active revision, unless a removal or an erasure is involved.
`ErasedStaysErased`: no stale handler or retry resurrects an erased row.
`ConfirmedIsStored`: no "saved" without the committed rows.

**`diary_crash`.** `RetrievableIsCurrent`: a death between the two flips never
leaves a retired note's chunk retrievable (chunk first). `ExtraRevisionsBounded`
and `StrandedBounded`: a failure between two transactions *does* leave damage
nobody repairs (a second active revision; a raw row without its note); each
failure leaves at most one. `OnlyFaultsAbandon`: it costs one delivery, for what
it leaves behind makes no later delivery raise; the one delivery that raises
unaided is that of a `/note` over the row of a draft (section 4).

**`diary_quiet`.** `AtRestShowsIntent` (R-4): once all is answered, exactly the
text the user last meant is retrievable. `ReplaySameResult`: a redelivery says
what the first delivery said. `EveryUpdateAnswered` and `EmbeddingCatchesUp` are
liveness; the first holds because `SameSecond` is FALSE in this run: a `/note`
that finds the row of a draft is never answered (section 4). `KeepsPromise`: the
system implements `Diary`, under the mapping `Promise` in `DiarySystem` (the text
held is the newest retrievable chunk's, a text is captured when its chunk
commits): a later text only ever replaces an earlier one, a removed text never
comes back, and "saved" is only said of a captured text.
`ImplementsCorpus` (in `diary_concurrent`): under `ChunkView` a
chunk only goes from unsaved to saved, to ready, to retired, to erased, whatever
blind writes of the status column race with edits, which is what `Conversation`
assumes of the notes.

**`ask`.** `RepliesAreGrounded` (R-3, R-4, R-8, I-9, D-099): text told as the
notes' cites something, only from the context, of the asking community, not
retired before the question came. `RepliesAreTraced` (R-5): what is told is on
record with one fallback, the context and every hit on a row that still exists.
`ErasedLeavesNoHits`: insertions of hits racing with a hard delete.
`UntracedIsExplained`: a query without a trace is only ever the work of a failed
store call, a killed process or an erasure of something it found.
`SourcesAreLatest` (R-6): the cache is never older than an answer that was
complete before a later one began.

**`chat`.** The first two again, over the four routes, and
`NoBetterChunkLeftOut` (fusion against the definition of being ranked better),
`ChatsAreAccounted` (R-11: one decision row naming its query, and the rows of
what the route did beside), `RoutesAreHonest` (R-6: a rerouted answer says so,
planes are told apart, web text has references its search returned) and
`EveryCallEnds`.

**`delivery`.** `ListingsAreWhole` (D-030): a listing sent without an error is
whole, in order and within the limit; one cut short was cut by an outage, never
by its own length, what arrived is its beginning, and the notice, if it arrives,
comes last and miscounts by at most one. `AuthorsAreKept`: the author of a confirmed
message is known, whichever delivery died where. `DraftsAreTheNewest`: `/drafts`
leaves out a confirmed draft only for newer ones and says "all" only when it is
all. With two updates one capture overlaps a listing; the theorem covers any number,
inserted against the order of `created_at`.
`CallsAreBounded` (R-9). `EveryUpdateAnswered`.

### Bounds

Each bound is a constant of the `.cfg`. Two concurrent handlers and three
deliveries are what a lost race takes (two that race and one that observes or
replays); one fault of each kind suffices to die at any point and be
redelivered, and the crash run has two so that damage can add up. In
`diary_quiet` `MaxRuns` equals updates plus lost answers, so the bound on
deliveries never stops an update from being answered and liveness is not helped
or hurt by it. What does not depend on the bounds is proved (section 5).

In `ask` two calls suffice to overlap and for a `/sources` to follow, one chunk
suffices to be found, retired and erased under them, and the second community
shows any leak because all chunks are in the first. `chat` has one call, because
routed calls share nothing but the corpus (only `/ask` writes the cache), and two
chunks, because fusion compares two; there the notes change only before and after the call.
`NoBetterChunkLeftOut` says a chunk both legs found beats one only one leg found,
which needs `candidate_k < k + 2`; the defaults are 20 and 60, and the property
states the condition. The fused score is exact in the model and floating point in
the code: at two legs the order is the same. `delivery` scales Telegram's limit of
4096 down to 20 and the digits of part numbers with it; its updates are
interchangeable, so `Representative` keeps one order of each pair.

### Fairness

`FairSpec` assumes weak fairness of each handler's next call and of its answer
(threads are scheduled), of delivery of each pending update (Telegram retries
until it sees 200) and of the operators' retries. The last is an assumption about
people: nothing in the code schedules `--retry`, and `docs/RUNBOOK.md` describes
it as operator-run; an operator who keeps running it is what the promise that
outages are only a delay rests on. The user and the faults are never
fair. Faults are limited by budgets, which is the assumption that outages end.
`EmbeddingCatchesUp` also needs that no store call fails: a failure between the
record and the status leaves a chunk that every later retry collides on (the
UNIQUE key), and a process killed before marking leaves it `pending`, which no
retry lists. Both are in the hazard list as uncovered: the property is false of
this code with a failure, and no document promises it.

`Conversation` and `Delivery` assume weak fairness of each call's or handler's
next step: threads are scheduled, and a provider call returns or raises
(`Resilience`; the SDK enforces the timeout of an attempt). `Delivery` also
assumes that Telegram delivers what is not answered again. Users, note changes,
restarts and faults are not fair.

## 4. Where the code and its documents disagree

Each of these is a run that TLC must find violated.

* `reembed_retired`: `list_failed_event_chunks` selects on the embedding status
  alone, so a chunk that failed and was then superseded or removed is embedded by
  the next `--retry`. R-4 says a retired chunk is never re-embedded.
* `hard_delete_refused`: `indexing_dead_letters` references `source_messages`
  and `hard_delete_source_message` does not delete from it, so a source that ever
  failed to embed can no longer be hard-deleted; the contract says every derived
  row goes.
* `raw_stranded`: a failure between the raw row and its note makes the
  redelivery a replay that answers "invalid input"; the note is never created.
  ARCHITECTURE.md says the failed step is replayable.
* `delete_overtaken`: a `/delete` that finds the note of an ingest in flight
  before its chunk reports success; the ingest then saves an active chunk.
  R-4 says tombstoned revisions are excluded immediately.
* `denied_cited`: the parser of `/ask` accepts `no_evidence` together with
  citations, so a reply that denies any ground is followed by a `/sources` that
  lists chunks; the dispatcher's comment (and D-100) say every `NO_EVIDENCE` path
  caches nothing. The two parsers of `/chat`'s mixed routes refuse that output.
* `chat_undecided`: a `/chat` whose embedding call stays down, or whose model
  answers with an unhashable marker, raises before its decision row is written;
  `routed_chat.py` says every call persists exactly one.

One more has no run of its own: a message is edited to a draft and, within the same
second, to a `/note`. The note's delivery has the draft's key, its result has no
`note_date`, and the reply fails `assert result.note_date is not None`
(`dispatcher.py:86`): HTTP 500, on every redelivery too. `diary_concurrent` and
`diary_crash` go through it, and `OnlyFaultsAbandon` and `ReplaysAgree` name it as
the exception. (The text of a same-second edit is dropped in any case, by the key
D-023 chose.)

## 5. What is proved

For every number of messages, updates, deliveries, handlers, threads, calls,
chunks, communities, operators and faults, and every limit and depth, from the
named assumptions on the constants only:

* `StoreAssumption`, `SystemAssumption`, `FaultBudgets`: the bounds are naturals,
  and `NoUpdate` is no update;
* `ResilienceAssumption`: there is at least one attempt, and no server asks for a
  negative delay;
* `FusionAssumption`: `top_k` and `k` are positive, and no leg is asked for fewer
  candidates than `top_k`; `TraceStoreAssumption`, `AnsweringAssumption`: there is
  a community, and each chunk is of one;
* `DeliveryAssumption`, `HandlersAssumption`: the updates are finitely many, what
  was handled before the model starts were notes and drafts, the limits are
  positive, and threads are numbered;
* `PackingAssumption`, `BlocksAssumption`: Telegram's limit and the separator are
  positive (the packer raises otherwise); the header fits into one message, no
  block is empty (each has a heading), and a block that exceeds the limit can be
  cut into at most `MostParts` parts whose footers fit. At 4096 characters that
  admits four million; Telegram lets nobody send a note of more than 4096.

| Theorem | Property | Module |
|---|---|---|
| `TypeCorrect` | `TypeOK` | `DiarySystem_proofs` |
| `ReadyChunksHaveRecords` | `ReadyHasRecord` | `DiarySystem_proofs` |
| `ErasureIsFinal` | `ErasedStaysErased` | `DiarySystem_proofs` |
| `IngestIsIdempotent` | `OneNotePerMessageState` | `DiarySystem_proofs` |
| `EditsNeverLoseTheNote` | `NeverZeroActive` | `DiarySystem_proofs` |
| `EmbeddingNeverRegresses` | `EmbeddingOnlyAdvances` | `DiarySystem_proofs` |
| `ConfirmationsAreTrue` | `ConfirmedIsStored` | `DiarySystem_proofs` |
| `CaptureImplementsCorpus` | `ImplementsCorpus` | `DiarySystem_proofs` |
| `FailuresStrandOneEach` | `StrandedBounded` | `DiaryDamage_proofs` |
| `FailuresAbandonOneEach` | `OnlyFaultsAbandon`, if nothing is erased | `DiaryDamage_proofs` |
| `RetiredNoteLeavesRetrieval` | `RetrievableIsCurrent`, if deliveries do not overlap | `DiaryDamage_proofs` |
| `ExtraRevisionPerFailure` | `ExtraRevisionsBounded`, if deliveries do not overlap | `DiaryDamage_proofs` |
| `ReplaysAgree` | `ReplaySameResult` among the results given, and only a `/note` over the row of a draft gets none, if no store call fails, nothing is erased and deliveries do not overlap | `DiaryQuiet_proofs` |
| `RestShowsIntent` | `AtRestShowsIntent`, if no store call fails, nothing is erased, and the user waits for answers and out of the edit's second | `DiaryQuiet_proofs` |
| `DiaryIsKept` | `KeepsPromise`, under the same | `DiaryQuiet_proofs` |
| `FusionTakesTheTop` | what `Fuse` returns, for all rankings | `Fusion_proofs` |
| `AnsweringIsTyped` | `TypeOK` | `Conversation_proofs` |
| `ToldFromNotesIsCited` | `RepliesAreGrounded` | `Conversation_proofs` |
| `ToldIsOnRecord` | `RepliesAreTraced` | `Conversation_proofs` |
| `UntracedHasAReason` | `UntracedIsExplained` | `Conversation_proofs` |
| `CacheIsOfTheLatest` | `SourcesAreLatest` | `Conversation_proofs` |
| `ContextPrefersTheBetter` | `NoBetterChunkLeftOut` | `Conversation_proofs` |
| `ChatsLeaveTheirRows` | `ChatsAreAccounted` | `Conversation_proofs` |
| `RoutesTellTheirPlanes` | `RoutesAreHonest` | `Conversation_proofs` |
| `NoHitOutlivesItsChunk` | `ErasedLeavesNoHits` | `Conversation_proofs` |
| `ProviderCallsBounded` | `CallsAreBounded` | `Delivery_proofs` |
| `DeliveryIsTyped` | `TypeOK` | `Delivery_proofs` |
| `ConfirmedAuthorsAreNamed` | `AuthorsAreKept` | `Delivery_proofs` |
| `DraftsListedNewestFirst` | `DraftsAreTheNewest` | `Delivery_proofs` |
| `ListingsArriveWhole` | `ListingsAreWhole` | `Delivery_proofs` |

So everything `diary_concurrent`, `diary_crash` and `ask` check holds at every
size, and so do the refinement of `diary_quiet` and the safety properties of
`diary_quiet`, `chat` and `delivery`: every invariant a run checks is proved. Few
of these are inductive alone. Each strengthening was checked by TLC on its run
before it was proved.

### Capture

* `TypeInv` adds that a run that started carries an update, and that a message
  has no more states than updates were sent.
* `StoreInv` (`Lineage`, `SourceOnce`, `RecordFirst`): rows exist only under the
  rows they reference; a run that has not reached its insertion has no row and
  never had one erased, and no two rows share a message state; a run or retry
  about to mark a chunk ready has its record committed, *or the chunk is erased
  and the mark must fail*. Erasure makes the second alternative necessary.
* `RevisionInv` is about the order of saves. `lastSaved[m]` is the run whose
  notes row came last. A prior note was read before the reader saved its own, so
  it was saved earlier: a run that saves now is nobody's prior note
  (`PriorsAreSaved`), and a run that retires never retires the last saved one,
  except to remove the message (`LastSavedSpared`). Hence the last saved note
  stays active until a removal or an erasure (`LastSavedStands`), which is
  stronger than `NeverZeroActive`.
* `SettledInv`: the status leaves `pending` only when its own run will write it
  no more, and retries only ever list chunks that have left `pending`.
* `AnswersInv` follows a run's rows to its answer: what is saved on the way is
  kept until erased.
* The refinement of `Corpus`. Under `ChunkView` a chunk's visibility is computed
  from three columns and the history `erased`. `ChunkWrite` lists the six things
  a step of the whole system does to these; every action is one of them
  (`RunChunkWrite`, `NextChunkWrite`), and each of them maps to a step of `Corpus`
  or to a stutter (`WriteIsCorpusStep`). It needs `ChunkOnce` (a run that has not
  saved its chunk has none, so an insertion maps from *unsaved*) beside `StoreInv`
  and `SettledInv`.
* `NotedInv`: a note-kind row has its notes row, or its run is on the way there,
  or was aborted on the way. A run leaves that way without the row only in
  `FailRun`, which counts a failure.
* `PriorInv` and `RevisionsCounted` are about runs that do not overlap, so their
  theorems assume `MaxInFlight <= 1` and say so. The code does not serialise
  handlers; the assumption is the question `diary_crash` asks (what failures
  alone can do), and both properties are false of two overlapping edits, as
  `delete_overtaken` shows of a delete. `PriorInv`: what a run carries as the
  prior note and chunk is still what it was when read (`CarriesPrior`), and the
  chunk is retired before the note (`ChunkFirst`). `RevisionsCounted`: the active
  notes of a message beside the one a run replaces and its own are no more than
  the failures so far; between runs they are one more.
* `ProvidedInv`: as long as nothing is erased, the rows a run's next calls need are
  there: the source it saves under, the prior note and chunk it retires, the chunk
  it marks; and nobody has stored its vector before it. So a run is abandoned only
  by a fault or by `Undated`, whatever earlier faults left half done and however
  deliveries overlap.
* `QuietInv` and `AgreeInv` are about a system in which no store call fails and
  nothing is erased, so that no row disappears and no run is abandoned, but for a
  `/note` that found the row of a draft (`NothingLost`, `FoundDraft`): a run
  keeps the row it inserted or found (`InPlace`), and the rows of a run are those
  its kind asks for, all of them once it is past its saves (`RowsOf`). A replay
  that does not overlap the first delivery thus finds a row as whole as it will
  ever be, and a result is a function of the kind of that row (`ResultOf`).
  With a failure a replay of a stranded note says "invalid input" where the first
  delivery said nothing, and a replay that overlaps the first finds it half
  written: both hypotheses are needed. A user in a hurry, and same-second edits,
  are allowed: a replay over the row of another edit gives what that row tells,
  or, the `/note` over a draft, no result at all. The theorem says of such a
  delivery that it is the only one abandoned, not that it is answered.
* `PatienceInv` is what waiting for answers is worth: updates are told apart by
  number and, but for deletes, by message and `edit_seq`; runs start in the order
  of their updates; and only the latest update is pending or in flight, maybe in
  several overlapping deliveries, while `intended` is what that update means.
  Of overlapping deliveries only removals by `/delete` ever work at the same time
  (`OneAtWork`); of the others one works and the rest replay.
* `NoteInv`: a message has one active note unless a run is exchanging it
  (`OneNote`), and a run that replaces or removes has read that one
  (`ReadTheOnlyNote`), so it leaves one, or none.
* `ShownInv`: each message shows what was meant, or an update of it is waiting
  that no delivery has dealt with, or a run is at work on it. A run that leaves
  its work has settled it (`WorkIsDone`, `HandlerSettles`); at rest only the first
  alternative is left. A second edit in the same second is taken for a replay of
  the first and a failed call leaves its update half done, so the property needs
  both hypotheses; edits of an impatient user may arrive in either order.
* The refinement of `Diary` maps the step that saves a chunk to `Capture`, the
  retirement of a chunk to `Forget` when it was the newest shown and to a stutter
  when the one that replaces it is (`RetiringForgets`), the end of a run that says
  "saved" to `Confirm`, and everything else to a stutter (`OthersKeepPromise`). A
  captured text is newer than all before it because runs start in the order of
  their updates and no update of the past is still to be saved.

### Answering

* Fusion first. The scores are exact fractions, compared by cross-multiplication.
  `Before` is a strict total order of what the legs found (`BeforeOrders`), so
  every place in it is taken by one chunk (`Places_proofs`), which is what makes
  the definition of `Fuse` by places a sequence at all.
* `AnsweringInv` is `TypeInv`, `CallInv` of every call, and `CacheInv`. A plan is
  what is left of one fixed `Order` of steps, so that "the query has been saved"
  is "`query` is not ahead" (`Ahead`, `OnPlan`); `TailInOrder` and its like say
  what taking a step or skipping to one leaves ahead. Beside it `CallInv` says,
  for each point of the plan, what is retrieved (`Retrieved`, `FoundInPlace`),
  concluded (`Concluded`), recorded (`NotYetRecorded`, `Recorded`, `Accounted`)
  and told (`Told`), and why a call that ended early did (`Explained`). Steps
  of other calls, changes of notes, hard deletes in two statements and restarts
  keep all of it: `Recorded` speaks of hits on rows that still exist, and an
  erasure removes the row with the hits.
* `CacheInv`: the cache holds the citations of an `/ask` that has remembered
  them, and no `/ask` of the community that has remembered its own since began
  after that one was answered. The property speaks of answered calls only; the
  invariant needs those between `remember` and `send` as well.
* `HitInv` is `ErasedLeavesNoHits` with the types of the chunk states. Hits are
  inserted only for chunks that have a row at that moment (the foreign key), and
  a row goes only in a transaction that deletes the hits that name it or finds
  none. Nothing else that a call, a note or a restart does removes a row.

### Delivery

* `CallInv` counts in rounds: a call that has made `n` attempts and is still
  trying has spent at most `n * (Timeout + BackoffCap)`, and has an attempt left.
  The last attempt adds no wait, which gives the bound of the property. It rests
  on every wait being capped, the `Retry-After` of a server included
  (`DelaysWithinCap`).
* `DeliveryInv` is `StoredInv` with `ThreadInv` of every thread. `StoredInv`: what
  was confirmed as a note or draft is captured, and has its snapshot or has lost
  it to a failed write. That holds because the snapshot is attempted on every
  delivery, a replay included, before the response; `PlaceInv` carries it through
  the steps of the thread. What a thread saw answered when it started is thus
  captured when it lists (`NewestInv`) and named when it renders (`NamedInv`),
  and stays so because nothing captured is lost and no two rows change their order
  (`Grown`, from what an insertion anywhere keeps: `Inserted`).
* `RecentDraftsAreTheNewest`: the listing by places in the order of `created_at`
  returns as many drafts as asked for while there are any, and any draft left out
  is older than each of those returned.
* The packer, for every list of blocks (`PackIsFaithful`). Its loop is a recursive
  function on `0..Len(blocks)`, which the first lemma shows to exist
  (`LoopIsDefined`). The library's induction theorems cannot be instantiated, so
  `StepByStep` (`Places_proofs`) states induction over a range in first-order
  form, for a set instead of a predicate, from the least element left out.
  `LoopInv` says what holds after each turn: the messages so far read on from the
  header to some block (`ReadsTo`), and the one being filled goes on from there to
  the block just taken. `TakeReads` is the turn, case by case; `SplitReads` shows
  that the parts of an oversized block cover it without a gap, that none is empty
  and that none exceeds the limit, which needs that footers only get wider
  (`FootersWiden`), since the sizes are computed for the widest.
* `ListInv`: a thread past its last block holds a faithful packing of what it
  shows (`PackedInv`); what the client counts as sent has arrived in turn, the
  message that failed may have, and nothing is after it but the notice
  (`SentInv`). No message of a faithful packing is refused for its length, so a
  thread comes to the notice only by an outage.

### Layout

`DiarySystem_proofs` proves type correctness, the shape of every step and what
holds without hypotheses; `DiaryDamage_proofs` builds on it and `DiaryQuiet_proofs`
on both. Each preservation proof first reduces
a step to what it may do (`GuardedWrite`, `SourceStep`, `RevisionFrame`,
`EmbeddingStep`, `RowsKept`, `ChunkWrite`; `Grows` in delivery), then shows that
this keeps the invariant.

### Only model-checked

* Liveness (`EveryUpdateAnswered`, `EmbeddingCatchesUp`, `EveryCallEnds`): the
  prover has no ENABLED.
* The six disagreements of section 4 that have a run, which are counterexamples.

## 6. What is not modelled

Left out of the modules above, with the reason:

* an edit of a note into another command (`/ask`, `/drafts`): the dispatcher
  never calls `ingest` for it, so the note stays as it was;
* `/delete` without a reply target: it changes nothing;
* an absent embedding client (a configuration in which `ingest` stops after the
  chunk); on the capture side every statement filters by `community_id`, and one
  community is modelled;
* edits delivered out of order: where order matters (`diary_quiet`) the user
  waits for each answer;
* `--limit`: a retry lists every failed chunk;
* `subject_scope`: the dispatcher passes none;
* wording, logging, metrics, token counts, the layout of exports and prompts;
* an answer longer than Telegram takes: it is the body of the HTTP response, and
  what Telegram does with it never reaches the service;
* the SQLite store's tables (the same contract as the Postgres store; only what
  it does not implement is modelled) and the mock store;
* the migrations runner and the boot gates (sequential start-up checks), the
  evaluation harness (offline metrics) and the backup and deployment scripts
  (shell around `pg_dump`, `rclone` and docker compose).

## 7. Running it

    tlc -config diary_concurrent.cfg MCDiary.tla
    tlc -config ask.cfg MCConversation.tla
    tlc -config delivery.cfg MCDelivery.tla
    tlapm DiarySystem_proofs.tla
    tlapm DiaryDamage_proofs.tla
    tlapm DiaryQuiet_proofs.tla
    tlapm Conversation_proofs.tla
    tlapm Delivery_proofs.tla

`PROJECT.json` names the module of each run, the property each theorem is about,
the lines each definition models, and for every checked property a plausible
defect (`Defect:` operators in the modules) under which TLC finds it violated.
