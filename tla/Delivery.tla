------------------------------ MODULE Delivery ------------------------------
(***************************************************************************)
(* The webhook handler around the dispatcher: what becomes of an update    *)
(* until it is answered with HTTP 200, and what of the reply reaches the   *)
(* chat.  One chat; the note and draft routes are reduced to the one row   *)
(* of source_messages they leave (DiarySystem has the rest), a question to *)
(* its two provider calls and the chunks it cites (Conversation).          *)
(*                                                                         *)
(* A handler thread goes through the steps                                 *)
(*                                                                         *)
(*   note, draft  capture, snapshot, respond                               *)
(*   question     embed, generate, respond                                 *)
(*   drafts       list, render, send, respond                              *)
(*   sources      recall, render, send, respond                            *)
(*   export       export, send_document, respond                           *)
(*                                                                         *)
(* An exception that leaves the handler is HTTP 500; Telegram delivers     *)
(* what is not answered with 200 again.                                    *)
(***************************************************************************)
EXTENDS Resilience, Packing, Faults

CONSTANTS
    Updates, Earlier,    \* updates; those handled before the model starts
    Contents,            \* what an update may be
    EarlierContents,
    Snapshotted,         \* the earlier ones whose author snapshot was written
    DefaultLimit,        \* drafts_default_limit
    MaxLimit,            \* drafts_max_limit
    HeaderLength

Captures == {"note", "draft"}
Listings == {"drafts", "sources"}
UpdateKinds == Captures \union Listings \union {"question", "export"}

\* limit: what /drafts was asked for; 0 is nothing, -1 nothing usable.
ASSUME DeliveryAssumption ==
    /\ Snapshotted \subseteq Earlier /\ Earlier \subseteq Updates /\ IsFiniteSet(Updates)
    /\ Contents \subseteq [kind : UpdateKinds, length : Nat, limit : Int]
    /\ EarlierContents \subseteq [kind : Captures, length : Nat, limit : Int]
    /\ DefaultLimit \in Nat \ {0} /\ MaxLimit \in Nat \ {0} /\ HeaderLength \in Nat \ {0}

\* Of the blocks of listings, which show notes and drafts with a heading each.
BlockLengths == {c.length : c \in {d \in Contents \union EarlierContents : d.kind \in Captures}}

\* The header fits into a message, and Cap leaves room for the footers of parts.
ASSUME BlocksAssumption ==
    /\ HeaderLength <= Cap
    /\ \A length \in BlockLengths :
          /\ length > 0
          /\ length > Cap => \E n \in 1..MostParts : IsPartCount(n, length)

VARIABLES
    content,     \* what each update is
    answered,    \* updates Telegram has seen HTTP 200 for
    captured,    \* source_messages, in the order of created_at
    snapshots,   \* author_display_inputs: updates with a row
    cited,       \* Dispatcher._latest_sources of the chat
    handler,     \* what each handler thread is doing
    unsnapped    \* history: updates whose snapshot write failed

deliveryVars == <<content, answered, captured, snapshots, cited, unsnapped>>
vars == <<deliveryVars, handler, call, faultVars>>

Handlers == Callers

ASSUME HandlersAssumption == Handlers \subseteq Nat

NoUpdate == "no_update"
Uncited == [asked |-> FALSE, notes |-> <<>>]

\* items: the messages to show; authors: how the author of each is shown;
\* packed: the messages to send; sent: how many of them the client was told
\* are sent; inbox: what the chat got; header: how the listing announces
\* itself; before: updates answered when the handler started; rows: those
\* captured by then.
Idle == [update |-> NoUpdate, step |-> "idle", items |-> <<>>, authors |-> <<>>,
         packed |-> <<>>, sent |-> 0, inbox |-> <<>>, header |-> "none", before |-> {},
         rows |-> {}]

Busy(h) == handler[h].step # "idle"
Update(h) == handler[h].update
AtStep(h, step) == handler[h].step = step

TypeOK ==
    /\ content \in [Updates -> Contents \union EarlierContents]
    /\ answered \subseteq Updates
    /\ captured \in SeqOf(Updates, Cardinality(Updates)) /\ IsInjective(captured)
    /\ snapshots \subseteq Range(captured) /\ unsnapped \subseteq Range(captured)
    /\ Range(cited.notes) \subseteq {u \in Range(captured) : content[u].kind = "note"}
    /\ \A h \in Handlers :
          /\ Range(handler[h].items) \subseteq Range(captured)
          /\ Len(handler[h].authors) <= Len(handler[h].items)
          /\ handler[h].sent <= Len(handler[h].inbox)
    /\ ResilienceTypeOK
    /\ FaultsTypeOK

Init ==
    /\ \E old \in [Earlier -> EarlierContents], new \in [Updates \ Earlier -> Contents] :
          content = [u \in Updates |-> IF u \in Earlier THEN old[u] ELSE new[u]]
    /\ answered = Earlier
    /\ captured = SetToSeq(Earlier)
    /\ snapshots = Snapshotted
    /\ cited = Uncited
    /\ handler = [h \in Handlers |-> Idle]
    /\ unsnapped = Earlier \ Snapshotted
    /\ ResilienceInit
    /\ FaultsInit

Continue(h, step) == handler' = [handler EXCEPT ![h].step = step]

Leave(h) == handler' = [handler EXCEPT ![h] = Idle]

\* HTTP 500.
Raise(h) == Leave(h) /\ UNCHANGED deliveryVars

\* A store call in the handler's thread raises.
StoreRaises(h) == StoreFault /\ Raise(h)

FirstStep(kind) ==
    CASE kind \in Captures -> "capture" [] kind = "question" -> "embed"
      [] kind = "drafts" -> "list" [] kind = "sources" -> "recall" [] OTHER -> "export"

\* Telegram delivers u, again if need be: once the last handler of it has
\* ended, or sooner when it loses patience or the connection.  Threads are
\* interchangeable: the first idle one takes it.
Arrive(h, u) ==
    /\ u \notin answered /\ ~Busy(h) /\ \A g \in Handlers : g < h => Busy(g)
    /\ IF \E g \in Handlers : Busy(g) /\ Update(g) = u THEN AckLost ELSE NoFault
    /\ handler' = [handler EXCEPT ![h] = [Idle EXCEPT !.update = u,
                     !.step = FirstStep(content[u].kind), !.before = answered,
                     !.rows = Range(captured)]]
    /\ call' = [call EXCEPT ![h] = NoCall]
    /\ UNCHANGED deliveryVars

-----------------------------------------------------------------------------
(***************************************************************************)
(* Notes and drafts.                                                       *)
(***************************************************************************)
\* created_at is the clock at the start of ingest: later than that of any row
\* there when the handler started, in any order with those inserted since.
Insert(h) ==
    \E i \in 1..(Len(captured) + 1) :
        /\ \A j \in DOMAIN captured : captured[j] \in handler[h].rows => j < i
        /\ captured' = InsertAt(captured, i, Update(h))

\* Defect: a redelivered message is refused.
CaptureOnce(h) ==
    /\ AtStep(h, "capture")
    /\ IF Update(h) \in Range(captured) THEN Raise(h)
       ELSE /\ Insert(h)
            /\ Continue(h, "snapshot")
            /\ UNCHANGED <<content, answered, snapshots, cited, unsnapped>>
    /\ NoFault /\ UNCHANGED call

\* Defect: a replay inserts the row again.
CaptureAgain(h) ==
    /\ AtStep(h, "capture")
    /\ Insert(h)
    /\ Continue(h, "snapshot")
    /\ UNCHANGED <<content, answered, snapshots, cited, unsnapped, call>>
    /\ NoFault

\* Defect: the snapshot is taken by the delivery that inserts the row.
CaptureSnapshotIfFresh(h) ==
    /\ AtStep(h, "capture")
    /\ \/ /\ Update(h) \in Range(captured) /\ UNCHANGED captured
          /\ Continue(h, "respond")
       \/ /\ Update(h) \notin Range(captured) /\ Insert(h)
          /\ Continue(h, "snapshot")
    /\ UNCHANGED <<content, answered, snapshots, cited, unsnapped, call>>
    /\ NoFault

\* ingest: the row is inserted, or found by a replay.
Capture(h) ==
    /\ AtStep(h, "capture")
    /\ \/ /\ IF Update(h) \in Range(captured) THEN UNCHANGED captured ELSE Insert(h)
          /\ Continue(h, "snapshot")
          /\ UNCHANGED <<content, answered, snapshots, cited, unsnapped>>
          /\ NoFault
       \/ StoreRaises(h)
    /\ UNCHANGED call

\* save_author_display_input: a failing write is logged and swallowed.
Snapshot(h) ==
    /\ AtStep(h, "snapshot")
    /\ \/ snapshots' = snapshots \union {Update(h)} /\ UNCHANGED unsnapped /\ NoFault
       \/ unsnapped' = unsnapped \union {Update(h)} /\ UNCHANGED snapshots /\ StoreFault
    /\ Continue(h, "respond")
    /\ UNCHANGED <<content, answered, captured, cited, call>>

-----------------------------------------------------------------------------
(***************************************************************************)
(* Questions.                                                              *)
(***************************************************************************)
\* One attempt of the provider call under way, which may be its first.
CallProvider(h) ==
    /\ AtStep(h, "embed") \/ AtStep(h, "generate")
    /\ \/ call[h].state = "none" /\ StartCall(h) /\ NoFault
       \/ Succeeds(h) /\ NoFault
       \/ FailsForNow(h) /\ NoFault
       \/ FailsForGood(h) /\ ProviderFault
       \/ Exhausted(h) /\ ProviderFault
    /\ UNCHANGED <<deliveryVars, handler>>

Ended(h, step, state) == AtStep(h, step) /\ call[h].state = state

\* The embedding client's exception leaves the handler.
Embedded(h) ==
    /\ \/ Ended(h, "embed", "returned") /\ Continue(h, "generate") /\ UNCHANGED deliveryVars
       \/ Ended(h, "embed", "raised") /\ Raise(h)
    /\ call' = [call EXCEPT ![h] = NoCall]
    /\ NoFault

\* The chat client's exception is an outcome like any other, without
\* citations.
Generated(h) ==
    /\ \/ /\ Ended(h, "generate", "returned")
          /\ \E S \in SUBSET {u \in Range(captured) : content[u].kind = "note"} :
                \E notes \in SetToSeqs(S) : cited' = [asked |-> TRUE, notes |-> notes]
       \/ Ended(h, "generate", "raised") /\ cited' = [Uncited EXCEPT !.asked = TRUE]
    /\ Continue(h, "respond")
    /\ call' = [call EXCEPT ![h] = NoCall]
    /\ UNCHANGED <<content, answered, captured, snapshots, unsnapped>>
    /\ NoFault

-----------------------------------------------------------------------------
(***************************************************************************)
(* Listings.                                                               *)
(***************************************************************************)
Drafts == {u \in Range(captured) : content[u].kind = "draft"}

Newer(u, v) ==
    \E i, j \in DOMAIN captured : captured[i] = u /\ captured[j] = v /\ i > j

Requested(h) ==
    IF content[Update(h)].limit = 0 THEN DefaultLimit ELSE content[Update(h)].limit

EffectiveLimit(h) == IF Requested(h) <= MaxLimit THEN Requested(h) ELSE MaxLimit

\* list_recent_drafts: newest first.
RecentDrafts(limit) ==
    LET Place(u) == 1 + Cardinality({v \in Drafts : Newer(v, u)})
    IN  [i \in 1..Min({limit, Cardinality(Drafts)}) |-> CHOOSE u \in Drafts : Place(u) = i]

\* Defect: the cap is forgotten.
DraftsHeaderUncapped(h, returned) ==
    IF content[Update(h)].limit # 0 /\ returned < Requested(h) THEN "all" ELSE "most_recent"

\* _format_drafts_header: "Showing all n" when fewer came than were asked
\* for and the cap is not what cut them.
DraftsHeader(h, returned) ==
    IF content[Update(h)].limit # 0 /\ returned < Requested(h) /\ returned < MaxLimit
    THEN "all" ELSE "most_recent"

ShowOrRespond(h, items, header) ==
    handler' = [handler EXCEPT ![h].items = items, ![h].header = header,
                               ![h].step = IF items = <<>> THEN "respond" ELSE "render"]

ListDrafts(h) ==
    /\ AtStep(h, "list")
    /\ \/ /\ Requested(h) < 1
          /\ Continue(h, "respond") /\ UNCHANGED deliveryVars /\ NoFault
       \/ /\ Requested(h) >= 1
          /\ LET items == RecentDrafts(EffectiveLimit(h))
             IN  ShowOrRespond(h, items, DraftsHeader(h, Len(items)))
          /\ UNCHANGED deliveryVars /\ NoFault
       \/ Requested(h) >= 1 /\ StoreRaises(h)
    /\ UNCHANGED call

\* The cache answers /sources without a read; it has no header.
Recall(h) ==
    /\ AtStep(h, "recall")
    /\ ShowOrRespond(h, cited.notes, "none")
    /\ UNCHANGED <<deliveryVars, call>>
    /\ NoFault

Author(u) == IF u \in snapshots THEN "name" ELSE "floor"

HeaderOf(h) == IF handler[h].header = "none" THEN 0 ELSE HeaderLength

Lengths(h) == [i \in DOMAIN handler[h].items |-> content[handler[h].items[i]].length]

\* The packer is pure: its results are tabulated once.
Packings ==
    {<<header, blocks, Pack(header, blocks)>> :
        header \in {0, HeaderLength}, blocks \in SeqOf(BlockLengths, Cardinality(Updates))}

PackingOf(header, blocks) ==
    (CHOOSE p \in Packings : p[1] = header /\ p[2] = blocks)[3]

\* One block: its author is looked up, nothing is caught.  After the last the
\* blocks are packed.
Render(h) ==
    /\ AtStep(h, "render")
    /\ LET shown == Len(handler[h].authors) + 1
           authors == Append(handler[h].authors, Author(handler[h].items[shown]))
       IN  \/ /\ IF shown = Len(handler[h].items)
                 THEN handler' = [handler EXCEPT ![h].authors = authors, ![h].step = "send",
                                                 ![h].packed = PackingOf(HeaderOf(h), Lengths(h))]
                 ELSE handler' = [handler EXCEPT ![h].authors = authors]
              /\ UNCHANGED deliveryVars /\ NoFault
           \/ StoreRaises(h)
    /\ UNCHANGED call

\* Telegram takes no message longer than Cap.
Accepts(message) == message.length <= Cap

\* sendMessage: it arrives; it is refused or lost; or it arrives and the
\* answer is lost, which the client takes for a failure.
Send(h) ==
    /\ AtStep(h, "send")
    /\ LET message == handler[h].packed[handler[h].sent + 1]
           isLast == handler[h].sent + 1 = Len(handler[h].packed)
           Arrived == Append(handler[h].inbox, message)
       IN  \/ /\ Accepts(message) /\ NoFault
              /\ handler' = [handler EXCEPT ![h].sent = @ + 1, ![h].inbox = Arrived,
                                            ![h].step = IF isLast THEN "respond" ELSE "send"]
           \/ /\ IF Accepts(message) THEN ProviderFault ELSE NoFault
              /\ Continue(h, "notify")
           \/ /\ Accepts(message) /\ ProviderFault
              /\ handler' = [handler EXCEPT ![h].inbox = Arrived, ![h].step = "notify"]
    /\ UNCHANGED <<deliveryVars, call>>

\* "Couldn't deliver all (sent k/n)": tried once, its failure suppressed.
Notice(k, n) == [notice |-> k, of |-> n]

Notify(h) ==
    /\ AtStep(h, "notify")
    /\ \/ /\ handler' = [handler EXCEPT ![h].step = "respond",
                ![h].inbox = Append(@, Notice(handler[h].sent, Len(handler[h].packed)))]
          /\ NoFault
       \/ Continue(h, "respond") /\ ProviderFault
    /\ UNCHANGED <<deliveryVars, call>>

-----------------------------------------------------------------------------
(***************************************************************************)
(* Exports and the response.                                               *)
(***************************************************************************)
Document(rows) == [document |-> rows]

\* list_source_messages, drafts and notes alike.
Export(h) ==
    /\ AtStep(h, "export")
    /\ \/ /\ handler' = [handler EXCEPT ![h].items = captured, ![h].step = "send_document"]
          /\ UNCHANGED deliveryVars /\ NoFault
       \/ StoreRaises(h)
    /\ UNCHANGED call

\* A failure is told in the body of the HTTP response.
SendDocument(h) ==
    /\ AtStep(h, "send_document")
    /\ \/ /\ handler' = [handler EXCEPT ![h].step = "respond", ![h].sent = 1,
                                        ![h].inbox = <<Document(handler[h].items)>>]
          /\ NoFault
       \/ Continue(h, "respond") /\ ProviderFault
    /\ UNCHANGED <<deliveryVars, call>>

\* HTTP 200, with the reply text unless messages or a document carried it.
Respond(h) ==
    /\ AtStep(h, "respond")
    /\ Leave(h)
    /\ \/ answered' = answered \union {Update(h)} /\ NoFault
       \/ UNCHANGED answered /\ AckLost
    /\ UNCHANGED <<content, captured, snapshots, cited, unsnapped, call>>

HandlerStep(h) ==
    \/ Capture(h) \/ Snapshot(h) \/ CallProvider(h) \/ Embedded(h) \/ Generated(h)
    \/ ListDrafts(h) \/ Recall(h) \/ Render(h) \/ Send(h) \/ Notify(h)
    \/ Export(h) \/ SendDocument(h) \/ Respond(h)

\* The process dies and is restarted: threads, calls and cache are gone.
Restart ==
    /\ StoreFault
    /\ handler' = [h \in Handlers |-> Idle]
    /\ call' = [h \in Handlers |-> NoCall]
    /\ cited' = Uncited
    /\ UNCHANGED <<content, answered, captured, snapshots, unsnapped>>

AtRest == \A h \in Handlers : ~Busy(h)

Next ==
    \/ \E h \in Handlers : HandlerStep(h) \/ \E u \in Updates : Arrive(h, u)
    \/ Restart
    \/ AtRest /\ UNCHANGED vars

Spec == Init /\ [][Next]_vars

\* Threads are scheduled, and Telegram redelivers until it is answered.
Fairness ==
    /\ \A h \in Handlers : WF_vars(HandlerStep(h))
    /\ WF_vars(\E h \in Handlers, u \in Updates : Arrive(h, u))

FairSpec == Spec /\ Fairness

-----------------------------------------------------------------------------
IsNotice(message) == "notice" \in DOMAIN message

\* D-030: a listing the client sent without an error arrived whole, in
\* order, unsplit where possible, within Telegram's limit.  One cut short was
\* cut by an outage, never by its own length; what arrived is its beginning,
\* and the notice after it names no more messages than arrived and at most
\* one less.
ListingsAreWhole ==
    \A h \in Handlers : AtStep(h, "respond") /\ handler[h].packed # <<>> =>
        LET inbox == handler[h].inbox
        IN  \/ /\ handler[h].sent = Len(handler[h].packed)
               /\ IsFaithful(inbox, HeaderOf(h), Lengths(h))
            \/ /\ outages > 0
               /\ \A i \in DOMAIN inbox :
                     IF IsNotice(inbox[i])
                     THEN /\ i = Len(inbox)
                          /\ inbox[i].notice < inbox[i].of
                          /\ i - 1 - inbox[i].notice \in {0, 1}
                     ELSE inbox[i] = handler[h].packed[i]

\* A listing shows the name of whoever wrote a message that was confirmed
\* before it was asked for, whichever delivery of that message was
\* interrupted where, unless the write of the snapshot itself failed.
AuthorsAreKept ==
    \A h \in Handlers : \A i \in DOMAIN handler[h].authors :
        LET u == handler[h].items[i]
        IN  u \in handler[h].before => handler[h].authors[i] = "name" \/ u \in unsnapped

\* /drafts leaves out a draft that was confirmed before it was asked only for
\* newer ones, and says "all" only when it leaves out none.
DraftsAreTheNewest ==
    \A h \in Handlers : handler[h].items # <<>> /\ content[Update(h)].kind = "drafts" =>
        \A u \in handler[h].before \ Range(handler[h].items) : content[u].kind = "draft" =>
            /\ handler[h].header # "all"
            /\ Len(handler[h].items) = EffectiveLimit(h)
            /\ \A shown \in Range(handler[h].items) : Newer(shown, u)

\* Every update is answered with HTTP 200 in the end.
EveryUpdateAnswered == <>(answered = Updates)
=============================================================================
