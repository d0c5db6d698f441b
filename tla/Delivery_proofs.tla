-------------------------- MODULE Delivery_proofs ---------------------------
(***************************************************************************)
(* The bound on provider calls (R-9), the author snapshots and what        *)
(* listings show, for every set of updates, every number of handler        *)
(* threads, every setting of the retries and of the limits, and every      *)
(* delay a server may ask for.                                             *)
(***************************************************************************)
EXTENDS Delivery, Places_proofs

\* What one attempt that is not the last, and the wait after it, may take.
Round == Timeout + BackoffCap

\* A call still trying has an attempt left and has spent no more than a round
\* on each of those it has made; one that has ended is within the bound.
CallInv ==
    \A h \in Handlers :
        /\ call[h].attempts <= MaxAttempts
        /\ IF call[h].state = "trying"
           THEN call[h].attempts < MaxAttempts /\ call[h].elapsed <= call[h].attempts * Round
           ELSE call[h].elapsed <= WorstCase

IInv == ResilienceTypeOK /\ CallInv

-----------------------------------------------------------------------------
(***************************************************************************)
(* Arithmetic.                                                             *)
(***************************************************************************)
\* Multiplication by a natural number is monotonic.
LEMMA TimesMonotonic ==
  ASSUME NEW k \in Nat, NEW m \in Nat, NEW n \in Nat, m <= n
  PROVE  m * k <= n * k
<1>1. (n - m) * k >= 0
  OBVIOUS
<1>2. (n - m) * k = n * k - m * k
  OBVIOUS
<1> QED  BY <1>1, <1>2

\* The bound is that of max_attempts - 1 rounds and one attempt.
LEMMA WorstCaseInRounds == WorstCase \in Nat /\ WorstCase = (MaxAttempts - 1) * Round + Timeout
<1>1. /\ Timeout \in Nat /\ MaxAttempts \in Nat /\ MaxAttempts >= 1 /\ BackoffCap \in Nat
  BY ResilienceAssumption
<1>2. WorstCase = (MaxAttempts - 1) * Round + Timeout
  BY <1>1 DEF WorstCase, Round
<1>3. (MaxAttempts - 1) * Round \in Nat
  <2>1. MaxAttempts - 1 \in Nat /\ Round \in Nat
    BY <1>1 DEF Round
  <2> QED  BY <2>1
<1> QED  BY <1>1, <1>2, <1>3

\* An attempt made while there is one left ends within the bound.
LEMMA LastAttemptInBound ==
  ASSUME NEW n \in Nat, n < MaxAttempts, NEW e \in Nat, e <= n * Round,
         NEW t \in 1..Timeout
  PROVE  e + t \in Nat /\ e + t <= WorstCase
<1>1. MaxAttempts - 1 \in Nat /\ Round \in Nat /\ Timeout \in Nat /\ n <= MaxAttempts - 1
  BY ResilienceAssumption DEF Round
<1>2. n * Round <= (MaxAttempts - 1) * Round
  BY <1>1, TimesMonotonic
<1>3. n * Round \in Nat /\ (MaxAttempts - 1) * Round \in Nat
  BY <1>1
<1> QED  BY <1>1, <1>2, <1>3, WorstCaseInRounds

\* A failed attempt and the wait after it are one more round.
LEMMA OneMoreRound ==
  ASSUME NEW n \in Nat, NEW e \in Nat, e <= n * Round,
         NEW t \in 1..Timeout, NEW d \in Nat, d <= BackoffCap
  PROVE  e + (t + d) \in Nat /\ e + (t + d) <= (n + 1) * Round
<1>1. Round \in Nat /\ t + d \in Nat /\ t + d <= Round
  BY ResilienceAssumption DEF Round
<1>2. (n + 1) * Round = n * Round + Round
  BY <1>1
<1>3. n * Round \in Nat
  BY <1>1
<1> QED  BY <1>1, <1>2, <1>3

\* No wait is longer than the cap, whoever asks for it.
LEMMA DelaysWithinCap ==
  ASSUME NEW attempt, NEW hint \in RetryAfters \union {NoHint}, NEW d \in Delays(attempt, hint)
  PROVE  d \in Nat /\ d <= BackoffCap
<1>1. CASE hint = NoHint
  BY <1>1, ResilienceAssumption DEF Delays, Backoffs
<1>2. CASE hint # NoHint
  <2>1. hint \in Nat
    BY <1>2, ResilienceAssumption
  <2> QED  BY <1>2, <2>1, ResilienceAssumption DEF Delays
<1> QED  BY <1>1, <1>2

-----------------------------------------------------------------------------
(***************************************************************************)
(* Steps of a call.                                                        *)
(***************************************************************************)
\* A caller is back at no call, and the others' calls are untouched.
LEMMA HungUp ==
  ASSUME IInv, NEW h \in Handlers, call' = [call EXCEPT ![h] = NoCall]
  PROVE  IInv'
<1>1. NoCall \in [state : CallStates, attempts : Nat, elapsed : Nat]
  BY DEF NoCall, CallStates
<1>2. NoCall.attempts <= MaxAttempts /\ NoCall.state # "trying" /\ NoCall.elapsed <= WorstCase
  BY ResilienceAssumption, WorstCaseInRounds DEF NoCall
<1> QED  BY <1>1, <1>2 DEF IInv, CallInv, ResilienceTypeOK, Handlers

\* A call is started, attempted, and ends within its bounds.
LEMMA CallKept ==
  ASSUME IInv, NEW h \in Handlers,
         \/ StartCall(h) \/ Succeeds(h) \/ FailsForGood(h) \/ FailsForNow(h) \/ Exhausted(h)
  PROVE  IInv'
<1> USE DEF Handlers
<1>1. call[h] \in [state : CallStates, attempts : Nat, elapsed : Nat]
  BY DEF IInv, ResilienceTypeOK
<1>2. CASE StartCall(h)
  <2>1. call' = [call EXCEPT ![h] = [state |-> "trying", attempts |-> 0, elapsed |-> 0]]
    <3>1. [NoCall EXCEPT !.state = "trying"] = [state |-> "trying", attempts |-> 0, elapsed |-> 0]
      BY DEF NoCall
    <3> QED  BY <1>2, <3>1 DEF StartCall
  <2>2. 0 * Round = 0
    BY ResilienceAssumption DEF Round
  <2> QED  BY <2>1, <2>2, ResilienceAssumption DEF IInv, CallInv, ResilienceTypeOK, CallStates
<1>3. ASSUME NEW t \in 1..Timeout, NEW s \in {"returned", "raised"},
             call[h].state = "trying", EndsAfter(h, s, t)
      PROVE  IInv'
  <2>1. call' = [call EXCEPT ![h] = [state |-> s, attempts |-> call[h].attempts + 1,
                                     elapsed |-> call[h].elapsed + t]]
    BY <1>1, <1>3 DEF EndsAfter, IInv, ResilienceTypeOK
  <2>2. call[h].elapsed + t \in Nat /\ call[h].elapsed + t <= WorstCase
    BY <1>1, <1>3, LastAttemptInBound DEF IInv, CallInv
  <2>3. call[h].attempts + 1 \in Nat /\ call[h].attempts + 1 <= MaxAttempts
    BY <1>1, <1>3, ResilienceAssumption DEF IInv, CallInv
  <2> QED  BY <2>1, <2>2, <2>3 DEF IInv, CallInv, ResilienceTypeOK, CallStates
<1>4. CASE FailsForNow(h)
  <2>1. PICK t \in 1..Timeout, hint \in RetryAfters \union {NoHint} :
           \E d \in Delays(call[h].attempts + 1, hint) : EndsAfter(h, "trying", t + d)
    BY <1>4 DEF FailsForNow
  <2>2. PICK d \in Delays(call[h].attempts + 1, hint) : EndsAfter(h, "trying", t + d)
    BY <2>1
  <2>3. d \in Nat /\ d <= BackoffCap
    BY <2>2, DelaysWithinCap
  <2>4. call' = [call EXCEPT ![h] = [state |-> "trying", attempts |-> call[h].attempts + 1,
                                     elapsed |-> call[h].elapsed + (t + d)]]
    BY <1>1, <2>2 DEF EndsAfter, IInv, ResilienceTypeOK
  <2>5. /\ call[h].elapsed + (t + d) \in Nat
        /\ call[h].elapsed + (t + d) <= (call[h].attempts + 1) * Round
    BY <1>1, <1>4, <2>3, OneMoreRound DEF FailsForNow, IInv, CallInv
  <2>6. call[h].attempts + 1 \in Nat /\ call[h].attempts + 1 < MaxAttempts
    BY <1>1, <1>4 DEF FailsForNow
  <2> QED  BY <2>4, <2>5, <2>6, ResilienceAssumption
           DEF IInv, CallInv, ResilienceTypeOK, CallStates
<1>5. CASE Succeeds(h) \/ FailsForGood(h) \/ Exhausted(h)
  BY <1>3, <1>5 DEF Succeeds, FailsForGood, Exhausted
<1> QED  BY <1>2, <1>4, <1>5

\* Nothing else touches a call.
LEMMA CallInvKept ==
  ASSUME IInv, [Next]_vars
  PROVE  IInv'
<1>1. CASE call' = call
  BY <1>1 DEF IInv, CallInv, ResilienceTypeOK
<1>2. CASE \E h \in Handlers : call' = [call EXCEPT ![h] = NoCall]
  BY <1>2, HungUp
<1>3. CASE \E h \in Handlers :
             \/ StartCall(h) \/ Succeeds(h) \/ FailsForGood(h) \/ FailsForNow(h) \/ Exhausted(h)
  BY <1>3, CallKept
<1>4. CASE Restart
  <2>1. call' = [h \in Handlers |-> NoCall]
    BY <1>4 DEF Restart
  <2>2. NoCall \in [state : CallStates, attempts : Nat, elapsed : Nat]
    BY DEF NoCall, CallStates
  <2>3. NoCall.attempts <= MaxAttempts /\ NoCall.state # "trying" /\ NoCall.elapsed <= WorstCase
    BY ResilienceAssumption, WorstCaseInRounds DEF NoCall
  <2> QED  BY <2>1, <2>2, <2>3 DEF IInv, CallInv, ResilienceTypeOK, Handlers
<1>5. ASSUME NEW h \in Handlers, HandlerStep(h)
      PROVE  IInv'
  <2>1. CASE CallProvider(h)
    BY <1>1, <1>3, <2>1 DEF CallProvider
  <2>2. CASE Embedded(h) \/ Generated(h)
    BY <1>2, <2>2 DEF Embedded, Generated
  <2>3. CASE \/ Capture(h) \/ Snapshot(h) \/ ListDrafts(h) \/ Recall(h) \/ Render(h)
             \/ Send(h) \/ Notify(h) \/ Export(h) \/ SendDocument(h) \/ Respond(h)
    BY <1>1, <2>3 DEF Capture, Snapshot, ListDrafts, Recall, Render, Send, Notify,
       Export, SendDocument, Respond
  <2> QED  BY <1>5, <2>1, <2>2, <2>3 DEF HandlerStep
<1>6. ASSUME NEW h \in Handlers, NEW u \in Updates, Arrive(h, u)
      PROVE  IInv'
  BY <1>2, <1>6 DEF Arrive
<1>7. CASE UNCHANGED vars
  BY <1>1, <1>7 DEF vars
<1> QED  BY <1>4, <1>5, <1>6, <1>7 DEF Next

LEMMA CallInvIsInvariant == Spec => []IInv
<1>1. Init => IInv
  <2> SUFFICES ASSUME Init PROVE IInv
    OBVIOUS
  <2>1. call = [h \in Handlers |-> NoCall]
    BY DEF Init, ResilienceInit, Handlers
  <2>2. NoCall \in [state : CallStates, attempts : Nat, elapsed : Nat]
    BY DEF NoCall, CallStates
  <2>3. NoCall.attempts <= MaxAttempts /\ NoCall.state # "trying" /\ NoCall.elapsed <= WorstCase
    BY ResilienceAssumption, WorstCaseInRounds DEF NoCall
  <2> QED  BY <2>1, <2>2, <2>3 DEF IInv, CallInv, ResilienceTypeOK, Handlers
<1>2. IInv /\ [Next]_vars => IInv'
  BY CallInvKept
<1> QED  BY <1>1, <1>2, PTL DEF Spec

\* R-9: whatever fails and whatever delay a server asks for, a provider call
\* of the handler makes at most max_attempts attempts and takes no longer
\* than the documented worst case.
THEOREM ProviderCallsBounded == Spec => []CallsAreBounded
<1>1. IInv => CallsAreBounded
  <2> SUFFICES ASSUME IInv, NEW c \in Callers
               PROVE  call[c].attempts <= MaxAttempts /\ call[c].elapsed <= WorstCase
    BY DEF CallsAreBounded
  <2>1. call[c] \in [state : CallStates, attempts : Nat, elapsed : Nat]
    BY DEF IInv, ResilienceTypeOK
  <2>2. CASE call[c].state = "trying"
    <3>1. call[c].elapsed + 1 <= WorstCase
      BY <2>1, <2>2, ResilienceAssumption, LastAttemptInBound DEF IInv, CallInv, Handlers
    <3> QED  BY <2>1, <3>1, WorstCaseInRounds DEF IInv, CallInv, Handlers
  <2>3. CASE call[c].state # "trying"
    BY <2>3 DEF IInv, CallInv, Handlers
  <2> QED  BY <2>2, <2>3
<1> QED  BY <1>1, CallInvIsInvariant, PTL

-----------------------------------------------------------------------------
(***************************************************************************)
(* The threads and what is stored, for every set of updates and every      *)
(* number of threads.                                                      *)
(***************************************************************************)
Steps == {"idle", "capture", "snapshot", "embed", "generate", "list", "recall", "render",
          "send", "notify", "export", "send_document", "respond"}

\* The updates whose handler may be at a step.
KindsAt(step) ==
    CASE step \in {"capture", "snapshot"} -> Captures
      [] step \in {"embed", "generate"} -> {"question"}
      [] step = "list" -> {"drafts"}
      [] step = "recall" -> {"sources"}
      [] step \in {"render", "send", "notify"} -> Listings
      [] step \in {"export", "send_document"} -> {"export"}
      [] OTHER -> UpdateKinds

\* The steps before a listing has its messages.
Unlisted == {"idle", "capture", "snapshot", "embed", "generate", "list", "recall", "export"}

\* What the packer returns and the chat gets may be anything.
IsThread(t) ==
    t \in [update : Updates \union {NoUpdate}, step : Steps, items : Seq(Updates),
           authors : Seq({"name", "floor"}), packed : {t.packed}, sent : Nat,
           inbox : Seq(Range(t.inbox)), header : {"none", "all", "most_recent"},
           before : SUBSET Updates, rows : SUBSET Updates]

\* Only notes and drafts are captured, each once; one that was confirmed has
\* its snapshot, or the write of it failed; only notes are cited.
StoredInv ==
    /\ content \in [Updates -> Contents \union EarlierContents]
    /\ answered \subseteq Updates
    /\ captured \in Seq(Updates) /\ IsInjective(captured)
    /\ \A u \in Range(captured) : content[u].kind \in Captures
    /\ snapshots \subseteq Range(captured) /\ unsnapped \subseteq Range(captured)
    /\ \A u \in answered : content[u].kind \in Captures => u \in snapshots \union unsnapped
    /\ cited \in [asked : BOOLEAN, notes : Seq(Updates)]
    /\ Range(cited.notes) \subseteq {u \in Range(captured) : content[u].kind = "note"}
    /\ FaultsTypeOK

\* A thread is where its update may take it, with what it has seen.
PlaceInv(h) ==
    /\ Busy(h) => Update(h) \in Updates /\ content[Update(h)].kind \in KindsAt(handler[h].step)
    /\ handler[h].before \subseteq answered
    /\ AtStep(h, "snapshot") => Update(h) \in Range(captured)
    /\ AtStep(h, "respond") /\ content[Update(h)].kind \in Captures =>
          Update(h) \in snapshots \union unsnapped
    /\ handler[h].sent <= Len(handler[h].inbox)

\* The messages it shows are captured ones, their authors looked up in turn.
ShownInv(h) ==
    /\ Range(handler[h].items) \subseteq Range(captured)
    /\ Len(handler[h].authors) <= Len(handler[h].items)
    /\ AtStep(h, "render") => Len(handler[h].authors) < Len(handler[h].items)
    /\ handler[h].step \in Unlisted => handler[h].items = <<>> /\ handler[h].authors = <<>>

\* AuthorsAreKept and DraftsAreTheNewest, of one thread.
NamedInv(h) ==
    \A i \in DOMAIN handler[h].authors :
        handler[h].items[i] \in handler[h].before =>
            handler[h].authors[i] = "name" \/ handler[h].items[i] \in unsnapped

NewestInv(h) ==
    handler[h].items # <<>> /\ content[Update(h)].kind = "drafts" =>
        \A u \in handler[h].before \ Range(handler[h].items) : content[u].kind = "draft" =>
            /\ handler[h].header # "all"
            /\ Len(handler[h].items) = EffectiveLimit(h)
            /\ \A shown \in Range(handler[h].items) : Newer(shown, u)

ThreadInv(h) ==
    IsThread(handler[h]) /\ PlaceInv(h) /\ ShownInv(h) /\ NamedInv(h) /\ NewestInv(h)

DeliveryInv ==
    /\ StoredInv
    /\ handler = [h \in Handlers |-> handler[h]]
    /\ \A h \in Handlers : ThreadInv(h)

\* What a step adds to what is stored.
Grows ==
    /\ content' = content
    /\ answered \subseteq answered'
    /\ unsnapped \subseteq unsnapped'
    /\ snapshots \union unsnapped \subseteq snapshots' \union unsnapped'
    /\ \/ captured' = captured
       \/ \E u \in Updates, i \in 1..(Len(captured) + 1) : captured' = InsertAt(captured, i, u)

\* A sequence one longer, and what is in it.
LEMMA Appended ==
  ASSUME NEW S, NEW s \in Seq(S), NEW x
  PROVE  /\ Append(s, x) \in Seq(S \union {x})
         /\ Len(Append(s, x)) = Len(s) + 1
         /\ \A i \in DOMAIN s : i \in DOMAIN Append(s, x) /\ Append(s, x)[i] = s[i]
         /\ DOMAIN Append(s, x) = DOMAIN s \union {Len(s) + 1}
         /\ Append(s, x)[Len(s) + 1] = x
         /\ Range(Append(s, x)) = Range(s) \union {x}
<1>1. s \in Seq(S \union {x})
  OBVIOUS
<1>2. /\ Append(s, x) \in Seq(S \union {x})
      /\ Len(Append(s, x)) = Len(s) + 1
      /\ \A i \in DOMAIN s : i \in DOMAIN Append(s, x) /\ Append(s, x)[i] = s[i]
      /\ DOMAIN Append(s, x) = DOMAIN s \union {Len(s) + 1}
      /\ Append(s, x)[Len(s) + 1] = x
  BY <1>1
<1>3. Range(Append(s, x)) = Range(s) \union {x}
  <2> DEFINE longer == Append(s, x)
  <2>1. /\ DOMAIN longer = DOMAIN s \union {Len(s) + 1}
        /\ \A i \in DOMAIN s : longer[i] = s[i]
        /\ longer[Len(s) + 1] = x
    BY <1>2
  <2> HIDE DEF longer
  <2>2. Range(longer) = Range(s) \union {x}
    BY <2>1, Zenon DEF Range
  <2> QED  BY <2>2 DEF longer
<1> QED  BY <1>2, <1>3

\* What is in s is in t, in the same order.
KeepsOrder(s, t) ==
    \A k, l \in DOMAIN s : k < l =>
        \E m, n \in DOMAIN t : m < n /\ t[m] = s[k] /\ t[n] = s[l]

\* A sequence with x inserted: x is in it, beside what was there, in the same
\* order.
LEMMA Inserted ==
  ASSUME NEW s \in Seq(Updates), NEW x \in Updates, NEW i \in 1..(Len(s) + 1)
  PROVE  /\ InsertAt(s, i, x) \in Seq(Updates)
         /\ Len(InsertAt(s, i, x)) = Len(s) + 1
         /\ Range(InsertAt(s, i, x)) = Range(s) \union {x}
         /\ IsInjective(s) /\ x \notin Range(s) => IsInjective(InsertAt(s, i, x))
         /\ KeepsOrder(s, InsertAt(s, i, x))
<1> DEFINE low == SubSeq(s, 1, i - 1)
           high == SubSeq(s, i, Len(s))
<1>1. s \in Seq(Updates) /\ Len(s) \in Nat /\ i - 1 \in 0..Len(s)
  OBVIOUS
<1>2. /\ low \in Seq(Updates) /\ Len(low) = i - 1
      /\ \A j \in 1..(i - 1) : low[j] = s[j]
  BY <1>1
<1>3. /\ high \in Seq(Updates) /\ Len(high) = Len(s) + 1 - i
      /\ \A j \in 1..(Len(s) + 1 - i) : high[j] = s[i + j - 1]
  BY <1>1
<1>4. <<x>> \in Seq(Updates) /\ Len(<<x>>) = 1 /\ <<x>>[1] = x
  OBVIOUS
<1>5. InsertAt(s, i, x) = (low \o <<x>>) \o high
  BY DEF InsertAt
<1> HIDE DEF low, high
<1> DEFINE lower == low \o <<x>>
<1>6. /\ lower \in Seq(Updates) /\ Len(lower) = i
      /\ \A j \in 1..(i - 1) : lower[j] = s[j]
      /\ lower[i] = x
  BY <1>1, <1>2, <1>4
<1> HIDE DEF lower
<1>7. /\ lower \o high \in Seq(Updates) /\ Len(lower \o high) = Len(s) + 1
      /\ \A j \in 1..i : (lower \o high)[j] = lower[j]
      /\ \A j \in (i + 1)..(Len(s) + 1) : (lower \o high)[j] = high[j - i]
  BY <1>1, <1>3, <1>6
<1>8. \A j \in (i + 1)..(Len(s) + 1) : high[j - i] = s[j - 1]
  BY <1>1, <1>3
<1> DEFINE t == lower \o high
<1>9. t = InsertAt(s, i, x)
  BY <1>5 DEF lower
<1>10. /\ t \in Seq(Updates) /\ Len(t) = Len(s) + 1
       /\ \A j \in 1..i : t[j] = lower[j]
       /\ \A j \in (i + 1)..(Len(s) + 1) : t[j] = s[j - 1]
  BY <1>7, <1>8
<1> HIDE DEF t
<1>11. t[i] = x /\ \A j \in 1..(i - 1) : t[j] = s[j]
  <2>1. i \in 1..i /\ \A j \in 1..(i - 1) : j \in 1..i
    BY <1>1
  <2> QED  BY <1>6, <1>10, <2>1
<1>12. /\ DOMAIN s = 1..Len(s) /\ DOMAIN t = 1..(Len(s) + 1)
       /\ \A j \in (i + 1)..(Len(s) + 1) : t[j] = s[j - 1]
  BY <1>1, <1>10
<1> DEFINE Moved(k) == IF k < i THEN k ELSE k + 1
<1>13. \A k \in DOMAIN s : Moved(k) \in DOMAIN t /\ t[Moved(k)] = s[k]
  <2> TAKE k \in DOMAIN s
  <2>1. CASE k < i
    <3>1. k \in 1..(i - 1) /\ k \in DOMAIN t /\ Moved(k) = k
      BY <1>1, <1>12, <2>1
    <3> QED  BY <1>11, <3>1
  <2>2. CASE ~(k < i)
    <3>1. k + 1 \in (i + 1)..(Len(s) + 1) /\ Moved(k) = k + 1 /\ (k + 1) - 1 = k
      BY <1>1, <1>12, <2>2
    <3>2. Moved(k) \in DOMAIN t
      BY <1>1, <1>12, <3>1
    <3> QED  BY <1>12, <3>1, <3>2
  <2> QED  BY <2>1, <2>2
<1>14. i \in DOMAIN t /\ t[i] = x
  BY <1>11, <1>12
<1>15. \A j \in DOMAIN t \ {i} : \E k \in DOMAIN s : j = Moved(k)
  <2> TAKE j \in DOMAIN t \ {i}
  <2>1. CASE j < i
    <3>1. j \in DOMAIN s /\ j = Moved(j)
      BY <1>12, <2>1
    <3> QED  BY <3>1
  <2>2. CASE j > i
    <3>1. j - 1 \in DOMAIN s /\ j = Moved(j - 1)
      BY <1>12, <2>2
    <3> QED  BY <3>1
  <2> QED  BY <1>12, <2>1, <2>2
<1>16. \A k, l \in DOMAIN s : k < l => Moved(k) < Moved(l)
  BY <1>12
<1> HIDE DEF Moved
<1>17. Range(t) = Range(s) \union {x}
  <2>1. Range(s) \union {x} \subseteq Range(t)
    BY <1>13, <1>14 DEF Range
  <2>2. Range(t) \subseteq Range(s) \union {x}
    <3> SUFFICES ASSUME NEW j \in DOMAIN t PROVE t[j] \in Range(s) \union {x}
      BY DEF Range
    <3>1. CASE j = i
      BY <1>14, <3>1
    <3>2. CASE j # i
      <4>1. PICK k \in DOMAIN s : j = Moved(k)
        BY <1>15, <3>2
      <4> QED  BY <1>13, <4>1 DEF Range
    <3> QED  BY <3>1, <3>2
  <2> QED  BY <2>1, <2>2
<1>18. ASSUME IsInjective(s), x \notin Range(s) PROVE IsInjective(t)
  <2> SUFFICES ASSUME NEW a \in DOMAIN t, NEW b \in DOMAIN t, t[a] = t[b] PROVE a = b
    BY DEF IsInjective
  <2>1. \A k \in DOMAIN s : s[k] # x
    BY <1>18 DEF Range
  <2>2. CASE a = i \/ b = i
    BY <1>13, <1>14, <1>15, <2>1, <2>2
  <2>3. CASE a # i /\ b # i
    <3>1. PICK k, l \in DOMAIN s : a = Moved(k) /\ b = Moved(l)
      BY <1>15, <2>3
    <3>2. k = l
      BY <1>13, <1>18, <3>1 DEF IsInjective
    <3> QED  BY <3>1, <3>2
  <2> QED  BY <2>2, <2>3
<1>19. KeepsOrder(s, t)
  BY <1>13, <1>16 DEF KeepsOrder
<1> QED
  BY <1>9, <1>10, <1>17, <1>18, <1>19

\* Nothing captured is lost, and nothing becomes older.
LEMMA Grown ==
  ASSUME StoredInv, Grows
  PROVE  /\ Range(captured) \subseteq Range(captured')
         /\ \A u, v \in Updates : Newer(u, v) => Newer(u, v)'
<1>1. CASE captured' = captured
  BY <1>1 DEF Newer
<1>2. ASSUME NEW u \in Updates, NEW i \in 1..(Len(captured) + 1),
             captured' = InsertAt(captured, i, u)
      PROVE  /\ Range(captured) \subseteq Range(captured')
             /\ KeepsOrder(captured, captured')
  <2> DEFINE t == InsertAt(captured, i, u)
  <2>1. captured \in Seq(Updates)
    BY DEF StoredInv
  <2>2. Range(t) = Range(captured) \union {u}
    BY <2>1, Inserted
  <2>3. KeepsOrder(captured, t)
    BY <2>1, Inserted
  <2>4. captured' = t
    BY <1>2
  <2> HIDE DEF t
  <2>5. Range(captured) \subseteq Range(captured')
    BY <2>2, <2>4
  <2> QED  BY <2>3, <2>4, <2>5
<1>3. CASE \E u \in Updates, i \in 1..(Len(captured) + 1) : captured' = InsertAt(captured, i, u)
  <2>1. /\ Range(captured) \subseteq Range(captured')
        /\ KeepsOrder(captured, captured')
    BY <1>2, <1>3
  <2>2. DOMAIN captured \subseteq Int /\ DOMAIN captured' \subseteq Int
    <3>1. captured \in Seq(Updates)
      BY DEF StoredInv
    <3>2. ASSUME NEW u \in Updates, NEW i \in 1..(Len(captured) + 1)
          PROVE  DOMAIN InsertAt(captured, i, u) = 1..(Len(captured) + 1)
      <4> DEFINE t == InsertAt(captured, i, u)
      <4>1. t \in Seq(Updates) /\ Len(t) = Len(captured) + 1
        BY <3>1, Inserted
      <4> HIDE DEF t
      <4>2. DOMAIN t = 1..(Len(captured) + 1)
        BY <4>1
      <4> QED  BY <4>2 DEF t
    <3> QED  BY <1>3, <3>1, <3>2
  <2> QED  BY <2>1, <2>2 DEF Newer, KeepsOrder
<1> QED  BY <1>1, <1>3 DEF Grows

\* One thread has moved; the others are where they were.
LEMMA OthersKept ==
  ASSUME DeliveryInv, NEW h \in Handlers, Grows, StoredInv', ThreadInv(h)', NEW t,
         handler' = [handler EXCEPT ![h] = t]
  PROVE  DeliveryInv'
<1>1. handler' = [g \in Handlers |-> handler'[g]]
  BY DEF DeliveryInv
<1>2. ASSUME NEW g \in Handlers, g # h PROVE ThreadInv(g)'
  <2>1. handler'[g] = handler[g] /\ content' = content /\ ThreadInv(g)
    BY <1>2 DEF DeliveryInv, Grows
  <2>2. IsThread(handler'[g])
    BY <2>1 DEF ThreadInv
  <2>3. Range(captured) \subseteq Range(captured')
    BY Grown DEF DeliveryInv
  <2>4. PlaceInv(g)'
    BY <2>1, <2>3 DEF ThreadInv, PlaceInv, Grows, Busy, Update, AtStep
  <2>5. ShownInv(g)'
    BY <2>1, <2>3 DEF ThreadInv, ShownInv, AtStep
  <2>6. NamedInv(g)'
    BY <2>1 DEF ThreadInv, NamedInv, Grows
  <2>7. NewestInv(g)'
    <3>1. Range(handler[g].items) \subseteq Updates /\ handler[g].before \subseteq Updates
      BY <2>1 DEF ThreadInv, IsThread, Range
    <3>2. EffectiveLimit(g)' = EffectiveLimit(g)
      BY <2>1 DEF EffectiveLimit, Requested, Update
    <3> QED  BY <2>1, <3>1, <3>2, Grown DEF ThreadInv, NewestInv, DeliveryInv, Update
  <2> QED  BY <2>2, <2>4, <2>5, <2>6, <2>7 DEF ThreadInv
<1> QED  BY <1>1, <1>2 DEF DeliveryInv

\* A thread that has left holds nothing.
LEMMA Left ==
  ASSUME NEW h \in Handlers, handler'[h] = Idle
  PROVE  ThreadInv(h)'
<1>1. IsThread(Idle)
  <2>1. <<>> \in Seq(Updates) /\ <<>> \in Seq({"name", "floor"}) /\ <<>> \in Seq(Range(<<>>))
    OBVIOUS
  <2> QED  BY <2>1 DEF IsThread, Idle, Steps
<1>2. PlaceInv(h)'
  BY DEF PlaceInv, Idle, Busy, AtStep
<1>3. ShownInv(h)'
  BY DEF ShownInv, Idle, AtStep, Range
<1>4. NamedInv(h)'
  BY DEF NamedInv, Idle
<1>5. NewestInv(h)'
  BY DEF NewestInv, Idle
<1> QED  BY <1>1, <1>2, <1>3, <1>4, <1>5 DEF ThreadInv

LEMMA FaultsCounted ==
  ASSUME FaultsTypeOK, NoFault \/ StoreFault \/ ProviderFault \/ AckLost
  PROVE  FaultsTypeOK'
BY FaultBudgets DEF FaultsTypeOK, NoFault, StoreFault, ProviderFault, AckLost, faultVars

\* Nothing is stored.
LEMMA StoreKept ==
  ASSUME StoredInv, UNCHANGED deliveryVars, NoFault \/ StoreFault \/ ProviderFault \/ AckLost
  PROVE  StoredInv' /\ Grows
<1>1. FaultsTypeOK'
  BY FaultsCounted DEF StoredInv
<1> QED  BY <1>1 DEF StoredInv, deliveryVars, Grows

\* A thread leaves by an exception.
LEMMA Raised ==
  ASSUME DeliveryInv, NEW h \in Handlers, Raise(h),
         NoFault \/ StoreFault \/ ProviderFault \/ AckLost
  PROVE  DeliveryInv'
<1>1. handler' = [handler EXCEPT ![h] = Idle] /\ handler'[h] = Idle
  BY DEF Raise, Leave, DeliveryInv
<1>2. StoredInv' /\ Grows
  BY StoreKept DEF Raise, DeliveryInv
<1> QED  BY <1>1, <1>2, Left, OthersKept

\* A thread takes a step, and keeps what it has.
LEMMA Continued ==
  ASSUME DeliveryInv, NEW h \in Handlers, NEW step \in Steps, Continue(h, step)
  PROVE  /\ IsThread(handler'[h])
         /\ handler' = [handler EXCEPT ![h] = [handler[h] EXCEPT !.step = step]]
         /\ handler'[h].step = step
         /\ handler'[h].update = handler[h].update
         /\ handler'[h].items = handler[h].items
         /\ handler'[h].authors = handler[h].authors
         /\ handler'[h].packed = handler[h].packed
         /\ handler'[h].sent = handler[h].sent
         /\ handler'[h].inbox = handler[h].inbox
         /\ handler'[h].header = handler[h].header
         /\ handler'[h].before = handler[h].before
<1>1. /\ handler' = [handler EXCEPT ![h] = [handler[h] EXCEPT !.step = step]]
      /\ handler'[h] = [handler[h] EXCEPT !.step = step]
  BY DEF Continue, DeliveryInv
<1>2. IsThread(handler[h])
  BY DEF DeliveryInv, ThreadInv
<1> DEFINE t == [handler[h] EXCEPT !.step = step]
<1>3. /\ IsThread(t)
      /\ t.step = step /\ t.update = handler[h].update
      /\ t.items = handler[h].items /\ t.authors = handler[h].authors
      /\ t.packed = handler[h].packed /\ t.sent = handler[h].sent
      /\ t.inbox = handler[h].inbox /\ t.header = handler[h].header
      /\ t.before = handler[h].before
  BY <1>2 DEF IsThread
<1> HIDE DEF t
<1>4. handler'[h] = t
  BY <1>1 DEF t
<1> QED  BY <1>1, <1>3, <1>4

\* What it shows is as good as it was, unless it has to look up an author.
LEMMA ShownKept ==
  ASSUME DeliveryInv, NEW h \in Handlers, NEW step \in Steps, Continue(h, step), StoredInv', Grows,
         step # "render", step \in Unlisted => handler[h].step \in Unlisted
  PROVE  ShownInv(h)' /\ NamedInv(h)' /\ NewestInv(h)'
<1>1. /\ handler'[h].step = step /\ handler'[h].update = handler[h].update
      /\ handler'[h].items = handler[h].items /\ handler'[h].authors = handler[h].authors
      /\ handler'[h].header = handler[h].header /\ handler'[h].before = handler[h].before
  BY Continued
<1>2. ThreadInv(h) /\ StoredInv
  BY DEF DeliveryInv
<1>3. Range(captured) \subseteq Range(captured')
  BY <1>2, Grown
<1>4. ShownInv(h)'
  BY <1>1, <1>2, <1>3 DEF ThreadInv, ShownInv, AtStep
<1>5. NamedInv(h)'
  BY <1>1, <1>2 DEF ThreadInv, NamedInv, Grows
<1>6. NewestInv(h)'
  <2>1. Range(handler[h].items) \subseteq Updates /\ handler[h].before \subseteq Updates
    BY <1>2 DEF ThreadInv, IsThread, Range
  <2>2. content' = content
    BY DEF Grows
  <2>3. EffectiveLimit(h)' = EffectiveLimit(h)
    BY <1>1, <2>2 DEF EffectiveLimit, Requested, Update
  <2> QED  BY <1>1, <1>2, <2>1, <2>2, <2>3, Grown DEF ThreadInv, NewestInv, Update
<1> QED  BY <1>4, <1>5, <1>6

\* All is well after a step if what is stored is, and the thread's place.
LEMMA ContinueKeeps ==
  ASSUME DeliveryInv, NEW h \in Handlers, NEW step \in Steps, Continue(h, step),
         StoredInv', Grows, PlaceInv(h)',
         step # "render", step \in Unlisted => handler[h].step \in Unlisted
  PROVE  DeliveryInv'
<1>1. ShownInv(h)' /\ NamedInv(h)' /\ NewestInv(h)'
  BY ShownKept
<1>2. IsThread(handler'[h])
      /\ handler' = [handler EXCEPT ![h] = [handler[h] EXCEPT !.step = step]]
  BY Continued
<1>3. ThreadInv(h)'
  BY <1>1, <1>2 DEF ThreadInv
<1> QED  BY <1>2, <1>3, OthersKept

\* No thread has moved.
LEMMA Unmoved ==
  ASSUME DeliveryInv, UNCHANGED handler, UNCHANGED deliveryVars,
         NoFault \/ StoreFault \/ ProviderFault \/ AckLost
  PROVE  DeliveryInv'
<1>1. StoredInv'
  BY StoreKept DEF DeliveryInv
<1>2. ASSUME NEW h \in Handlers PROVE ThreadInv(h)'
  <2>1. ThreadInv(h)
    BY DEF DeliveryInv
  <2>2. /\ handler'[h] = handler[h] /\ content' = content /\ answered' = answered
        /\ captured' = captured /\ snapshots' = snapshots /\ unsnapped' = unsnapped
    BY DEF deliveryVars
  <2>3. PlaceInv(h)' /\ ShownInv(h)' /\ NamedInv(h)'
    BY <2>1, <2>2 DEF ThreadInv, PlaceInv, ShownInv, NamedInv, Busy, Update, AtStep
  <2>4. NewestInv(h)'
    BY <2>1, <2>2 DEF ThreadInv, NewestInv, Newer, EffectiveLimit, Requested, Update
  <2> QED  BY <2>1, <2>2, <2>3, <2>4 DEF ThreadInv
<1> QED  BY <1>1, <1>2 DEF DeliveryInv

-----------------------------------------------------------------------------
(***************************************************************************)
(* Steps of a thread.                                                      *)
(***************************************************************************)
LEMMA ArriveKeeps ==
  ASSUME DeliveryInv, NEW h \in Handlers, NEW u \in Updates, Arrive(h, u)
  PROVE  DeliveryInv'
<1> DEFINE t == [Idle EXCEPT !.update = u, !.step = FirstStep(content[u].kind),
                             !.before = answered, !.rows = Range(captured)]
<1>1. handler' = [handler EXCEPT ![h] = t] /\ handler'[h] = t
  BY DEF Arrive, DeliveryInv
<1>2. StoredInv' /\ Grows
  BY StoreKept DEF Arrive, DeliveryInv
<1>3. /\ content[u].kind \in UpdateKinds
      /\ answered \subseteq Updates /\ Range(captured) \subseteq Updates
  BY DeliveryAssumption DEF DeliveryInv, StoredInv, UpdateKinds, Captures, Listings, Range
<1>4. /\ FirstStep(content[u].kind) \in Steps \ {"idle", "snapshot", "render", "respond"}
      /\ content[u].kind \in KindsAt(FirstStep(content[u].kind))
      /\ FirstStep(content[u].kind) \in Unlisted
  <2>1. \A kind \in UpdateKinds :
          /\ FirstStep(kind) \in Steps \ {"idle", "snapshot", "render", "respond"}
          /\ kind \in KindsAt(FirstStep(kind)) /\ FirstStep(kind) \in Unlisted
    BY DEF FirstStep, KindsAt, Steps, UpdateKinds, Captures, Listings, Unlisted
  <2> QED  BY <1>3, <2>1
<1>5. /\ t.update = u /\ t.step = FirstStep(content[u].kind) /\ t.before = answered
      /\ t.rows = Range(captured)
      /\ t.items = <<>> /\ t.authors = <<>> /\ t.packed = <<>> /\ t.sent = 0
      /\ t.inbox = <<>> /\ t.header = "none"
      /\ t \in [update : {t.update}, step : {t.step}, items : {<<>>}, authors : {<<>>},
               packed : {<<>>}, sent : {0}, inbox : {<<>>}, header : {"none"},
               before : {t.before}, rows : {t.rows}]
  <2>1. Idle \in [update : {NoUpdate}, step : {"idle"}, items : {<<>>}, authors : {<<>>},
                  packed : {<<>>}, sent : {0}, inbox : {<<>>}, header : {"none"}, before : {{}},
                  rows : {{}}]
    BY DEF Idle
  <2> QED  BY <2>1
<1> HIDE DEF t
<1>6. IsThread(t)
  <2>1. <<>> \in Seq(Updates) /\ <<>> \in Seq({"name", "floor"}) /\ <<>> \in Seq(Range(<<>>))
    OBVIOUS
  <2>2. /\ t.update \in Updates \union {NoUpdate} /\ t.step \in Steps
        /\ t.items \in Seq(Updates) /\ t.authors \in Seq({"name", "floor"})
        /\ t.packed \in {t.packed} /\ t.sent \in Nat /\ t.inbox \in Seq(Range(t.inbox))
        /\ t.header \in {"none", "all", "most_recent"} /\ t.before \in SUBSET Updates
        /\ t.rows \in SUBSET Updates
    BY <1>3, <1>4, <1>5, <2>1
  <2> QED  BY <1>5, <2>2 DEF IsThread
<1>7. PlaceInv(h)'
  <2>1. content' = content /\ answered \subseteq answered'
    BY <1>2 DEF Grows
  <2> QED  BY <1>1, <1>4, <1>5, <2>1 DEF PlaceInv, Busy, Update, AtStep
<1>8. ShownInv(h)' /\ NamedInv(h)' /\ NewestInv(h)'
  BY <1>1, <1>4, <1>5 DEF ShownInv, NamedInv, NewestInv, AtStep, Range
<1>9. ThreadInv(h)'
  BY <1>1, <1>6, <1>7, <1>8 DEF ThreadInv
<1> QED  BY <1>1, <1>2, <1>9, OthersKept

\* A captured note or draft: it is recorded, if it is not yet.
LEMMA CaptureKeeps ==
  ASSUME DeliveryInv, NEW h \in Handlers, Capture(h)
  PROVE  DeliveryInv'
<1>1. ThreadInv(h) /\ StoredInv
  BY DEF DeliveryInv
<1>2. CASE /\ IF Update(h) \in Range(captured) THEN UNCHANGED captured ELSE Insert(h)
           /\ Continue(h, "snapshot")
           /\ UNCHANGED <<content, answered, snapshots, cited, unsnapped>>
           /\ NoFault
  <2>1. AtStep(h, "capture") /\ Update(h) \in Updates /\ content[Update(h)].kind \in Captures
    BY <1>1 DEF Capture, ThreadInv, PlaceInv, KindsAt, Busy, AtStep
  <2>2. Grows
    BY <1>2, <2>1 DEF Grows, Insert
  <2>3. /\ Range(captured') = Range(captured) \union {Update(h)}
        /\ captured' \in Seq(Updates) /\ IsInjective(captured')
    <3>1. CASE Update(h) \in Range(captured)
      BY <1>1, <1>2, <3>1 DEF StoredInv
    <3>2. CASE Update(h) \notin Range(captured)
      <4>1. PICK i \in 1..(Len(captured) + 1) : captured' = InsertAt(captured, i, Update(h))
        BY <1>2, <3>2 DEF Insert
      <4>2. captured \in Seq(Updates) /\ IsInjective(captured)
        BY <1>1 DEF StoredInv
      <4>3. captured' \in Seq(Updates)
        BY <2>1, <4>1, <4>2, Inserted
      <4>4. Range(captured') = Range(captured) \union {Update(h)} /\ IsInjective(captured')
        BY <2>1, <3>2, <4>1, <4>2, Inserted
      <4> QED  BY <4>3, <4>4
    <3> QED  BY <3>1, <3>2
  <2>5. StoredInv'
    <3>1. FaultsTypeOK'
      BY <1>1, <1>2, FaultsCounted DEF StoredInv
    <3> QED  BY <1>1, <1>2, <2>1, <2>3, <3>1 DEF StoredInv
  <2>6. PlaceInv(h)'
    <3>1. /\ handler'[h].step = "snapshot" /\ handler'[h].update = handler[h].update
          /\ handler'[h].before = handler[h].before
          /\ handler'[h].sent = handler[h].sent /\ handler'[h].inbox = handler[h].inbox
      BY <1>2, Continued DEF Steps
    <3> QED  BY <1>1, <1>2, <2>1, <2>3, <3>1
             DEF ThreadInv, PlaceInv, Busy, Update, AtStep, KindsAt
  <2> QED  BY <1>2, <2>1, <2>2, <2>5, <2>6, ContinueKeeps DEF AtStep, Steps, Unlisted
<1>3. CASE StoreRaises(h)
  BY <1>3, Raised DEF StoreRaises
<1> QED  BY <1>2, <1>3 DEF Capture

\* The snapshot of the author is written, or its write fails.
LEMMA SnapshotKeeps ==
  ASSUME DeliveryInv, NEW h \in Handlers, Snapshot(h)
  PROVE  DeliveryInv'
<1>1. ThreadInv(h) /\ StoredInv
  BY DEF DeliveryInv
<1>2. /\ Update(h) \in Range(captured) /\ Update(h) \in Updates
      /\ content[Update(h)].kind \in UpdateKinds
  BY <1>1 DEF Snapshot, ThreadInv, PlaceInv, Busy, AtStep, KindsAt, UpdateKinds
<1>3. /\ Continue(h, "respond")
      /\ UNCHANGED <<content, answered, captured, cited>>
      /\ snapshots \subseteq snapshots' /\ unsnapped \subseteq unsnapped'
      /\ snapshots' \union unsnapped' = snapshots \union unsnapped \union {Update(h)}
      /\ NoFault \/ StoreFault
  BY DEF Snapshot
<1>4. Grows
  BY <1>3 DEF Grows
<1>5. StoredInv'
  <2>1. FaultsTypeOK'
    BY <1>1, <1>3, FaultsCounted DEF StoredInv
  <2>2. snapshots' \subseteq Range(captured) /\ unsnapped' \subseteq Range(captured)
    BY <1>1, <1>2, <1>3 DEF StoredInv
  <2> QED  BY <1>1, <1>3, <2>1, <2>2 DEF StoredInv
<1>6. PlaceInv(h)'
  <2>1. /\ handler'[h].step = "respond" /\ handler'[h].update = handler[h].update
        /\ handler'[h].before = handler[h].before
        /\ handler'[h].sent = handler[h].sent /\ handler'[h].inbox = handler[h].inbox
    BY <1>3, Continued DEF Steps
  <2> QED  BY <1>1, <1>2, <1>3, <2>1 DEF ThreadInv, PlaceInv, Busy, Update, AtStep, KindsAt
<1> QED  BY <1>3, <1>4, <1>5, <1>6, ContinueKeeps DEF Steps, Unlisted

\* A provider is called, or has answered the embedding.
LEMMA CallKeeps ==
  ASSUME DeliveryInv, NEW h \in Handlers, CallProvider(h) \/ Embedded(h)
  PROVE  DeliveryInv'
<1>1. ThreadInv(h) /\ StoredInv
  BY DEF DeliveryInv
<1>2. CASE UNCHANGED handler /\ UNCHANGED deliveryVars /\ (NoFault \/ ProviderFault)
  BY <1>2, Unmoved
<1>3. CASE Ended(h, "embed", "returned") /\ Continue(h, "generate")
           /\ UNCHANGED deliveryVars /\ NoFault
  <2>1. StoredInv' /\ Grows
    BY <1>1, <1>3, StoreKept
  <2>2. /\ handler'[h].step = "generate" /\ handler'[h].update = handler[h].update
        /\ handler'[h].before = handler[h].before
        /\ handler'[h].sent = handler[h].sent /\ handler'[h].inbox = handler[h].inbox
    BY <1>3, Continued DEF Steps
  <2>3. PlaceInv(h)'
    BY <1>1, <1>3, <2>1, <2>2
       DEF Ended, ThreadInv, PlaceInv, Grows, Busy, Update, AtStep, KindsAt
  <2> QED  BY <1>3, <2>1, <2>3, ContinueKeeps DEF Ended, AtStep, Steps, Unlisted
<1>4. CASE Raise(h) /\ NoFault
  BY <1>4, Raised
<1> QED  BY <1>2, <1>3, <1>4 DEF CallProvider, Embedded

\* The answer cites notes, in any order.
LEMMA GeneratedKeeps ==
  ASSUME DeliveryInv, NEW h \in Handlers, Generated(h)
  PROVE  DeliveryInv'
<1>1. ThreadInv(h) /\ StoredInv
  BY DEF DeliveryInv
<1>2. cited' \in [asked : BOOLEAN, notes : Seq(Updates)]
      /\ Range(cited'.notes) \subseteq {u \in Range(captured) : content[u].kind = "note"}
  <2>1. CASE cited' = [Uncited EXCEPT !.asked = TRUE]
    <3>1. cited' = [asked |-> TRUE, notes |-> <<>>]
      BY <2>1 DEF Uncited
    <3> QED  BY <3>1 DEF Range
  <2>2. ASSUME NEW S \in SUBSET {u \in Range(captured) : content[u].kind = "note"},
               NEW notes \in SetToSeqs(S), cited' = [asked |-> TRUE, notes |-> notes]
        PROVE  cited' \in [asked : BOOLEAN, notes : Seq(Updates)]
               /\ Range(cited'.notes) \subseteq {u \in Range(captured) : content[u].kind = "note"}
    <3>1. Range(captured) \subseteq Updates
      BY <1>1 DEF StoredInv, Range
    <3>2. IsFiniteSet(S) /\ Cardinality(S) \in Nat
      BY <3>1, DeliveryAssumption, FS_Subset, FS_CardinalityType
    <3>3. notes \in [1..Cardinality(S) -> S]
      BY DEF SetToSeqs
    <3>4. notes \in Seq(Updates) /\ Range(notes) \subseteq S
      BY <3>1, <3>2, <3>3 DEF Range
    <3> QED  BY <2>2, <3>4
  <2> QED  BY <2>1, <2>2 DEF Generated
<1>3. /\ Continue(h, "respond") /\ NoFault
      /\ UNCHANGED <<content, answered, captured, snapshots, unsnapped>>
      /\ AtStep(h, "generate")
  BY DEF Generated, Ended
<1>4. Grows
  BY <1>3 DEF Grows
<1>5. StoredInv'
  <2>1. FaultsTypeOK'
    BY <1>1, <1>3, FaultsCounted DEF StoredInv
  <2> QED  BY <1>1, <1>2, <1>3, <2>1 DEF StoredInv
<1>6. PlaceInv(h)'
  <2>1. /\ handler'[h].step = "respond" /\ handler'[h].update = handler[h].update
        /\ handler'[h].before = handler[h].before
        /\ handler'[h].sent = handler[h].sent /\ handler'[h].inbox = handler[h].inbox
    BY <1>3, Continued DEF Steps
  <2> QED  BY <1>1, <1>3, <2>1
           DEF ThreadInv, PlaceInv, Busy, Update, AtStep, KindsAt, UpdateKinds, Captures
<1> QED  BY <1>3, <1>4, <1>5, <1>6, ContinueKeeps DEF Steps, Unlisted

-----------------------------------------------------------------------------
(***************************************************************************)
(* Listings.                                                               *)
(***************************************************************************)
\* What was captured later is newer: a strict order of the drafts.
IsNewer == {p \in Drafts \X Drafts : Newer(p[1], p[2])}

LEMMA DraftsAreOrdered ==
  ASSUME StoredInv
  PROVE  /\ IsFiniteSet(Drafts) /\ Cardinality(Drafts) \in Nat /\ Drafts \subseteq Updates
         /\ StrictlyOrders(IsNewer, Drafts)
         /\ \A u, v \in Drafts : <<u, v>> \in IsNewer <=> Newer(u, v)
<1>1. Drafts \subseteq Updates
  BY DEF Drafts, StoredInv, Range
<1>2. IsFiniteSet(Drafts) /\ Cardinality(Drafts) \in Nat
  BY <1>1, DeliveryAssumption, FS_Subset, FS_CardinalityType
<1>3. \A u, v \in Drafts : <<u, v>> \in IsNewer <=> Newer(u, v)
  BY DEF IsNewer
<1>4. DOMAIN captured \subseteq Int
  BY DEF StoredInv
<1>5. \A i, j \in DOMAIN captured : captured[i] = captured[j] => i = j
  BY DEF StoredInv, IsInjective
<1>6. \A u \in Drafts : \E i \in DOMAIN captured : captured[i] = u
  BY DEF Drafts, Range
<1>7. \A u \in Drafts : ~Newer(u, u)
  BY <1>4, <1>5 DEF Newer
<1>8. \A u, v \in Drafts : u # v => Newer(u, v) \/ Newer(v, u)
  BY <1>4, <1>6 DEF Newer
<1>9. \A u, v, w \in Drafts : Newer(u, v) /\ Newer(v, w) => Newer(u, w)
  <2> TAKE u, v, w \in Drafts
  <2> HAVE Newer(u, v) /\ Newer(v, w)
  <2>1. PICK i, j \in DOMAIN captured : captured[i] = u /\ captured[j] = v /\ i > j
    BY DEF Newer
  <2>2. PICK k, l \in DOMAIN captured : captured[k] = v /\ captured[l] = w /\ k > l
    BY DEF Newer
  <2>3. j = k /\ i > l
    BY <1>4, <1>5, <2>1, <2>2
  <2> QED  BY <2>1, <2>2, <2>3 DEF Newer
<1>10. StrictlyOrders(IsNewer, Drafts)
  BY <1>3, <1>7, <1>8, <1>9 DEF StrictlyOrders
<1> QED  BY <1>1, <1>2, <1>3, <1>10

\* list_recent_drafts: drafts only, as many as asked for while there are any,
\* and every one left out is older than those returned.
LEMMA RecentDraftsAreTheNewest ==
  ASSUME StoredInv, NEW limit \in Nat \ {0}
  PROVE  /\ RecentDrafts(limit) \in Seq(Updates)
         /\ Len(RecentDrafts(limit)) <= Cardinality(Updates)
         /\ Range(RecentDrafts(limit)) \subseteq Drafts
         /\ \A u \in Drafts \ Range(RecentDrafts(limit)) :
               /\ Len(RecentDrafts(limit)) = limit
               /\ \A shown \in Range(RecentDrafts(limit)) : Newer(shown, u)
<1> DEFINE Place(u) == 1 + Cardinality({v \in Drafts : Newer(v, u)})
           n == Min({limit, Cardinality(Drafts)})
           items == RecentDrafts(limit)
<1>1. /\ IsFiniteSet(Drafts) /\ Cardinality(Drafts) \in Nat /\ Drafts \subseteq Updates
      /\ StrictlyOrders(IsNewer, Drafts)
      /\ \A u, v \in Drafts : <<u, v>> \in IsNewer <=> Newer(u, v)
  BY DraftsAreOrdered
<1>2. /\ n \in Nat /\ n <= limit /\ n <= Cardinality(Drafts)
      /\ n = limit \/ n = Cardinality(Drafts)
  <2>1. \E m \in {limit, Cardinality(Drafts)} : \A k \in {limit, Cardinality(Drafts)} : m <= k
    BY <1>1
  <2>2. n \in {limit, Cardinality(Drafts)} /\ \A k \in {limit, Cardinality(Drafts)} : n <= k
    BY <2>1, Zenon DEF Min
  <2> HIDE DEF n
  <2> QED  BY <1>1, <2>2
<1>3. \A u \in Drafts : Place(u) = PlaceIn(IsNewer, Drafts, u)
  <2> TAKE u \in Drafts
  <2>1. {v \in Drafts : Newer(v, u)} = {v \in Drafts : <<v, u>> \in IsNewer}
    BY <1>1
  <2> QED  BY <2>1 DEF PlaceIn
<1>4. items = [i \in 1..n |-> CHOOSE u \in Drafts : Place(u) = i]
  BY DEF RecentDrafts
<1> HIDE DEF Place, n, items
<1>5. \A i \in 1..n : items[i] \in Drafts /\ Place(items[i]) = i
  <2> TAKE i \in 1..n
  <2>1. i \in 1..Cardinality(Drafts)
    BY <1>1, <1>2
  <2>2. \E u \in Drafts : Place(u) = i
    BY <1>1, <1>3, <2>1, PlacesAreTaken
  <2> QED  BY <1>4, <2>2
<1>6. \A u, v \in Drafts : Place(u) = Place(v) => u = v
  <2> TAKE u, v \in Drafts
  <2>1. Place(u) \in 1..Cardinality(Drafts)
    BY <1>1, <1>3, PlacesIncrease
  <2> QED  BY <1>1, <1>3, <2>1, PlacesAreTaken
<1>7. items \in Seq(Updates) /\ Len(items) = n /\ DOMAIN items = 1..n
  BY <1>1, <1>2, <1>4, <1>5
<1>8. Range(items) \subseteq Drafts
  BY <1>5, <1>7 DEF Range
<1>9. ASSUME NEW u \in Drafts \ Range(items)
      PROVE  n = limit /\ \A shown \in Range(items) : Newer(shown, u)
  <2>1. Place(u) \in 1..Cardinality(Drafts)
    BY <1>1, <1>3, PlacesIncrease
  <2>2. Place(u) > n
    <3> SUFFICES ASSUME Place(u) \in 1..n PROVE FALSE
      BY <1>1, <1>2, <2>1
    <3>1. items[Place(u)] = u
      BY <1>5, <1>6
    <3> QED  BY <1>7, <3>1 DEF Range
  <2>3. n = limit
    BY <1>1, <1>2, <2>1, <2>2
  <2>4. ASSUME NEW shown \in Range(items) PROVE Newer(shown, u)
    <3>1. PICK i \in 1..n : items[i] = shown
      BY <1>7 DEF Range
    <3>2. shown \in Drafts /\ Place(shown) = i /\ Place(shown) < Place(u) /\ shown # u
      BY <1>2, <1>5, <2>1, <2>2, <3>1
    <3>3. <<u, shown>> \notin IsNewer
      <4>1. <<u, shown>> \in IsNewer => Place(u) < Place(shown)
        BY <1>1, <1>3, <3>2, PlacesIncrease
      <4> QED  BY <1>2, <2>1, <3>2, <4>1
    <3> QED  BY <1>1, <3>2, <3>3 DEF StrictlyOrders
  <2> QED  BY <2>3, <2>4
<1>10. Cardinality(Updates) \in Nat /\ n <= Cardinality(Updates)
  <2>1. Cardinality(Updates) \in Nat /\ Cardinality(Drafts) <= Cardinality(Updates)
    BY <1>1, DeliveryAssumption, FS_Subset, FS_CardinalityType
  <2> QED  BY <1>1, <1>2, <2>1
<1> QED  BY <1>7, <1>8, <1>9, <1>10 DEF items

\* A thread that was given captured messages shows them.
LEMMA ShowKeeps ==
  ASSUME DeliveryInv, NEW h \in Handlers, AtStep(h, "list") \/ AtStep(h, "recall"),
         NEW items \in Seq(Updates), Range(items) \subseteq Range(captured),
         NEW header \in {"none", "all", "most_recent"},
         ShowOrRespond(h, items, header), UNCHANGED deliveryVars, NoFault,
         items # <<>> /\ content[Update(h)].kind = "drafts" =>
            \A u \in handler[h].before \ Range(items) : content[u].kind = "draft" =>
               /\ header # "all"
               /\ Len(items) = EffectiveLimit(h)
               /\ \A shown \in Range(items) : Newer(shown, u)
  PROVE  DeliveryInv'
<1> DEFINE step == IF items = <<>> THEN "respond" ELSE "render"
           t == [handler[h] EXCEPT !.items = items, !.header = header, !.step = step]
<1>1. handler' = [handler EXCEPT ![h] = t] /\ handler'[h] = t
  BY DEF ShowOrRespond, DeliveryInv
<1>2. ThreadInv(h) /\ StoredInv
  BY DEF DeliveryInv
<1>3. StoredInv' /\ Grows
  BY <1>2, StoreKept
<1>4. step \in {"respond", "render"} /\ (step = "render" => items # <<>>)
  OBVIOUS
<1> HIDE DEF step
<1>5. /\ IsThread(t)
      /\ t.step = step /\ t.update = handler[h].update /\ t.items = items
      /\ t.authors = handler[h].authors /\ t.sent = handler[h].sent
      /\ t.inbox = handler[h].inbox /\ t.header = header /\ t.before = handler[h].before
  BY <1>2, <1>4 DEF ThreadInv, IsThread, Steps
<1> HIDE DEF t
<1>6. /\ content' = content /\ answered' = answered /\ captured' = captured
      /\ snapshots' = snapshots /\ unsnapped' = unsnapped
  BY DEF deliveryVars
<1>7. handler[h].items = <<>> /\ handler[h].authors = <<>>
  BY <1>2 DEF ThreadInv, ShownInv, Unlisted, AtStep
<1>8. PlaceInv(h)'
  <2>1. Update(h) \in Updates /\ content[Update(h)].kind \in Listings
    BY <1>2 DEF ThreadInv, PlaceInv, Busy, AtStep, KindsAt, Listings
  <2> QED  BY <1>1, <1>2, <1>4, <1>5, <1>6, <2>1
           DEF ThreadInv, PlaceInv, Busy, Update, AtStep, KindsAt, Listings, Captures, UpdateKinds
<1>9. ShownInv(h)'
  <2>1. Len(items) \in Nat /\ (items # <<>> => 0 < Len(items))
    OBVIOUS
  <2> QED  BY <1>1, <1>4, <1>5, <1>6, <1>7, <2>1 DEF ShownInv, AtStep, Unlisted
<1>10. NamedInv(h)'
  BY <1>1, <1>5, <1>7 DEF NamedInv
<1>11. NewestInv(h)'
  BY <1>1, <1>5, <1>6 DEF NewestInv, Update, Newer, EffectiveLimit, Requested
<1>12. ThreadInv(h)'
  BY <1>1, <1>5, <1>8, <1>9, <1>10, <1>11 DEF ThreadInv
<1> QED  BY <1>1, <1>3, <1>12, OthersKept

\* /drafts: the newest, under the header that fits them.
LEMMA ListDraftsKeeps ==
  ASSUME DeliveryInv, NEW h \in Handlers, ListDrafts(h)
  PROVE  DeliveryInv'
<1>1. ThreadInv(h) /\ StoredInv
  BY DEF DeliveryInv
<1>2. /\ AtStep(h, "list") /\ Update(h) \in Updates /\ content[Update(h)].kind = "drafts"
  BY <1>1 DEF ListDrafts, ThreadInv, PlaceInv, Busy, AtStep, KindsAt
<1>3. CASE Requested(h) < 1 /\ Continue(h, "respond") /\ UNCHANGED deliveryVars /\ NoFault
  <2>1. StoredInv' /\ Grows
    BY <1>1, <1>3, StoreKept
  <2>2. /\ handler'[h].step = "respond" /\ handler'[h].update = handler[h].update
        /\ handler'[h].before = handler[h].before
        /\ handler'[h].sent = handler[h].sent /\ handler'[h].inbox = handler[h].inbox
    BY <1>3, Continued DEF Steps
  <2>3. PlaceInv(h)'
    BY <1>1, <1>2, <2>1, <2>2 DEF ThreadInv, PlaceInv, Grows, Busy, Update, AtStep, KindsAt,
       UpdateKinds, Listings, Captures
  <2> QED  BY <1>2, <1>3, <2>1, <2>3, ContinueKeeps DEF AtStep, Steps, Unlisted
<1>4. CASE /\ Requested(h) >= 1 /\ UNCHANGED deliveryVars /\ NoFault
           /\ ShowOrRespond(h, RecentDrafts(EffectiveLimit(h)),
                            DraftsHeader(h, Len(RecentDrafts(EffectiveLimit(h)))))
  <2> DEFINE limit == EffectiveLimit(h)
             items == RecentDrafts(limit)
             header == DraftsHeader(h, Len(items))
  <2>1. content[Update(h)].limit \in Int
    BY <1>1, <1>2, DeliveryAssumption DEF StoredInv
  <2>2. limit \in Nat \ {0} /\ limit <= Requested(h) /\ limit <= MaxLimit
        /\ Requested(h) \in Int /\ MaxLimit \in Int /\ (limit = Requested(h) \/ limit = MaxLimit)
    BY <1>4, <2>1, DeliveryAssumption DEF EffectiveLimit, Requested
  <2> HIDE DEF limit
  <2>3. /\ items \in Seq(Updates) /\ Range(items) \subseteq Drafts
        /\ \A u \in Drafts \ Range(items) :
              Len(items) = limit /\ \A shown \in Range(items) : Newer(shown, u)
    BY <1>1, <2>2, RecentDraftsAreTheNewest
  <2>4. Range(items) \subseteq Range(captured)
    BY <2>3 DEF Drafts
  <2>5. header \in {"none", "all", "most_recent"}
    BY DEF DraftsHeader
  <2>6. ASSUME NEW u \in handler[h].before \ Range(items), content[u].kind = "draft"
        PROVE  header # "all" /\ Len(items) = limit /\ \A shown \in Range(items) : Newer(shown, u)
    <3>1. u \in Drafts
      BY <1>1, <2>6 DEF ThreadInv, PlaceInv, StoredInv, Drafts, Captures
    <3>2. Len(items) = limit
      BY <2>3, <2>6, <3>1
    <3>3. header # "all"
      BY <2>2, <3>2 DEF DraftsHeader
    <3> QED  BY <2>3, <2>6, <3>1, <3>3
  <2>7. ShowOrRespond(h, items, header)
    BY <1>4 DEF limit
  <2> HIDE DEF header, items
  <2> QED  BY <1>2, <1>4, <2>3, <2>4, <2>5, <2>6, <2>7, ShowKeeps DEF limit
<1>5. CASE StoreRaises(h)
  BY <1>5, Raised DEF StoreRaises
<1> QED  BY <1>3, <1>4, <1>5 DEF ListDrafts

\* /sources: what the cache holds.
LEMMA RecallKeeps ==
  ASSUME DeliveryInv, NEW h \in Handlers, Recall(h)
  PROVE  DeliveryInv'
<1>1. /\ AtStep(h, "recall") /\ UNCHANGED deliveryVars /\ NoFault
      /\ ShowOrRespond(h, cited.notes, "none")
  BY DEF Recall
<1>2. cited.notes \in Seq(Updates) /\ Range(cited.notes) \subseteq Range(captured)
  BY DEF DeliveryInv, StoredInv
<1>3. content[Update(h)].kind = "sources"
  BY <1>1 DEF DeliveryInv, ThreadInv, PlaceInv, Busy, AtStep, KindsAt
<1> QED  BY <1>1, <1>2, <1>3, ShowKeeps

\* The author of one message is looked up.
LEMMA RenderKeeps ==
  ASSUME DeliveryInv, NEW h \in Handlers, Render(h)
  PROVE  DeliveryInv'
<1>1. ThreadInv(h) /\ StoredInv
  BY DEF DeliveryInv
<1> DEFINE shown == Len(handler[h].authors) + 1
           named == Append(handler[h].authors, Author(handler[h].items[shown]))
<1>2. ASSUME NEW step \in {"render", "send"}, NEW packed,
             step = "render" => shown # Len(handler[h].items),
             handler' = [handler EXCEPT ![h] = [handler[h] EXCEPT
                            !.authors = named, !.step = step, !.packed = packed]],
             UNCHANGED deliveryVars, NoFault
      PROVE  DeliveryInv'
  <2> DEFINE t == [handler[h] EXCEPT !.authors = named, !.step = step, !.packed = packed]
  <2>1. handler' = [handler EXCEPT ![h] = t] /\ handler'[h] = t
    BY <1>2 DEF DeliveryInv
  <2>2. StoredInv' /\ Grows
    BY <1>1, <1>2, StoreKept
  <2>3. /\ handler[h].authors \in Seq({"name", "floor"}) /\ handler[h].items \in Seq(Updates)
        /\ Len(handler[h].authors) < Len(handler[h].items)
        /\ Author(handler[h].items[shown]) \in {"name", "floor"}
    BY <1>1 DEF Render, ThreadInv, IsThread, ShownInv, Author
  <2>4. /\ named \in Seq({"name", "floor"}) /\ Len(named) = shown /\ shown \in Nat
        /\ DOMAIN named = 1..shown
        /\ \A i \in 1..(shown - 1) : named[i] = handler[h].authors[i]
        /\ named[shown] = Author(handler[h].items[shown])
    BY <2>3
  <2> HIDE DEF named
  <2>5. /\ IsThread(t)
        /\ t.step = step /\ t.update = handler[h].update /\ t.items = handler[h].items
        /\ t.authors = named /\ t.sent = handler[h].sent /\ t.inbox = handler[h].inbox
        /\ t.header = handler[h].header /\ t.before = handler[h].before
    BY <1>1, <2>4 DEF ThreadInv, IsThread, Steps
  <2> HIDE DEF t
  <2>6. /\ content' = content /\ answered' = answered /\ captured' = captured
        /\ snapshots' = snapshots /\ unsnapped' = unsnapped
    BY <1>2 DEF deliveryVars
  <2>7. PlaceInv(h)'
    BY <1>1, <2>1, <2>5, <2>6
       DEF Render, ThreadInv, PlaceInv, Busy, Update, AtStep, KindsAt
  <2>8. ShownInv(h)'
    BY <1>1, <1>2, <2>1, <2>3, <2>4, <2>5, <2>6 DEF ThreadInv, ShownInv, AtStep, Unlisted
  <2>9. NamedInv(h)'
    <3> SUFFICES ASSUME NEW i \in 1..shown, handler[h].items[i] \in handler[h].before
                 PROVE  named[i] = "name" \/ handler[h].items[i] \in unsnapped
      BY <2>1, <2>4, <2>5, <2>6 DEF NamedInv
    <3>1. CASE i = shown
      <4>1. i \in DOMAIN handler[h].items
        BY <2>3, <3>1
      <4>2. handler[h].items[i] \in Range(captured) /\ handler[h].items[i] \in answered
        BY <1>1, <4>1 DEF ThreadInv, ShownInv, PlaceInv, Range
      <4>3. handler[h].items[i] \in snapshots \union unsnapped
        BY <1>1, <4>2 DEF StoredInv
      <4> QED  BY <2>4, <3>1, <4>3 DEF Author
    <3>2. CASE i # shown
      <4>1. i \in 1..(shown - 1) /\ i \in DOMAIN handler[h].authors
        BY <2>3, <3>2
      <4> QED  BY <1>1, <2>4, <4>1 DEF ThreadInv, NamedInv
    <3> QED  BY <3>1, <3>2
  <2>10. NewestInv(h)'
    BY <1>1, <2>1, <2>5, <2>6
       DEF ThreadInv, NewestInv, Update, Newer, EffectiveLimit, Requested
  <2>11. ThreadInv(h)'
    BY <2>1, <2>5, <2>7, <2>8, <2>9, <2>10 DEF ThreadInv
  <2> QED  BY <2>1, <2>2, <2>11, OthersKept
<1>3. CASE shown = Len(handler[h].items) /\ ~StoreRaises(h)
  <2>1. handler' = [handler EXCEPT ![h] = [handler[h] EXCEPT !.authors = named,
                       !.step = "send", !.packed = PackingOf(HeaderOf(h), Lengths(h))]]
    BY <1>3 DEF Render
  <2>2. UNCHANGED deliveryVars /\ NoFault
    BY <1>3 DEF Render
  <2> QED  BY <1>2, <2>1, <2>2
<1>4. CASE shown # Len(handler[h].items) /\ ~StoreRaises(h)
  <2>1. handler' = [handler EXCEPT ![h] = [handler[h] EXCEPT !.authors = named]]
        /\ UNCHANGED deliveryVars /\ NoFault
    BY <1>4 DEF Render
  <2>2. [handler[h] EXCEPT !.authors = named]
          = [handler[h] EXCEPT !.authors = named, !.step = "render", !.packed = handler[h].packed]
    BY <1>1 DEF Render, AtStep, ThreadInv, IsThread
  <2> QED  BY <1>2, <1>4, <2>1, <2>2
<1>5. CASE StoreRaises(h)
  BY <1>5, Raised DEF StoreRaises
<1> QED  BY <1>3, <1>4, <1>5

-----------------------------------------------------------------------------
(***************************************************************************)
(* What is sent, and the response.                                         *)
(***************************************************************************)
\* A message may have reached the chat, and the thread counts no more than
\* have.
LEMMA SentKeeps ==
  ASSUME DeliveryInv, NEW h \in Handlers, handler[h].step \notin Unlisted \union {"render"},
         NEW step \in {"send", "notify", "respond"}, NEW sent \in Nat, NEW S, NEW inbox \in Seq(S),
         sent <= Len(inbox), content[Update(h)].kind \in KindsAt(step) \ Captures,
         handler' = [handler EXCEPT ![h] = [handler[h] EXCEPT
                        !.step = step, !.sent = sent, !.inbox = inbox]],
         UNCHANGED deliveryVars, NoFault \/ ProviderFault
  PROVE  DeliveryInv'
<1> DEFINE t == [handler[h] EXCEPT !.step = step, !.sent = sent, !.inbox = inbox]
<1>1. handler' = [handler EXCEPT ![h] = t] /\ handler'[h] = t
  BY DEF DeliveryInv
<1>2. ThreadInv(h) /\ StoredInv
  BY DEF DeliveryInv
<1>3. StoredInv' /\ Grows
  BY <1>2, StoreKept
<1>4. inbox \in Seq(Range(inbox))
  BY DEF Range
<1>5. /\ IsThread(t)
      /\ t.step = step /\ t.update = handler[h].update /\ t.items = handler[h].items
      /\ t.authors = handler[h].authors /\ t.sent = sent /\ t.inbox = inbox
      /\ t.header = handler[h].header /\ t.before = handler[h].before
  BY <1>2, <1>4 DEF ThreadInv, IsThread, Steps
<1> HIDE DEF t
<1>6. /\ content' = content /\ answered' = answered /\ captured' = captured
      /\ snapshots' = snapshots /\ unsnapped' = unsnapped
  BY DEF deliveryVars
<1>7. PlaceInv(h)'
  <2>1. Update(h) \in Updates
    BY <1>2 DEF ThreadInv, PlaceInv, Busy, Unlisted
  <2> QED  BY <1>1, <1>2, <1>5, <1>6, <2>1 DEF ThreadInv, PlaceInv, Busy, Update, AtStep
<1>8. ShownInv(h)'
  BY <1>1, <1>2, <1>5, <1>6 DEF ThreadInv, ShownInv, AtStep, Unlisted
<1>9. NamedInv(h)'
  BY <1>1, <1>2, <1>5, <1>6 DEF ThreadInv, NamedInv
<1>10. NewestInv(h)'
  BY <1>1, <1>2, <1>5, <1>6
     DEF ThreadInv, NewestInv, Update, Newer, EffectiveLimit, Requested
<1>11. ThreadInv(h)'
  BY <1>1, <1>5, <1>7, <1>8, <1>9, <1>10 DEF ThreadInv
<1> QED  BY <1>1, <1>3, <1>11, OthersKept

\* A message, or the notice that the listing was cut short.
LEMMA SendKeeps ==
  ASSUME DeliveryInv, NEW h \in Handlers, Send(h) \/ Notify(h)
  PROVE  DeliveryInv'
<1> DEFINE t == handler[h]
<1>1. ThreadInv(h) /\ StoredInv
  BY DEF DeliveryInv
<1>2. /\ t.step \in {"send", "notify"} /\ t.step \notin Unlisted \union {"render"}
      /\ content[Update(h)].kind \in Listings
  BY <1>1 DEF Send, Notify, ThreadInv, PlaceInv, Busy, AtStep, KindsAt, Unlisted
<1>3. \A step \in {"send", "notify", "respond"} : content[Update(h)].kind \in KindsAt(step) \ Captures
  BY <1>2 DEF KindsAt, UpdateKinds, Listings, Captures
<1>4. t.sent \in Nat /\ t.inbox \in Seq(Range(t.inbox)) /\ t.sent <= Len(t.inbox)
  BY <1>1 DEF ThreadInv, IsThread, PlaceInv
<1>5. \A x : /\ Append(t.inbox, x) \in Seq(Range(t.inbox) \union {x})
             /\ Len(Append(t.inbox, x)) = Len(t.inbox) + 1
  BY <1>4, Appended
<1>6. ASSUME NEW x, NEW sent \in {t.sent, t.sent + 1}, NEW step \in {"send", "notify", "respond"},
             handler' = [handler EXCEPT ![h] = [handler[h] EXCEPT
                            !.step = step, !.sent = sent, !.inbox = Append(t.inbox, x)]],
             UNCHANGED deliveryVars, NoFault \/ ProviderFault
      PROVE  DeliveryInv'
  <2>1. sent \in Nat /\ sent <= Len(Append(t.inbox, x))
        /\ Append(t.inbox, x) \in Seq(Range(t.inbox) \union {x})
    BY <1>4, <1>5
  <2> QED  BY <1>2, <1>3, <1>6, <2>1, SentKeeps
<1>7. ASSUME NEW step \in {"notify", "respond"}, Continue(h, step),
             UNCHANGED deliveryVars, NoFault \/ ProviderFault
      PROVE  DeliveryInv'
  <2>1. [handler[h] EXCEPT !.step = step]
          = [handler[h] EXCEPT !.step = step, !.sent = t.sent, !.inbox = t.inbox]
    BY <1>1 DEF ThreadInv, IsThread
  <2>2. handler' = [handler EXCEPT ![h] = [handler[h] EXCEPT
                       !.step = step, !.sent = t.sent, !.inbox = t.inbox]]
    BY <1>7, <2>1 DEF Continue
  <2> QED  BY <1>2, <1>3, <1>4, <1>7, <2>2, SentKeeps
<1>8. CASE Send(h)
  <2> DEFINE message == t.packed[t.sent + 1]
             last == t.sent + 1 = Len(t.packed)
  <2>1. CASE handler' = [handler EXCEPT ![h].sent = @ + 1, ![h].inbox = Append(t.inbox, message),
                                        ![h].step = IF last THEN "respond" ELSE "send"] /\ NoFault
    <3> DEFINE step == IF last THEN "respond" ELSE "send"
    <3>1. handler' = [handler EXCEPT ![h] = [handler[h] EXCEPT !.sent = t.sent + 1,
                         !.inbox = Append(t.inbox, message), !.step = step]]
      BY <2>1
    <3>2. [handler[h] EXCEPT !.sent = t.sent + 1, !.inbox = Append(t.inbox, message), !.step = step]
            = [handler[h] EXCEPT !.step = step, !.sent = t.sent + 1,
                                 !.inbox = Append(t.inbox, message)]
      BY <1>1 DEF ThreadInv, IsThread
    <3>3. step \in {"send", "notify", "respond"} /\ t.sent + 1 \in {t.sent, t.sent + 1}
          /\ UNCHANGED deliveryVars
      BY <1>8 DEF Send
    <3>4. NoFault
      BY <2>1
    <3> HIDE DEF t, step, message
    <3>5. handler' = [handler EXCEPT ![h] = [handler[h] EXCEPT !.step = step,
                         !.sent = t.sent + 1, !.inbox = Append(t.inbox, message)]]
      BY <3>1, <3>2
    <3> QED  BY <1>6, <3>3, <3>4, <3>5
  <2>2. CASE Continue(h, "notify") /\ (NoFault \/ ProviderFault)
    BY <1>7, <1>8, <2>2 DEF Send
  <2>3. CASE handler' = [handler EXCEPT ![h].inbox = Append(t.inbox, message),
                                        ![h].step = "notify"] /\ ProviderFault
    <3>1. handler' = [handler EXCEPT ![h] = [handler[h] EXCEPT
                         !.inbox = Append(t.inbox, message), !.step = "notify"]]
      BY <2>3
    <3>2. [handler[h] EXCEPT !.inbox = Append(t.inbox, message), !.step = "notify"]
            = [handler[h] EXCEPT !.step = "notify", !.sent = t.sent,
                                 !.inbox = Append(t.inbox, message)]
      BY <1>1 DEF ThreadInv, IsThread
    <3>3. UNCHANGED deliveryVars
      BY <1>8 DEF Send
    <3> HIDE DEF t, message
    <3> QED  BY <1>6, <2>3, <3>1, <3>2, <3>3
  <2> QED  BY <1>8, <2>1, <2>2, <2>3 DEF Send
<1>9. CASE Notify(h)
  <2>1. CASE handler' = [handler EXCEPT ![h].step = "respond",
                ![h].inbox = Append(@, Notice(handler[h].sent, Len(handler[h].packed)))] /\ NoFault
    <3> DEFINE x == Notice(handler[h].sent, Len(handler[h].packed))
    <3>1. handler' = [handler EXCEPT ![h] = [handler[h] EXCEPT !.step = "respond",
                         !.inbox = Append(t.inbox, x)]]
      BY <2>1
    <3>2. [handler[h] EXCEPT !.step = "respond", !.inbox = Append(t.inbox, x)]
            = [handler[h] EXCEPT !.step = "respond", !.sent = t.sent,
                                 !.inbox = Append(t.inbox, x)]
      BY <1>1 DEF ThreadInv, IsThread
    <3>3. UNCHANGED deliveryVars
      BY <1>9 DEF Notify
    <3> HIDE DEF t, x
    <3> QED  BY <1>6, <2>1, <3>1, <3>2, <3>3
  <2>2. CASE Continue(h, "respond") /\ ProviderFault
    BY <1>7, <1>9, <2>2 DEF Notify
  <2> QED  BY <1>9, <2>1, <2>2 DEF Notify
<1> QED  BY <1>8, <1>9

\* The export: everything captured, as one document.
LEMMA ExportKeeps ==
  ASSUME DeliveryInv, NEW h \in Handlers, Export(h)
  PROVE  DeliveryInv'
<1>1. ThreadInv(h) /\ StoredInv
  BY DEF DeliveryInv
<1>2. CASE /\ handler' = [handler EXCEPT ![h].items = captured, ![h].step = "send_document"]
           /\ UNCHANGED deliveryVars /\ NoFault
  <2> DEFINE t == [handler[h] EXCEPT !.items = captured, !.step = "send_document"]
  <2>1. handler' = [handler EXCEPT ![h] = t] /\ handler'[h] = t
    BY <1>2 DEF DeliveryInv
  <2>2. StoredInv' /\ Grows
    BY <1>1, <1>2, StoreKept
  <2>3. /\ IsThread(t)
        /\ t.step = "send_document" /\ t.update = handler[h].update /\ t.items = captured
        /\ t.authors = handler[h].authors /\ t.sent = handler[h].sent
        /\ t.inbox = handler[h].inbox /\ t.before = handler[h].before
    BY <1>1 DEF ThreadInv, IsThread, Steps, StoredInv
  <2> HIDE DEF t
  <2>4. /\ content' = content /\ answered' = answered /\ captured' = captured
    BY <1>2 DEF deliveryVars
  <2>5. /\ handler[h].authors = <<>> /\ content[Update(h)].kind = "export"
        /\ Update(h) \in Updates
    BY <1>1 DEF Export, ThreadInv, ShownInv, PlaceInv, Busy, AtStep, KindsAt, Unlisted
  <2>6. PlaceInv(h)'
    BY <1>1, <2>1, <2>3, <2>4, <2>5 DEF ThreadInv, PlaceInv, Busy, Update, AtStep, KindsAt
  <2>7. ShownInv(h)'
    <3>1. Len(captured) \in Nat
      BY <1>1 DEF StoredInv
    <3> QED  BY <2>1, <2>3, <2>4, <2>5, <3>1 DEF ShownInv, AtStep, Unlisted
  <2>8. NamedInv(h)' /\ NewestInv(h)'
    BY <2>1, <2>3, <2>4, <2>5 DEF NamedInv, NewestInv, Update
  <2>9. ThreadInv(h)'
    BY <2>1, <2>3, <2>6, <2>7, <2>8 DEF ThreadInv
  <2> QED  BY <2>1, <2>2, <2>9, OthersKept
<1>3. CASE StoreRaises(h)
  BY <1>3, Raised DEF StoreRaises
<1> QED  BY <1>2, <1>3 DEF Export

LEMMA SendDocumentKeeps ==
  ASSUME DeliveryInv, NEW h \in Handlers, SendDocument(h)
  PROVE  DeliveryInv'
<1> DEFINE t == handler[h]
<1>1. ThreadInv(h) /\ StoredInv
  BY DEF DeliveryInv
<1>2. /\ t.step = "send_document" /\ t.step \notin Unlisted \union {"render"}
      /\ content[Update(h)].kind = "export"
  BY <1>1 DEF SendDocument, ThreadInv, PlaceInv, Busy, AtStep, KindsAt, Unlisted
<1>3. content[Update(h)].kind \in KindsAt("respond") \ Captures
  BY <1>2 DEF KindsAt, UpdateKinds, Listings, Captures
<1>4. CASE /\ handler' = [handler EXCEPT ![h].step = "respond", ![h].sent = 1,
                                         ![h].inbox = <<Document(handler[h].items)>>]
           /\ NoFault
  <2> DEFINE inbox == <<Document(handler[h].items)>>
  <2>1. handler' = [handler EXCEPT ![h] = [handler[h] EXCEPT
                       !.step = "respond", !.sent = 1, !.inbox = inbox]]
    BY <1>4
  <2>2. inbox \in Seq({Document(handler[h].items)}) /\ Len(inbox) = 1
    OBVIOUS
  <2>3. UNCHANGED deliveryVars /\ NoFault
    BY <1>4 DEF SendDocument
  <2> HIDE DEF inbox
  <2>4. \E S : inbox \in Seq(S) /\ 1 <= Len(inbox)
    BY <2>2
  <2> QED  BY <1>2, <1>3, <2>1, <2>3, <2>4, SentKeeps
<1>5. CASE Continue(h, "respond") /\ ProviderFault
  <2>1. [handler[h] EXCEPT !.step = "respond"]
          = [handler[h] EXCEPT !.step = "respond", !.sent = t.sent, !.inbox = t.inbox]
    BY <1>1 DEF ThreadInv, IsThread
  <2>2. handler' = [handler EXCEPT ![h] = [handler[h] EXCEPT
                       !.step = "respond", !.sent = t.sent, !.inbox = t.inbox]]
    BY <1>5, <2>1 DEF Continue
  <2>3. t.sent \in Nat /\ t.inbox \in Seq(Range(t.inbox)) /\ t.sent <= Len(t.inbox)
    BY <1>1 DEF ThreadInv, IsThread, PlaceInv
  <2>4. UNCHANGED deliveryVars /\ (NoFault \/ ProviderFault)
    BY <1>5 DEF SendDocument
  <2> QED  BY <1>2, <1>3, <2>2, <2>3, <2>4, SentKeeps
<1> QED  BY <1>4, <1>5 DEF SendDocument

\* HTTP 200: what is confirmed is captured and has its snapshot, or has lost
\* it to a failed write.
LEMMA RespondKeeps ==
  ASSUME DeliveryInv, NEW h \in Handlers, Respond(h)
  PROVE  DeliveryInv'
<1>1. ThreadInv(h) /\ StoredInv
  BY DEF DeliveryInv
<1>2. /\ AtStep(h, "respond") /\ Update(h) \in Updates
      /\ content[Update(h)].kind \in Captures => Update(h) \in snapshots \union unsnapped
  BY <1>1 DEF Respond, ThreadInv, PlaceInv, Busy, AtStep
<1>3. /\ UNCHANGED <<content, captured, snapshots, cited, unsnapped>>
      /\ answered' = answered \/ answered' = answered \union {Update(h)}
      /\ NoFault \/ AckLost
      /\ handler' = [handler EXCEPT ![h] = Idle]
  BY DEF Respond, Leave
<1>4. Grows
  BY <1>3 DEF Grows
<1>5. StoredInv'
  <2>1. FaultsTypeOK'
    BY <1>1, <1>3, FaultsCounted DEF StoredInv
  <2> QED  BY <1>1, <1>2, <1>3, <2>1 DEF StoredInv
<1>6. ThreadInv(h)'
  <2>1. handler'[h] = Idle
    BY <1>3 DEF DeliveryInv
  <2> QED  BY <2>1, Left
<1> QED  BY <1>3, <1>4, <1>5, <1>6, OthersKept

\* A restart loses the threads and the cache, and nothing stored.
LEMMA RestartKeeps ==
  ASSUME DeliveryInv, Restart
  PROVE  DeliveryInv'
<1>1. StoredInv'
  <2>1. FaultsTypeOK'
    BY FaultsCounted DEF DeliveryInv, StoredInv, Restart
  <2>2. cited' = [asked |-> FALSE, notes |-> <<>>]
    BY DEF Restart, Uncited
  <2>3. cited' \in [asked : BOOLEAN, notes : Seq(Updates)] /\ Range(cited'.notes) = {}
    BY <2>2 DEF Range
  <2> QED  BY <2>1, <2>3 DEF DeliveryInv, StoredInv, Restart
<1>2. handler' = [h \in Handlers |-> Idle]
  BY DEF Restart
<1>3. \A h \in Handlers : handler'[h] = Idle /\ ThreadInv(h)'
  BY <1>2, Left
<1> QED  BY <1>1, <1>2, <1>3 DEF DeliveryInv

LEMMA DeliveryInvKept ==
  ASSUME DeliveryInv, [Next]_vars
  PROVE  DeliveryInv'
<1>1. ASSUME NEW h \in Handlers, HandlerStep(h) PROVE DeliveryInv'
  BY <1>1, CaptureKeeps, SnapshotKeeps, CallKeeps, GeneratedKeeps, ListDraftsKeeps, RecallKeeps,
     RenderKeeps, SendKeeps, ExportKeeps, SendDocumentKeeps, RespondKeeps DEF HandlerStep
<1>2. ASSUME NEW h \in Handlers, NEW u \in Updates, Arrive(h, u) PROVE DeliveryInv'
  BY <1>2, ArriveKeeps
<1>3. CASE Restart
  BY <1>3, RestartKeeps
<1>4. CASE UNCHANGED vars
  BY <1>4, Unmoved DEF vars, NoFault
<1> QED  BY <1>1, <1>2, <1>3, <1>4 DEF Next

-----------------------------------------------------------------------------
(***************************************************************************)
(* The results.                                                            *)
(***************************************************************************)
\* What was handled before the model starts has been captured, in some order.
LEMMA EarlierCaptured ==
  /\ SetToSeq(Earlier) \in Seq(Updates) /\ IsInjective(SetToSeq(Earlier))
  /\ Range(SetToSeq(Earlier)) = Earlier
<1> DEFINE n == Cardinality(Earlier)
           s == SetToSeq(Earlier)
<1>1. IsFiniteSet(Earlier) /\ n \in Nat
  BY DeliveryAssumption, FS_Subset, FS_CardinalityType
<1>2. \E f \in [1..n -> Earlier] : IsInjective(f)
  BY <1>1, FS_CardinalityType DEF ExistsBijection, Bijection, Injection
<1>3. s \in [1..n -> Earlier] /\ IsInjective(s)
  BY <1>2 DEF SetToSeq
<1> HIDE DEF s
<1>4. s \in Seq(Updates)
  BY <1>1, <1>3, DeliveryAssumption
<1>5. s \in Surjection(1..n, Earlier)
  <2>1. IsFiniteSet(1..n) /\ Cardinality(1..n) = n
    BY <1>1, FS_Interval
  <2> QED  BY <1>1, <1>3, <2>1, FS_Injection DEF Injection
<1>6. Range(s) = Earlier
  BY <1>3, <1>5 DEF Surjection, Range
<1> QED  BY <1>3, <1>4, <1>6 DEF s

LEMMA DeliveryInvInit ==
  ASSUME Init
  PROVE  DeliveryInv
<1>1. PICK old \in [Earlier -> EarlierContents], new \in [Updates \ Earlier -> Contents] :
         content = [u \in Updates |-> IF u \in Earlier THEN old[u] ELSE new[u]]
  BY DEF Init
<1>2. content \in [Updates -> Contents \union EarlierContents]
      /\ \A u \in Earlier : content[u] \in EarlierContents
  BY <1>1, DeliveryAssumption
<1>3. \A u \in Earlier : content[u].kind \in Captures
  BY <1>2, DeliveryAssumption
<1>4. captured \in Seq(Updates) /\ IsInjective(captured) /\ Range(captured) = Earlier
  BY EarlierCaptured DEF Init
<1>5. cited \in [asked : BOOLEAN, notes : Seq(Updates)] /\ Range(cited.notes) = {}
  <2>1. cited = [asked |-> FALSE, notes |-> <<>>]
    BY DEF Init, Uncited
  <2> QED  BY <2>1 DEF Range
<1>6. FaultsTypeOK
  BY FaultBudgets DEF Init, FaultsInit, FaultsTypeOK
<1>7. StoredInv
  BY <1>2, <1>3, <1>4, <1>5, <1>6, DeliveryAssumption DEF Init, StoredInv
<1>8. handler = [h \in Handlers |-> Idle]
  BY DEF Init
<1>9. ASSUME NEW h \in Handlers PROVE ThreadInv(h)
  <2>1. handler[h] = Idle
    BY <1>8
  <2>2. IsThread(Idle)
    <3>1. <<>> \in Seq(Updates) /\ <<>> \in Seq({"name", "floor"}) /\ <<>> \in Seq(Range(<<>>))
      OBVIOUS
    <3> QED  BY <3>1 DEF IsThread, Idle, Steps
  <2>3. PlaceInv(h) /\ ShownInv(h) /\ NamedInv(h) /\ NewestInv(h)
    BY <2>1 DEF PlaceInv, ShownInv, NamedInv, NewestInv, Idle, Busy, AtStep, Range
  <2> QED  BY <2>1, <2>2, <2>3 DEF ThreadInv
<1> QED  BY <1>7, <1>8, <1>9 DEF DeliveryInv

LEMMA DeliveryIsInvariant == Spec => []DeliveryInv
<1>1. Init => DeliveryInv
  BY DeliveryInvInit
<1>2. DeliveryInv /\ [Next]_vars => DeliveryInv'
  BY DeliveryInvKept
<1> QED  BY <1>1, <1>2, PTL DEF Spec

\* Whatever arrives, fails or restarts, a captured message is captured once,
\* only what is captured is cited and shown, and no more messages are counted
\* as sent than the chat got.
THEOREM DeliveryIsTyped == Spec => []TypeOK
<1>1. IInv /\ DeliveryInv => TypeOK
  <2> SUFFICES ASSUME IInv, DeliveryInv PROVE TypeOK
    OBVIOUS
  <2>1. captured \in SeqOf(Updates, Cardinality(Updates))
    <3>1. captured \in [1..Len(captured) -> Updates] /\ Len(captured) \in Nat
      BY DEF DeliveryInv, StoredInv
    <3>2. captured \in Injection(1..Len(captured), Updates)
      BY <3>1 DEF DeliveryInv, StoredInv, Injection
    <3>3. Cardinality(1..Len(captured)) <= Cardinality(Updates) /\ Cardinality(Updates) \in Nat
      BY <3>2, DeliveryAssumption, FS_Injection, FS_CardinalityType
    <3>4. Cardinality(1..Len(captured)) = Len(captured)
      <4>1. \A n \in Nat : Cardinality(1..n) = n
        BY FS_Interval
      <4> QED  BY <3>1, <4>1
    <3>5. Len(captured) \in 0..Cardinality(Updates)
      BY <3>1, <3>3, <3>4
    <3> QED  BY <3>1, <3>5 DEF SeqOf
  <2>2. \A h \in Handlers :
          /\ Range(handler[h].items) \subseteq Range(captured)
          /\ Len(handler[h].authors) <= Len(handler[h].items)
          /\ handler[h].sent <= Len(handler[h].inbox)
    BY DEF DeliveryInv, ThreadInv, ShownInv, PlaceInv
  <2> QED  BY <2>1, <2>2 DEF IInv, DeliveryInv, StoredInv, TypeOK
<1>2. Spec => []IInv
  BY CallInvIsInvariant
<1> QED  BY <1>1, <1>2, DeliveryIsInvariant, PTL

\* A listing shows the name of whoever wrote a message that was confirmed
\* before the listing was asked for, unless the snapshot's write failed,
\* whichever delivery of which message was interrupted where.
THEOREM ConfirmedAuthorsAreNamed == Spec => []AuthorsAreKept
<1>1. DeliveryInv => AuthorsAreKept
  BY DEF DeliveryInv, ThreadInv, NamedInv, AuthorsAreKept
<1> QED  BY <1>1, DeliveryIsInvariant, PTL

\* /drafts, whatever it was asked for and whatever the cap, leaves out a draft
\* confirmed before only for as many newer ones as it may show, and does not
\* call that all.
THEOREM DraftsListedNewestFirst == Spec => []DraftsAreTheNewest
<1>1. DeliveryInv => DraftsAreTheNewest
  BY DEF DeliveryInv, ThreadInv, NewestInv, DraftsAreTheNewest
<1> QED  BY <1>1, DeliveryIsInvariant, PTL

-----------------------------------------------------------------------------
(***************************************************************************)
(* The packer, for every header and every list of blocks: an induction     *)
(* over the turns of its loop, by StepByStep.                              *)
(***************************************************************************)
\* The loop over the blocks is defined for each of them by the one before.
LEMMA LoopIsDefined ==
  ASSUME NEW header, NEW blocks, Len(blocks) \in Nat
  PROVE  \A b \in 0..Len(blocks) :
            Loop(header, blocks)[b] =
               IF b = 0 THEN [messages |-> <<>>, current |-> Whole(0, header)]
               ELSE Take(Loop(header, blocks)[b - 1], b, blocks[b])
<1> DEFINE Start == [messages |-> <<>>, current |-> Whole(0, header)]
           Turn(g, b) == IF b = 0 THEN Start ELSE Take(g[b - 1], b, blocks[b])
           last == Len(blocks)
           Defined == {n \in 0..last : \E g : g = [b \in 0..n |-> Turn(g, b)]}
<1>1. 0 \in Defined
  <2> DEFINE k == [b \in 0..0 |-> Start]
  <2>1. k = [b \in 0..0 |-> Turn(k, b)]
    OBVIOUS
  <2>2. 0 \in 0..last
    OBVIOUS
  <2> HIDE DEF k, Turn
  <2> QED  BY <2>1, <2>2
<1>2. ASSUME NEW n \in 0..last, n < last, n \in Defined PROVE n + 1 \in Defined
  <2>1. PICK g : g = [b \in 0..n |-> Turn(g, b)]
    BY <1>2
  <2> DEFINE k == [b \in 0..(n + 1) |-> IF b = n + 1 THEN Turn(g, b) ELSE g[b]]
  <2>2. \A b \in 0..(n + 1) : b # 0 => b - 1 \in 0..n /\ b - 1 # n + 1 /\ b - 1 \in 0..(n + 1)
    OBVIOUS
  <2>3. \A b \in 0..(n + 1) : b # 0 => k[b - 1] = g[b - 1]
    BY <2>2
  <2>4. \A b \in 0..(n + 1) : Turn(k, b) = Turn(g, b)
    <3> HIDE DEF k
    <3> QED  BY <2>3
  <2>5. \A b \in 0..(n + 1) : b # n + 1 => b \in 0..n
    OBVIOUS
  <2>6. \A b \in 0..(n + 1) : k[b] = Turn(g, b)
    <3> HIDE DEF Turn
    <3> QED  BY <2>1, <2>5
  <2>7. k = [b \in 0..(n + 1) |-> Turn(k, b)]
    <3>1. DOMAIN k = 0..(n + 1) /\ k = [b \in 0..(n + 1) |-> k[b]]
      OBVIOUS
    <3> HIDE DEF k, Turn
    <3> QED  BY <3>1, <2>4, <2>6
  <2>8. n + 1 \in 0..last
    BY <1>2
  <2> HIDE DEF k, Turn
  <2> QED  BY <2>7, <2>8
<1>3. last \in Defined
  <2> HIDE DEF Defined
  <2>1. \A n \in 0..last : n < last /\ n \in Defined => n + 1 \in Defined
    BY <1>2
  <2>2. \A n \in 0..last : n \in Defined
    BY <1>1, <2>1, StepByStep
  <2> QED  BY <2>2
<1>4. \E g : g = [b \in 0..last |-> Turn(g, b)]
  BY <1>3
<1>5. Loop(header, blocks) = CHOOSE g : g = [b \in 0..last |-> Turn(g, b)]
  BY DEF Loop
<1>6. Loop(header, blocks) = [b \in 0..last |-> Turn(Loop(header, blocks), b)]
  <2> HIDE DEF Turn
  <2> QED  BY <1>4, <1>5
<1> QED
  <2> TAKE b \in 0..Len(blocks)
  <2>1. Loop(header, blocks)[b] = Turn(Loop(header, blocks), b)
    <3> HIDE DEF Turn
    <3> QED  BY <1>6
  <2> QED  BY <2>1

\* The footer of a part is no wider than that of the last part of a longer
\* division.
LEMMA FootersWiden ==
  ASSUME NEW k \in Nat, NEW n \in Nat, k <= n
  PROVE  /\ BodyCap(n) \in Int /\ BodyCap(k) \in Int /\ BodyCap(n) <= BodyCap(k)
         /\ Footer(k, n) \in Nat /\ BodyCap(n) + Footer(k, n) <= Cap
BY PackingAssumption DEF BodyCap, Footer, Digits

\* Where the loop of _split_oversized stops, only the last part has what is
\* left of the block: those before are full, and it is not empty.
LEMMA PartsCover ==
  ASSUME NEW size \in Nat \ {0}, \E n \in 1..MostParts : IsPartCount(n, size),
         NEW n, n = PartCount(size), NEW part, part = BodyCap(n)
  PROVE  /\ n \in Nat \ {0} /\ part \in Nat \ {0}
         /\ n * part \in Nat /\ (n - 1) * part \in Nat /\ n * part = (n - 1) * part + part
         /\ (n - 1) * part < size /\ size <= n * part
<1>1. IsPartCount(n, size)
  BY DEF PartCount
<1>2. n \in Nat /\ n >= 1 /\ part >= 1 /\ part * n >= size
  BY <1>1 DEF IsPartCount
<1>3. part \in Nat
  BY <1>2, FootersWiden
<1>4. n * part \in Nat /\ (n - 1) * part \in Nat /\ n * part = (n - 1) * part + part
      /\ part * n = n * part
  BY <1>2, <1>3
<1>5. (n - 1) * part < size
  <2>1. CASE n = 1
    BY <2>1, <1>3
  <2>2. CASE n # 1
    <3> DEFINE wider == BodyCap(n - 1)
    <3>1. n - 1 \in Nat /\ n - 1 \in 1..(n - 1) /\ n - 1 \in 1..n
      BY <1>2, <2>2
    <3>2. wider * (n - 1) < size /\ wider >= 1
      BY <1>1, <3>1 DEF IsPartCount
    <3>3. wider \in Nat /\ part <= wider
      BY <3>1, <3>2, <1>2, FootersWiden
    <3> HIDE DEF wider
    <3>4. part * (n - 1) <= wider * (n - 1)
      BY <3>1, <3>3, <1>3, TimesMonotonic
    <3>5. part * (n - 1) = (n - 1) * part /\ wider * (n - 1) \in Nat
      BY <3>1, <3>3, <1>3
    <3> QED  BY <3>2, <3>4, <3>5, <1>4
  <2> QED  BY <2>1, <2>2
<1> QED  BY <1>2, <1>3, <1>4, <1>5

-----------------------------------------------------------------------------
(***************************************************************************)
(* Messages one after the other.                                           *)
(***************************************************************************)
PieceType == [block : Nat, start : Nat, length : Nat]
MessageType == [pieces : Seq(PieceType), length : Nat]

\* The messages show the blocks from one to another, whole and in order;
\* no message shows none.
ReadsTo(messages, size, from, to) ==
    /\ messages \in Seq(MessageType)
    /\ \A i \in DOMAIN messages :
          /\ IsSound(messages[i], size)
          /\ i > 1 => Follows(Opening(messages[i]), Closing(messages[i - 1]), size)
    /\ messages = <<>> => to + 1 = from
    /\ messages # <<>> =>
          /\ Opening(messages[1]).block = from /\ Begins(Opening(messages[1]))
          /\ Closing(messages[Len(messages)]).block = to
          /\ Ends(Closing(messages[Len(messages)]), size)

\* Messages that go on where others end.
LEMMA ReadsOn ==
  ASSUME NEW size, NEW from \in Int, NEW mid \in Int, NEW to \in Int, NEW ms, NEW more,
         ReadsTo(ms, size, from, mid), ReadsTo(more, size, mid + 1, to)
  PROVE  ReadsTo(ms \o more, size, from, to)
<1> DEFINE all == ms \o more
<1>1. ms \in Seq(MessageType) /\ more \in Seq(MessageType) /\ all \in Seq(MessageType)
  BY DEF ReadsTo
<1>2. /\ Len(ms) \in Nat /\ Len(more) \in Nat /\ Len(all) = Len(ms) + Len(more)
      /\ DOMAIN all = 1..Len(all) /\ DOMAIN ms = 1..Len(ms) /\ DOMAIN more = 1..Len(more)
      /\ \A i \in 1..Len(all) :
            all[i] = IF i <= Len(ms) THEN ms[i] ELSE more[i - Len(ms)]
      /\ (ms = <<>> <=> Len(ms) = 0) /\ (more = <<>> <=> Len(more) = 0)
      /\ (all = <<>> <=> Len(all) = 0)
  BY <1>1
<1>12. Len(ms) \in Nat /\ Len(more) \in Nat /\ Len(all) = Len(ms) + Len(more)
  BY <1>2
<1> HIDE DEF all
<1>3. ASSUME NEW i \in 1..Len(all)
      PROVE  /\ IsSound(all[i], size)
             /\ i > 1 => Follows(Opening(all[i]), Closing(all[i - 1]), size)
  <2>1. CASE i <= Len(ms)
    <3>1. i \in DOMAIN ms /\ all[i] = ms[i] /\ (i > 1 => all[i - 1] = ms[i - 1])
      BY <1>2, <2>1
    <3> QED  BY <3>1 DEF ReadsTo
  <2>2. CASE i > Len(ms) + 1
    <3> DEFINE j == i - Len(ms)
    <3>1. /\ j \in 1..Len(more) /\ j > 1 /\ ~(i <= Len(ms)) /\ ~(i - 1 <= Len(ms))
          /\ i - 1 \in 1..Len(all) /\ (i - 1) - Len(ms) = j - 1
      BY <1>12, <2>2
    <3>2. all[i] = more[j] /\ all[i - 1] = more[(i - 1) - Len(ms)]
      BY <1>2, <3>1
    <3>3. j \in DOMAIN more /\ j > 1 /\ all[i] = more[j] /\ all[i - 1] = more[j - 1]
      BY <1>2, <3>1, <3>2
    <3> HIDE DEF j
    <3> QED  BY <3>3 DEF ReadsTo
  <2>3. CASE i = Len(ms) + 1
    <3>1. 1 \in DOMAIN more /\ all[i] = more[1]
      <4>1. ~(i <= Len(ms)) /\ i - Len(ms) = 1 /\ 1 \in 1..Len(more)
        BY <1>12, <2>3
      <4> QED  BY <1>2, <4>1
    <3>2. IsSound(all[i], size) /\ Opening(more[1]).block = mid + 1 /\ Begins(Opening(more[1]))
      <4>1. more # <<>>
        BY <3>1
      <4> QED  BY <3>1, <4>1 DEF ReadsTo
    <3>3. ASSUME i > 1
          PROVE  /\ all[i - 1] = ms[Len(ms)] /\ Closing(ms[Len(ms)]).block = mid
                 /\ Ends(Closing(ms[Len(ms)]), size)
      <4>1. i - 1 = Len(ms) /\ i - 1 \in 1..Len(all) /\ Len(ms) # 0
        BY <1>12, <2>3, <3>3
      <4>2. all[i - 1] = ms[Len(ms)] /\ ms # <<>>
        BY <1>2, <4>1
      <4> QED  BY <4>2 DEF ReadsTo
    <3> QED  BY <3>1, <3>2, <3>3 DEF Follows
  <2> QED  BY <1>12, <2>1, <2>2, <2>3
<1>4. ASSUME Len(all) = 0 PROVE to + 1 = from
  BY <1>2, <1>4 DEF ReadsTo
<1>5. ASSUME Len(all) # 0
      PROVE  /\ Opening(all[1]).block = from /\ Begins(Opening(all[1]))
             /\ Closing(all[Len(all)]).block = to /\ Ends(Closing(all[Len(all)]), size)
  <2>1. CASE Len(ms) = 0
    <3>1. all[1] = more[1] /\ all[Len(all)] = more[Len(more)] /\ mid + 1 = from
      BY <1>2, <1>5, <2>1 DEF ReadsTo
    <3> QED  BY <1>2, <1>5, <2>1, <3>1 DEF ReadsTo
  <2>2. CASE Len(more) = 0
    <3>1. all[1] = ms[1] /\ all[Len(all)] = ms[Len(ms)] /\ to = mid
      BY <1>2, <1>5, <2>2 DEF ReadsTo
    <3> QED  BY <1>2, <1>5, <2>2, <3>1 DEF ReadsTo
  <2>3. CASE Len(ms) # 0 /\ Len(more) # 0
    <3>1. all[1] = ms[1] /\ all[Len(all)] = more[Len(more)]
      BY <1>2, <2>3
    <3> QED  BY <1>2, <2>3, <3>1 DEF ReadsTo
  <2> QED  BY <2>1, <2>2, <2>3
<1> QED
  BY <1>1, <1>2, <1>3, <1>4, <1>5 DEF all, ReadsTo

LEMMA LeastOfTwo ==
  ASSUME NEW a \in Int, NEW b \in Int
  PROVE  Min({a, b}) = IF a <= b THEN a ELSE b
<1> DEFINE least == IF a <= b THEN a ELSE b
<1>1. least \in {a, b} /\ \A y \in {a, b} : least <= y
  OBVIOUS
<1>2. \A x \in {a, b} : (\A y \in {a, b} : x <= y) => x = least
  OBVIOUS
<1> QED
  BY <1>1, <1>2 DEF Min

\* The parts of an oversized block, each a message of its own, show it whole.
LEMMA SplitReads ==
  ASSUME NEW size, NEW b \in Nat, b \in DOMAIN size, size[b] \in Nat, size[b] > Cap,
         \E n \in 1..MostParts : IsPartCount(n, size[b])
  PROVE  ReadsTo(Split(b, size[b]), size, b, b)
<1> DEFINE s == size[b]
           n == PartCount(s)
           c == BodyCap(n)
           start(k) == (k - 1) * c
           long(k) == IF k < n THEN c ELSE s - (n - 1) * c
           Text(k) == Piece(b, start(k), long(k))
           all == Split(b, s)
<1>1. /\ n \in Nat \ {0} /\ c \in Nat \ {0}
      /\ n * c \in Nat /\ (n - 1) * c \in Nat /\ n * c = (n - 1) * c + c
      /\ (n - 1) * c < s /\ s <= n * c /\ s \in Nat \ {0}
  <2>1. s \in Nat \ {0}
    BY PackingAssumption
  <2> HIDE DEF s
  <2> QED  BY <2>1, PartsCover DEF s
<1>2. ASSUME NEW k \in 1..n
      PROVE  /\ start(k) \in Nat /\ k * c \in Nat /\ k * c = start(k) + c
             /\ k < n => k * c <= (n - 1) * c
             /\ k = n => start(k) = (n - 1) * c
  <2> HIDE DEF c, n, s
  <2>1. k - 1 \in Nat /\ k \in Nat /\ n - 1 \in Nat
    BY <1>1
  <2>2. (k - 1) * c \in Nat /\ k * c \in Nat /\ k * c = (k - 1) * c + c
    BY <1>1, <2>1
  <2>3. k < n => c * k <= c * (n - 1)
    BY <1>1, <2>1, TimesMonotonic
  <2>4. k < n => k * c <= (n - 1) * c
    <3>1. k < n => k \in Nat /\ n - 1 \in Nat /\ k <= n - 1
      BY <2>1, <1>1
    <3> QED  BY <1>1, <3>1, TimesMonotonic
  <2> QED  BY <1>1, <2>2, <2>4
<1>3. ASSUME NEW k \in 1..n
      PROVE  /\ Min({c, s - start(k)}) = long(k) /\ long(k) \in Nat \ {0} /\ long(k) <= c
             /\ long(k) + Footer(k, n) \in Nat /\ long(k) + Footer(k, n) <= Cap
  <2>1. start(k) \in Nat /\ c \in Nat \ {0} /\ s \in Nat /\ n \in Nat /\ k \in Nat /\ k <= n
    BY <1>1, <1>2
  <2>2. /\ k < n => s - start(k) > c
        /\ k = n => s - start(k) = s - (n - 1) * c /\ s - start(k) <= c /\ s - start(k) > 0
    BY <1>1, <1>2
  <2>3. Footer(k, n) \in Nat /\ c + Footer(k, n) <= Cap
    BY <2>1, FootersWiden
  <2>4. Cap \in Int
    BY PackingAssumption
  <2> HIDE DEF c, n, s, start
  <2>5. Min({c, s - start(k)}) = IF c <= s - start(k) THEN c ELSE s - start(k)
    BY <2>1, LeastOfTwo
  <2>6. k < n \/ k = n
    BY <2>1
  <2>7. long(k) \in Nat \ {0} /\ long(k) <= c
    BY <2>1, <2>2, <2>6
  <2>8. Min({c, s - start(k)}) = long(k)
    BY <2>1, <2>2, <2>5, <2>6
  <2> HIDE DEF long
  <2> QED  BY <2>1, <2>3, <2>4, <2>7, <2>8
<1>4. all = [k \in 1..n |-> [pieces |-> <<Text(k)>>, length |-> long(k) + Footer(k, n)]]
  <2>1. all = [k \in 1..n |->
                 [pieces |-> <<Piece(b, start(k), Min({c, s - start(k)}))>>,
                  length |-> Min({c, s - start(k)}) + Footer(k, n)]]
    BY DEF Split, Piece
  <2> HIDE DEF long, start, all, n, c, s
  <2> QED  BY <1>3, <2>1
<1> HIDE DEF all
<1>5. DOMAIN all = 1..n
  <2> HIDE DEF Text, long, n
  <2> QED  BY <1>4
<1>6. ASSUME NEW k \in 1..n
      PROVE  /\ all[k].pieces = <<Text(k)>> /\ all[k].length = long(k) + Footer(k, n)
             /\ all[k] \in MessageType /\ Text(k) \in PieceType
             /\ Text(k).block = b /\ Text(k).start = start(k) /\ Text(k).length = long(k)
             /\ Opening(all[k]) = Text(k) /\ Closing(all[k]) = Text(k)
  <2>1. start(k) \in Nat /\ long(k) \in Nat /\ long(k) + Footer(k, n) \in Nat
    BY <1>2, <1>3
  <2> HIDE DEF start, long
  <2>2. all[k] = [pieces |-> <<Text(k)>>, length |-> long(k) + Footer(k, n)]
    BY <1>4
  <2>3. /\ Text(k) \in PieceType /\ Text(k).block = b /\ Text(k).start = start(k)
        /\ Text(k).length = long(k)
    BY <2>1 DEF Piece, PieceType
  <2> HIDE DEF Text
  <2> QED  BY <2>1, <2>2, <2>3 DEF MessageType, Opening, Closing
<1>7. ASSUME NEW k \in 1..n PROVE IsSound(all[k], size)
  <2>1. size[b] > Cap /\ ~(size[b] <= Cap)
    BY PackingAssumption
  <2>2. long(k) > 0 /\ long(k) + Footer(k, n) <= Cap
    <3>1. long(k) \in Nat \ {0} /\ long(k) + Footer(k, n) <= Cap
      BY <1>3
    <3> HIDE DEF long, n
    <3> QED  BY <3>1
  <2>3. all[k].pieces = <<Text(k)>> /\ all[k].length <= Cap /\ Text(k).block = b /\ Text(k).length > 0
    BY <1>6, <2>2
  <2> HIDE DEF Text, long, n
  <2>4. Len(all[k].pieces) = 1 /\ DOMAIN all[k].pieces = {1} /\ all[k].pieces[1] = Text(k)
        /\ all[k].pieces # <<>>
    BY <2>3
  <2> QED  BY <2>1, <2>3, <2>4 DEF IsSound
<1>8. ASSUME NEW k \in 1..n, k > 1 PROVE Follows(Opening(all[k]), Closing(all[k - 1]), size)
  <2>1. k - 1 \in 1..n /\ k - 1 < n /\ n \in Nat
    BY <1>1, <1>8
  <2>2. start(k) = start(k - 1) + long(k - 1)
    BY <1>2, <2>1
  <2> HIDE DEF start, long, Text, n
  <2> QED  BY <1>6, <2>1, <2>2 DEF Follows
<1>9. Begins(Opening(all[1])) /\ Opening(all[1]).block = b
  <2>1. 1 \in 1..n /\ start(1) = 0
    BY <1>1
  <2> HIDE DEF start, long, Text, n
  <2> QED  BY <1>6, <2>1 DEF Begins
<1>10. Ends(Closing(all[n]), size) /\ Closing(all[n]).block = b
  <2>1. n \in 1..n /\ start(n) + long(n) = s
    BY <1>1, <1>2
  <2> HIDE DEF start, long, Text, n
  <2> QED  BY <1>6, <2>1 DEF Ends
<1>11. all \in Seq(MessageType) /\ Len(all) = n /\ all # <<>>
  <2> HIDE DEF n, Text, long
  <2>1. all = [k \in 1..n |-> all[k]]
    BY <1>4, <1>5
  <2>2. all \in [1..n -> MessageType]
    BY <1>6, <2>1
  <2>3. n \in Nat /\ n # 0
    BY <1>1
  <2> QED  BY <2>2, <2>3
<1> HIDE DEF n
<1> QED  BY <1>5, <1>7, <1>8, <1>9, <1>10, <1>11 DEF ReadsTo, all

\* A message shows the blocks from its first piece to its last.
LEMMA OneMessage ==
  ASSUME NEW size, NEW m \in MessageType, IsSound(m, size),
         Begins(Opening(m)), Ends(Closing(m), size)
  PROVE  ReadsTo(<<m>>, size, Opening(m).block, Closing(m).block)
<1>1. <<m>> \in Seq(MessageType) /\ DOMAIN <<m>> = {1} /\ <<m>>[1] = m /\ Len(<<m>>) = 1
      /\ <<m>> # <<>>
  OBVIOUS
<1> QED
  BY <1>1 DEF ReadsTo

\* One block that fits into a message.
LEMMA WholeIsSound ==
  ASSUME NEW size, NEW b \in Nat, b \in DOMAIN size, size[b] \in 1..Cap,
         NEW m, m = Whole(b, size[b])
  PROVE  /\ m \in MessageType /\ IsSound(m, size) /\ m.length = size[b]
         /\ Opening(m).block = b /\ Closing(m).block = b
         /\ Begins(Opening(m)) /\ Ends(Closing(m), size)
         /\ \A i \in DOMAIN m.pieces : size[m.pieces[i].block] <= Cap
<1> DEFINE p == Piece(b, 0, size[b])
<1>1. /\ p \in PieceType /\ p.block = b /\ p.start = 0 /\ p.length = size[b]
      /\ size[b] \in Nat /\ size[b] > 0 /\ size[b] <= Cap
  BY PackingAssumption DEF Piece, PieceType
<1>2. Begins(p) /\ Ends(p, size)
  BY <1>1 DEF Begins, Ends
<1>3. m = [pieces |-> <<p>>, length |-> size[b]]
  BY DEF Whole
<1> HIDE DEF p
<1>4. /\ m.pieces = <<p>> /\ m.length = size[b] /\ m \in MessageType
      /\ DOMAIN m.pieces = {1} /\ m.pieces[1] = p /\ Len(m.pieces) = 1 /\ m.pieces # <<>>
  BY <1>1, <1>3 DEF MessageType
<1>5. IsSound(m, size)
  BY <1>1, <1>2, <1>4 DEF IsSound
<1> QED  BY <1>1, <1>2, <1>4, <1>5 DEF Opening, Closing

\* The next block behind those that are pending.
LEMMA JoinedIsSound ==
  ASSUME NEW size, NEW b \in Nat, b \in DOMAIN size, size[b] \in 1..Cap,
         NEW m \in MessageType, IsSound(m, size),
         Closing(m).block + 1 = b, Ends(Closing(m), size),
         \A i \in DOMAIN m.pieces : size[m.pieces[i].block] <= Cap,
         m.length + Separator + size[b] <= Cap,
         NEW j, j = Joined(m, b, size[b])
  PROVE  /\ j \in MessageType /\ IsSound(j, size) /\ j.length # 0
         /\ Opening(j) = Opening(m)
         /\ Closing(j).block = b /\ Ends(Closing(j), size)
         /\ \A i \in DOMAIN j.pieces : size[j.pieces[i].block] <= Cap
<1> DEFINE p == Piece(b, 0, size[b])
           n == Len(m.pieces)
<1>1. /\ p \in PieceType /\ p.block = b /\ p.start = 0 /\ p.length = size[b]
      /\ size[b] \in Nat /\ size[b] > 0 /\ size[b] <= Cap
  BY PackingAssumption DEF Piece, PieceType
<1>2. Begins(p) /\ Ends(p, size)
  BY <1>1 DEF Begins, Ends
<1>3. j = [pieces |-> Append(m.pieces, p), length |-> m.length + Separator + size[b]]
  BY DEF Joined
<1>4. m.pieces \in Seq(PieceType) /\ m.length \in Nat /\ m.pieces # <<>>
  BY DEF MessageType, IsSound
<1> HIDE DEF p
<1>5. /\ j.pieces = Append(m.pieces, p) /\ j.pieces \in Seq(PieceType) /\ j.pieces # <<>>
      /\ j.length = m.length + Separator + size[b] /\ j.length \in Nat /\ j.length # 0
      /\ j \in MessageType
  BY <1>1, <1>3, <1>4, PackingAssumption DEF MessageType
<1>6. /\ n \in Nat \ {0} /\ DOMAIN m.pieces = 1..n
      /\ DOMAIN j.pieces = 1..(n + 1) /\ Len(j.pieces) = n + 1
      /\ \A i \in 1..n : j.pieces[i] = m.pieces[i]
      /\ j.pieces[n + 1] = p
  BY <1>1, <1>4, <1>5
<1>7. Opening(j) = Opening(m) /\ Closing(j) = p /\ Closing(m) = m.pieces[n]
  BY <1>6 DEF Opening, Closing
<1> HIDE DEF n
<1>8. \A i \in 1..(n + 1) : size[j.pieces[i].block] <= Cap
  BY <1>1, <1>6
<1>9. Follows(p, m.pieces[n], size)
  BY <1>1, <1>2, <1>7 DEF Follows
<1>10. ASSUME NEW i \in 1..(n + 1)
       PROVE  /\ j.pieces[i].block \in DOMAIN size /\ j.pieces[i].length > 0
              /\ Begins(j.pieces[i]) /\ Ends(j.pieces[i], size)
              /\ i > 1 => Follows(j.pieces[i], j.pieces[i - 1], size)
  <2>1. CASE i = n + 1
    BY <1>1, <1>2, <1>6, <1>9, <2>1
  <2>2. CASE i # n + 1
    <3>1. i \in 1..n /\ (i > 1 => i - 1 \in 1..n)
      BY <1>6, <2>2
    <3>2. j.pieces[i] = m.pieces[i] /\ (i > 1 => j.pieces[i - 1] = m.pieces[i - 1])
      BY <1>6, <3>1
    <3> QED  BY <1>6, <3>1, <3>2 DEF IsSound
  <2> QED  BY <2>1, <2>2
<1>11. IsSound(j, size)
  BY <1>5, <1>6, <1>8, <1>10 DEF IsSound
<1> QED  BY <1>1, <1>2, <1>5, <1>6, <1>7, <1>8, <1>11

\* After a block: what is sent and what is pending show the blocks up to it,
\* and what is pending are whole blocks.
LoopInv(state, size, from, b) ==
    /\ state \in [messages : Seq(MessageType), current : MessageType]
    /\ state.current.length = 0 => ReadsTo(state.messages, size, from, b)
    /\ state.current.length # 0 =>
          /\ ReadsTo(state.messages, size, from, Opening(state.current).block - 1)
          /\ IsSound(state.current, size) /\ Begins(Opening(state.current))
          /\ Closing(state.current).block = b /\ Ends(Closing(state.current), size)
          /\ \A i \in DOMAIN state.current.pieces :
                size[state.current.pieces[i].block] <= Cap

LEMMA FlushedReads ==
  ASSUME NEW state, NEW size, NEW from \in Int, NEW b \in Int, LoopInv(state, size, from, b)
  PROVE  ReadsTo(Flushed(state), size, from, b)
<1>1. CASE state.current.length = 0
  BY <1>1 DEF LoopInv, Flushed
<1>2. CASE state.current.length # 0
  <2> DEFINE m == state.current
             ms == state.messages
  <2>1. m \in MessageType /\ ms \in Seq(MessageType)
    BY DEF LoopInv
  <2>2. Opening(m).block \in Int
    <3>1. m.pieces \in Seq(PieceType) /\ m.pieces # <<>>
      BY <1>2, <2>1 DEF LoopInv, IsSound, MessageType
    <3>2. m.pieces[1] \in PieceType
      BY <3>1
    <3> QED  BY <3>2 DEF Opening, PieceType
  <2>3. ReadsTo(<<m>>, size, Opening(m).block, b)
    BY <1>2, <2>1, OneMessage DEF LoopInv
  <2>4. ReadsTo(ms, size, from, Opening(m).block - 1)
    BY <1>2 DEF LoopInv
  <2>5. Flushed(state) = ms \o <<m>>
    BY <1>2, <2>1 DEF Flushed
  <2> HIDE DEF m, ms
  <2>6. Opening(m).block - 1 \in Int /\ Opening(m).block - 1 + 1 = Opening(m).block
    BY <2>2
  <2>7. ReadsTo(<<m>>, size, (Opening(m).block - 1) + 1, b)
    BY <2>3, <2>6
  <2>8. ReadsTo(ms \o <<m>>, size, from, b)
    BY <2>4, <2>6, <2>7, ReadsOn
  <2> QED  BY <2>5, <2>8
<1> QED  BY <1>1, <1>2

\* One turn of the loop.
LEMMA TakeReads ==
  ASSUME NEW size, NEW from \in Int, NEW b \in Nat, b \in DOMAIN size, size[b] \in Nat \ {0},
         size[b] > Cap => \E n \in 1..MostParts : IsPartCount(n, size[b]),
         NEW state, LoopInv(state, size, from, b - 1)
  PROVE  LoopInv(Take(state, b, size[b]), size, from, b)
<1> DEFINE m == state.current
           next == Take(state, b, size[b])
<1>1. /\ state \in [messages : Seq(MessageType), current : MessageType]
      /\ state = [messages |-> state.messages, current |-> m]
      /\ m.length \in Nat /\ Cap \in Nat \ {0}
  BY PackingAssumption DEF LoopInv, MessageType
<1>2. b - 1 \in Int /\ (b - 1) + 1 = b
  OBVIOUS
<1>3. ReadsTo(Flushed(state), size, from, b - 1)
  BY <1>2, FlushedReads
<1>4. CASE size[b] > Cap
  <2>1. next = [messages |-> Flushed(state) \o Split(b, size[b]), current |-> Empty]
    BY <1>4 DEF Take
  <2>2. ReadsTo(Split(b, size[b]), size, (b - 1) + 1, b)
    BY <1>2, <1>4, SplitReads
  <2>3. ReadsTo(Flushed(state) \o Split(b, size[b]), size, from, b)
    BY <1>2, <1>3, <2>2, ReadsOn
  <2>4. Flushed(state) \o Split(b, size[b]) \in Seq(MessageType)
    BY <2>3 DEF ReadsTo
  <2>5. Empty \in MessageType /\ Empty.length = 0
    BY DEF Empty, MessageType
  <2> QED  BY <2>1, <2>3, <2>4, <2>5 DEF LoopInv
<1>5. CASE size[b] <= Cap
  <2> DEFINE w == Whole(b, size[b])
  <2>1. size[b] \in 1..Cap /\ ~(size[b] > Cap)
    BY <1>1, <1>5
  <2>2. /\ w \in MessageType /\ IsSound(w, size) /\ w.length # 0
        /\ Opening(w).block = b /\ Closing(w).block = b
        /\ Begins(Opening(w)) /\ Ends(Closing(w), size)
        /\ \A i \in DOMAIN w.pieces : size[w.pieces[i].block] <= Cap
    BY <2>1, WholeIsSound
  <2> HIDE DEF w
  <2>3. CASE m.length = 0
    <3>1. next = [messages |-> state.messages, current |-> w]
      BY <1>1, <2>1, <2>3 DEF Take, w
    <3>2. ReadsTo(state.messages, size, from, b - 1)
      BY <2>3 DEF LoopInv
    <3> QED  BY <1>1, <2>2, <3>1, <3>2 DEF LoopInv
  <2>4. CASE m.length # 0 /\ m.length + Separator + size[b] <= Cap
    <3> DEFINE j == Joined(m, b, size[b])
    <3>1. next = [messages |-> state.messages, current |-> j]
      BY <1>1, <2>1, <2>4 DEF Take
    <3>2. /\ IsSound(m, size) /\ Closing(m).block = b - 1 /\ Ends(Closing(m), size)
          /\ Begins(Opening(m)) /\ m \in MessageType
          /\ \A i \in DOMAIN m.pieces : size[m.pieces[i].block] <= Cap
          /\ ReadsTo(state.messages, size, from, Opening(m).block - 1)
      BY <2>4 DEF LoopInv
    <3>3. /\ j \in MessageType /\ IsSound(j, size) /\ j.length # 0
          /\ Opening(j) = Opening(m)
          /\ Closing(j).block = b /\ Ends(Closing(j), size)
          /\ \A i \in DOMAIN j.pieces : size[j.pieces[i].block] <= Cap
      <4> HIDE DEF m
      <4> QED  BY <1>2, <2>1, <2>4, <3>2, JoinedIsSound
    <3> HIDE DEF j, m
    <3> QED  BY <1>1, <3>1, <3>2, <3>3 DEF LoopInv
  <2>5. CASE m.length # 0 /\ ~(m.length + Separator + size[b] <= Cap)
    <3>1. next = [messages |-> Flushed(state), current |-> w]
      BY <1>1, <2>1, <2>5 DEF Take, w
    <3>2. Flushed(state) \in Seq(MessageType)
      BY <1>3 DEF ReadsTo
    <3> QED  BY <1>3, <2>2, <3>1, <3>2 DEF LoopInv
  <2> QED  BY <2>3, <2>4, <2>5
<1>6. size[b] \in Int /\ Cap \in Int
  BY <1>1
<1> QED  BY <1>4, <1>5, <1>6

\* (D-030) pack_drafts_into_messages shows every block whole and in order, in
\* messages within the limit, unsplit where one fits: for every header that
\* fits, any number of blocks of any length, and every limit that leaves room
\* for the footers of parts.
LEMMA PackIsFaithful ==
  ASSUME NEW header \in Nat, header <= Cap, NEW blocks \in Seq(Nat \ {0}), blocks # <<>>,
         \A b \in DOMAIN blocks :
            blocks[b] > Cap => \E n \in 1..MostParts : IsPartCount(n, blocks[b])
  PROVE  /\ IsFaithful(Pack(header, blocks), header, blocks)
         /\ Pack(header, blocks) \in Seq(MessageType)
<1> DEFINE size == Sizes(header, blocks)
           from == IF header = 0 THEN 1 ELSE 0
           last == Len(blocks)
           state == Loop(header, blocks)
           Good == {b \in 0..last : LoopInv(state[b], size, from, b)}
<1>1. last \in Nat \ {0} /\ DOMAIN blocks = 1..last /\ \A b \in 1..last : blocks[b] \in Nat \ {0}
  OBVIOUS
<1>2. /\ DOMAIN size = 0..last /\ size[0] = header
      /\ \A b \in 1..last : b \in DOMAIN size /\ size[b] = blocks[b]
  BY <1>1 DEF Sizes
<1>3. \A b \in 0..last :
         state[b] = IF b = 0 THEN [messages |-> <<>>, current |-> Whole(0, header)]
                    ELSE Take(state[b - 1], b, blocks[b])
  BY <1>1, LoopIsDefined
<1>4. from \in Int /\ from \in {0, 1} /\ (from = 1 <=> header = 0)
  OBVIOUS
<1> HIDE DEF size, state, from, last
<1>5. 0 \in Good
  <2> DEFINE w == Whole(0, header)
  <2>1. state[0] = [messages |-> <<>>, current |-> w]
    BY <1>1, <1>3
  <2>2. <<>> \in Seq(MessageType) /\ ReadsTo(<<>>, size, from, from - 1)
    BY <1>4 DEF ReadsTo
  <2>3. CASE header = 0
    <3>1. w.length = 0 /\ w \in MessageType
      BY <2>3 DEF Whole, Piece, MessageType, PieceType
    <3>2. from - 1 = 0
      BY <1>4, <2>3
    <3> HIDE DEF w
    <3>3. LoopInv(state[0], size, from, 0)
      BY <2>1, <2>2, <3>1, <3>2 DEF LoopInv
    <3> QED  BY <1>1, <3>3
  <2>4. CASE header # 0
    <3>1. size[0] \in 1..Cap /\ 0 \in DOMAIN size /\ w = Whole(0, size[0])
      BY <1>1, <1>2, <2>4, PackingAssumption
    <3>2. /\ w \in MessageType /\ IsSound(w, size) /\ w.length = size[0]
          /\ Opening(w).block = 0 /\ Closing(w).block = 0
          /\ Begins(Opening(w)) /\ Ends(Closing(w), size)
          /\ \A i \in DOMAIN w.pieces : size[w.pieces[i].block] <= Cap
      <4> HIDE DEF w
      <4> QED  BY <3>1, WholeIsSound
    <3>3. from = 0
      BY <1>4, <2>4
    <3> HIDE DEF w
    <3>4. ReadsTo(<<>>, size, from, Opening(w).block - 1)
      BY <2>2, <3>2, <3>3
    <3>5. LoopInv(state[0], size, from, 0)
      BY <1>2, <2>1, <2>2, <2>4, <3>2, <3>4 DEF LoopInv
    <3> QED  BY <1>1, <3>5
  <2> QED  BY <2>3, <2>4
<1>6. \A b \in 0..last : b < last /\ b \in Good => b + 1 \in Good
  <2> SUFFICES ASSUME NEW b \in 0..last, b < last, b \in Good PROVE b + 1 \in Good
    OBVIOUS
  <2>1. b + 1 \in 1..last /\ b + 1 \in 0..last /\ b + 1 # 0 /\ (b + 1) - 1 = b /\ b + 1 \in Nat
    BY <1>1
  <2>2. /\ b + 1 \in DOMAIN size /\ size[b + 1] = blocks[b + 1] /\ size[b + 1] \in Nat \ {0}
        /\ size[b + 1] > Cap => \E n \in 1..MostParts : IsPartCount(n, size[b + 1])
    BY <1>1, <1>2, <2>1
  <2>3. state[b + 1] = Take(state[b], b + 1, size[b + 1])
    BY <1>3, <2>1, <2>2
  <2>4. LoopInv(state[b], size, from, (b + 1) - 1)
    BY <2>1
  <2>5. LoopInv(Take(state[b], b + 1, size[b + 1]), size, from, b + 1)
    BY <1>4, <2>1, <2>2, <2>4, TakeReads
  <2> QED  BY <2>1, <2>3, <2>5
<1>7. last \in Good
  <2> HIDE DEF Good
  <2>1. \A b \in 0..last : b \in Good
    BY <1>1, <1>5, <1>6, StepByStep
  <2> QED  BY <1>1, <2>1
<1>8. Pack(header, blocks) = Flushed(state[last])
  BY DEF Pack, state, last
<1> DEFINE messages == Pack(header, blocks)
<1>9. ReadsTo(messages, size, from, last)
  BY <1>1, <1>4, <1>7, <1>8, FlushedReads
<1> HIDE DEF messages
<1>10. messages # <<>>
  BY <1>1, <1>4, <1>9 DEF ReadsTo
<1>11. IsFaithful(messages, header, blocks)
  BY <1>9, <1>10 DEF ReadsTo, IsFaithful, size, from, last
<1> QED  BY <1>9, <1>11 DEF messages, ReadsTo

-----------------------------------------------------------------------------
(***************************************************************************)
(* What of a listing reaches the chat.                                     *)
(***************************************************************************)
Sending == {"send", "notify"}

\* The first n messages have arrived.
Arrived(t, n) == \A i \in 1..n : t.inbox[i] = t.packed[i]

\* A thread whose messages are packed has a faithful packing of what it
\* shows; those sent have arrived in turn, and the last one that failed may
\* have.
PackedInv(h) ==
    /\ AtStep(h, "render") => Len(handler[h].items) <= Cardinality(Updates)
    /\ handler[h].step \in Sending => handler[h].packed # <<>>
    /\ handler[h].packed # <<>> =>
          /\ handler[h].step \in Sending \union {"respond"}
          /\ handler[h].packed \in Seq(MessageType)
          /\ IsFaithful(handler[h].packed, HeaderOf(h), Lengths(h))

SentInv(h) ==
    LET t == handler[h]
    IN  /\ t.step \in {"list", "recall", "render"} => t.sent = 0 /\ t.inbox = <<>>
        /\ t.step = "send" =>
              t.sent < Len(t.packed) /\ Len(t.inbox) = t.sent /\ Arrived(t, t.sent)
        /\ t.step = "notify" =>
              /\ t.sent < Len(t.packed) /\ outages > 0
              /\ Len(t.inbox) \in {t.sent, t.sent + 1} /\ Arrived(t, Len(t.inbox))
        /\ t.step = "respond" /\ t.packed # <<>> =>
              \/ /\ t.sent = Len(t.packed) /\ Len(t.inbox) = t.sent
                 /\ Arrived(t, t.sent)
              \/ /\ t.sent < Len(t.packed) /\ outages > 0
                 /\ \E n \in {t.sent, t.sent + 1} :
                       /\ Arrived(t, n)
                       /\ \/ Len(t.inbox) = n
                          \/ /\ Len(t.inbox) = n + 1
                             /\ t.inbox[n + 1] = Notice(t.sent, Len(t.packed))

ListInv ==
    /\ Len(cited.notes) <= Cardinality(Updates)
    /\ \A h \in Handlers : PackedInv(h) /\ SentInv(h)

\* What a thread shows are notes and drafts, so the packing of them is
\* tabulated, and faithful.
LEMMA PackingIsFaithful ==
  ASSUME DeliveryInv, NEW h \in Handlers, AtStep(h, "render"),
         Len(handler[h].items) <= Cardinality(Updates),
         NEW packed, packed = PackingOf(HeaderOf(h), Lengths(h))
  PROVE  /\ packed \in Seq(MessageType) /\ packed # <<>>
         /\ IsFaithful(packed, HeaderOf(h), Lengths(h))
<1> DEFINE header == HeaderOf(h)
           blocks == Lengths(h)
           items == handler[h].items
           n == Len(items)
<1>1. ThreadInv(h) /\ StoredInv
  BY DEF DeliveryInv
<1>2. /\ items \in Seq(Updates) /\ n \in Nat \ {0} /\ DOMAIN items = 1..n
      /\ \A i \in 1..n : items[i] \in Updates
  <2>1. items \in Seq(Updates) /\ Len(handler[h].authors) < n /\ Len(handler[h].authors) \in Nat
    BY <1>1 DEF ThreadInv, IsThread, ShownInv
  <2> QED  BY <2>1
<1>3. \A i \in 1..n : content[items[i]].length \in BlockLengths
  <2> TAKE i \in 1..n
  <2>1. items[i] \in Range(captured)
    BY <1>1, <1>2 DEF ThreadInv, ShownInv, Range
  <2>2. content[items[i]].kind \in Captures
    BY <1>1, <2>1 DEF StoredInv
  <2>3. content[items[i]] \in Contents \union EarlierContents
    BY <1>1, <1>2 DEF StoredInv
  <2> QED  BY <2>2, <2>3 DEF BlockLengths
<1>4. blocks = [i \in 1..n |-> content[items[i]].length]
  BY <1>2 DEF Lengths
<1> HIDE DEF items, n, blocks
<1>5. blocks \in [1..n -> BlockLengths]
  BY <1>3, <1>4
<1>6. Cardinality(Updates) \in Nat
  BY DeliveryAssumption, FS_CardinalityType
<1>7. blocks \in SeqOf(BlockLengths, Cardinality(Updates))
  <2>1. n \in 0..Cardinality(Updates)
    BY <1>2, <1>6 DEF n, items
  <2> QED  BY <1>5, <2>1 DEF SeqOf
<1>8. header \in {0, HeaderLength} /\ header \in Nat /\ header <= Cap
  BY DeliveryAssumption, BlocksAssumption, PackingAssumption DEF HeaderOf
<1>9. packed = Pack(header, blocks)
  <2> DEFINE row == CHOOSE p \in Packings : p[1] = header /\ p[2] = blocks
  <2>1. <<header, blocks, Pack(header, blocks)>> \in Packings
    BY <1>7, <1>8 DEF Packings
  <2>2. \E p \in Packings : p[1] = header /\ p[2] = blocks
    BY <2>1
  <2>3. row \in Packings /\ row[1] = header /\ row[2] = blocks
    BY <2>2
  <2>4. \A p \in Packings : p[3] = Pack(p[1], p[2])
    BY DEF Packings
  <2>5. row[3] = Pack(header, blocks)
    BY <2>3, <2>4
  <2> HIDE DEF header
  <2> QED  BY <2>5 DEF PackingOf, header, blocks
<1>10. \A length \in BlockLengths : length \in Nat \ {0}
  <2> TAKE length \in BlockLengths
  <2>1. PICK c \in Contents \union EarlierContents : length = c.length
    BY DEF BlockLengths
  <2>2. length \in Nat
    BY <2>1, DeliveryAssumption
  <2>3. length > 0
    BY BlocksAssumption
  <2> QED  BY <2>2, <2>3
<1>11. /\ blocks \in Seq(Nat \ {0}) /\ blocks # <<>> /\ DOMAIN blocks = 1..n
       /\ \A b \in 1..n : blocks[b] \in BlockLengths
  <2>1. \A b \in 1..n : blocks[b] \in BlockLengths /\ blocks[b] \in Nat \ {0}
    BY <1>5, <1>10
  <2>2. n \in Nat \ {0}
    BY <1>2 DEF n, items
  <2>3. DOMAIN blocks = 1..n
    BY <1>5
  <2>4. blocks \in [1..n -> Nat \ {0}]
    BY <1>5, <2>1
  <2>5. blocks # <<>>
    BY <2>2, <2>4
  <2> QED  BY <2>1, <2>2, <2>3, <2>4, <2>5
<1>12. \A b \in DOMAIN blocks :
          blocks[b] > Cap => \E k \in 1..MostParts : IsPartCount(k, blocks[b])
  BY <1>11, BlocksAssumption
<1> HIDE DEF header
<1>13. IsFaithful(packed, header, blocks) /\ packed \in Seq(MessageType)
  BY <1>8, <1>9, <1>11, <1>12, PackIsFaithful
<1>14. packed # <<>>
  BY <1>13 DEF IsFaithful
<1> QED  BY <1>13, <1>14 DEF header, blocks

\* A thread that is not about to list, and has packed nothing.
LEMMA NothingPacked ==
  ASSUME NEW h \in Handlers, handler'[h].packed = <<>>,
         handler'[h].step \notin Sending \union {"list", "recall", "render"}
  PROVE  PackedInv(h)' /\ SentInv(h)'
BY DEF PackedInv, SentInv, AtStep, Sending

\* One thread has moved; the others are where they were.
LEMMA OthersListed ==
  ASSUME DeliveryInv, ListInv, NEW h \in Handlers, NEW t,
         handler' = [handler EXCEPT ![h] = t], content' = content,
         NoFault \/ StoreFault \/ ProviderFault \/ AckLost,
         Len(cited'.notes) <= Cardinality(Updates), PackedInv(h)', SentInv(h)'
  PROVE  ListInv'
<1>1. outages > 0 => outages' > 0
  <2>1. outages \in Nat
    BY DEF DeliveryInv, StoredInv, FaultsTypeOK
  <2> QED  BY <2>1 DEF NoFault, StoreFault, ProviderFault, AckLost, faultVars
<1>2. ASSUME NEW g \in Handlers, g # h PROVE PackedInv(g)' /\ SentInv(g)'
  <2>1. handler'[g] = handler[g] /\ PackedInv(g) /\ SentInv(g)
    BY <1>2 DEF DeliveryInv, ListInv
  <2>2. HeaderOf(g)' = HeaderOf(g) /\ Lengths(g)' = Lengths(g)
    BY <2>1 DEF HeaderOf, Lengths
  <2>3. PackedInv(g)'
    BY <2>1, <2>2 DEF PackedInv, AtStep
  <2>4. SentInv(g)'
    BY <1>1, <2>1 DEF SentInv, Arrived
  <2> QED  BY <2>3, <2>4
<1> QED  BY <1>2 DEF ListInv

\* A thread leaves.
LEMMA LeftUnlisted ==
  ASSUME DeliveryInv, ListInv, NEW h \in Handlers, Leave(h), content' = content, cited' = cited,
         NoFault \/ StoreFault \/ ProviderFault \/ AckLost
  PROVE  ListInv'
<1>1. handler' = [handler EXCEPT ![h] = Idle] /\ handler'[h] = Idle
  BY DEF Leave, DeliveryInv
<1>2. PackedInv(h)' /\ SentInv(h)'
  BY <1>1, NothingPacked DEF Idle, Sending
<1>3. Len(cited'.notes) <= Cardinality(Updates)
  BY DEF ListInv
<1> QED  BY <1>1, <1>2, <1>3, OthersListed

\* A thread with nothing packed takes a step, and packs nothing.
LEMMA ContinuesUnlisted ==
  ASSUME DeliveryInv, ListInv, NEW h \in Handlers, NEW step \in Steps, Continue(h, step),
         handler[h].step \notin Sending \union {"respond"},
         step \notin Sending \union {"list", "recall", "render"},
         content' = content, NoFault \/ StoreFault \/ ProviderFault \/ AckLost,
         Len(cited'.notes) <= Cardinality(Updates)
  PROVE  ListInv'
<1>1. /\ handler' = [handler EXCEPT ![h] = [handler[h] EXCEPT !.step = step]]
      /\ handler'[h].step = step /\ handler'[h].packed = handler[h].packed
  BY Continued
<1>2. handler[h].packed = <<>>
  BY DEF ListInv, PackedInv
<1>3. PackedInv(h)' /\ SentInv(h)'
  BY <1>1, <1>2, NothingPacked
<1> QED  BY <1>1, <1>3, OthersListed

\* No thread has moved.
LEMMA UnmovedListed ==
  ASSUME DeliveryInv, ListInv, UNCHANGED handler, UNCHANGED deliveryVars,
         NoFault \/ StoreFault \/ ProviderFault \/ AckLost
  PROVE  ListInv'
<1>1. content' = content /\ cited' = cited
  BY DEF deliveryVars
<1>2. ASSUME NEW h \in Handlers PROVE ListInv'
  <2>1. handler' = [handler EXCEPT ![h] = handler[h]] /\ handler'[h] = handler[h]
    BY DEF DeliveryInv
  <2>2. outages > 0 => outages' > 0
    <3>1. outages \in Nat
      BY DEF DeliveryInv, StoredInv, FaultsTypeOK
    <3> QED  BY <3>1 DEF NoFault, StoreFault, ProviderFault, AckLost, faultVars
  <2>3. HeaderOf(h)' = HeaderOf(h) /\ Lengths(h)' = Lengths(h)
    BY <1>1, <2>1 DEF HeaderOf, Lengths
  <2>4. PackedInv(h) /\ SentInv(h)
    BY DEF ListInv
  <2>5. PackedInv(h)'
    BY <2>1, <2>3, <2>4 DEF PackedInv, AtStep
  <2>6. SentInv(h)'
    BY <2>1, <2>2, <2>4 DEF SentInv, Arrived
  <2>7. Len(cited'.notes) <= Cardinality(Updates)
    BY <1>1 DEF ListInv
  <2> QED  BY <1>1, <2>1, <2>5, <2>6, <2>7, OthersListed
<1>3. CASE Handlers = {}
  BY <1>1, <1>3 DEF ListInv
<1> QED  BY <1>2, <1>3

\* The steps of notes, drafts, questions and exports pack nothing.
LEMMA OthersPackNothing ==
  ASSUME DeliveryInv, ListInv, NEW h \in Handlers,
         Capture(h) \/ Snapshot(h) \/ CallProvider(h) \/ Embedded(h) \/ Respond(h)
  PROVE  ListInv'
<1>1. CASE Capture(h)
  <2>1. CASE /\ Continue(h, "snapshot") /\ UNCHANGED <<content, cited>> /\ NoFault
    BY <1>1, <2>1, ContinuesUnlisted DEF Capture, AtStep, Sending, Steps, ListInv
  <2>2. CASE StoreRaises(h)
    BY <2>2, LeftUnlisted DEF StoreRaises, Raise, deliveryVars
  <2> QED  BY <1>1, <2>1, <2>2 DEF Capture
<1>2. CASE Snapshot(h)
  <2>1. /\ Continue(h, "respond") /\ UNCHANGED <<content, cited>> /\ (NoFault \/ StoreFault)
        /\ AtStep(h, "snapshot")
    BY <1>2 DEF Snapshot
  <2> QED  BY <2>1, ContinuesUnlisted DEF AtStep, Sending, Steps, ListInv
<1>3. CASE CallProvider(h)
  <2>1. UNCHANGED handler /\ UNCHANGED deliveryVars /\ (NoFault \/ ProviderFault)
    BY <1>3 DEF CallProvider
  <2> QED  BY <2>1, UnmovedListed
<1>4. CASE Embedded(h)
  <2>1. CASE Ended(h, "embed", "returned") /\ Continue(h, "generate") /\ UNCHANGED deliveryVars
    <3>1. NoFault /\ UNCHANGED <<content, cited>>
      BY <1>4, <2>1 DEF Embedded, deliveryVars
    <3> QED  BY <2>1, <3>1, ContinuesUnlisted DEF Ended, AtStep, Sending, Steps, ListInv
  <2>2. CASE Raise(h)
    BY <1>4, <2>2, LeftUnlisted DEF Embedded, Raise, deliveryVars
  <2> QED  BY <1>4, <2>1, <2>2 DEF Embedded
<1>5. CASE Respond(h)
  BY <1>5, LeftUnlisted DEF Respond
<1> QED  BY <1>1, <1>2, <1>3, <1>4, <1>5

\* An answer cites at most every update.
LEMMA GeneratedPacksNothing ==
  ASSUME DeliveryInv, ListInv, NEW h \in Handlers, Generated(h)
  PROVE  ListInv'
<1>1. StoredInv /\ AtStep(h, "generate") /\ Continue(h, "respond") /\ content' = content /\ NoFault
  BY DEF DeliveryInv, Generated, Ended
<1>2. Cardinality(Updates) \in Nat
  BY DeliveryAssumption, FS_CardinalityType
<1>3. Len(cited'.notes) <= Cardinality(Updates)
  <2>1. CASE cited' = [Uncited EXCEPT !.asked = TRUE]
    <3>1. cited'.notes = <<>>
      BY <2>1 DEF Uncited
    <3> QED  BY <1>2, <3>1
  <2>2. ASSUME NEW S \in SUBSET {u \in Range(captured) : content[u].kind = "note"},
               NEW notes \in SetToSeqs(S), cited' = [asked |-> TRUE, notes |-> notes]
        PROVE  Len(cited'.notes) <= Cardinality(Updates)
    <3>1. S \subseteq Updates
      BY <1>1 DEF StoredInv, Range
    <3>2. IsFiniteSet(S) /\ Cardinality(S) \in Nat /\ Cardinality(S) <= Cardinality(Updates)
      BY <3>1, DeliveryAssumption, FS_Subset, FS_CardinalityType
    <3>3. notes \in [1..Cardinality(S) -> S]
      BY DEF SetToSeqs
    <3>4. Len(notes) = Cardinality(S)
      BY <3>2, <3>3
    <3> QED  BY <2>2, <3>2, <3>4
  <2> QED  BY <2>1, <2>2 DEF Generated
<1> QED  BY <1>1, <1>3, ContinuesUnlisted DEF AtStep, Sending, Steps

\* A handler that starts has sent nothing.
LEMMA ArrivesUnlisted ==
  ASSUME DeliveryInv, ListInv, NEW h \in Handlers, NEW u \in Updates, Arrive(h, u)
  PROVE  ListInv'
<1> DEFINE t == [Idle EXCEPT !.update = u, !.step = FirstStep(content[u].kind),
                             !.before = answered, !.rows = Range(captured)]
<1>1. /\ handler' = [handler EXCEPT ![h] = t] /\ handler'[h] = t
      /\ content' = content /\ cited' = cited /\ (NoFault \/ AckLost)
  BY DEF Arrive, DeliveryInv, deliveryVars
<1>2. FirstStep(content[u].kind) \notin Sending \union {"respond", "render"}
  BY DEF FirstStep, Sending
<1>3. /\ t.step = FirstStep(content[u].kind) /\ t.packed = <<>> /\ t.sent = 0 /\ t.inbox = <<>>
  BY DEF Idle
<1> HIDE DEF t
<1>4. PackedInv(h)' /\ SentInv(h)'
  BY <1>1, <1>2, <1>3 DEF PackedInv, SentInv, AtStep, Sending
<1>5. Len(cited'.notes) <= Cardinality(Updates)
  BY <1>1 DEF ListInv
<1> QED  BY <1>1, <1>4, <1>5, OthersListed

\* A listing is to show no more than there is.
LEMMA ShowsNoMore ==
  ASSUME DeliveryInv, ListInv, NEW h \in Handlers, AtStep(h, "list") \/ AtStep(h, "recall"),
         NEW items, Len(items) <= Cardinality(Updates), NEW header,
         ShowOrRespond(h, items, header), UNCHANGED deliveryVars, NoFault
  PROVE  ListInv'
<1> DEFINE step == IF items = <<>> THEN "respond" ELSE "render"
           t == [handler[h] EXCEPT !.items = items, !.header = header, !.step = step]
<1>1. /\ handler' = [handler EXCEPT ![h] = t] /\ handler'[h] = t
      /\ content' = content /\ cited' = cited
  BY DEF ShowOrRespond, DeliveryInv, deliveryVars
<1>2. step \in {"respond", "render"}
  OBVIOUS
<1> HIDE DEF step
<1>3. IsThread(handler[h])
  BY DEF DeliveryInv, ThreadInv
<1>4. /\ t.step = step /\ t.items = items /\ t.packed = handler[h].packed
      /\ t.sent = handler[h].sent /\ t.inbox = handler[h].inbox
  BY <1>3 DEF IsThread
<1> HIDE DEF t
<1>5. handler[h].packed = <<>> /\ handler[h].sent = 0 /\ handler[h].inbox = <<>>
  BY DEF ListInv, PackedInv, SentInv, AtStep, Sending
<1>6. PackedInv(h)' /\ SentInv(h)'
  BY <1>1, <1>2, <1>4, <1>5 DEF PackedInv, SentInv, AtStep, Sending
<1>7. Len(cited'.notes) <= Cardinality(Updates)
  BY <1>1 DEF ListInv
<1> QED  BY <1>1, <1>6, <1>7, OthersListed

\* /drafts and /sources find at most every update.
LEMMA FindsNoMore ==
  ASSUME DeliveryInv, ListInv, NEW h \in Handlers, ListDrafts(h) \/ Recall(h)
  PROVE  ListInv'
<1>1. ThreadInv(h) /\ StoredInv
  BY DEF DeliveryInv
<1>2. CASE Recall(h)
  BY <1>2, ShowsNoMore DEF Recall, ListInv
<1>3. CASE AtStep(h, "list") /\ Continue(h, "respond") /\ UNCHANGED deliveryVars /\ NoFault
  BY <1>3, ContinuesUnlisted DEF AtStep, Sending, Steps, ListInv, deliveryVars
<1>4. CASE StoreRaises(h)
  BY <1>4, LeftUnlisted DEF StoreRaises, Raise, deliveryVars
<1>5. CASE /\ AtStep(h, "list") /\ Requested(h) >= 1 /\ UNCHANGED deliveryVars /\ NoFault
           /\ ShowOrRespond(h, RecentDrafts(EffectiveLimit(h)),
                            DraftsHeader(h, Len(RecentDrafts(EffectiveLimit(h)))))
  <2>1. Update(h) \in Updates
    BY <1>1, <1>5 DEF ThreadInv, PlaceInv, Busy, AtStep
  <2>2. content[Update(h)].limit \in Int
    BY <1>1, <2>1, DeliveryAssumption DEF StoredInv
  <2>3. EffectiveLimit(h) \in Nat \ {0}
    BY <1>5, <2>2, DeliveryAssumption DEF EffectiveLimit, Requested
  <2>4. Len(RecentDrafts(EffectiveLimit(h))) <= Cardinality(Updates)
    BY <1>1, <2>3, RecentDraftsAreTheNewest
  <2> QED  BY <1>5, <2>4, ShowsNoMore
<1> QED  BY <1>2, <1>3, <1>4, <1>5 DEF ListDrafts

\* The last block is rendered: the messages are packed.  Or another is.
LEMMA RendersListed ==
  ASSUME DeliveryInv, ListInv, NEW h \in Handlers, Render(h)
  PROVE  ListInv'
<1> DEFINE t == handler[h]
           shown == Len(t.authors) + 1
           named == Append(t.authors, Author(t.items[shown]))
           packed == PackingOf(HeaderOf(h), Lengths(h))
           last == [t EXCEPT !.authors = named, !.step = "send", !.packed = packed]
           more == [t EXCEPT !.authors = named]
<1>1. AtStep(h, "render") /\ IsThread(t) /\ PackedInv(h) /\ SentInv(h)
  BY DEF Render, DeliveryInv, ThreadInv, ListInv
<1>2. t.packed = <<>> /\ t.sent = 0 /\ t.inbox = <<>> /\ Len(t.items) <= Cardinality(Updates)
  BY <1>1 DEF PackedInv, SentInv, AtStep, Sending
<1>3. CASE handler' = [handler EXCEPT ![h] = last] /\ UNCHANGED deliveryVars /\ NoFault
  <2>1. handler'[h] = last /\ content' = content /\ cited' = cited
    BY <1>3 DEF DeliveryInv, deliveryVars
  <2>2. /\ packed \in Seq(MessageType) /\ packed # <<>>
        /\ IsFaithful(packed, HeaderOf(h), Lengths(h))
    <3> HIDE DEF packed
    <3>1. packed = PackingOf(HeaderOf(h), Lengths(h))
      BY DEF packed
    <3> QED  BY <1>1, <1>2, <3>1, PackingIsFaithful
  <2> HIDE DEF packed, named
  <2>3. /\ last.step = "send" /\ last.items = t.items /\ last.packed = packed
        /\ last.sent = t.sent /\ last.inbox = t.inbox /\ last.header = t.header
    BY <1>1 DEF IsThread
  <2> HIDE DEF last
  <2>4. HeaderOf(h)' = HeaderOf(h) /\ Lengths(h)' = Lengths(h)
    BY <2>1, <2>3 DEF HeaderOf, Lengths
  <2>5. PackedInv(h)'
    BY <2>1, <2>2, <2>3, <2>4 DEF PackedInv, AtStep, Sending
  <2>6. Len(packed) > 0 /\ Len(<<>>) = 0
    BY <2>2
  <2>7. SentInv(h)'
    BY <1>2, <2>1, <2>3, <2>6 DEF SentInv, Arrived
  <2>8. Len(cited'.notes) <= Cardinality(Updates)
    BY <2>1 DEF ListInv
  <2> QED  BY <1>3, <2>1, <2>5, <2>7, <2>8, OthersListed
<1>4. CASE handler' = [handler EXCEPT ![h] = more] /\ UNCHANGED deliveryVars /\ NoFault
  <2>1. handler'[h] = more /\ content' = content /\ cited' = cited
    BY <1>4 DEF DeliveryInv, deliveryVars
  <2> HIDE DEF named
  <2>2. /\ more.step = t.step /\ more.items = t.items /\ more.packed = t.packed
        /\ more.sent = t.sent /\ more.inbox = t.inbox
    BY <1>1 DEF IsThread
  <2> HIDE DEF more
  <2>3. PackedInv(h)' /\ SentInv(h)'
    BY <1>1, <1>2, <2>1, <2>2 DEF PackedInv, SentInv, AtStep, Sending
  <2>4. Len(cited'.notes) <= Cardinality(Updates)
    BY <2>1 DEF ListInv
  <2> QED  BY <1>4, <2>1, <2>3, <2>4, OthersListed
<1>5. CASE StoreRaises(h)
  BY <1>5, LeftUnlisted DEF StoreRaises, Raise, deliveryVars
<1> QED  BY <1>3, <1>4, <1>5 DEF Render

\* An export sends a document and packs nothing.
LEMMA ExportsPackNothing ==
  ASSUME DeliveryInv, ListInv, NEW h \in Handlers, Export(h) \/ SendDocument(h)
  PROVE  ListInv'
<1> DEFINE t == handler[h]
<1>1. IsThread(t)
  BY DEF DeliveryInv, ThreadInv
<1>2. t.packed = <<>>
  BY DEF ListInv, PackedInv, Export, SendDocument, AtStep, Sending
<1>3. content' = content /\ cited' = cited /\ Len(cited'.notes) <= Cardinality(Updates)
  BY DEF Export, SendDocument, StoreRaises, Raise, deliveryVars, ListInv
<1>4. ASSUME NEW step \in {"respond", "send_document"}, NEW s, s.step = step, s.packed = <<>>,
             handler' = [handler EXCEPT ![h] = s], NoFault
      PROVE  ListInv'
  <2>1. handler'[h] = s
    BY <1>4 DEF DeliveryInv
  <2>2. PackedInv(h)' /\ SentInv(h)'
    BY <1>4, <2>1, NothingPacked DEF Sending
  <2> QED  BY <1>3, <1>4, <2>2, OthersListed
<1>5. CASE Export(h)
  <2>1. CASE StoreRaises(h)
    BY <2>1, LeftUnlisted DEF StoreRaises, Raise, deliveryVars
  <2>2. CASE handler' = [handler EXCEPT ![h] = [t EXCEPT !.items = captured, !.step = "send_document"]]
             /\ NoFault
    <3> DEFINE s == [t EXCEPT !.items = captured, !.step = "send_document"]
    <3>1. s.step = "send_document" /\ s.packed = <<>>
      BY <1>1, <1>2 DEF IsThread
    <3> HIDE DEF s
    <3>2. handler' = [handler EXCEPT ![h] = s]
      BY <2>2 DEF s
    <3> QED  BY <1>4, <2>2, <3>1, <3>2
  <2> QED  BY <1>5, <2>1, <2>2 DEF Export
<1>6. CASE SendDocument(h)
  <2>1. CASE Continue(h, "respond") /\ ProviderFault
    BY <1>3, <1>6, <2>1, ContinuesUnlisted DEF SendDocument, AtStep, Sending, Steps
  <2>2. CASE /\ handler' = [handler EXCEPT ![h] = [t EXCEPT !.step = "respond", !.sent = 1,
                                                           !.inbox = <<Document(t.items)>>]]
             /\ NoFault
    <3> DEFINE s == [t EXCEPT !.step = "respond", !.sent = 1, !.inbox = <<Document(t.items)>>]
    <3>1. s.step = "respond" /\ s.packed = <<>>
      BY <1>1, <1>2 DEF IsThread
    <3> HIDE DEF s
    <3>2. handler' = [handler EXCEPT ![h] = s]
      BY <2>2 DEF s
    <3> QED  BY <1>4, <2>2, <3>1, <3>2
  <2> QED  BY <1>6, <2>1, <2>2 DEF SendDocument
<1> QED  BY <1>5, <1>6

\* A thread goes on with what it has packed.
LEMMA SendsOn ==
  ASSUME DeliveryInv, ListInv, NEW h \in Handlers, handler[h].step \in Sending,
         NEW s, handler' = [handler EXCEPT ![h] = s], s.step \in {"send", "notify", "respond"},
         s.items = handler[h].items, s.packed = handler[h].packed, s.header = handler[h].header,
         UNCHANGED deliveryVars, NoFault \/ ProviderFault, SentInv(h)'
  PROVE  ListInv'
<1>1. handler'[h] = s /\ content' = content /\ cited' = cited
  BY DEF DeliveryInv, deliveryVars
<1>2. HeaderOf(h)' = HeaderOf(h) /\ Lengths(h)' = Lengths(h)
  BY <1>1 DEF HeaderOf, Lengths
<1>3. PackedInv(h)'
  BY <1>1, <1>2 DEF ListInv, PackedInv, AtStep, Sending
<1>4. Len(cited'.notes) <= Cardinality(Updates)
  BY <1>1 DEF ListInv
<1> QED  BY <1>1, <1>3, <1>4, OthersListed

\* A message arrives, is lost, or arrives and its answer is lost.  None is
\* refused for its length.
LEMMA SendsListed ==
  ASSUME DeliveryInv, ListInv, NEW h \in Handlers, Send(h)
  PROVE  ListInv'
<1> DEFINE t == handler[h]
           k == t.sent
           n == Len(t.packed)
           message == t.packed[k + 1]
           longer == Append(t.inbox, message)
           step == IF k + 1 = n THEN "respond" ELSE "send"
<1>1. /\ AtStep(h, "send") /\ t.step = "send" /\ t.step \in Sending
      /\ IsThread(t) /\ PackedInv(h) /\ SentInv(h) /\ UNCHANGED deliveryVars
  BY DEF Send, AtStep, Sending, DeliveryInv, ThreadInv, ListInv
<1>2. /\ k \in Nat /\ n \in Nat /\ k < n /\ DOMAIN t.packed = 1..n
      /\ t.inbox \in Seq(Range(t.inbox)) /\ Len(t.inbox) = k /\ Arrived(t, k)
  <2>1. t.packed \in Seq(MessageType)
    BY <1>1 DEF PackedInv, Sending
  <2> QED  BY <1>1, <2>1 DEF SentInv, IsThread
<1>3. Accepts(message)
  <2>1. k + 1 \in DOMAIN t.packed
    BY <1>2
  <2>2. IsFaithful(t.packed, HeaderOf(h), Lengths(h))
    BY <1>1 DEF PackedInv, Sending
  <2> QED  BY <2>1, <2>2 DEF IsFaithful, IsSound, Accepts
<1>4. /\ Len(longer) = k + 1
      /\ \A i \in 1..(k + 1) : longer[i] = t.packed[i]
  <2>1. /\ Len(longer) = k + 1 /\ longer[k + 1] = message
        /\ \A i \in 1..k : longer[i] = t.inbox[i]
    <3> HIDE DEF message
    <3>1. DOMAIN t.inbox = 1..k
      BY <1>2
    <3> QED  BY <1>2, <3>1, Appended
  <2>2. \A i \in 1..k : t.inbox[i] = t.packed[i]
    BY <1>2 DEF Arrived
  <2>3. \A i \in 1..(k + 1) : i \in 1..k \/ i = k + 1
    BY <1>2
  <2> HIDE DEF longer
  <2> QED  BY <2>1, <2>2, <2>3
<1>5. ProviderFault => outages' > 0
  <2>1. outages \in Nat
    BY DEF DeliveryInv, StoredInv, FaultsTypeOK
  <2> QED  BY <2>1 DEF ProviderFault
<1>6. CASE /\ handler' = [handler EXCEPT ![h] = [t EXCEPT !.sent = k + 1, !.inbox = longer,
                                                         !.step = step]]
           /\ NoFault
  <2> DEFINE s == [t EXCEPT !.sent = k + 1, !.inbox = longer, !.step = step]
  <2>1. /\ s.sent = k + 1 /\ s.inbox = longer /\ s.step = step
        /\ s.items = t.items /\ s.packed = t.packed /\ s.header = t.header
    <3> HIDE DEF step, longer, k
    <3> QED  BY <1>1 DEF IsThread
  <2> HIDE DEF s
  <2>2. handler' = [handler EXCEPT ![h] = s] /\ handler'[h] = s
    BY <1>6 DEF s, DeliveryInv
  <2>3. SentInv(h)'
    <3>1. CASE k + 1 = n
      <4>1. step = "respond"
        BY <3>1
      <4> HIDE DEF longer, step, message
      <4> QED  BY <1>2, <1>4, <2>1, <2>2, <3>1, <4>1 DEF SentInv, Arrived
    <3>2. CASE k + 1 # n
      <4>1. step = "send" /\ k + 1 < n
        BY <1>2, <3>2
      <4> HIDE DEF longer, step, message
      <4> QED  BY <1>2, <1>4, <2>1, <2>2, <4>1 DEF SentInv, Arrived
    <3> QED  BY <3>1, <3>2
  <2>4. step \in {"send", "notify", "respond"}
    OBVIOUS
  <2> HIDE DEF longer, step, message
  <2> QED  BY <1>1, <1>6, <2>1, <2>2, <2>3, <2>4, SendsOn
<1>7. CASE Continue(h, "notify") /\ ProviderFault
  <2>1. /\ handler' = [handler EXCEPT ![h] = handler'[h]]
        /\ handler'[h].step = "notify" /\ handler'[h].sent = k
        /\ handler'[h].inbox = t.inbox /\ handler'[h].items = t.items
        /\ handler'[h].packed = t.packed /\ handler'[h].header = t.header
    <3>1. handler' = [handler EXCEPT ![h] = handler'[h]]
      BY <1>7 DEF Continue, DeliveryInv
    <3> QED  BY <1>7, <3>1, Continued DEF Steps
  <2>2. SentInv(h)'
    BY <1>2, <1>5, <1>7, <2>1 DEF SentInv, Arrived
  <2> QED  BY <1>1, <1>7, <2>1, <2>2, SendsOn
<1>8. CASE /\ handler' = [handler EXCEPT ![h] = [t EXCEPT !.inbox = longer, !.step = "notify"]]
           /\ ProviderFault
  <2> DEFINE s == [t EXCEPT !.inbox = longer, !.step = "notify"]
  <2>1. /\ s.sent = k /\ s.inbox = longer /\ s.step = "notify"
        /\ s.items = t.items /\ s.packed = t.packed /\ s.header = t.header
    <3> HIDE DEF longer
    <3> QED  BY <1>1 DEF IsThread
  <2> HIDE DEF s
  <2>2. handler' = [handler EXCEPT ![h] = s] /\ handler'[h] = s
    BY <1>8 DEF s, DeliveryInv
  <2> HIDE DEF longer, message
  <2>3. SentInv(h)'
    BY <1>2, <1>4, <1>5, <1>8, <2>1, <2>2 DEF SentInv, Arrived
  <2> QED  BY <1>1, <1>8, <2>1, <2>2, <2>3, SendsOn
<1> QED  BY <1>3, <1>6, <1>7, <1>8 DEF Send

\* The notice comes after what arrived, or does not arrive.
LEMMA NotifiesListed ==
  ASSUME DeliveryInv, ListInv, NEW h \in Handlers, Notify(h)
  PROVE  ListInv'
<1> DEFINE t == handler[h]
           k == t.sent
           notice == Notice(k, Len(t.packed))
           n == Len(t.inbox)
           longer == Append(t.inbox, notice)
<1>1. /\ AtStep(h, "notify") /\ t.step = "notify" /\ t.step \in Sending
      /\ IsThread(t) /\ PackedInv(h) /\ SentInv(h) /\ UNCHANGED deliveryVars
  BY DEF Notify, AtStep, Sending, DeliveryInv, ThreadInv, ListInv
<1>2. /\ k \in Nat /\ k < Len(t.packed) /\ t.inbox \in Seq(Range(t.inbox)) /\ n \in Nat
      /\ n \in {k, k + 1} /\ Arrived(t, n) /\ outages > 0 /\ outages \in Nat
  BY <1>1 DEF SentInv, IsThread, DeliveryInv, StoredInv, FaultsTypeOK
<1>3. CASE Continue(h, "respond") /\ ProviderFault
  <2>1. /\ handler' = [handler EXCEPT ![h] = handler'[h]]
        /\ handler'[h].step = "respond" /\ handler'[h].sent = k
        /\ handler'[h].inbox = t.inbox /\ handler'[h].items = t.items
        /\ handler'[h].packed = t.packed /\ handler'[h].header = t.header
    <3>1. handler' = [handler EXCEPT ![h] = handler'[h]]
      BY <1>3 DEF Continue, DeliveryInv
    <3> QED  BY <1>3, <3>1, Continued DEF Steps
  <2>2. outages' > 0
    BY <1>2, <1>3 DEF ProviderFault
  <2>3. SentInv(h)'
    BY <1>2, <2>1, <2>2 DEF SentInv, Arrived
  <2> QED  BY <1>1, <1>3, <2>1, <2>3, SendsOn
<1>4. CASE handler' = [handler EXCEPT ![h] = [t EXCEPT !.step = "respond", !.inbox = longer]]
           /\ NoFault
  <2> DEFINE s == [t EXCEPT !.step = "respond", !.inbox = longer]
  <2>1. /\ s.sent = k /\ s.inbox = longer /\ s.step = "respond"
        /\ s.items = t.items /\ s.packed = t.packed /\ s.header = t.header
    <3> HIDE DEF longer
    <3> QED  BY <1>1 DEF IsThread
  <2> HIDE DEF s
  <2>2. handler' = [handler EXCEPT ![h] = s] /\ handler'[h] = s
    BY <1>4 DEF s, DeliveryInv
  <2>3. /\ Len(longer) = n + 1 /\ longer[n + 1] = notice
        /\ \A i \in 1..n : longer[i] = t.inbox[i]
    <3> HIDE DEF notice
    <3>1. DOMAIN t.inbox = 1..n
      BY <1>2
    <3> QED  BY <1>2, <3>1, Appended
  <2> HIDE DEF longer
  <2>4. \A i \in 1..n : longer[i] = t.packed[i]
    BY <1>2, <2>3 DEF Arrived
  <2>5. outages' > 0
    BY <1>2, <1>4 DEF NoFault, faultVars
  <2>6. SentInv(h)'
    BY <1>2, <2>1, <2>2, <2>3, <2>4, <2>5 DEF SentInv, Arrived
  <2> QED  BY <1>1, <1>4, <2>1, <2>2, <2>6, SendsOn
<1> QED  BY <1>3, <1>4 DEF Notify

LEMMA ListInvKept ==
  ASSUME DeliveryInv, ListInv, [Next]_vars
  PROVE  ListInv'
<1>1. ASSUME NEW h \in Handlers, HandlerStep(h)
      PROVE  ListInv'
  BY <1>1, OthersPackNothing, GeneratedPacksNothing, FindsNoMore, RendersListed,
     SendsListed, NotifiesListed, ExportsPackNothing DEF HandlerStep
<1>2. ASSUME NEW h \in Handlers, NEW u \in Updates, Arrive(h, u)
      PROVE  ListInv'
  BY <1>2, ArrivesUnlisted
<1>3. CASE Restart
  <2>1. \A h \in Handlers : handler'[h] = Idle
    BY <1>3 DEF Restart
  <2>2. \A h \in Handlers : PackedInv(h)' /\ SentInv(h)'
    BY <2>1, NothingPacked DEF Idle, Sending
  <2>3. Len(cited'.notes) <= Cardinality(Updates)
    <3>1. cited'.notes = <<>> /\ Len(<<>>) = 0
      BY <1>3 DEF Restart, Uncited
    <3> QED  BY <3>1, DeliveryAssumption, FS_CardinalityType
  <2> QED  BY <2>2, <2>3 DEF ListInv
<1>4. CASE UNCHANGED vars
  BY <1>4, UnmovedListed DEF vars, deliveryVars, NoFault
<1> QED  BY <1>1, <1>2, <1>3, <1>4 DEF Next

LEMMA ListInvIsInvariant == Spec => []ListInv
<1>1. Init => ListInv
  <2> SUFFICES ASSUME Init PROVE ListInv
    OBVIOUS
  <2>1. \A h \in Handlers : handler[h] = Idle
    BY DEF Init
  <2>2. \A h \in Handlers : PackedInv(h) /\ SentInv(h)
    BY <2>1 DEF PackedInv, SentInv, AtStep, Sending, Idle
  <2>3. Len(cited.notes) <= Cardinality(Updates)
    <3>1. cited.notes = <<>> /\ Len(<<>>) = 0
      BY DEF Init, Uncited
    <3> QED  BY <3>1, DeliveryAssumption, FS_CardinalityType
  <2> QED  BY <2>2, <2>3 DEF ListInv
<1>2. DeliveryInv /\ ListInv /\ [Next]_vars => ListInv'
  BY ListInvKept
<1> QED  BY <1>1, <1>2, DeliveryIsInvariant, PTL DEF Spec

\* (D-030) A listing the client sent without an error arrived whole, in order,
\* split only where a block exceeds Telegram's limit; one cut short was cut by
\* an outage, and what arrived is its beginning: for every number of updates
\* of every length, and for every limit the footers of parts fit into.
THEOREM ListingsArriveWhole == Spec => []ListingsAreWhole
<1>1. DeliveryInv /\ ListInv => ListingsAreWhole
  <2> SUFFICES ASSUME DeliveryInv, ListInv, NEW h \in Handlers,
                      AtStep(h, "respond"), handler[h].packed # <<>>
               PROVE  LET inbox == handler[h].inbox
                      IN  \/ /\ handler[h].sent = Len(handler[h].packed)
                             /\ IsFaithful(inbox, HeaderOf(h), Lengths(h))
                          \/ /\ outages > 0
                             /\ \A i \in DOMAIN inbox :
                                   IF IsNotice(inbox[i])
                                   THEN /\ i = Len(inbox)
                                        /\ inbox[i].notice < inbox[i].of
                                        /\ i - 1 - inbox[i].notice \in {0, 1}
                                   ELSE inbox[i] = handler[h].packed[i]
    BY DEF ListingsAreWhole
  <2> DEFINE t == handler[h]
             k == t.sent
             m == Len(t.packed)
  <2>1. IsThread(t) /\ PackedInv(h) /\ SentInv(h) /\ t.step = "respond"
    BY DEF DeliveryInv, ThreadInv, ListInv, AtStep
  <2>2. /\ t.packed \in Seq(MessageType) /\ m \in Nat /\ DOMAIN t.packed = 1..m
        /\ IsFaithful(t.packed, HeaderOf(h), Lengths(h))
    <3>1. t.packed \in Seq(MessageType) /\ IsFaithful(t.packed, HeaderOf(h), Lengths(h))
      BY <2>1 DEF PackedInv
    <3> QED  BY <3>1
  <2>3. t.inbox \in Seq(Range(t.inbox)) /\ DOMAIN t.inbox = 1..Len(t.inbox) /\ k \in Nat
    <3>1. t.inbox \in Seq(Range(t.inbox)) /\ k \in Nat
      BY <2>1 DEF IsThread
    <3> QED  BY <3>1
  <2>4. CASE k = m /\ Len(t.inbox) = k /\ Arrived(t, k)
    <3>1. t.inbox = t.packed
      <4>1. t.inbox = [i \in 1..m |-> t.inbox[i]] /\ t.packed = [i \in 1..m |-> t.packed[i]]
        BY <2>2, <2>3, <2>4
      <4>2. \A i \in 1..m : t.inbox[i] = t.packed[i]
        BY <2>4 DEF Arrived
      <4> QED  BY <4>1, <4>2
    <3> QED  BY <2>2, <2>4, <3>1
  <2>5. ASSUME k < m, outages > 0, NEW n \in {k, k + 1}, Arrived(t, n),
               \/ Len(t.inbox) = n
               \/ Len(t.inbox) = n + 1 /\ t.inbox[n + 1] = Notice(k, m),
               NEW i \in DOMAIN t.inbox
        PROVE  IF IsNotice(t.inbox[i])
               THEN /\ i = Len(t.inbox)
                    /\ t.inbox[i].notice < t.inbox[i].of
                    /\ i - 1 - t.inbox[i].notice \in {0, 1}
               ELSE t.inbox[i] = t.packed[i]
    <3>1. i \in 1..n \/ (i = n + 1 /\ Len(t.inbox) = n + 1)
      BY <2>3, <2>5
    <3>2. CASE i \in 1..n
      <4>1. t.inbox[i] = t.packed[i] /\ i \in DOMAIN t.packed
        BY <2>2, <2>3, <2>5, <3>2 DEF Arrived
      <4>2. t.packed[i] \in MessageType
        BY <2>2, <4>1
      <4>3. DOMAIN t.packed[i] = {"pieces", "length"}
        BY <4>2 DEF MessageType
      <4> QED  BY <4>1, <4>3 DEF IsNotice
    <3>3. CASE i = n + 1 /\ Len(t.inbox) = n + 1
      <4>1. t.inbox[i] = Notice(k, m)
        BY <2>3, <2>5, <3>3
      <4>2. /\ DOMAIN Notice(k, m) = {"notice", "of"}
            /\ Notice(k, m).notice = k /\ Notice(k, m).of = m
        BY DEF Notice
      <4>3. i - 1 - k \in {0, 1}
        BY <2>3, <2>5, <3>3
      <4> QED  BY <2>5, <3>3, <4>1, <4>2, <4>3 DEF IsNotice
    <3> QED  BY <3>1, <3>2, <3>3
  <2> QED  BY <2>1, <2>4, <2>5 DEF SentInv
<1> QED  BY <1>1, DeliveryIsInvariant, ListInvIsInvariant, PTL
=============================================================================
