----------------------------- MODULE Resilience -----------------------------
(***************************************************************************)
(* run_with_retries: the bounded loop every call to a provider goes        *)
(* through (adapters/resilience.py), one call at a time per caller.        *)
(*                                                                         *)
(* Time is counted in whole units, a part of a unit as a whole one.  That  *)
(* an attempt ends within the timeout is the SDK's business.               *)
(***************************************************************************)
EXTENDS Integers, FiniteSets

CONSTANTS
    Callers,      \* threads that call providers
    MaxAttempts,  \* provider_max_attempts
    Timeout,      \* provider_timeout_seconds
    BackoffBase,  \* provider_backoff_base_seconds
    BackoffCap,   \* provider_backoff_cap_seconds
    RetryAfters   \* the delays a server may ask for

\* The bounds of the settings; a negative Retry-After is read as none.
ASSUME ResilienceAssumption ==
    /\ MaxAttempts \in Nat \ {0}
    /\ Timeout \in Nat \ {0}
    /\ BackoffBase \in Nat \ {0}
    /\ BackoffCap \in Nat \ {0}
    /\ RetryAfters \subseteq Nat

VARIABLE call

NoHint == -1

NoCall == [state |-> "none", attempts |-> 0, elapsed |-> 0]

CallStates == {"none", "trying", "returned", "raised"}

ResilienceTypeOK ==
    call \in [Callers -> [state : CallStates, attempts : Nat, elapsed : Nat]]

ResilienceInit == call = [c \in Callers |-> NoCall]

StartCall(c) == call' = [call EXCEPT ![c] = [NoCall EXCEPT !.state = "trying"]]

\* compute_backoff: full jitter below base * 2 ** (attempt - 1) and the cap.
Backoffs(attempt) == {d \in 0..BackoffCap : d <= BackoffBase * 2^(attempt - 1)}

\* Defect: the server's delay is honored as it is.
DelaysUnclamped(attempt, hint) == IF hint = NoHint THEN Backoffs(attempt) ELSE {hint}

\* _resolve_delay: the server's delay, clamped to the cap, or the backoff.
Delays(attempt, hint) ==
    IF hint = NoHint THEN Backoffs(attempt)
    ELSE {IF hint <= BackoffCap THEN hint ELSE BackoffCap}

EndsAfter(c, state, time) ==
    call' = [call EXCEPT ![c] = [state |-> state, attempts |-> @.attempts + 1,
                                 elapsed |-> @.elapsed + time]]

Succeeds(c) ==
    /\ call[c].state = "trying"
    /\ \E time \in 1..Timeout : EndsAfter(c, "returned", time)

\* classify: anything but a timeout, a connection error, a 5xx or a 429.
FailsForGood(c) ==
    /\ call[c].state = "trying"
    /\ \E time \in 1..Timeout : EndsAfter(c, "raised", time)

FailsForNow(c) ==
    /\ call[c].state = "trying" /\ call[c].attempts + 1 < MaxAttempts
    /\ \E time \in 1..Timeout, hint \in RetryAfters \union {NoHint} :
          \E delay \in Delays(call[c].attempts + 1, hint) :
              EndsAfter(c, "trying", time + delay)

\* The last retryable failure is re-raised without a wait.
Exhausted(c) ==
    /\ call[c].state = "trying" /\ call[c].attempts + 1 = MaxAttempts
    /\ \E time \in 1..Timeout : EndsAfter(c, "raised", time)

CallNext ==
    \E c \in Callers :
        StartCall(c) \/ Succeeds(c) \/ FailsForGood(c) \/ FailsForNow(c) \/ Exhausted(c)

CallSpec == ResilienceInit /\ [][CallNext]_call

-----------------------------------------------------------------------------
\* R-9: "Worst-case bounded wall time for one provider call".
WorstCase == Timeout * MaxAttempts + BackoffCap * (MaxAttempts - 1)

\* R-9: a call makes at most max_attempts attempts and its wall time is
\* within the documented bound, whatever fails and whatever delay a server
\* asks for.
CallsAreBounded ==
    \A c \in Callers : call[c].attempts <= MaxAttempts /\ call[c].elapsed <= WorstCase
=============================================================================
