----------------------------- MODULE RateLimit -----------------------------
(***************************************************************************)
(* The sliding-window rate limiter of the stores: check_rate_limit and the *)
(* pruning of idle keys it does on the way.  A worker reads the monotonic  *)
(* clock first and takes the lock afterwards, so workers can enter the     *)
(* section in another order than they read the clock.                      *)
(***************************************************************************)
EXTENDS Integers, FiniteSets, Sequences, SequencesExt

CONSTANTS
    Keys,        \* "<scope>:<ip>" of a request
    Workers,     \* threads serving requests
    None,        \* no request; no pruning yet
    Limit,       \* settings.rate_limit_<scope>
    Window,      \* settings.rate_limit_window_seconds
    MaxTime,     \* bound: the last instant of the clock
    MaxAdmitted  \* bound: no request arrives once this many were admitted

ASSUME LimitAssumption ==
    Limit \in Nat /\ Window \in Nat \ {0} /\ MaxTime \in Nat /\ MaxAdmitted \in Nat
ASSUME NoneAssumption == None \notin Int

VARIABLES
    rateEvents,    \* owner.rate_events: keys seen -> their admission times
    ratePrunedAt,  \* owner._rate_pruned_at, None at first
    clock,         \* time.monotonic()
    call,          \* Workers -> the key and `now' of its check, or None
    admitted,      \* history: every admission so far, in order
    latest,        \* history: the latest reading a check has used
    overtaken      \* history: a check used an earlier reading than one before it

vars == <<rateEvents, ratePrunedAt, clock, call, admitted, latest, overtaken>>

Init ==
    /\ rateEvents = [k \in {} |-> <<>>]
    /\ ratePrunedAt = None
    /\ clock = 0
    /\ call = [w \in Workers |-> None]
    /\ admitted = <<>>
    /\ latest = 0
    /\ overtaken = FALSE

\* `now = time.monotonic()', before the lock.
ReadClock(w, k) ==
    /\ call[w] = None
    /\ Len(admitted) < MaxAdmitted
    /\ call' = [call EXCEPT ![w] = [key |-> k, now |-> clock]]
    /\ UNCHANGED <<rateEvents, ratePrunedAt, clock, admitted, latest, overtaken>>

\* Mutant: pruning never comes due again.
PruneDueOnce(now) == ratePrunedAt = None

PruneDue(now) == ratePrunedAt = None \/ now - ratePrunedAt >= Window

\* Mutant: a key is forgotten for its oldest event.
IdleByOldest(k, cutoff) == rateEvents[k] = <<>> \/ rateEvents[k][1] < cutoff

Idle(k, cutoff) == rateEvents[k] = <<>> \/ Last(rateEvents[k]) < cutoff

\* The keys _prune_rate_events leaves.
KeptKeys(now) ==
    IF PruneDue(now) THEN {k \in DOMAIN rateEvents : ~ Idle(k, now - Window)}
    ELSE DOMAIN rateEvents

\* Mutant: events that left the window still count.
RecentWithOld(k, now) ==
    IF k \in KeptKeys(now) THEN rateEvents[k] ELSE <<>>

\* The events not before cutoff, in their order.
NotBefore(cutoff, events) ==
    LET kept[n \in 0 .. Len(events)] ==
            IF n = 0 THEN <<>>
            ELSE IF events[n] >= cutoff THEN Append(kept[n - 1], events[n]) ELSE kept[n - 1]
    IN  kept[Len(events)]

\* The events of k still in the window that ends at now.
Recent(k, now) ==
    IF k \in KeptKeys(now) THEN NotBefore(now - Window, rateEvents[k]) ELSE <<>>

\* The section under the lock.
CheckRateLimit(w) ==
    /\ call[w] # None
    /\ LET key == call[w].key
           now == call[w].now
           events == Recent(key, now)
           allowed == Len(events) < Limit
       IN
       /\ rateEvents' = [k \in KeptKeys(now) \cup {key} |->
                            IF k # key THEN rateEvents[k]
                            ELSE IF allowed THEN Append(events, now) ELSE events]
       /\ admitted' = IF allowed THEN Append(admitted, call[w]) ELSE admitted
       /\ ratePrunedAt' = IF PruneDue(now) THEN now ELSE ratePrunedAt
       /\ overtaken' = (overtaken \/ now < latest)
       /\ latest' = IF now < latest THEN latest ELSE now
    /\ call' = [call EXCEPT ![w] = None]
    /\ UNCHANGED clock

Tick ==
    /\ clock < MaxTime
    /\ clock' = clock + 1
    /\ UNCHANGED <<rateEvents, ratePrunedAt, call, admitted, latest, overtaken>>

\* Both bounds are reached and every check has ended.
Stopped ==
    /\ clock = MaxTime
    /\ Len(admitted) >= MaxAdmitted
    /\ UNCHANGED vars

Next ==
    \/ \E w \in Workers : CheckRateLimit(w) \/ \E k \in Keys : ReadClock(w, k)
    \/ Tick
    \/ Stopped

Spec == Init /\ [][Next]_vars

----------------------------------------------------------------------------
(* Properties                                                              *)

\* Admissions of key k at instants from a to b.
Admissions(k, a, b) ==
    {i \in DOMAIN admitted : admitted[i].key = k /\ admitted[i].now \in a .. b}

\* No window that ends at an admission holds more than Limit of its key: the
\* pruning never makes the limiter forget an admission that still counts.
\* It holds as long as workers take the lock in the order of their readings.
WindowLimit ==
    overtaken \/ \A i \in DOMAIN admitted :
        Cardinality(Admissions(admitted[i].key, admitted[i].now - Window, admitted[i].now)) <= Limit

\* A worker ends its check in this step.
Ends(w) == call[w] # None /\ call'[w] = None

\* A request is refused only when Limit requests of its key were admitted
\* since the window of its own clock reading began, however late it gets
\* the lock.
RefusalJustified ==
    \A w \in Workers :
        Ends(w) /\ admitted' = admitted =>
            Cardinality(Admissions(call[w].key, call[w].now - Window, MaxTime)) >= Limit

RefusalsJustified == [][RefusalJustified]_vars

\* The limiter does not grow with the clients it ever saw: after a check,
\* every key left has been admitted in the last two windows.  It holds as long
\* as no check overtook another, and where Limit is not 0.
IdleKeyForgotten ==
    \A w \in Workers : Ends(w) /\ ~ overtaken' =>
        \A k \in DOMAIN rateEvents' : Last(rateEvents'[k]) > call[w].now - 2 * Window

IdleKeysForgotten == [][IdleKeyForgotten]_vars

\* The comment of _prune_rate_events: a key is forgotten when its newest
\* event left the window, so that the next check would discard every stored
\* event anyway.
ForgottenKeyIsIdle ==
    \A k \in DOMAIN rateEvents \ DOMAIN rateEvents' :
        \A i \in DOMAIN rateEvents[k] : rateEvents[k][i] < ratePrunedAt' - Window

ForgottenKeysAreIdle == [][ForgottenKeyIsIdle]_vars

============================================================================
