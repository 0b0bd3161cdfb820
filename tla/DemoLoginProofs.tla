-------------------------- MODULE DemoLoginProofs --------------------------
(***************************************************************************)
(* The demo page holds every event source and expiry timer that lives, for *)
(* any number of tickets, requests in flight, clicks and faults, as long   *)
(* as no login is started while another start is awaited: until the answer *)
(* to a start has arrived nothing lives, and only that answer starts       *)
(* anything.                                                               *)
(***************************************************************************)
EXTENDS DemoLogin, TLAPS

(* Pages and requests                                                      *)

\* A page has the fields the script uses.
IsPage(u) ==
    /\ DOMAIN u = {"ticket", "text", "pollTimer", "expiryTimer", "eventSource", "locked",
                   "timers", "sources"}
    /\ DOMAIN u.sources = Tickets
    /\ \A t \in Tickets : DOMAIN u.sources[t] = {"at", "last", "wire"}

\* What lives is what the page's state names.
Holds(u) ==
    /\ \A t \in Tickets : u.sources[t].at # "closed" => u.eventSource = t
    /\ u.timers \subseteq {u.expiryTimer}

\* Nothing lives.
Stopped(u) ==
    /\ \A t \in Tickets : u.sources[t].at = "closed"
    /\ u.timers = {}

\* Page v has of page u whatever lives or is named.
SameLife(u, v) ==
    /\ DOMAIN v = DOMAIN u
    /\ v.sources = u.sources /\ v.timers = u.timers
    /\ v.eventSource = u.eventSource /\ v.expiryTimer = u.expiryTimer

LEMMA SameLifeKeeps ==
    ASSUME NEW u, NEW v, SameLife(u, v), IsPage(u)
    PROVE  IsPage(v) /\ (Holds(u) => Holds(v)) /\ (Stopped(u) => Stopped(v))
BY DEF SameLife, IsPage, Holds, Stopped

LEMMA StoppedHolds == ASSUME NEW u, Stopped(u) PROVE Holds(u)
BY DEF Stopped, Holds

\* The script changes the words, the timer of the next poll, the ticket and
\* the button without touching streams and expiry timers.
LEMMA FieldsApart ==
    ASSUME NEW u, IsPage(u), NEW x, NEW y, NEW z
    PROVE  /\ SameLife(u, [u EXCEPT !.text = x])
           /\ SameLife(u, [u EXCEPT !.pollTimer = x])
           /\ SameLife(u, [u EXCEPT !.locked = x])
           /\ SameLife(u, [u EXCEPT !.ticket = x, !.text = y])
           /\ SameLife(u, [u EXCEPT !.text = x, !.locked = y])
           /\ SameLife(u, [u EXCEPT !.ticket = x, !.text = y, !.locked = z])
<1>1. SameLife(u, [u EXCEPT !.text = x]) /\ SameLife(u, [u EXCEPT !.pollTimer = x])
    BY DEF IsPage, SameLife
<1>2. SameLife(u, [u EXCEPT !.locked = x]) /\ SameLife(u, [u EXCEPT !.ticket = x, !.text = y])
    BY DEF IsPage, SameLife
<1>3. /\ SameLife(u, [u EXCEPT !.text = x, !.locked = y])
      /\ SameLife(u, [u EXCEPT !.ticket = x, !.text = y, !.locked = z])
    BY DEF IsPage, SameLife
<1> QED
    BY <1>1, <1>2, <1>3

----------------------------------------------------------------------------
(* The script's functions                                                  *)

\* Closing the held source leaves no other behind.
LEMMA CloseHeldKeeps ==
    ASSUME NEW u, IsPage(u)
    PROVE  /\ IsPage(CloseHeld(u))
           /\ CloseHeld(u).timers = u.timers /\ CloseHeld(u).expiryTimer = u.expiryTimer
           /\ \A t \in Tickets :
                 /\ u.sources[t].at = "closed" => CloseHeld(u).sources[t].at = "closed"
                 /\ u.eventSource = t => CloseHeld(u).sources[t].at = "closed"
           /\ \A t \in Tickets :
                 ~ (u.sources[t].at # "closed" /\ u.eventSource # t) =>
                     CloseHeld(u).sources[t].at = "closed"
<1> DEFINE closed == [t \in Tickets |-> IF t = u.eventSource THEN Closed ELSE u.sources[t]]
<1>1. CloseHeld(u) = [u EXCEPT !.eventSource = None, !.sources = closed]
    BY DEF CloseHeld
<1>2. DOMAIN Closed = {"at", "last", "wire"} /\ Closed.at = "closed"
    BY DEF Closed, Source
<1>3. \A t \in Tickets : closed[t] = IF t = u.eventSource THEN Closed ELSE u.sources[t]
    OBVIOUS
<1>4. DOMAIN closed = Tickets
    OBVIOUS
<1> HIDE DEF closed
<1>5. /\ CloseHeld(u).sources = closed /\ DOMAIN CloseHeld(u) = DOMAIN u
      /\ CloseHeld(u).timers = u.timers /\ CloseHeld(u).expiryTimer = u.expiryTimer
    BY <1>1 DEF IsPage
<1> QED
    BY <1>2, <1>3, <1>4, <1>5 DEF IsPage

LEMMA StopPollingStops ==
    ASSUME NEW u, IsPage(u)
    PROVE  IsPage(StopPolling(u)) /\ (Holds(u) => Stopped(StopPolling(u)))
<1> DEFINE v == CloseHeld(u)
<1>1. IsPage(v) /\ v.timers = u.timers
    BY CloseHeldKeeps
<1>2. /\ StopPolling(u).sources = v.sources
      /\ StopPolling(u).timers = u.timers \ {u.expiryTimer}
      /\ DOMAIN StopPolling(u) = DOMAIN v
    <2> HIDE DEF v
    <2>1. StopPolling(u) = [v EXCEPT !.pollTimer = FALSE, !.expiryTimer = None,
                                     !.timers = @ \ {u.expiryTimer}]
        BY DEF StopPolling, v
    <2> QED
        BY <1>1, <2>1 DEF IsPage
<1>3. IsPage(StopPolling(u))
    BY <1>1, <1>2 DEF IsPage
<1>4. Holds(u) => Stopped(StopPolling(u))
    BY <1>2, CloseHeldKeeps DEF Holds, Stopped
<1> QED
    BY <1>3, <1>4

\* Page v is a page, and of what page u holds it lets nothing go astray.
Keeps(u, v) == IsPage(v) /\ (Holds(u) => Holds(v)) /\ (Stopped(u) => Stopped(v))

LEMMA KeepsTwice ==
    ASSUME NEW u, NEW v, NEW w, Keeps(u, v), Keeps(v, w)
    PROVE  Keeps(u, w)
BY DEF Keeps

LEMMA CloseHeldIsSafe == ASSUME NEW u, IsPage(u) PROVE Keeps(u, CloseHeld(u))
BY CloseHeldKeeps DEF Keeps, Holds, Stopped

LEMMA StopPollingIsSafe == ASSUME NEW u, IsPage(u) PROVE Keeps(u, StopPolling(u))
BY StopPollingStops, StoppedHolds DEF Keeps

LEMMA SameLifeIsSafe == ASSUME NEW u, NEW v, IsPage(u), SameLife(u, v) PROVE Keeps(u, v)
BY SameLifeKeeps DEF Keeps

LEMMA ShowExpiredIsSafe == ASSUME NEW u, IsPage(u) PROVE Keeps(u, ShowExpired(u))
<1>1. PICK v : v = StopPolling(u)
    OBVIOUS
<1>2. Keeps(u, v) /\ IsPage(v)
    BY <1>1, StopPollingIsSafe DEF Keeps
<1>3. SameLife(v, [v EXCEPT !.text = "expired"])
    BY <1>2, FieldsApart
<1>4. Keeps(v, [v EXCEPT !.text = "expired"])
    BY <1>2, <1>3, SameLifeIsSafe
<1> QED
    BY <1>1, <1>2, <1>4, KeepsTwice DEF ShowExpired

LEMMA ShowSessionIsSafe == ASSUME NEW u, IsPage(u) PROVE Keeps(u, ShowSession(u))
<1>1. PICK v : v = [u EXCEPT !.text = "approved"]
    OBVIOUS
<1>2. SameLife(u, v)
    BY <1>1, FieldsApart
<1>3. Keeps(u, v)
    BY <1>2, SameLifeIsSafe
<1>4. Keeps(v, StopPolling(v))
    BY <1>3, StopPollingIsSafe DEF Keeps
<1> QED
    BY <1>1, <1>3, <1>4, KeepsTwice DEF ShowSession

LEMMA FallbackIsSafe == ASSUME NEW u, IsPage(u) PROVE Keeps(u, ScheduleFallbackPoll(u))
<1>1. SameLife(u, u)
    BY DEF SameLife
<1>2. SameLife(u, [u EXCEPT !.pollTimer = TRUE])
    BY FieldsApart
<1>3. Keeps(u, u) /\ Keeps(u, [u EXCEPT !.pollTimer = TRUE])
    BY <1>1, <1>2, SameLifeIsSafe
<1> QED
    BY <1>3 DEF ScheduleFallbackPoll

LEMMA OnErrorIsSafe == ASSUME NEW u, IsPage(u) PROVE Keeps(u, OnError(u))
<1>1. PICK v : v = CloseHeld(u)
    OBVIOUS
<1>2. Keeps(u, v)
    BY <1>1, CloseHeldIsSafe
<1>3. Keeps(v, ScheduleFallbackPoll(v))
    BY <1>2, FallbackIsSafe DEF Keeps
<1> QED
    BY <1>1, <1>2, <1>3, KeepsTwice DEF OnError

LEMMA PollTicketIsSafe ==
    ASSUME NEW u, IsPage(u), NEW call
    PROVE  Keeps(u, PollTicket(u, call))
<1>1. PICK v : v = CASE call.answer = "session" -> ShowSession(u)
                     [] call.answer = "gone" -> ShowExpired(u)
                     [] call.answer = None -> u
                     [] OTHER -> [u EXCEPT !.text = call.answer]
    OBVIOUS
<1>2. Keeps(u, u)
    BY SameLifeIsSafe DEF SameLife
<1>3. Keeps(u, [u EXCEPT !.text = call.answer])
    BY FieldsApart, SameLifeIsSafe
<1>4. Keeps(u, v)
    <2>0. v \in {ShowSession(u), ShowExpired(u), u, [u EXCEPT !.text = call.answer]}
        BY <1>1
    <2> QED
        BY <2>0, <1>2, <1>3, ShowSessionIsSafe, ShowExpiredIsSafe
<1>5. AfterPoll(v, call) \in {v, ScheduleFallbackPoll(v)}
    BY DEF AfterPoll
<1>6. Keeps(v, ScheduleFallbackPoll(v))
    BY <1>4, FallbackIsSafe DEF Keeps
<1>7. Keeps(u, AfterPoll(v, call))
    BY <1>4, <1>5, <1>6, KeepsTwice
<1> QED
    BY <1>1, <1>7 DEF PollTicket

\* A start stops everything.
LEMMA CreatingStops ==
    ASSUME NEW u, IsPage(u)
    PROVE  IsPage(Creating(u)) /\ (Holds(u) => Stopped(Creating(u)))
<1>1. PICK v : v = StopPolling(u)
    OBVIOUS
<1>2. IsPage(v) /\ (Holds(u) => Stopped(v))
    BY <1>1, StopPollingStops
<1>3. SameLife(v, [v EXCEPT !.text = "creating", !.locked = TRUE])
    BY <1>2, FieldsApart
<1>4. Keeps(v, [v EXCEPT !.text = "creating", !.locked = TRUE])
    BY <1>2, <1>3, SameLifeIsSafe
<1> QED
    BY <1>1, <1>2, <1>4 DEF Creating, Keeps

LEMMA ScheduleExpiryHolds ==
    ASSUME NEW u, IsPage(u)
    PROVE  /\ IsPage(ScheduleExpiry(u))
           /\ Stopped(u) =>
                 /\ \A t \in Tickets : ScheduleExpiry(u).sources[t].at = "closed"
                 /\ ScheduleExpiry(u).timers \subseteq {ScheduleExpiry(u).expiryTimer}
<1>1. CASE u.ticket \in due
    BY <1>1, ShowExpiredIsSafe DEF ScheduleExpiry, Keeps, Stopped
<1>2. CASE u.ticket \notin due
    <2>1. PICK v : v = [u EXCEPT !.expiryTimer = u.ticket, !.timers = @ \cup {u.ticket}]
        OBVIOUS
    <2>2. /\ DOMAIN v = DOMAIN u /\ v.sources = u.sources
          /\ v.expiryTimer = u.ticket /\ v.timers = u.timers \cup {u.ticket}
        BY <2>1 DEF IsPage
    <2>3. ScheduleExpiry(u) = v
        BY <1>2, <2>1 DEF ScheduleExpiry
    <2> QED
        BY <2>2, <2>3 DEF IsPage, Stopped
<1> QED
    BY <1>1, <1>2

\* From a page on which nothing lives, the answer to a start starts what it names.
LEMMA CreatedHolds ==
    ASSUME NEW u, IsPage(u), NEW t
    PROVE  IsPage(Created(u, t)) /\ (Stopped(u) => Holds(Created(u, t)))
<1>1. PICK v : v = [u EXCEPT !.ticket = t, !.text = "pending", !.locked = FALSE]
    OBVIOUS
<1>2. SameLife(u, v)
    BY <1>1, FieldsApart
<1>3. Keeps(u, v)
    BY <1>2, SameLifeIsSafe
<1>4. PICK w : w = ScheduleExpiry(v)
    OBVIOUS
<1>5. /\ IsPage(w)
      /\ Stopped(u) => (\A x \in Tickets : w.sources[x].at = "closed")
                       /\ w.timers \subseteq {w.expiryTimer}
    BY <1>3, <1>4, ScheduleExpiryHolds DEF Keeps
<1>6. PICK z : z = [w EXCEPT !.eventSource = w.ticket,
                             !.sources = [@ EXCEPT ![w.ticket] = Connecting]]
    OBVIOUS
<1>7. /\ DOMAIN z = DOMAIN w /\ z.eventSource = w.ticket
      /\ z.sources = [w.sources EXCEPT ![w.ticket] = Connecting]
      /\ z.timers = w.timers /\ z.expiryTimer = w.expiryTimer
    BY <1>5, <1>6 DEF IsPage
<1>8. DOMAIN Connecting = {"at", "last", "wire"}
    BY DEF Connecting, Source
<1>9. IsPage(z) /\ (Stopped(u) => Holds(z))
    BY <1>5, <1>7, <1>8 DEF IsPage, Holds
<1> QED
    BY <1>1, <1>4, <1>6, <1>9 DEF Created, StartEvents

----------------------------------------------------------------------------
(* The invariant                                                           *)

IsCall(call) == DOMAIN call = {"op", "ticket", "timer", "answer"}

CallsMade ==
    /\ DOMAIN calls = Slots
    /\ \A s \in Slots : calls[s] # None => IsCall(calls[s])

\* One start is awaited at most, and while it is, nothing lives.
StartsApart ==
    /\ Holds(ui)
    /\ \A r \in Calling("post"), s \in Calling("post") : r = s
    /\ Calling("post") # {} => Stopped(ui)

Inv == IsPage(ui) /\ CallsMade /\ (doubled \/ StartsApart)

LEMMA NewCall ==
    ASSUME NEW op, NEW ticket, NEW timer
    PROVE  IsCall(Call(op, ticket, timer)) /\ Call(op, ticket, timer).op = op
BY DEF IsCall, Call

LEMMA InitInv == ASSUME Init PROVE Inv
<1>1. IsPage(ui) /\ Stopped(ui)
    BY DEF Init, IsPage, Stopped, Closed, Source
<1>2. CallsMade
    <2>1. \A s \in Slots : calls[s] \in {Call("session", cookie, FALSE), None}
        BY DEF Init
    <2> QED
        BY <2>1, NewCall DEF Init, CallsMade
<1>3. Calling("post") = {}
    <2>1. \A s \in Slots : calls[s] \in {Call("session", cookie, FALSE), None}
        BY DEF Init
    <2>2. Call("session", cookie, FALSE).op = "session"
        BY DEF Call
    <2>3. PICK call : call = Call("session", cookie, FALSE)
        OBVIOUS
    <2> QED
        BY <2>1, <2>2, <2>3 DEF Calling
<1> QED
    BY <1>1, <1>2, <1>3, StoppedHolds DEF Inv, StartsApart

\* A step that starts no login keeps the invariant when it keeps the page.
LEMMA QuietStep ==
    ASSUME Inv, Keeps(ui, ui'), CallsMade', Calling("post")' \subseteq Calling("post"),
           doubled' = doubled
    PROVE  Inv'
BY DEF Inv, Keeps, StartsApart

\* A step that starts a login stops the page first.
LEMMA StartStep ==
    ASSUME Inv, NEW u, Keeps(ui, u), ui' = Creating(u), CallsMade',
           NEW s, Calling("post")' \subseteq Calling("post") \cup {s},
           doubled' = (doubled \/ Calling("post") \ {s} # {})
    PROVE  Inv'
<1>1. IsPage(ui') /\ (Holds(u) => Stopped(ui'))
    BY CreatingStops DEF Keeps
<1>2. ASSUME ~ doubled' PROVE StartsApart'
    <2>1. Holds(u)
        BY <1>2 DEF Inv, StartsApart, Keeps
    <2>2. Stopped(ui') /\ Holds(ui')
        BY <1>1, <2>1, StoppedHolds
    <2>3. Calling("post")' \subseteq {s}
        BY <1>2
    <2> QED
        BY <2>2, <2>3 DEF StartsApart, Holds, Stopped
<1> QED
    BY <1>1, <1>2 DEF Inv

LEMMA PageStays == ASSUME Inv, SameLife(ui, ui') PROVE Keeps(ui, ui')
BY SameLifeIsSafe DEF Inv

LEMMA SameCalls == ASSUME Inv, UNCHANGED calls PROVE CallsMade' /\ Calling("post")' = Calling("post")
BY DEF Inv, CallsMade, Calling

\* A slot is filled or cleared.
LEMMA OneCall ==
    ASSUME Inv, NEW s, NEW call, call = None \/ IsCall(call), calls' = [calls EXCEPT ![s] = call]
    PROVE  /\ CallsMade'
           /\ Calling("post")' \subseteq Calling("post") \cup {s}
           /\ (call = None \/ call.op # "post") => Calling("post")' \subseteq Calling("post")
           /\ call = None => Calling("post")' \subseteq Calling("post") \ {s}
<1>1. DOMAIN calls' = Slots
    BY DEF Inv, CallsMade
<1>2. \A r \in Slots : calls'[r] = IF r = s THEN call ELSE calls[r]
    BY DEF Inv, CallsMade
<1> QED
    BY <1>1, <1>2 DEF Inv, CallsMade, Calling

LEMMA SendKeeps ==
    ASSUME Inv, NEW call, Send(call), IsCall(call), call.op # "post"
    PROVE  CallsMade' /\ Calling("post")' \subseteq Calling("post")
<1>1. PICK s : s = Min(Free)
    OBVIOUS
<1>2. calls' = [calls EXCEPT ![s] = call]
    BY <1>1 DEF Send
<1> QED
    BY <1>2, OneCall

----------------------------------------------------------------------------
(* One lemma per step                                                      *)

\* A living source that goes on living.
LEMMA LivesOn ==
    ASSUME NEW u, IsPage(u), NEW t \in Tickets, u.sources[t].at # "closed",
           NEW x, NEW y, NEW z, x # "closed"
    PROVE  Keeps(u, [u EXCEPT !.sources[t] = Source(x, y, z)])
<1>1. PICK v : v = [u EXCEPT !.sources[t] = Source(x, y, z)]
    OBVIOUS
<1>2. /\ DOMAIN v = DOMAIN u /\ v.sources = [u.sources EXCEPT ![t] = Source(x, y, z)]
      /\ v.timers = u.timers /\ v.eventSource = u.eventSource /\ v.expiryTimer = u.expiryTimer
    BY <1>1 DEF IsPage
<1>3. DOMAIN Source(x, y, z) = {"at", "last", "wire"} /\ Source(x, y, z).at = x
    BY DEF Source
<1> QED
    BY <1>1, <1>2, <1>3 DEF Keeps, IsPage, Holds, Stopped

LEMMA SourceCloses ==
    ASSUME NEW u, IsPage(u), NEW t \in Tickets
    PROVE  Keeps(u, [u EXCEPT !.sources[t] = Closed])
<1>1. PICK v : v = [u EXCEPT !.sources[t] = Closed]
    OBVIOUS
<1>2. /\ DOMAIN v = DOMAIN u /\ v.sources = [u.sources EXCEPT ![t] = Closed]
      /\ v.timers = u.timers /\ v.eventSource = u.eventSource /\ v.expiryTimer = u.expiryTimer
    BY <1>1 DEF IsPage
<1>3. DOMAIN Closed = {"at", "last", "wire"} /\ Closed.at = "closed"
    BY DEF Closed, Source
<1> QED
    BY <1>1, <1>2, <1>3 DEF Keeps, IsPage, Holds, Stopped

LEMMA WireMoves ==
    ASSUME NEW u, IsPage(u), NEW t \in Tickets
    PROVE  Keeps(u, [u EXCEPT !.sources[t].wire = Tail(@)])
<1>1. PICK v : v = [u EXCEPT !.sources[t].wire = Tail(@)]
    OBVIOUS
<1>2. PICK w : w = [u.sources[t] EXCEPT !.wire = Tail(@)]
    OBVIOUS
<1>3. /\ DOMAIN v = DOMAIN u /\ v.sources = [u.sources EXCEPT ![t] = w]
      /\ v.timers = u.timers /\ v.eventSource = u.eventSource /\ v.expiryTimer = u.expiryTimer
    BY <1>1, <1>2 DEF IsPage
<1>4. DOMAIN w = {"at", "last", "wire"} /\ w.at = u.sources[t].at
    BY <1>2 DEF IsPage
<1> QED
    BY <1>1, <1>3, <1>4 DEF Keeps, IsPage, Holds, Stopped

LEMMA DecideStep == ASSUME Inv, NEW t, Decide(t) \/ Expire(t) PROVE Inv'
<1>1. UNCHANGED <<ui, calls, doubled>>
    BY DEF Decide, Expire
<1>2. Keeps(ui, ui')
    BY <1>1, PageStays DEF SameLife
<1> QED
    BY <1>1, <1>2, SameCalls, QuietStep

LEMMA StreamTurnStep == ASSUME Inv, NEW t \in Tickets, StreamTurn(t) PROVE Inv'
<1>1. PICK y, z : ui' = [ui EXCEPT !.sources[t] = Source("open", y, z)]
    BY DEF StreamTurn
<1>2. ui.sources[t].at # "closed" /\ UNCHANGED <<calls, doubled>>
    BY DEF StreamTurn
<1>3. Keeps(ui, ui')
    BY <1>1, <1>2, LivesOn DEF Inv
<1> QED
    BY <1>2, <1>3, SameCalls, QuietStep

LEMMA BreakStep == ASSUME Inv, NEW t \in Tickets, Break(t) PROVE Inv'
<1>1. PICK y, z : ui' = [ui EXCEPT !.sources[t] = Source("open", y, z)]
    BY DEF Break
<1>2. ui.sources[t].at # "closed" /\ UNCHANGED <<calls, doubled>>
    BY DEF Break
<1>3. Keeps(ui, ui')
    BY <1>1, <1>2, LivesOn DEF Inv
<1> QED
    BY <1>2, <1>3, SameCalls, QuietStep

LEMMA ConnectStep == ASSUME Inv, NEW t \in Tickets, Connect(t) PROVE Inv'
<1>1. ui.sources[t].at # "closed" /\ UNCHANGED <<calls, doubled>>
    BY DEF Connect
<1>2. CASE ui' = [ui EXCEPT !.sources[t] = Source("open", "none", <<>>)]
    <2>1. Keeps(ui, ui')
        BY <1>1, <1>2, LivesOn DEF Inv
    <2> QED
        BY <1>1, <2>1, SameCalls, QuietStep
<1>3. CASE ui' = OnError([ui EXCEPT !.sources[t] = Closed])
    <2>1. PICK v : v = [ui EXCEPT !.sources[t] = Closed]
        OBVIOUS
    <2>2. Keeps(ui, v)
        BY <2>1, SourceCloses DEF Inv
    <2>3. Keeps(v, ui')
        BY <1>3, <2>1, <2>2, OnErrorIsSafe DEF Keeps
    <2> QED
        BY <1>1, <2>2, <2>3, KeepsTwice, SameCalls, QuietStep
<1> QED
    BY <1>2, <1>3 DEF Connect

LEMMA DispatchStep == ASSUME Inv, NEW t \in Tickets, Dispatch(t) PROVE Inv'
<1> DEFINE wire == ui.sources[t].wire
<1>1. PICK rest : rest = [ui EXCEPT !.sources[t].wire = Tail(@)]
    OBVIOUS
<1>2. Keeps(ui, rest) /\ IsPage(rest)
    BY <1>1, WireMoves DEF Inv, Keeps
<1>3. ui.sources[t].at # "closed" /\ UNCHANGED doubled
    BY DEF Dispatch
<1>4. \/ ui' = [rest EXCEPT !.text = Head(wire)[2]] /\ UNCHANGED calls
      \/ ui' = rest /\ (UNCHANGED calls \/ Send(Call("poll", ui.ticket, FALSE)))
      \/ ui' = ShowExpired(rest) /\ UNCHANGED calls
      \/ ui' = OnError([ui EXCEPT !.sources[t] = Connecting]) /\ UNCHANGED calls
    BY <1>1 DEF Dispatch
<1> HIDE DEF wire
<1>5. Keeps(ui, ui')
    <2>1. CASE ui' = [rest EXCEPT !.text = Head(wire)[2]]
        <3>1. SameLife(rest, ui')
            BY <1>2, <2>1, FieldsApart
        <3> QED
            BY <1>2, <3>1, SameLifeIsSafe, KeepsTwice
    <2>2. CASE ui' = rest
        BY <1>2, <2>2
    <2>3. CASE ui' = ShowExpired(rest)
        BY <1>2, <2>3, ShowExpiredIsSafe, KeepsTwice
    <2>4. CASE ui' = OnError([ui EXCEPT !.sources[t] = Connecting])
        <3>1. PICK v : v = [ui EXCEPT !.sources[t] = Connecting]
            OBVIOUS
        <3>2. Keeps(ui, v)
            BY <1>3, <3>1, LivesOn DEF Inv, Connecting
        <3>3. Keeps(v, ui')
            BY <2>4, <3>1, <3>2, OnErrorIsSafe DEF Keeps
        <3> QED
            BY <3>2, <3>3, KeepsTwice
    <2> QED
        BY <1>4, <2>1, <2>2, <2>3, <2>4
<1>6. PICK call : call = Call("poll", ui.ticket, FALSE)
    OBVIOUS
<1>7. IsCall(call) /\ call.op = "poll"
    BY <1>6 DEF IsCall, Call
<1>8. UNCHANGED calls \/ Send(call)
    BY <1>4, <1>6
<1>9. CallsMade' /\ Calling("post")' \subseteq Calling("post")
    BY <1>7, <1>8, SameCalls, SendKeeps
<1> QED
    BY <1>3, <1>5, <1>9, QuietStep

LEMMA PollTimerStep == ASSUME Inv, PollTimer PROVE Inv'
<1>1. SameLife(ui, ui') /\ UNCHANGED doubled
    BY FieldsApart DEF PollTimer, Inv
<1>2. PICK call : call = Call("poll", ui.ticket, TRUE)
    OBVIOUS
<1>3. IsCall(call) /\ call.op = "poll"
    BY <1>2 DEF IsCall, Call
<1>4. UNCHANGED calls \/ Send(call)
    BY <1>2 DEF PollTimer
<1>5. CallsMade' /\ Calling("post")' \subseteq Calling("post")
    BY <1>3, <1>4, SameCalls, SendKeeps
<1> QED
    BY <1>1, <1>5, PageStays, QuietStep

LEMMA ExpiryTimerStep == ASSUME Inv, NEW t, ExpiryTimer(t) PROVE Inv'
<1>1. PICK v : v = ShowExpired(ui)
    OBVIOUS
<1>2. Keeps(ui, v)
    BY <1>1, ShowExpiredIsSafe DEF Inv
<1>3. ui' = [v EXCEPT !.timers = @ \ {t}]
    BY <1>1 DEF ExpiryTimer
<1>4. Keeps(v, ui')
    BY <1>2, <1>3 DEF Keeps, IsPage, Holds, Stopped
<1>5. UNCHANGED <<calls, doubled>>
    BY DEF ExpiryTimer
<1> QED
    BY <1>2, <1>4, <1>5, KeepsTwice, SameCalls, QuietStep

LEMMA ServeStep == ASSUME Inv, NEW s \in Slots, Serve(s) PROVE Inv'
<1>1. UNCHANGED <<ui, doubled>> /\ calls[s] # None
    BY DEF Serve
<1>2. PICK a : calls' = [calls EXCEPT ![s].answer = a]
    BY DEF Serve
<1>3. PICK call : call = [calls[s] EXCEPT !.answer = a]
    OBVIOUS
<1>4. calls' = [calls EXCEPT ![s] = call] /\ IsCall(call) /\ call.op = calls[s].op
    BY <1>1, <1>2, <1>3 DEF Inv, CallsMade, IsCall
<1>5. CallsMade' /\ Calling("post")' \subseteq Calling("post")
    <2>1. s \in Calling("post") \/ call.op # "post"
        BY <1>1, <1>4 DEF Calling
    <2> QED
        BY <1>4, <2>1, OneCall
<1> QED
    BY <1>1, <1>5, PageStays, QuietStep DEF SameLife

\* An answer, or an error, that starts nothing.
LEMMA EndStep ==
    ASSUME Inv, NEW s \in Slots, NEW u, End(s, u), Keeps(ui, u)
    PROVE  Inv'
BY OneCall, QuietStep DEF End

\* The answer to a start: the only one awaited.
LEMMA CreatedStep ==
    ASSUME Inv, NEW s \in Slots, NEW t, calls[s] # None, calls[s].op = "post",
           End(s, Created(ui, t))
    PROVE  Inv'
<1>1. CallsMade' /\ Calling("post")' \subseteq Calling("post") \ {s}
    BY OneCall DEF End
<1>2. s \in Calling("post")
    BY DEF Calling
<1>3. ui' = Created(ui, t) /\ doubled' = doubled
    BY DEF End
<1>4. IsPage(ui') /\ (Stopped(ui) => Holds(ui'))
    BY <1>3, CreatedHolds DEF Inv
<1>5. ~ doubled => Calling("post")' = {} /\ Holds(ui')
    BY <1>1, <1>2, <1>4 DEF Inv, StartsApart
<1> QED
    BY <1>1, <1>3, <1>4, <1>5 DEF Inv, StartsApart

LEMMA StartFromStep ==
    ASSUME Inv, NEW s \in Slots, NEW u, StartFrom(s, u), Keeps(ui, u)
    PROVE  Inv'
<1>1. PICK call : call = Call("post", None, FALSE)
    OBVIOUS
<1>2. calls' = [calls EXCEPT ![s] = call] /\ IsCall(call)
    BY <1>1, NewCall DEF StartFrom
<1> QED
    BY <1>2, OneCall, StartStep DEF StartFrom

LEMMA ReturnStep == ASSUME Inv, NEW s \in Slots, Return(s) PROVE Inv'
<1>1. CASE calls[s].op = "poll" /\ End(s, PollTicket(ui, calls[s]))
    BY <1>1, EndStep, PollTicketIsSafe DEF Inv
<1>2. CASE calls[s].op = "post" /\ End(s, [ui EXCEPT !.locked = FALSE])
    BY <1>2, EndStep, FieldsApart, SameLifeIsSafe DEF Inv
<1>3. CASE calls[s].op = "post" /\ End(s, Created(ui, calls[s].answer))
    BY <1>3, CreatedStep DEF Return
<1>4. CASE StartFrom(s, [ui EXCEPT !.ticket = None, !.text = "idle"])
    BY <1>4, StartFromStep, FieldsApart, SameLifeIsSafe DEF Inv
<1>5. CASE End(s, [ui EXCEPT !.text = "approved"])
    BY <1>5, EndStep, FieldsApart, SameLifeIsSafe DEF Inv
<1>6. CASE StartFrom(s, ui)
    BY <1>6, StartFromStep, SameLifeIsSafe DEF Inv, SameLife
<1> QED
    BY <1>1, <1>2, <1>3, <1>4, <1>5, <1>6 DEF Return

LEMMA FailStep == ASSUME Inv, NEW s \in Slots, Fail(s) PROVE Inv'
<1>1. CASE \E call : End(s, PollTicket(ui, call))
    BY <1>1, EndStep, PollTicketIsSafe DEF Inv
<1>2. CASE End(s, ui)
    BY <1>2, EndStep, SameLifeIsSafe DEF Inv, SameLife
<1>3. CASE StartFrom(s, ui)
    BY <1>3, StartFromStep, SameLifeIsSafe DEF Inv, SameLife
<1> QED
    BY <1>1, <1>2, <1>3 DEF Fail

LEMMA NewLoginStep == ASSUME Inv, NewLogin PROVE Inv'
<1>1. PICK s : s = Min(Free)
    OBVIOUS
<1>2. PICK call : call = Call("post", None, FALSE)
    OBVIOUS
<1>3. calls' = [calls EXCEPT ![s] = call] /\ IsCall(call)
    BY <1>1, <1>2, NewCall DEF NewLogin, Send
<1>4. CallsMade' /\ Calling("post")' \subseteq Calling("post") \cup {s}
    BY <1>3, OneCall
<1>5. IsPage(ui') /\ (Holds(ui) => Stopped(ui'))
    BY CreatingStops DEF NewLogin, Inv
<1>6. doubled' = (doubled \/ Calling("post") # {})
    BY DEF NewLogin
<1> QED
    BY <1>4, <1>5, <1>6, StoppedHolds DEF Inv, StartsApart

LEMMA LogoutStep == ASSUME Inv, Logout PROVE Inv'
<1>1. Keeps(ui, ui') /\ UNCHANGED doubled
    BY StopPollingIsSafe DEF Logout, Inv
<1>2. PICK call : call = Call("delete", cookie, FALSE)
    OBVIOUS
<1>3. IsCall(call) /\ call.op = "delete" /\ Send(call)
    BY <1>2 DEF IsCall, Call, Logout
<1>4. CallsMade' /\ Calling("post")' \subseteq Calling("post")
    BY <1>3, SendKeeps
<1> QED
    BY <1>1, <1>4, QuietStep

LEMMA FocusStep == ASSUME Inv, Focus PROVE Inv'
<1>1. Keeps(ui, ui') /\ UNCHANGED doubled
    BY PageStays DEF Focus, SameLife
<1>2. PICK call : call = Call("poll", ui.ticket, FALSE)
    OBVIOUS
<1>3. IsCall(call) /\ call.op = "poll" /\ Send(call)
    BY <1>2 DEF IsCall, Call, Focus
<1>4. CallsMade' /\ Calling("post")' \subseteq Calling("post")
    BY <1>3, SendKeeps
<1> QED
    BY <1>1, <1>4, QuietStep

LEMMA NextInv == ASSUME Inv, [Next]_vars PROVE Inv'
<1>1. CASE Page
    BY <1>1, ServeStep, ReturnStep, StreamTurnStep, ConnectStep, DispatchStep,
       ExpiryTimerStep, PollTimerStep DEF Page
<1>2. CASE \E t \in Tickets : Decide(t) \/ Expire(t) \/ Break(t)
    BY <1>2, DecideStep, BreakStep
<1>3. CASE \E s \in Slots : Fail(s)
    BY <1>3, FailStep
<1>4. CASE NewLogin \/ Logout \/ Focus
    BY <1>4, NewLoginStep, LogoutStep, FocusStep
<1>5. CASE UNCHANGED vars
    <2>1. UNCHANGED <<ui, calls, doubled>>
        BY <1>5 DEF vars
    <2> QED
        BY <2>1, PageStays, SameCalls, QuietStep DEF SameLife
<1> QED
    BY <1>1, <1>2, <1>3, <1>4, <1>5 DEF Next

----------------------------------------------------------------------------
(* Theorems                                                                *)

\* The inductive invariant: while a start is awaited the page holds nothing,
\* and otherwise what it names.
THEOREM InvHolds == Spec => []Inv
<1>1. Init => Inv
    BY InitInv
<1>2. Inv /\ [Next]_vars => Inv'
    BY NextInv
<1> QED
    BY <1>1, <1>2, PTL DEF Spec

\* Whatever order answers, events and clicks come in and whatever is lost, the
\* page's stopPolling reaches every stream and expiry timer that lives, unless
\* two starts were awaited at once.
THEOREM EverythingIsHeld == Spec => []EverythingHeld
<1>1. Inv => EverythingHeld
    BY DEF Inv, StartsApart, Holds, EverythingHeld
<1> QED
    BY <1>1, InvHolds, PTL

=============================================================================
