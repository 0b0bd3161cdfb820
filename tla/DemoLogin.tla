----------------------------- MODULE DemoLogin -----------------------------
(***************************************************************************)
(* The demo page and what it talks to: the ticket event stream and the     *)
(* poll, create and logout requests of one browser, whose answers and      *)
(* events arrive in any order and may be lost.  The page is one record,    *)
(* `ui', and each function of its script is an operator from a page to a   *)
(* page; a handler runs to its next await without interruption.            *)
(***************************************************************************)
EXTENDS Naturals, FiniteSets, Sequences, FiniteSetsExt

CONSTANTS
    None,        \* null
    MaxTickets,  \* bound: tickets this browser creates
    MaxCalls,    \* bound: requests in flight at once, as a browser has
    MaxActs,     \* bound: clicks on new login and logout, focus events
    MaxFaults    \* bound: lost answers, refusals and broken streams

ASSUME BoundsAssumption ==
    MaxTickets \in Nat \ {0} /\ MaxCalls \in Nat \ {0} /\ MaxActs \in Nat /\ MaxFaults \in Nat
ASSUME NoneAssumption == None \notin Nat

Tickets == 1 .. MaxTickets
Slots == 1 .. MaxCalls

VARIABLES
    status,    \* the gateway's tickets: status, "none" before creation
    due,       \* tickets past their expiresAt
    sessions,  \* tickets whose approval's session exists
    cookie,    \* the session the browser's cookie names: its ticket, or None
    ui,        \* the page
    calls,     \* requests in flight
    acts, faults,
    doubled    \* history: a login was started while another start was awaited

vars == <<status, due, sessions, cookie, ui, calls, acts, faults, doubled>>
server == <<status, due, sessions>>

\* An EventSource with its event_stream: last_status, and the events sent and
\* not yet dispatched.
Source(at, last, wire) == [at |-> at, last |-> last, wire |-> wire]
Closed == Source("closed", "none", <<>>)
Connecting == Source("connecting", "none", <<>>)

Call(op, ticket, timer) == [op |-> op, ticket |-> ticket, timer |-> timer, answer |-> None]
Calling(op) == {s \in Slots : calls[s] # None /\ calls[s].op = op}
Free == {s \in Slots : calls[s] = None}
Send(call) == Free # {} /\ calls' = [calls EXCEPT ![Min(Free)] = call]

\* What get_ticket finds: the purge spares an approved ticket.
Visible(t) == status[t] = "approved" \/ (status[t] # "none" /\ t \notin due)

-----------------------------------------------------------------------------
(* The script's functions *)

\* Mutant: the event source is forgotten, not closed.
StopTimersOnly(u) ==
    [u EXCEPT !.pollTimer = FALSE, !.eventSource = None, !.expiryTimer = None,
              !.timers = @ \ {u.expiryTimer}]

CloseHeld(u) ==
    [u EXCEPT !.eventSource = None,
              !.sources = [t \in Tickets |-> IF t = u.eventSource THEN Closed ELSE @[t]]]

StopPolling(u) ==
    [CloseHeld(u) EXCEPT !.pollTimer = FALSE, !.expiryTimer = None, !.timers = @ \ {u.expiryTimer}]

ShowExpired(u) == [StopPolling(u) EXCEPT !.text = "expired"]

ShowSession(u) == StopPolling([u EXCEPT !.text = "approved"])

ScheduleExpiry(u) ==
    IF u.ticket \in due THEN ShowExpired(u)
    ELSE [u EXCEPT !.expiryTimer = u.ticket, !.timers = @ \cup {u.ticket}]

ScheduleFallbackPoll(u) == IF u.ticket = None THEN u ELSE [u EXCEPT !.pollTimer = TRUE]

StartEvents(u) ==
    [u EXCEPT !.eventSource = u.ticket, !.sources = [@ EXCEPT ![u.ticket] = Connecting]]

\* Mutant: a broken stream starts no polling.
OnErrorSilent(u) == CloseHeld(u)

\* onerror of any source acts on the one in state.eventSource.
OnError(u) == ScheduleFallbackPoll(CloseHeld(u))

\* Mutant: a next poll whatever the page shows.
PollForever(u, call) == IF call.timer THEN ScheduleFallbackPoll(u) ELSE u

\* The end of scheduleFallbackPoll's callback; other polls just return.
AfterPoll(u, call) ==
    IF call.timer /\ u.text \notin {"approved", "expired"} THEN ScheduleFallbackPoll(u) ELSE u

\* pollTicket after its await: the answer is shown whatever the ticket is now.
PollTicket(u, call) ==
    AfterPoll(
        CASE call.answer = "session" -> ShowSession(u)
          [] call.answer = "gone" -> ShowExpired(u)
          [] call.answer = None -> u
          [] OTHER -> [u EXCEPT !.text = call.answer],
        call)

\* startDeviceLogin to its await, and after it.
Creating(u) == [StopPolling(u) EXCEPT !.text = "creating", !.locked = TRUE]

Created(u, t) ==
    StartEvents(ScheduleExpiry([u EXCEPT !.ticket = t, !.text = "pending", !.locked = FALSE]))

-----------------------------------------------------------------------------
(* The gateway and the wallet *)

Init ==
    /\ cookie \in {None, 1}   \* from an earlier visit, or none
    /\ status = [t \in Tickets |-> IF t = cookie THEN "approved" ELSE "none"]
    /\ due = {} /\ sessions = {cookie} \ {None}
    /\ ui = [ticket |-> None, text |-> "idle", pollTimer |-> FALSE, expiryTimer |-> None,
             eventSource |-> None, locked |-> FALSE, timers |-> {},
             sources |-> [t \in Tickets |-> Closed]]
    /\ calls = [s \in Slots |-> IF s = 1 THEN Call("session", cookie, FALSE) ELSE None]
    /\ acts = 0 /\ faults = 0 /\ doubled = FALSE

\* A wallet approves, or is outside the allowlist.
Decide(t) ==
    /\ status[t] = "pending" /\ t \notin due
    /\ \/ status' = [status EXCEPT ![t] = "approved"] /\ sessions' = sessions \cup {t}
       \/ status' = [status EXCEPT ![t] = "denied"] /\ UNCHANGED sessions
    /\ UNCHANGED <<due, cookie, ui, calls, acts, faults, doubled>>

Expire(t) ==
    /\ status[t] # "none" /\ t \notin due
    /\ due' = due \cup {t}
    /\ UNCHANGED <<status, sessions, cookie, ui, calls, acts, faults, doubled>>

\* What one turn of event_stream's loop yields; "end" is the response's end.
Turn(t) ==
    IF ~ Visible(t) THEN << <<"expired">>, <<"end">> >>
    ELSE (IF status[t] = ui.sources[t].last THEN <<>> ELSE << <<"status", status[t]>> >>)
         \o (IF status[t] = "approved" THEN << <<"approved">>, <<"end">> >> ELSE <<>>)

StreamTurn(t) ==
    LET source == ui.sources[t] IN
    /\ source.at = "open" /\ source.last # "ended" /\ Turn(t) # <<>>
    /\ ui' = [ui EXCEPT !.sources[t] =
              Source("open", IF Visible(t) /\ status[t] # "approved" THEN status[t] ELSE "ended",
                     source.wire \o Turn(t))]
    /\ UNCHANGED <<server, cookie, calls, acts, faults, doubled>>

\* poll_device_login's answer.
PollAnswer(t) ==
    IF ~ Visible(t) THEN "gone"
    ELSE IF status[t] = "approved" /\ t \in sessions THEN "session" ELSE status[t]

NewTicket == {t \in Tickets : status[t] = "none"}

\* The gateway handles a request.
Serve(s) ==
    LET call == calls[s]
        Answer(a) == calls' = [calls EXCEPT ![s].answer = a]
    IN  /\ call # None /\ call.answer = None
        /\ \/ /\ call.op = "poll" /\ Answer(PollAnswer(call.ticket))
              /\ UNCHANGED server
           \/ /\ call.op = "post" /\ Answer(0)   \* refused: rate limit or pending cap
              /\ UNCHANGED server
           \/ /\ call.op = "post" /\ NewTicket # {} /\ Answer(Min(NewTicket))
              /\ status' = [status EXCEPT ![Min(NewTicket)] = "pending"]
              /\ UNCHANGED <<due, sessions>>
           \/ /\ call.op = "delete" /\ Answer("ok")
              /\ sessions' = sessions \ {call.ticket}
              /\ UNCHANGED <<status, due>>
           \/ /\ call.op = "session" /\ Answer(IF call.ticket \in sessions THEN "session" ELSE "none")
              /\ UNCHANGED server
        /\ UNCHANGED <<cookie, ui, acts, faults, doubled>>

-----------------------------------------------------------------------------
(* The page: answers, events, timers and the user *)

\* startDeviceLogin from slot s, whose request just ended.
StartFrom(s, u) ==
    /\ ui' = Creating(u)
    /\ calls' = [calls EXCEPT ![s] = Call("post", None, FALSE)]
    /\ doubled' = (doubled \/ Calling("post") \ {s} # {})

End(s, u) ==
    /\ ui' = u
    /\ calls' = [calls EXCEPT ![s] = None]
    /\ UNCHANGED doubled

\* An answer arrives; its Set-Cookie has taken effect before the script runs.
Return(s) ==
    LET call == calls[s] IN
    /\ call # None /\ call.answer # None
    /\ \/ /\ call.op = "poll" /\ End(s, PollTicket(ui, call))
          /\ cookie' = IF call.answer = "session" THEN call.ticket ELSE cookie
       \/ /\ call.op = "post" /\ UNCHANGED cookie
          /\ End(s, IF call.answer = 0 THEN [ui EXCEPT !.locked = FALSE]
                    ELSE Created(ui, call.answer))
       \/ /\ call.op = "delete" /\ cookie' = None
          /\ StartFrom(s, [ui EXCEPT !.ticket = None, !.text = "idle"])
       \/ /\ call.op = "session" /\ call.answer = "session"
          /\ End(s, [ui EXCEPT !.text = "approved"]) /\ UNCHANGED cookie
       \/ /\ call.op = "session" /\ call.answer = "none"
          /\ StartFrom(s, ui) /\ UNCHANGED cookie
    /\ UNCHANGED <<server, acts, faults>>

\* A request or its answer is lost, or a poll is refused by its rate limit.  A
\* create that throws leaves the button locked.
Fail(s) ==
    LET call == calls[s] IN
    /\ call # None /\ faults < MaxFaults /\ faults' = faults + 1
    /\ \/ call.op = "poll" /\ End(s, PollTicket(ui, [call EXCEPT !.answer = None]))
       \/ call.op \in {"post", "delete"} /\ End(s, ui)
       \/ call.op = "session" /\ StartFrom(s, ui)
    /\ UNCHANGED <<server, cookie, acts>>

\* The GET of an EventSource is answered: 200, 404, or 429.
Connect(t) ==
    /\ ui.sources[t].at = "connecting"
    /\ \/ /\ Visible(t)
          /\ ui' = [ui EXCEPT !.sources[t] = Source("open", "none", <<>>)]
          /\ UNCHANGED faults
       \/ /\ ~ Visible(t) \/ faults < MaxFaults
          /\ ui' = OnError([ui EXCEPT !.sources[t] = Closed])
          /\ faults' = IF Visible(t) THEN faults + 1 ELSE faults
    /\ UNCHANGED <<server, cookie, calls, acts, doubled>>

\* The connection of an open stream breaks; what was under way is lost.
Break(t) ==
    /\ ui.sources[t].at = "open" /\ faults < MaxFaults
    /\ faults' = faults + 1
    /\ ui' = [ui EXCEPT !.sources[t] = Source("open", "ended", << <<"end">> >>)]
    /\ UNCHANGED <<server, cookie, calls, acts, doubled>>

\* The browser reconnects a source whose stream ended, unless onerror closed it.
Dispatch(t) ==
    LET source == ui.sources[t]
        rest == [ui EXCEPT !.sources[t].wire = Tail(@)]
    IN  /\ source.at = "open" /\ source.wire # <<>>
        /\ \/ /\ Head(source.wire)[1] = "status"
              /\ ui' = [rest EXCEPT !.text = Head(source.wire)[2]] /\ UNCHANGED calls
           \/ /\ Head(source.wire) = <<"approved">> /\ ui' = rest
              /\ IF ui.ticket = None THEN UNCHANGED calls ELSE Send(Call("poll", ui.ticket, FALSE))
           \/ /\ Head(source.wire) = <<"expired">>
              /\ ui' = ShowExpired(rest) /\ UNCHANGED calls
           \/ /\ Head(source.wire) = <<"end">>
              /\ ui' = OnError([ui EXCEPT !.sources[t] = Connecting]) /\ UNCHANGED calls
        /\ UNCHANGED <<server, cookie, acts, faults, doubled>>

PollTimer ==
    /\ ui.pollTimer
    /\ ui' = [ui EXCEPT !.pollTimer = FALSE]
    /\ IF ui.ticket = None THEN UNCHANGED calls ELSE Send(Call("poll", ui.ticket, TRUE))
    /\ UNCHANGED <<server, cookie, acts, faults, doubled>>

ExpiryTimer(t) ==
    /\ t \in ui.timers /\ t \in due
    /\ ui' = [ShowExpired(ui) EXCEPT !.timers = @ \ {t}]
    /\ UNCHANGED <<server, cookie, calls, acts, faults, doubled>>

Act == acts < MaxActs /\ acts' = acts + 1 /\ UNCHANGED <<server, cookie, faults>>

NewLogin ==
    /\ Act /\ ~ ui.locked
    /\ ui' = Creating(ui) /\ Send(Call("post", None, FALSE))
    /\ doubled' = (doubled \/ Calling("post") # {})

Logout ==
    /\ Act
    /\ ui' = StopPolling(ui) /\ Send(Call("delete", cookie, FALSE)) /\ UNCHANGED doubled

Focus ==
    /\ Act /\ ui.ticket # None /\ ui.text \notin {"approved", "expired"}
    /\ Send(Call("poll", ui.ticket, FALSE)) /\ UNCHANGED <<ui, doubled>>

Page ==
    \/ \E s \in Slots : Serve(s) \/ Return(s)
    \/ \E t \in Tickets : StreamTurn(t) \/ Connect(t) \/ Dispatch(t) \/ ExpiryTimer(t)
    \/ PollTimer

Next ==
    \/ Page
    \/ \E t \in Tickets : Decide(t) \/ Expire(t) \/ Break(t)
    \/ \E s \in Slots : Fail(s)
    \/ NewLogin \/ Logout \/ Focus

\* The loop sleeps one second and turns again, requests are answered, the
\* browser dispatches what arrived and its timers fire.
PageFairness ==
    /\ \A s \in Slots : WF_vars(Serve(s)) /\ WF_vars(Return(s))
    /\ \A t \in Tickets : /\ WF_vars(StreamTurn(t)) /\ WF_vars(Connect(t))
                          /\ WF_vars(Dispatch(t)) /\ WF_vars(ExpiryTimer(t))
    /\ WF_vars(PollTimer)

\* Time may stand still, so that no expiry comes to the rescue.
Spec == Init /\ [][Next]_vars /\ PageFairness
-----------------------------------------------------------------------------
(* Properties *)

\* Unless two starts were awaited at once, every event source and every expiry
\* timer that lives is the one the page's state names, so stopPolling stops it.
EverythingHeld ==
    doubled \/ /\ \A t \in Tickets : ui.sources[t].at # "closed" => ui.eventSource = t
               /\ ui.timers \subseteq {ui.expiryTimer}

Quiet ==
    /\ ~ ui.pollTimer /\ ui.timers = {} /\ Calling("poll") = {}
    /\ \A t \in Tickets : ui.sources[t].at = "closed"

\* Unless two starts were awaited at once, the page stops when its tickets'
\* time is up: it holds no stream and no timer and polls no more, whatever was
\* lost and however late an answer came.
Settles ==
    (\A t \in Tickets : []<>(status[t] = "none" \/ t \in due)) => <>[](doubled \/ Quiet)

Watched(t) ==
    ui.ticket = t /\ (ui.eventSource = t \/ ui.pollTimer \/ \E s \in Calling("poll") : calls[s].timer)

Leaving == Calling("delete") # {} \/ Calling("post") # {}

\* The ticket's time is up first, the user moves on, two starts were awaited at
\* once, or a poll of the previous ticket is under way: then that ticket's
\* expiry timer, or the late answer "gone", stops this one's stream.
Excused(t) ==
    \/ t \in due \/ ui.ticket # t \/ Leaving \/ doubled
    \/ \E s \in Calling("poll") : calls[s].ticket # t

\* The session's cookie, or the words that the login was denied.
Learnt(t) == IF status[t] = "approved" THEN cookie = t ELSE ui.text = "denied"

\* A page that watches a ticket learns the decision: approved, it receives the
\* session's cookie; denied, it shows so.  Only the late answer to a poll of
\* the focus handler may hide a denial again, so there the user has done nothing.
DecisionReachesPage ==
    \A t \in Tickets :
        (Watched(t) /\ (status[t] = "approved" \/ (status[t] = "denied" /\ acts = 0)))
            ~> (Learnt(t) \/ Excused(t))
=============================================================================
