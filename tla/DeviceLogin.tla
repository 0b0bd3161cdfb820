---------------------------- MODULE DeviceLogin ----------------------------
(***************************************************************************)
(* The device-login protocol of the gateway: the request handlers of       *)
(* app.py running concurrently against one memory or SQLite store.         *)
(*                                                                         *)
(* A handler runs in a worker thread and touches the store through a few   *)
(* calls; the store serialises each call (and each `with self.atomic()`    *)
(* section) under one lock, and the handler holds nothing in between.  An  *)
(* action here is one such call, so other handlers, the clock, the         *)
(* administrator and a restart come between the calls of a handler.        *)
(*                                                                         *)
(* A section reads the clock more than once.  The actions for sections     *)
(* with a recheck purge at `now' and recheck at an instant `later' that    *)
(* may have passed the expiry of what was read, and leave the clock there. *)
(***************************************************************************)
EXTENDS Naturals, FiniteSets

CONSTANTS
    TicketIds,          \* ids new_id("ticket") can return
    ChallengeIds,       \* ids new_id("challenge") can return
    SessionIds,         \* ids new_id("session") can return
    Wallets,            \* addresses that may sign
    Requests,           \* worker threads serving requests
    None,               \* Python's None; the absence of a row
    AllowedWallets,     \* settings.allowed_wallets, bootstrapped into the table
    WalletPolicy,       \* settings.wallet_policy
    Backend,            \* settings.store_backend
    Res,                \* clock ticks per second, the resolution of SQL rows
    TicketTTL,          \* settings.ticket_ttl_seconds, in ticks
    ChallengeTTL,       \* settings.challenge_ttl_seconds, in ticks
    SessionTTL,         \* settings.session_ttl_seconds, in ticks
    MaxPendingTickets,  \* settings.max_pending_tickets
    MaxTime             \* bound: the last instant of the clock

ASSUME PolicyAssumption == WalletPolicy \in {"open", "allowlist"}
ASSUME BackendAssumption == Backend \in {"memory", "sqlite"}
ASSUME AllowedAssumption == AllowedWallets \subseteq Wallets
ASSUME ClockAssumption ==
    /\ Res \in Nat \ {0}
    /\ TicketTTL \in Nat /\ ChallengeTTL \in Nat /\ SessionTTL \in Nat
    /\ MaxPendingTickets \in Nat /\ MaxTime \in Nat
ASSUME IdAssumption ==
    /\ TicketIds \cap ChallengeIds = {}
    /\ TicketIds \cap SessionIds = {}
    /\ ChallengeIds \cap SessionIds = {}
    /\ None \notin TicketIds \cup ChallengeIds \cup SessionIds \cup Wallets
ASSUME CapacityAssumption == IsFiniteSet(TicketIds)

VARIABLES
    tickets,     \* table tickets: TicketIds -> row or None
    challenges,  \* table challenges: ChallengeIds -> row or None
    sessions,    \* table sessions: SessionIds -> row or None
    wallets,     \* table wallets: Wallets -> "absent", "enabled", "disabled"
    audit,       \* rows of audit_log with event "device_login_approve"
    now,         \* the server's clock
    req,         \* Requests -> the local variables of the handler it runs
    issued,      \* ids drawn so far; secrets.token_urlsafe never repeats one
    told         \* <<ticket, session>> pairs some client got in an answer

tables == <<tickets, challenges, sessions>>
vars == <<tickets, challenges, sessions, wallets, audit, now, req, issued, told>>

----------------------------------------------------------------------------
(* Rows and local variables                                                *)

TicketRow ==
    [status: {"pending", "approved", "denied"}, expiresAt: Nat,
     challengeId: ChallengeIds \cup {None}, sessionId: SessionIds \cup {None}]

ChallengeRow == [ticketId: TicketIds, address: Wallets, expiresAt: Nat]

SessionRow == [address: Wallets, challengeId: ChallengeIds, expiresAt: Nat]

AuditRow ==
    [result: {"ok", "blocked"}, ticketId: TicketIds, address: Wallets,
     sessionId: SessionIds \cup {None}]

\* The statement of the handler a worker executes next; "idle" when it has
\* none.  "challenge" is the row the handler holds: the one it drafted
\* (create_challenge) or the one it read (approve_device_login).
Handler ==
    [pc: {"idle", "create", "replace", "getChallenge", "check", "deny",
          "verify", "grant", "getSession"},
     ticketId: TicketIds \cup {None}, challengeId: ChallengeIds \cup {None},
     challenge: ChallengeRow \cup {None}, signed: BOOLEAN,
     sessionId: SessionIds \cup {None}, expiresAt: Nat]

Idle ==
    [pc |-> "idle", ticketId |-> None, challengeId |-> None, challenge |-> None,
     signed |-> FALSE, sessionId |-> None, expiresAt |-> 0]

\* None is no row of a table.
ASSUME RowAssumption == None \notin TicketRow \cup ChallengeRow \cup SessionRow

At(r, pc) == req[r].pc = pc

\* Handlers that hold a drawn id no table has yet.
Creating(r, t) == At(r, "create") /\ req[r].ticketId = t
Drafting(r, c) == At(r, "replace") /\ req[r].challengeId = c
Granting(r, s) == At(r, "grant") /\ req[r].sessionId = s

----------------------------------------------------------------------------
(* The store                                                               *)

\* What a timestamp is after a round trip through the store: SQL rows keep
\* whole seconds, the memory store keeps the object.
Stored(t) == IF Backend = "memory" THEN t ELSE t - (t % Res)

\* Mutant: the purge forgets that approved tickets stay.
PurgedTicketsAnyStatus(t) ==
    [i \in TicketIds |->
        IF tickets[i] # None /\ tickets[i].expiresAt <= t THEN None ELSE tickets[i]]

\* The tables after purge_expired at instant t.
PurgedTickets(t) ==
    [i \in TicketIds |->
        IF tickets[i] # None /\ tickets[i].expiresAt <= t /\ tickets[i].status # "approved"
        THEN None ELSE tickets[i]]

PurgedChallenges(t) ==
    [i \in ChallengeIds |->
        IF challenges[i] # None /\ challenges[i].expiresAt <= t
        THEN None ELSE challenges[i]]

PurgedSessions(t) ==
    [i \in SessionIds |->
        IF sessions[i] # None /\ sessions[i].expiresAt <= t
        THEN None ELSE sessions[i]]

PurgeExpired ==
    /\ tickets' = PurgedTickets(now)
    /\ challenges' = PurgedChallenges(now)
    /\ sessions' = PurgedSessions(now)

Pending(table) == {i \in TicketIds : table[i] # None /\ table[i].status = "pending"}

WalletAllowed(w) == WalletPolicy = "open" \/ wallets[w] = "enabled"

\* bootstrap: insert the configured wallets that have no row.
Bootstrapped(table) ==
    [w \in Wallets |->
        IF w \in AllowedWallets /\ table[w] = "absent" THEN "enabled" ELSE table[w]]

\* Instants at which a section that began at `now' may recheck.
Later == {t \in {now, now + 1} : t <= MaxTime}

Return(r) == req' = [req EXCEPT ![r] = Idle]

\* An atomic section that raises: the store restores every table.
Rollback == UNCHANGED <<tables, wallets, audit, issued, told>>

\* A client names only ids that some answer has given it.
Known(ids) ==
    {i \in ids \cap issued : \A r \in Requests : ~ Creating(r, i) /\ ~ Drafting(r, i)}

----------------------------------------------------------------------------
Init ==
    /\ tickets = [i \in TicketIds |-> None]
    /\ challenges = [i \in ChallengeIds |-> None]
    /\ sessions = [i \in SessionIds |-> None]
    /\ wallets = Bootstrapped([w \in Wallets |-> "absent"])
    /\ audit = {}
    /\ now = 0
    /\ req = [r \in Requests |-> Idle]
    /\ issued = {}
    /\ told = {}

----------------------------------------------------------------------------
(* POST /api/auth/device-login                                             *)

\* The handler purges, draws the ticket id and computes the expiry.
CreateBegin(r, t) ==
    /\ At(r, "idle")
    /\ t \in TicketIds \ issued
    /\ PurgeExpired
    /\ issued' = issued \cup {t}
    /\ req' = [req EXCEPT ![r] =
                  [Idle EXCEPT !.pc = "create", !.ticketId = t,
                               !.expiresAt = now + TicketTTL]]
    /\ UNCHANGED <<wallets, audit, now, told>>

\* Mutant: the limit is compared off by one.
HasCapacityOffByOne(table) == Cardinality(Pending(table)) <= MaxPendingTickets

HasCapacity(table) == Cardinality(Pending(table)) < MaxPendingTickets

\* create_ticket_if_capacity: one section counts and inserts.  The purge of
\* the count is kept when the limit turns the ticket away.
CreateTicketIfCapacity(r) ==
    /\ At(r, "create")
    /\ LET purged == PurgedTickets(now) IN
       tickets' = IF HasCapacity(purged)
                  THEN [purged EXCEPT ![req[r].ticketId] =
                          [status |-> "pending", expiresAt |-> Stored(req[r].expiresAt),
                           challengeId |-> None, sessionId |-> None]]
                  ELSE purged
    /\ challenges' = PurgedChallenges(now)
    /\ sessions' = PurgedSessions(now)
    /\ Return(r)
    /\ UNCHANGED <<wallets, audit, now, issued, told>>

----------------------------------------------------------------------------
(* POST /api/auth/device-login/{ticket}/challenge                          *)

\* The handler finds the ticket pending and drafts a challenge for wallet w.
ChallengeBegin(r, t, w, c) ==
    /\ At(r, "idle")
    /\ t \in Known(TicketIds)
    /\ c \in ChallengeIds \ issued
    /\ t \in Pending(PurgedTickets(now))
    /\ PurgeExpired
    /\ issued' = issued \cup {c}
    /\ req' = [req EXCEPT ![r] =
                  [Idle EXCEPT !.pc = "replace", !.ticketId = t, !.challengeId = c,
                               !.challenge = [ticketId |-> t, address |-> w,
                                              expiresAt |-> now + ChallengeTTL]]]
    /\ UNCHANGED <<wallets, audit, now, told>>

\* Mutant: the ticket's status is not read again.
ReplaceableAnyStatus(r, later) ==
    LET ticket == PurgedTickets(now)[req[r].ticketId] IN
    /\ ticket # None
    /\ ticket.expiresAt > later
    /\ req[r].challenge.expiresAt > later

\* _pending_ticket and both expiry checks of replace_challenge.
Replaceable(r, later) ==
    LET ticket == PurgedTickets(now)[req[r].ticketId] IN
    /\ ticket # None
    /\ ticket.status = "pending"
    /\ ticket.expiresAt > later
    /\ req[r].challenge.expiresAt > later

\* The row of r's draft.
Drafted(r) == [req[r].challenge EXCEPT !.expiresAt = Stored(@)]

\* Mutant: the challenge the ticket had stays in the table.
ReplacedChallengesKeepOld(r) == [PurgedChallenges(now) EXCEPT ![req[r].challengeId] = Drafted(r)]

\* The challenge table once the ticket's challenge is the one r drafted.
ReplacedChallenges(r) ==
    LET old == PurgedTickets(now)[req[r].ticketId].challengeId IN
    [i \in ChallengeIds |->
        IF i = req[r].challengeId THEN Drafted(r)
        ELSE IF i = old THEN None ELSE PurgedChallenges(now)[i]]

\* Mutant: save_ticket binds challenge_id and session_id in the wrong order.
ReplacedTicketsSwapped(r) ==
    [PurgedTickets(now) EXCEPT ![req[r].ticketId].sessionId = req[r].challengeId]

ReplacedTickets(r) ==
    [PurgedTickets(now) EXCEPT ![req[r].ticketId].challengeId = req[r].challengeId]

ReplaceChallenge(r, later) ==
    /\ At(r, "replace")
    /\ Replaceable(r, later)
    /\ challenges' = ReplacedChallenges(r)
    /\ tickets' = ReplacedTickets(r)
    /\ sessions' = PurgedSessions(now)
    /\ now' = later
    /\ Return(r)
    /\ UNCHANGED <<wallets, audit, issued, told>>

\* Mutant: the challenge is deleted before the recheck and not restored.
ReplaceRefusedHalfDone(r, later) ==
    /\ At(r, "replace")
    /\ ~ Replaceable(r, later)
    /\ LET ticket == tickets[req[r].ticketId] IN
       challenges' = [i \in ChallengeIds |->
                         IF ticket # None /\ ticket.challengeId = i THEN None ELSE challenges[i]]
    /\ now' = later
    /\ Return(r)
    /\ UNCHANGED <<tickets, sessions, wallets, audit, issued, told>>

ReplaceRefused(r, later) ==
    /\ At(r, "replace")
    /\ ~ Replaceable(r, later)
    /\ Rollback
    /\ now' = later
    /\ Return(r)

----------------------------------------------------------------------------
(* POST /api/auth/device-login/{ticket}/approve                            *)

\* get_ticket: pending, and c is its challenge.  "signed" says whether the
\* request carries the wallet's signature over the message of c.
ApproveBegin(r, t, c, signed) ==
    /\ At(r, "idle")
    /\ t \in Known(TicketIds)
    /\ c \in Known(ChallengeIds)
    /\ t \in Pending(PurgedTickets(now))
    /\ tickets[t].challengeId = c
    /\ PurgeExpired
    /\ req' = [req EXCEPT ![r] =
                  [Idle EXCEPT !.pc = "getChallenge", !.ticketId = t,
                               !.challengeId = c, !.signed = signed]]
    /\ UNCHANGED <<wallets, audit, now, issued, told>>

ApproveGetChallenge(r) ==
    /\ At(r, "getChallenge")
    /\ PurgeExpired
    /\ LET row == PurgedChallenges(now)[req[r].challengeId] IN
       req' = [req EXCEPT ![r] = IF row = None THEN Idle
                                 ELSE [@ EXCEPT !.pc = "check", !.challenge = row]]
    /\ UNCHANGED <<wallets, audit, now, issued, told>>

\* The challenge ran out after it was read: delete it and answer 410.
ApproveExpired(r) ==
    /\ At(r, "check")
    /\ req[r].challenge.expiresAt <= now
    /\ challenges' = [challenges EXCEPT ![req[r].challengeId] = None]
    /\ Return(r)
    /\ UNCHANGED <<tickets, sessions, wallets, audit, now, issued, told>>

ApproveCheckWallet(r) ==
    /\ At(r, "check")
    /\ req[r].challenge.expiresAt > now
    /\ req' = [req EXCEPT ![r].pc =
                  IF WalletAllowed(req[r].challenge.address) THEN "verify" ELSE "deny"]
    /\ UNCHANGED <<tables, wallets, audit, now, issued, told>>

\* verify_signature fails: an audit row and an error answer.
ApproveBadSignature(r) ==
    /\ At(r, "verify")
    /\ ~ req[r].signed
    /\ audit' = audit \cup
          {[result |-> "blocked", ticketId |-> req[r].ticketId,
            address |-> req[r].challenge.address, sessionId |-> None]}
    /\ Return(r)
    /\ UNCHANGED <<tables, wallets, now, issued, told>>

\* verify_signature succeeds: the handler draws a session.
ApproveVerified(r, s) ==
    /\ At(r, "verify")
    /\ req[r].signed
    /\ s \in SessionIds \ issued
    /\ issued' = issued \cup {s}
    /\ req' = [req EXCEPT ![r] =
                  [@ EXCEPT !.pc = "grant", !.sessionId = s, !.expiresAt = now + SessionTTL]]
    /\ UNCHANGED <<tables, wallets, audit, now, told>>

----------------------------------------------------------------------------
(* finalize_approval, called with no session at "deny" and with one at     *)
(* "grant"                                                                 *)

\* The ticket read again: pending, with the challenge r read, not expired.
TicketCurrent(r, later) ==
    LET ticket == PurgedTickets(now)[req[r].ticketId] IN
    /\ ticket # None
    /\ ticket.status = "pending"
    /\ ticket.challengeId = req[r].challengeId
    /\ ticket.expiresAt > later

\* The challenge read again: the row r read, not expired.
ChallengeCurrent(r, later) ==
    LET current == PurgedChallenges(now)[req[r].challengeId] IN
    /\ current # None
    /\ current.expiresAt > later
    /\ current = req[r].challenge
    /\ current.ticketId = req[r].ticketId

\* Mutant: the section trusts what the handler read before it.
CurrentAsRead(r, later) ==
    /\ PurgedTickets(now)[req[r].ticketId] # None
    /\ req[r].challenge.expiresAt > later

Current(r, later) == TicketCurrent(r, later) /\ ChallengeCurrent(r, later)

\* Mutant: the refusal the handler decided on is not checked again.
StillRefusedAsRead(r) == At(r, "deny") \/ ~ WalletAllowed(req[r].challenge.address)

\* Mutant: the permission the handler read is not checked again.
StillRefusedNever(r) == FALSE

StillRefused(r) == ~ WalletAllowed(req[r].challenge.address)

FinalizeDeny(r, later) ==
    /\ req[r].pc \in {"deny", "grant"}
    /\ Current(r, later)
    /\ StillRefused(r)
    /\ tickets' = [PurgedTickets(now) EXCEPT ![req[r].ticketId].status = "denied"]
    /\ challenges' = [PurgedChallenges(now) EXCEPT ![req[r].challengeId] = None]
    /\ sessions' = PurgedSessions(now)
    /\ audit' = audit \cup
          {[result |-> "blocked", ticketId |-> req[r].ticketId,
            address |-> req[r].challenge.address, sessionId |-> None]}
    /\ now' = later
    /\ Return(r)
    /\ UNCHANGED <<wallets, issued, told>>

\* The wallet was allowed again in the meantime: go on to the signature.
FinalizeContinue(r, later) ==
    /\ At(r, "deny")
    /\ Current(r, later)
    /\ ~ StillRefused(r)
    /\ PurgeExpired
    /\ req' = [req EXCEPT ![r].pc = "verify"]
    /\ now' = later
    /\ UNCHANGED <<wallets, audit, issued, told>>

GrantAudited(r) ==
    {[result |-> "ok", ticketId |-> req[r].ticketId,
      address |-> req[r].challenge.address, sessionId |-> req[r].sessionId]}

FinalizeGrant(r, later) ==
    /\ At(r, "grant")
    /\ Current(r, later)
    /\ ~ StillRefused(r)
    /\ req[r].expiresAt > later
    /\ sessions' = [PurgedSessions(now) EXCEPT ![req[r].sessionId] =
                      [address |-> req[r].challenge.address,
                       challengeId |-> req[r].challengeId,
                       expiresAt |-> Stored(req[r].expiresAt)]]
    /\ tickets' = [PurgedTickets(now) EXCEPT ![req[r].ticketId].status = "approved",
                                             ![req[r].ticketId].sessionId = req[r].sessionId]
    /\ challenges' = [PurgedChallenges(now) EXCEPT ![req[r].challengeId] = None]
    /\ audit' = audit \cup GrantAudited(r)
    /\ told' = told \cup {<<req[r].ticketId, req[r].sessionId>>}
    /\ now' = later
    /\ Return(r)
    /\ UNCHANGED <<wallets, issued>>

FinalizeRefused(r, later) ==
    /\ req[r].pc \in {"deny", "grant"}
    /\ \/ ~ Current(r, later)
       \/ /\ At(r, "grant")
          /\ ~ StillRefused(r)
          /\ req[r].expiresAt <= later
    /\ Rollback
    /\ now' = later
    /\ Return(r)

----------------------------------------------------------------------------
(* GET /api/auth/device-login/{ticket}: the browser's poll                 *)

PollTicket(r, t) ==
    /\ At(r, "idle")
    /\ t \in Known(TicketIds)
    /\ tickets[t] # None
    /\ tickets[t].status = "approved"
    /\ PurgeExpired
    /\ req' = [req EXCEPT ![r] = [Idle EXCEPT !.pc = "getSession", !.ticketId = t,
                                              !.sessionId = tickets[t].sessionId]]
    /\ UNCHANGED <<wallets, audit, now, issued, told>>

\* get_session: the memory store purges and looks up, SQLite compares the
\* row's expiry with the clock.  The answer sets the cookie.
PollSession(r) ==
    /\ At(r, "getSession")
    /\ told' = IF PurgedSessions(now)[req[r].sessionId] # None
               THEN told \cup {<<req[r].ticketId, req[r].sessionId>>} ELSE told
    /\ IF Backend = "memory" THEN PurgeExpired ELSE UNCHANGED tables
    /\ Return(r)
    /\ UNCHANGED <<wallets, audit, now, issued>>

\* A handler that purges, reads and answers without writing: the scan page,
\* every refusal after get_ticket, a poll of a ticket that is not approved.
ReadTicket ==
    /\ PurgeExpired
    /\ UNCHANGED <<wallets, audit, now, req, issued, told>>

----------------------------------------------------------------------------
(* Sessions, the administrator, the clock and the process                  *)

\* DELETE /api/auth/sessions/current with the cookie some answer set.
Logout(s) ==
    /\ \E pair \in told : pair[2] = s
    /\ sessions' = [sessions EXCEPT ![s] = None]
    /\ UNCHANGED <<tickets, challenges, wallets, audit, now, req, issued, told>>

\* POST /api/admin/wallets
UpsertWallet(w, enabled) ==
    /\ wallets' = [wallets EXCEPT ![w] = IF enabled THEN "enabled" ELSE "disabled"]
    /\ UNCHANGED <<tables, audit, now, req, issued, told>>

\* PATCH /api/admin/wallets/{address}: only a wallet that has a row.
UpdateWallet(w, enabled) ==
    /\ wallets[w] # "absent"
    /\ UpsertWallet(w, enabled)

Tick ==
    /\ now < MaxTime
    /\ now' = now + 1
    /\ UNCHANGED <<tables, wallets, audit, req, issued, told>>

\* The process ends and create_app runs again: requests in flight are gone,
\* the SQLite file is not, and bootstrap runs.
Restart ==
    /\ req' = [r \in Requests |-> Idle]
    /\ IF Backend = "memory"
       THEN /\ tickets' = [i \in TicketIds |-> None]
            /\ challenges' = [i \in ChallengeIds |-> None]
            /\ sessions' = [i \in SessionIds |-> None]
            /\ wallets' = Bootstrapped([w \in Wallets |-> "absent"])
            /\ audit' = {}
       ELSE /\ wallets' = Bootstrapped(wallets)
            /\ UNCHANGED <<tables, audit>>
    /\ UNCHANGED <<now, issued, told>>

----------------------------------------------------------------------------
Create(r) == (\E t \in TicketIds : CreateBegin(r, t)) \/ CreateTicketIfCapacity(r)

Challenge(r) ==
    \/ \E t \in TicketIds, w \in Wallets, c \in ChallengeIds : ChallengeBegin(r, t, w, c)
    \/ \E later \in Later : ReplaceChallenge(r, later) \/ ReplaceRefused(r, later)

Approve(r) ==
    \/ \E t \in TicketIds, c \in ChallengeIds, signed \in BOOLEAN : ApproveBegin(r, t, c, signed)
    \/ ApproveGetChallenge(r)
    \/ ApproveExpired(r)
    \/ ApproveCheckWallet(r)
    \/ ApproveBadSignature(r)
    \/ \E s \in SessionIds : ApproveVerified(r, s)

Finalize(r) ==
    \E later \in Later :
        \/ FinalizeDeny(r, later)
        \/ FinalizeContinue(r, later)
        \/ FinalizeGrant(r, later)
        \/ FinalizeRefused(r, later)

Poll(r) == (\E t \in TicketIds : PollTicket(r, t)) \/ PollSession(r)

Environment ==
    \/ ReadTicket
    \/ \E s \in SessionIds : Logout(s)
    \/ \E w \in Wallets, enabled \in BOOLEAN : UpsertWallet(w, enabled) \/ UpdateWallet(w, enabled)
    \/ Tick
    \/ Restart

Next ==
    \/ \E r \in Requests : Create(r) \/ Challenge(r) \/ Approve(r) \/ Finalize(r) \/ Poll(r)
    \/ Environment

Spec == Init /\ [][Next]_vars

----------------------------------------------------------------------------
(* Properties                                                              *)

\* Every table, log, id pool and handler holds values of its type.
TypeOK ==
    /\ tickets \in [TicketIds -> TicketRow \cup {None}]
    /\ challenges \in [ChallengeIds -> ChallengeRow \cup {None}]
    /\ sessions \in [SessionIds -> SessionRow \cup {None}]
    /\ wallets \in [Wallets -> {"absent", "enabled", "disabled"}]
    /\ audit \subseteq AuditRow
    /\ now \in 0 .. MaxTime
    /\ req \in [Requests -> Handler]
    /\ issued \subseteq TicketIds \cup ChallengeIds \cup SessionIds
    /\ told \subseteq TicketIds \X SessionIds

\* The audit log's grants.
Grants == {row \in audit : row.result = "ok"}

\* A ticket is granted at most one session and a session comes from one
\* ticket, however many approvals of the ticket race each other: the second
\* finalize_approval finds the ticket no longer pending.
OneGrantPerTicket ==
    \A g, h \in Grants : g.ticketId = h.ticketId \/ g.sessionId = h.sessionId => g = h

\* Ticket, session and audit log never disagree about a grant, whichever
\* call of finalize_approval failed: a session in the table was granted to
\* the wallet it names, an approved ticket names the session granted to it,
\* and every grant in the log left its ticket approved.
GrantsAgree ==
    /\ \A s \in SessionIds : sessions[s] # None =>
          \E g \in Grants : g.sessionId = s /\ g.address = sessions[s].address
    /\ \A t \in TicketIds : tickets[t] # None /\ tickets[t].status = "approved" =>
          \E g \in Grants : g.ticketId = t /\ g.sessionId = tickets[t].sessionId
    /\ \A g \in Grants :
          /\ tickets[g.ticketId] # None
          /\ tickets[g.ticketId].status = "approved"

\* A challenge whose ticket exists is the one the ticket names, and the
\* ticket is pending: replacing, approving and denying leave no second
\* challenge that could still be signed.
LiveChallengeIsCurrent ==
    \A c \in ChallengeIds :
        challenges[c] # None /\ tickets[challenges[c].ticketId] # None =>
            /\ tickets[challenges[c].ticketId].status = "pending"
            /\ tickets[challenges[c].ticketId].challengeId = c

\* However many creations race, max_pending_tickets bounds the tickets that
\* can still be approved: the count and the insert are one section.
PendingCap == Cardinality(Pending(PurgedTickets(now))) <= MaxPendingTickets

\* What a client was told stays true: a session handed out for a ticket is in
\* the audit log as granted to it (until a restart, for the memory store),
\* and no two clients were given different sessions for one ticket.
ToldIsGranted ==
    /\ Backend = "sqlite" =>
          \A pair \in told : \E g \in Grants : g.ticketId = pair[1] /\ g.sessionId = pair[2]
    /\ \A p, q \in told : p[1] = q[1] => p[2] = q[2]

\* A ticket becomes approved only on the strength of what the store holds at
\* that moment, whatever the handler read earlier: its challenge is still
\* the current one and neither has expired, the challenge's wallet is still
\* allowed, and the challenge is used up in the same step.
GrantUsesCurrentState ==
    \A t \in TicketIds :
        tickets'[t] # None /\ tickets'[t].status = "approved" /\ tickets'[t] # tickets[t] =>
            /\ tickets[t] # None
            /\ tickets[t].status = "pending"
            /\ tickets[t].expiresAt > now'
            /\ tickets[t].challengeId # None
            /\ challenges[tickets[t].challengeId] # None
            /\ challenges[tickets[t].challengeId].expiresAt > now'
            /\ WalletAllowed(challenges[tickets[t].challengeId].address)
            /\ challenges'[tickets[t].challengeId] = None

GrantsUseCurrentState == [][GrantUsesCurrentState]_vars

\* No handler that is late undoes a decision: an approved ticket's row stays
\* as it is, and a denied one stays denied until it is purged.  Only a
\* restart of the memory store forgets.
DecisionKept ==
    \A t \in TicketIds :
        tickets[t] # None /\ tickets[t].status # "pending" =>
            \/ tickets'[t] = tickets[t]
            \/ tickets[t].status = "denied" /\ tickets[t].expiresAt <= now' /\ tickets'[t] = None
            \/ Backend = "memory" /\ (\A i \in TicketIds : tickets'[i] = None)

DecisionsKept == [][DecisionKept]_vars

\* A challenge that can still be signed disappears only because its ticket
\* got another one, was decided, or expired: a refused replacement or
\* approval leaves it usable (the deletion inside the section is undone).
ChallengeKept ==
    \A c \in ChallengeIds :
        challenges[c] # None /\ challenges[c].expiresAt > now' /\ challenges'[c] = None =>
            LET t == challenges[c].ticketId IN
            \/ tickets'[t] = None
            \/ tickets'[t].status # "pending"
            \/ tickets'[t].challengeId # c /\ challenges'[tickets'[t].challengeId] # None

ChallengesKept == [][ChallengeKept]_vars

----------------------------------------------------------------------------
(* What clients can observe of the tables, and that it implements          *)
(* LoginAuthority                                                          *)

\* An id that no create_ticket_if_capacity has decided on yet.
Unused(t) == t \in issued => \E r \in Requests : Creating(r, t)

\* An expired row and a purged one look the same: get_ticket purges first.
TicketState ==
    [t \in TicketIds |->
        IF tickets[t] = None THEN IF Unused(t) THEN "unused" ELSE "closed"
        ELSE IF tickets[t].status = "approved" THEN "approved"
        ELSE IF tickets[t].expiresAt <= now THEN "closed"
        ELSE IF tickets[t].status = "pending" THEN "open" ELSE "denied"]

GrantedSession ==
    [t \in TicketIds |-> IF tickets[t] = None THEN None ELSE tickets[t].sessionId]

\* get_session answers nothing for a session past its expiry.
SessionHolder ==
    [s \in SessionIds |->
        IF sessions[s] # None /\ sessions[s].expiresAt > now THEN sessions[s].address ELSE None]

\* Every drawn session id, except those a handler is about to grant.
SpentSessions ==
    {s \in SessionIds \cap issued : \A r \in Requests : ~ Granting(r, s)}

Authority ==
    INSTANCE LoginAuthority WITH
        Durable <- Backend = "sqlite",
        ticket <- TicketState,
        granted <- GrantedSession,
        holder <- SessionHolder,
        spent <- SpentSessions,
        permitted <- {w \in Wallets : WalletAllowed(w)}

\* The handlers and the store together keep the promise of LoginAuthority:
\* one decision per open ticket, grants only to wallets permitted at that
\* moment, capacity at every opening, sessions that end for good, and none
\* of it undone by a late handler or (SQLite) a restart.
ImplementsAuthority == Authority!Spec

----------------------------------------------------------------------------
(* The inductive invariant of the proofs                                   *)

\* What a handler holds when it reaches a statement.
HandlersHold ==
    \A r \in Requests :
        /\ ~ At(r, "idle") => req[r].ticketId \in TicketIds
        /\ req[r].pc \in {"replace", "getChallenge", "check", "deny", "verify", "grant"} =>
              req[r].challengeId \in ChallengeIds
        /\ req[r].pc \in {"replace", "check", "deny", "verify", "grant"} =>
              /\ req[r].challenge # None
              /\ At(r, "replace") => req[r].challenge.ticketId = req[r].ticketId
        /\ At(r, "grant") => req[r].sessionId \in SessionIds
        /\ At(r, "getSession") =>
              \E g \in Grants : g.ticketId = req[r].ticketId /\ g.sessionId = req[r].sessionId

\* An id in a table, the log or a handler has been drawn.
IdsAreIssued ==
    /\ \A r \in Requests :
          /\ At(r, "create") => req[r].ticketId \in issued
          /\ At(r, "replace") => req[r].challengeId \in issued
          /\ At(r, "grant") => req[r].sessionId \in issued
    /\ \A t \in TicketIds : tickets[t] # None =>
          t \in issued /\ tickets[t].challengeId \in issued \cup {None}
    /\ \A c \in ChallengeIds : challenges[c] # None =>
          c \in issued /\ challenges[c].ticketId \in issued
    /\ \A g \in Grants : g.sessionId \in SessionIds \cap issued
    /\ \A pair \in told : pair[1] \in issued

\* A drawn id belongs to one handler until that handler uses it: no other
\* handler, row, log entry or client has it.
DrawnIdsAreOwned ==
    \A r \in Requests :
        /\ \A t \in TicketIds : Creating(r, t) =>
              /\ tickets[t] = None
              /\ \A c \in ChallengeIds : challenges[c] # None => challenges[c].ticketId # t
              /\ \A pair \in told : pair[1] # t
              /\ \A q \in Requests : Creating(q, t) => q = r
        /\ \A c \in ChallengeIds : Drafting(r, c) =>
              /\ challenges[c] = None
              /\ \A t \in TicketIds : tickets[t] # None => tickets[t].challengeId # c
              /\ \A q \in Requests : Drafting(q, c) => q = r
        /\ \A s \in SessionIds : Granting(r, s) =>
              /\ \A g \in Grants : g.sessionId # s
              /\ \A q \in Requests : Granting(q, s) => q = r

\* Only an approval gives a ticket a session.
UndecidedHasNoSession ==
    \A t \in TicketIds :
        tickets[t] # None /\ tickets[t].status # "approved" => tickets[t].sessionId = None

\* A ticket some client got a session for is approved, with that session, or
\* was forgotten by the memory store.
ToldTicketsAreDecided ==
    \A pair \in told :
        /\ tickets[pair[1]] # None => tickets[pair[1]].status = "approved"
        /\ \A g \in Grants : g.ticketId = pair[1] => g.sessionId = pair[2]

\* Everything above at once; each part needs the others to be kept.
Inv ==
    /\ TypeOK
    /\ HandlersHold
    /\ IdsAreIssued
    /\ DrawnIdsAreOwned
    /\ UndecidedHasNoSession
    /\ OneGrantPerTicket
    /\ GrantsAgree
    /\ LiveChallengeIsCurrent
    /\ ToldTicketsAreDecided
    /\ ToldIsGranted

============================================================================
