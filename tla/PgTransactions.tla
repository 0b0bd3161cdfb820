--------------------------- MODULE PgTransactions ---------------------------
(***************************************************************************)
(* Several gateway processes on one PostgreSQL database.                   *)
(*                                                                         *)
(* A process has one connection and one lock around it, so it runs one     *)
(* transaction at a time; processes are kept apart only by row locks and   *)
(* the advisory lock of the capacity, all held until the transaction ends. *)
(* The tables are the committed rows.  A statement that may wait is an     *)
(* action of its own, and so is the commit, which applies what was         *)
(* written: no other transaction sees it before (READ COMMITTED).          *)
(*                                                                         *)
(* A stored expiry is a whole second, so comparing it with the clock or    *)
(* with the second of the clock is the same; a tick here is a second.      *)
(* Addresses are numbers: the code compares and sorts them.                *)
(***************************************************************************)
EXTENDS Naturals, FiniteSets

CONSTANTS
    Processes,          \* gateway processes
    TicketIds,          \* ids new_id("ticket") can return
    ChallengeIds,       \* ids new_id("challenge") can return
    SessionIds,         \* ids new_id("session") can return
    Wallets,            \* addresses
    None,               \* no row, no id
    Capacity,           \* the key of the advisory lock
    AllowedWallets,     \* settings.allowed_wallets
    WalletPolicy,       \* settings.wallet_policy
    TicketTTL, ChallengeTTL, SessionTTL,
    MaxPendingTickets,  \* settings.max_pending_tickets
    PurgeBatch,         \* rows one purge deletes from a table at most
    MaxTime             \* bound: the last instant of the clock

ASSUME PgPolicyAssumption == WalletPolicy \in {"open", "allowlist"}
ASSUME PgWalletAssumption ==
    Wallets \subseteq Nat /\ AllowedWallets \subseteq Wallets /\ IsFiniteSet(AllowedWallets)
ASSUME PgBoundsAssumption ==
    {TicketTTL, ChallengeTTL, SessionTTL, MaxPendingTickets, PurgeBatch, MaxTime} \subseteq Nat
ASSUME PgIdAssumption ==
    /\ IsFiniteSet(TicketIds)
    /\ TicketIds \cap (ChallengeIds \cup Wallets \cup {Capacity}) = {}
    /\ ChallengeIds \cap (Wallets \cup {Capacity}) = {}
    /\ Capacity \notin Wallets
    /\ None \notin TicketIds \cup ChallengeIds \cup SessionIds \cup Wallets
                       \cup {Capacity} \cup Processes

TicketRow ==
    [status: {"pending", "approved", "denied"}, expiresAt: Nat,
     challengeId: ChallengeIds \cup {None}, sessionId: SessionIds \cup {None}]
ChallengeRow == [ticketId: TicketIds, address: Wallets, expiresAt: Nat]
WalletRow == [enabled: BOOLEAN, createdAt: Nat]

\* None is no row of a table.
ASSUME PgRowAssumption == None \notin TicketRow \cup ChallengeRow \cup WalletRow

VARIABLES
    tickets, challenges, sessions, wallets,  \* committed rows
    grants,      \* committed audit rows of approvals
    locks,       \* Rows -> the process that holds the row's lock, or None
    now,         \* clock_timestamp()
    tx,          \* Processes -> the operation it runs, with its locals
    issued       \* ids drawn so far

tables == <<tickets, challenges, sessions, wallets, grants>>
vars == <<tables, locks, now, tx, issued>>

Rows == TicketIds \cup ChallengeIds \cup Wallets \cup {Capacity}

\* "pc" is the statement to come.  "ticket" is the row a locking select
\* returned, which save_ticket writes back whole; "challenge" is the row
\* drafted or read before; "at" the last clock reading kept.
Idle ==
    [pc |-> "idle", ticketId |-> None, challengeId |-> None, sessionId |-> None,
     expiresAt |-> 0, ticket |-> None, challenge |-> None, wallet |-> None,
     enabled |-> None, todo |-> {}, at |-> 0]

At(p, pc) == tx[p].pc = pc

----------------------------------------------------------------------------
(* Locks                                                                   *)

Existing(table, i) == IF table[i] = None THEN None ELSE i

\* Mutant: the transition reads its ticket without "for update".
TicketForUpdateUnlocked(p) == None

\* The row _ticket_for_update selects.
TicketForUpdate(p) == Existing(tickets, tx[p].ticketId)

\* Mutant: the capacity is not locked, as in the other stores.
LockCapacityNot(p) == None

\* pg_advisory_xact_lock(720072, 1)
LockCapacity(p) == Capacity

\* Mutant: bootstrap inserts the wallets in the order its set yields them,
\* which differs between processes.
NextWalletAnyOrder(p) ==
    CHOOSE w \in tx[p].todo :
        \A v \in tx[p].todo : IF p = CHOOSE q \in Processes : TRUE THEN w <= v ELSE v <= w

\* for address in sorted(settings.allowed_wallets)
NextWallet(p) == CHOOSE w \in tx[p].todo : \A v \in tx[p].todo : w <= v

\* Mutant: the challenge is locked before its ticket.
FinalizeRowReversed(p) ==
    IF At(p, "finalizeChallenge") THEN TicketForUpdate(p)
    ELSE Existing(challenges, tx[p].challengeId)

\* finalize_approval locks the ticket and then the challenge.
FinalizeRow(p) ==
    IF At(p, "finalizeTicket") THEN TicketForUpdate(p)
    ELSE Existing(challenges, tx[p].challengeId)

\* Mutant: get_wallet selects without "for update" inside the transaction.
PermissionRowUnlocked(p) == None

\* The row is_wallet_allowed locks; the open policy reads none.
PermissionRow(p) ==
    IF WalletPolicy = "allowlist" THEN Existing(wallets, tx[p].challenge.address) ELSE None

\* The row whose lock p's next statement needs, None if it needs none.  An
\* uncommitted insert holds the lock of a wallet that has no row yet: a
\* select sees no row and goes on, another insert waits.
Wanted(p) ==
    CASE At(p, "capacity") -> LockCapacity(p)
      [] At(p, "replaceTicket") -> TicketForUpdate(p)
      [] At(p, "replaceOld") /\ tx[p].ticket.challengeId # None ->
             Existing(challenges, tx[p].ticket.challengeId)
      [] At(p, "finalizeTicket") \/ At(p, "finalizeChallenge") -> FinalizeRow(p)
      [] At(p, "deleteExpired") -> Existing(challenges, tx[p].challengeId)
      [] At(p, "finalizeWallet") -> PermissionRow(p)
      [] At(p, "upsertLock") \/ At(p, "updateLock") -> Existing(wallets, tx[p].wallet)
      [] At(p, "upsertInsert") /\ wallets[tx[p].wallet] = None -> tx[p].wallet
      [] At(p, "bootstrap") /\ tx[p].todo # {} ->
             (IF wallets[NextWallet(p)] = None THEN NextWallet(p) ELSE None)
      [] OTHER -> None

NotBlocked(p) == Wanted(p) # None => locks[Wanted(p)] \in {None, p}

\* The statement returns and its transaction goes on at "pc".
Continue(p, local) ==
    /\ locks' = [i \in Rows |-> IF i = Wanted(p) THEN p ELSE locks[i]]
    /\ tx' = [tx EXCEPT ![p] = local]

\* Mutant: the locks of the transaction outlive it.
ReleaseNot(p) == UNCHANGED locks

Release(p) == locks' = [i \in Rows |-> IF locks[i] = p THEN None ELSE locks[i]]

Held(p) == {i \in Rows : locks[i] = p}

\* The transaction ends, committed or rolled back, and with it the handler.
End(p) == Release(p) /\ tx' = [tx EXCEPT ![p] = Idle]

----------------------------------------------------------------------------
Init ==
    /\ tickets = [i \in TicketIds |-> None]
    /\ challenges = [i \in ChallengeIds |-> None]
    /\ sessions = [i \in SessionIds |-> None]
    /\ wallets = [w \in Wallets |-> None]
    /\ grants = {}
    /\ locks = [i \in Rows |-> None]
    /\ now = 0
    /\ tx = [p \in Processes |-> Idle]
    /\ issued = {}

Expired(row, t) == row # None /\ row.expiresAt <= t
WalletAllowed(w) == WalletPolicy = "open" \/ (wallets[w] # None /\ wallets[w].enabled)

----------------------------------------------------------------------------
(* Create: purge in a transaction of its own, then count and insert under  *)
(* the advisory lock                                                       *)

\* The clock the purge reads.  The id is random, so it may as well be drawn
\* before the purge.
CreateBegin(p, t) ==
    /\ At(p, "idle")
    /\ t \in TicketIds \ issued
    /\ issued' = issued \cup {t}
    /\ tx' = [tx EXCEPT ![p] = [Idle EXCEPT !.pc = "purgeTickets", !.ticketId = t,
                                            !.at = now]]
    /\ UNCHANGED <<tables, locks, now>>

\* What "order by expires_at limit PurgeBatch" may select of these rows.
Batches(table, rows) ==
    {B \in SUBSET rows :
        /\ Cardinality(B) = PurgeBatch \/ (B = rows /\ Cardinality(B) < PurgeBatch)
        /\ \A i \in B, j \in rows \ B : table[i].expiresAt <= table[j].expiresAt}

\* "for update skip locked" evaluates the condition on the row it locks.
Purgeable(i, t) == Expired(tickets[i], t) /\ tickets[i].status # "approved" /\ locks[i] = None

PurgeTickets(p) ==
    /\ At(p, "purgeTickets")
    /\ \E batch \in Batches(tickets, {i \in TicketIds : Purgeable(i, tx[p].at)}) :
          locks' = [i \in Rows |-> IF i \in batch THEN p ELSE locks[i]]
    /\ tx' = [tx EXCEPT ![p].pc = "purgeChallenges"]
    /\ UNCHANGED <<tables, now, issued>>

PurgeChallenges(p) ==
    /\ At(p, "purgeChallenges")
    /\ LET rows == {i \in ChallengeIds : Expired(challenges[i], tx[p].at) /\ locks[i] = None} IN
       \E batch \in Batches(challenges, rows) :
          locks' = [i \in Rows |-> IF i \in batch THEN p ELSE locks[i]]
    /\ tx' = [tx EXCEPT ![p].pc = "purgeCommit"]
    /\ UNCHANGED <<tables, now, issued>>

\* Nothing but this delete and the logout's locks a session.
PurgeCommit(p) ==
    /\ At(p, "purgeCommit")
    /\ tickets' = [i \in TicketIds |-> IF i \in Held(p) THEN None ELSE tickets[i]]
    /\ challenges' = [i \in ChallengeIds |-> IF i \in Held(p) THEN None ELSE challenges[i]]
    /\ \E batch \in Batches(sessions, {i \in SessionIds : Expired(sessions[i], tx[p].at)}) :
          sessions' = [i \in SessionIds |-> IF i \in batch THEN None ELSE sessions[i]]
    /\ Release(p)
    /\ tx' = [tx EXCEPT ![p].pc = "capacity", ![p].expiresAt = now + TicketTTL]
    /\ UNCHANGED <<wallets, grants, now, issued>>

Pending == {i \in TicketIds : /\ tickets[i] # None
                              /\ tickets[i].status = "pending"
                              /\ tickets[i].expiresAt > now}

\* _lock_capacity and the count, which sees what was committed before it.
CountPending(p) ==
    /\ At(p, "capacity")
    /\ NotBlocked(p)
    /\ IF Cardinality(Pending) < MaxPendingTickets
       THEN Continue(p, [tx[p] EXCEPT !.pc = "createCommit"])
       ELSE End(p)
    /\ UNCHANGED <<tables, now, issued>>

CreateCommit(p) ==
    /\ At(p, "createCommit")
    /\ tickets' = [tickets EXCEPT ![tx[p].ticketId] =
                      [status |-> "pending", expiresAt |-> tx[p].expiresAt,
                       challengeId |-> None, sessionId |-> None]]
    /\ End(p)
    /\ UNCHANGED <<challenges, sessions, wallets, grants, now, issued>>

----------------------------------------------------------------------------
(* Challenge                                                               *)

ChallengeBegin(p, t, w, c) ==
    /\ At(p, "idle")
    /\ t \in Pending
    /\ c \in ChallengeIds \ issued
    /\ issued' = issued \cup {c}
    /\ tx' = [tx EXCEPT ![p] =
                 [Idle EXCEPT !.pc = "replaceTicket", !.ticketId = t, !.challengeId = c,
                              !.challenge = [ticketId |-> t, address |-> w,
                                             expiresAt |-> now + ChallengeTTL]]]
    /\ UNCHANGED <<tables, locks, now>>

\* select ... for update of _pending_ticket, and the clock read after it.
ReplaceLockTicket(p) ==
    /\ At(p, "replaceTicket")
    /\ NotBlocked(p)
    /\ IF tx[p].ticketId \in Pending /\ tx[p].challenge.expiresAt > now
       THEN Continue(p, [tx[p] EXCEPT !.pc = "replaceOld", !.ticket = tickets[tx[p].ticketId]])
       ELSE End(p)
    /\ UNCHANGED <<tables, now, issued>>

\* The delete of the ticket's challenge, and the recheck after its wait.
ReplaceDeleteOld(p) ==
    /\ At(p, "replaceOld")
    /\ NotBlocked(p)
    /\ IF tx[p].ticket.expiresAt > now /\ tx[p].challenge.expiresAt > now
       THEN Continue(p, [tx[p] EXCEPT !.pc = "replaceCommit"])
       ELSE End(p)
    /\ UNCHANGED <<tables, now, issued>>

\* Mutant: the challenge the ticket had stays.
ReplaceCommitKeepOld(p) ==
    /\ At(p, "replaceCommit")
    /\ challenges' = [challenges EXCEPT ![tx[p].challengeId] = tx[p].challenge]
    /\ tickets' = [tickets EXCEPT ![tx[p].ticketId] =
                      [tx[p].ticket EXCEPT !.challengeId = tx[p].challengeId]]
    /\ End(p)
    /\ UNCHANGED <<sessions, wallets, grants, now, issued>>

ReplaceCommit(p) ==
    /\ At(p, "replaceCommit")
    /\ challenges' = [c \in ChallengeIds |->
                         IF c = tx[p].challengeId THEN tx[p].challenge
                         ELSE IF c = tx[p].ticket.challengeId THEN None ELSE challenges[c]]
    /\ tickets' = [tickets EXCEPT ![tx[p].ticketId] =
                      [tx[p].ticket EXCEPT !.challengeId = tx[p].challengeId]]
    /\ End(p)
    /\ UNCHANGED <<sessions, wallets, grants, now, issued>>

----------------------------------------------------------------------------
(* Approve: three plain reads, the signature, finalize_approval            *)

ApproveBegin(p, t, c) ==
    /\ At(p, "idle")
    /\ t \in Pending
    /\ tickets[t].challengeId = c
    /\ tx' = [tx EXCEPT ![p] =
                 [Idle EXCEPT !.pc = "readChallenge", !.ticketId = t, !.challengeId = c]]
    /\ UNCHANGED <<tables, locks, now, issued>>

ApproveReadChallenge(p) ==
    /\ At(p, "readChallenge")
    /\ LET row == challenges[tx[p].challengeId] IN
       IF row = None \/ Expired(row, now)
       THEN tx' = [tx EXCEPT ![p] = Idle]
       ELSE tx' = [tx EXCEPT ![p].pc = "readWallet", ![p].challenge = row]
    /\ UNCHANGED <<tables, locks, now, issued>>

\* It ran out after it was read: delete_challenge, a transaction of one
\* statement that may wait, and 410.
ApproveExpired(p) ==
    /\ At(p, "readWallet")
    /\ tx[p].challenge.expiresAt <= now
    /\ tx' = [tx EXCEPT ![p].pc = "deleteExpired"]
    /\ UNCHANGED <<tables, locks, now, issued>>

DeleteExpired(p) ==
    /\ At(p, "deleteExpired")
    /\ NotBlocked(p)
    /\ challenges' = [challenges EXCEPT ![tx[p].challengeId] = None]
    /\ End(p)
    /\ UNCHANGED <<tickets, sessions, wallets, grants, now, issued>>

\* A wallet refused here goes to finalize_approval without a session.
ApproveReadWallet(p) ==
    /\ At(p, "readWallet")
    /\ tx[p].challenge.expiresAt > now
    /\ tx' = [tx EXCEPT ![p].pc =
                 IF WalletAllowed(tx[p].challenge.address) THEN "verify" ELSE "finalizeTicket"]
    /\ UNCHANGED <<tables, locks, now, issued>>

ApproveBadSignature(p) ==
    /\ At(p, "verify")
    /\ tx' = [tx EXCEPT ![p] = Idle]
    /\ UNCHANGED <<tables, locks, now, issued>>

ApproveVerified(p, s) ==
    /\ At(p, "verify")
    /\ s \in SessionIds \ issued
    /\ issued' = issued \cup {s}
    /\ tx' = [tx EXCEPT ![p].pc = "finalizeTicket", ![p].sessionId = s,
                        ![p].expiresAt = now + SessionTTL]
    /\ UNCHANGED <<tables, locks, now>>

FinalizeLockTicket(p) ==
    /\ At(p, "finalizeTicket")
    /\ NotBlocked(p)
    /\ IF tx[p].ticketId \in Pending /\ tickets[tx[p].ticketId].challengeId = tx[p].challengeId
       THEN Continue(p, [tx[p] EXCEPT !.pc = "finalizeChallenge", !.at = now,
                                      !.ticket = tickets[tx[p].ticketId]])
       ELSE End(p)
    /\ UNCHANGED <<tables, now, issued>>

FinalizeLockChallenge(p) ==
    /\ At(p, "finalizeChallenge")
    /\ NotBlocked(p)
    /\ IF challenges[tx[p].challengeId] = tx[p].challenge
       THEN Continue(p, [tx[p] EXCEPT !.pc = "finalizeWallet"])
       ELSE End(p)
    /\ UNCHANGED <<tables, now, issued>>

\* Mutant: the clock read before the lock waits is used again.
DecisionTimeStale(p) == tx[p].at

\* "Read the database clock after ticket, challenge AND wallet lock waits."
DecisionTime(p) == now

\* is_wallet_allowed under the wallet's lock, the rechecks and the decision.
\* Allowed without a session: commit nothing, the handler goes on to verify.
FinalizeLockWallet(p) ==
    /\ At(p, "finalizeWallet")
    /\ NotBlocked(p)
    /\ LET t == DecisionTime(p)
           current == tx[p].challenge.expiresAt > t /\ tx[p].ticket.expiresAt > t
           allowed == WalletAllowed(tx[p].challenge.address)
       IN IF ~ current THEN End(p)
          ELSE IF ~ allowed THEN Continue(p, [tx[p] EXCEPT !.pc = "denyCommit"])
          ELSE IF tx[p].sessionId = None
               THEN Release(p) /\ tx' = [tx EXCEPT ![p].pc = "verify", ![p].ticket = None]
          ELSE IF tx[p].expiresAt > t THEN Continue(p, [tx[p] EXCEPT !.pc = "grantCommit"])
          ELSE End(p)
    /\ UNCHANGED <<tables, now, issued>>

DenyCommit(p) ==
    /\ At(p, "denyCommit")
    /\ tickets' = [tickets EXCEPT ![tx[p].ticketId] = [tx[p].ticket EXCEPT !.status = "denied"]]
    /\ challenges' = [challenges EXCEPT ![tx[p].challengeId] = None]
    /\ End(p)
    /\ UNCHANGED <<sessions, wallets, grants, now, issued>>

GrantCommit(p) ==
    /\ At(p, "grantCommit")
    /\ sessions' = [sessions EXCEPT ![tx[p].sessionId] =
                       [address |-> tx[p].challenge.address, expiresAt |-> tx[p].expiresAt]]
    /\ tickets' = [tickets EXCEPT ![tx[p].ticketId] =
                      [tx[p].ticket EXCEPT !.status = "approved", !.sessionId = tx[p].sessionId]]
    /\ challenges' = [challenges EXCEPT ![tx[p].challengeId] = None]
    /\ grants' = grants \cup {[ticketId |-> tx[p].ticketId, sessionId |-> tx[p].sessionId]}
    /\ End(p)
    /\ UNCHANGED <<wallets, now, issued>>

----------------------------------------------------------------------------
(* The administrator and bootstrap                                         *)

UpsertBegin(p, w, enabled) ==
    /\ At(p, "idle")
    /\ tx' = [tx EXCEPT ![p] = [Idle EXCEPT !.pc = "upsertLock", !.wallet = w,
                                            !.enabled = enabled, !.at = now]]
    /\ UNCHANGED <<tables, locks, now, issued>>

\* PATCH: enabled is None when the request leaves it alone.
UpdateBegin(p, w, enabled) ==
    /\ At(p, "idle")
    /\ tx' = [tx EXCEPT ![p] = [Idle EXCEPT !.pc = "updateLock", !.wallet = w, !.enabled = enabled]]
    /\ UNCHANGED <<tables, locks, now, issued>>

\* get_wallet for update; also after a conflict, when the row is there for
\* good (nothing deletes a wallet).
UpsertLock(p) ==
    /\ At(p, "upsertLock")
    /\ NotBlocked(p)
    /\ Continue(p, [tx[p] EXCEPT !.pc =
                       IF wallets[tx[p].wallet] = None THEN "upsertInsert" ELSE "walletCommit"])
    /\ UNCHANGED <<tables, now, issued>>

\* insert ... on conflict do nothing: waits for an insert in progress.
UpsertInsert(p) ==
    /\ At(p, "upsertInsert")
    /\ NotBlocked(p)
    /\ Continue(p, [tx[p] EXCEPT !.pc =
                       IF wallets[tx[p].wallet] = None THEN "insertCommit" ELSE "upsertLock"])
    /\ UNCHANGED <<tables, now, issued>>

InsertCommit(p) ==
    /\ At(p, "insertCommit")
    /\ wallets' = [wallets EXCEPT ![tx[p].wallet] =
                      [enabled |-> tx[p].enabled, createdAt |-> tx[p].at]]
    /\ End(p)
    /\ UNCHANGED <<tickets, challenges, sessions, grants, now, issued>>

UpdateLock(p) ==
    /\ At(p, "updateLock")
    /\ NotBlocked(p)
    /\ IF wallets[tx[p].wallet] = None THEN End(p)
       ELSE Continue(p, [tx[p] EXCEPT !.pc = "walletCommit"])
    /\ UNCHANGED <<tables, now, issued>>

WalletCommit(p) ==
    /\ At(p, "walletCommit")
    /\ wallets' = [wallets EXCEPT ![tx[p].wallet].enabled =
                      IF tx[p].enabled = None THEN @ ELSE tx[p].enabled]
    /\ End(p)
    /\ UNCHANGED <<tickets, challenges, sessions, grants, now, issued>>

BootstrapBegin(p) ==
    /\ At(p, "idle")
    /\ tx' = [tx EXCEPT ![p] = [Idle EXCEPT !.pc = "bootstrap", !.todo = AllowedWallets,
                                            !.at = now]]
    /\ UNCHANGED <<tables, locks, now, issued>>

BootstrapInsert(p) ==
    /\ At(p, "bootstrap")
    /\ tx[p].todo # {}
    /\ NotBlocked(p)
    /\ Continue(p, [tx[p] EXCEPT !.todo = @ \ {NextWallet(p)}])
    /\ UNCHANGED <<tables, now, issued>>

\* Mutant: on conflict do update.
BootstrapCommitOverwrite(p) ==
    /\ At(p, "bootstrap")
    /\ tx[p].todo = {}
    /\ wallets' = [w \in Wallets |->
                      IF w \in AllowedWallets THEN [enabled |-> TRUE, createdAt |-> tx[p].at]
                      ELSE wallets[w]]
    /\ End(p)
    /\ UNCHANGED <<tickets, challenges, sessions, grants, now, issued>>

BootstrapCommit(p) ==
    /\ At(p, "bootstrap")
    /\ tx[p].todo = {}
    /\ wallets' = [w \in Wallets |->
                      IF w \in Held(p) THEN [enabled |-> TRUE, createdAt |-> tx[p].at]
                      ELSE wallets[w]]
    /\ End(p)
    /\ UNCHANGED <<tickets, challenges, sessions, grants, now, issued>>

----------------------------------------------------------------------------
\* DELETE /api/auth/sessions/current
Logout(s) ==
    /\ sessions[s] # None
    /\ sessions' = [sessions EXCEPT ![s] = None]
    /\ UNCHANGED <<tickets, challenges, wallets, grants, locks, now, tx, issued>>

\* The connection or the process is lost, or a statement fails: the
\* database rolls back and the operation is not tried again.
Abort(p) ==
    /\ ~ At(p, "idle")
    /\ End(p)
    /\ UNCHANGED <<tables, now, issued>>

Tick ==
    /\ now < MaxTime
    /\ now' = now + 1
    /\ UNCHANGED <<tables, locks, tx, issued>>

Begin(p) ==
    \/ \E t \in TicketIds : CreateBegin(p, t)
    \/ \E t \in TicketIds, w \in Wallets, c \in ChallengeIds : ChallengeBegin(p, t, w, c)
    \/ \E t \in TicketIds, c \in ChallengeIds : ApproveBegin(p, t, c)
    \/ \E w \in Wallets, enabled \in BOOLEAN : UpsertBegin(p, w, enabled)
    \/ \E w \in Wallets, enabled \in BOOLEAN \cup {None} : UpdateBegin(p, w, enabled)
    \/ BootstrapBegin(p)

Step(p) ==
    \/ PurgeTickets(p) \/ PurgeChallenges(p) \/ PurgeCommit(p)
    \/ CountPending(p) \/ CreateCommit(p)
    \/ ReplaceLockTicket(p) \/ ReplaceDeleteOld(p) \/ ReplaceCommit(p)
    \/ ApproveReadChallenge(p) \/ ApproveExpired(p) \/ DeleteExpired(p) \/ ApproveReadWallet(p)
    \/ ApproveBadSignature(p) \/ \E s \in SessionIds : ApproveVerified(p, s)
    \/ FinalizeLockTicket(p) \/ FinalizeLockChallenge(p) \/ FinalizeLockWallet(p)
    \/ DenyCommit(p) \/ GrantCommit(p)
    \/ UpsertLock(p) \/ UpsertInsert(p) \/ InsertCommit(p) \/ UpdateLock(p) \/ WalletCommit(p)
    \/ BootstrapInsert(p) \/ BootstrapCommit(p)

Next ==
    \/ \E p \in Processes : Begin(p) \/ Step(p) \/ Abort(p)
    \/ \E s \in SessionIds : Logout(s)
    \/ Tick

\* PostgreSQL queues the waiters of a lock, so a statement whose lock comes
\* free again and again gets it.
Fairness == \A p \in Processes : SF_vars(Step(p))

SafetySpec == Init /\ [][Next]_vars

Spec == SafetySpec /\ Fairness

----------------------------------------------------------------------------
(* Properties                                                              *)

\* Two processes never both approve a ticket, and no process that read the
\* ticket earlier writes its old row over an approval (save_ticket writes
\* the whole row) or purges it: every grant is the session its ticket names.
GrantsLast ==
    \A g \in grants :
        /\ tickets[g.ticketId] # None
        /\ tickets[g.ticketId].status = "approved"
        /\ tickets[g.ticketId].sessionId = g.sessionId

\* Replacing, approving and denying in several processes leave a ticket no
\* second challenge that could be signed.
LiveChallengeIsCurrent ==
    \A c \in ChallengeIds :
        challenges[c] # None /\ tickets[challenges[c].ticketId] # None =>
            /\ tickets[challenges[c].ticketId].status = "pending"
            /\ tickets[challenges[c].ticketId].challengeId = c

\* The advisory lock makes count and insert of all processes one section.
PendingCap == Cardinality(Pending) <= MaxPendingTickets

WaitsFor(p, q) == p # q /\ Wanted(p) # None /\ locks[Wanted(p)] = q

\* "Other runtime transitions lock only their ticket, challenge and wallet
\* rows, in that order": no set of transactions waits on itself.
NoWaitCycle ==
    \A S \in (SUBSET Processes) \ {{}} : \E p \in S : \A q \in S : ~ WaitsFor(p, q)

\* A grant commits only while the ticket is pending with that challenge in
\* the table and the wallet is enabled: a revocation that committed first is
\* always seen, in whichever process it was made.
GrantUsesCurrentState ==
    \A t \in TicketIds :
        tickets'[t] # None /\ tickets'[t].status = "approved" /\ tickets'[t] # tickets[t] =>
            /\ tickets[t] # None
            /\ tickets[t].status = "pending"
            /\ tickets[t].challengeId # None
            /\ challenges[tickets[t].challengeId] # None
            /\ WalletAllowed(challenges[tickets[t].challengeId].address)

GrantsUseCurrentState == [][GrantUsesCurrentState]_vars

\* However long finalize_approval waited for its locks, it decides to grant
\* only what has not run out when the last of them is held.
DecidesInTime ==
    \A p \in Processes :
        tx'[p].pc = "grantCommit" /\ tx[p].pc # "grantCommit" =>
            /\ tx[p].ticket.expiresAt > now
            /\ tx[p].challenge.expiresAt > now
            /\ tx[p].expiresAt > now

DecisionsInTime == [][DecidesInTime]_vars

\* A wallet's creation time and permission survive concurrent upserts, a
\* PATCH of something else and every bootstrap: only a request that says so
\* enables or disables it.
WalletKept ==
    \A w \in Wallets :
        wallets[w] # None =>
            /\ wallets'[w] # None
            /\ wallets'[w].createdAt = wallets[w].createdAt
            /\ wallets'[w].enabled # wallets[w].enabled =>
                  \E p \in Processes :
                      /\ At(p, "walletCommit")
                      /\ tx[p].wallet = w
                      /\ tx[p].enabled = wallets'[w].enabled
                      /\ tx'[p].pc = "idle"

WalletsKept == [][WalletKept]_vars

\* No operation waits forever for the locks of others.
OperationsEnd == \A p \in Processes : ~ At(p, "idle") ~> At(p, "idle")

=============================================================================
