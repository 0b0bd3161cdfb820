------------------------- MODULE DeviceLoginProofs -------------------------
(***************************************************************************)
(* Proofs about DeviceLogin for every number of tickets, challenges,       *)
(* sessions, wallets and workers, both stores and both wallet policies:    *)
(* the inductive invariant and what follows from it, and that DeviceLogin  *)
(* implements LoginAuthority.                                              *)
(***************************************************************************)
EXTENDS DeviceLogin, FiniteSetTheorems, TLAPS

(* Facts about the helpers                                                 *)

\* A timestamp that went through the store is a timestamp.
LEMMA StoredType == \A t \in Nat : Stored(t) \in Nat
BY ClockAssumption, SMT DEF Stored

\* Purging keeps the types of the tables and only removes rows, of tickets
\* only those without an approval.
LEMMA PurgeShrinks ==
    ASSUME TypeOK, NEW at \in Nat
    PROVE  /\ PurgedTickets(at) \in [TicketIds -> TicketRow \cup {None}]
           /\ PurgedChallenges(at) \in [ChallengeIds -> ChallengeRow \cup {None}]
           /\ PurgedSessions(at) \in [SessionIds -> SessionRow \cup {None}]
           /\ \A t \in TicketIds :
                 /\ PurgedTickets(at)[t] \in {tickets[t], None}
                 /\ tickets[t] # None /\ tickets[t].status = "approved" =>
                       PurgedTickets(at)[t] = tickets[t]
           /\ \A c \in ChallengeIds : PurgedChallenges(at)[c] \in {challenges[c], None}
           /\ \A s \in SessionIds : PurgedSessions(at)[s] \in {sessions[s], None}
BY DEF TypeOK, PurgedTickets, PurgedChallenges, PurgedSessions

LEMMA IdleType == Idle \in Handler
BY DEF Idle, Handler

----------------------------------------------------------------------------
(* Types                                                                   *)

LEMMA InitType == Init => TypeOK
BY AllowedAssumption, ClockAssumption, IdleType DEF Init, TypeOK, Bootstrapped

LEMMA NextType == Inv /\ [Next]_vars => TypeOK'
<1> SUFFICES ASSUME Inv, [Next]_vars PROVE TypeOK'
    OBVIOUS
<1> USE ClockAssumption, IdleType
<1>t. TypeOK /\ HandlersHold
    BY DEF Inv
<1>n. now \in Nat /\ now \in 0 .. MaxTime
    BY <1>t DEF TypeOK
<1>p. /\ PurgedTickets(now) \in [TicketIds -> TicketRow \cup {None}]
      /\ PurgedChallenges(now) \in [ChallengeIds -> ChallengeRow \cup {None}]
      /\ PurgedSessions(now) \in [SessionIds -> SessionRow \cup {None}]
    BY <1>t, <1>n, PurgeShrinks
<1>l. ASSUME NEW later \in Later PROVE later \in 0 .. MaxTime
    BY <1>n DEF Later
<1>1. ASSUME NEW r \in Requests, NEW t \in TicketIds, CreateBegin(r, t) PROVE TypeOK'
    <2>1. now + TicketTTL \in Nat
        BY <1>n
    <2>2. [Idle EXCEPT !.pc = "create", !.ticketId = t, !.expiresAt = now + TicketTTL] \in Handler
        BY <2>1 DEF Idle, Handler
    <2> QED
        BY <1>t, <1>p, <1>1, <2>2 DEF TypeOK, CreateBegin, PurgeExpired
<1>2. ASSUME NEW r \in Requests, CreateTicketIfCapacity(r) PROVE TypeOK'
    <2>1. req[r].expiresAt \in Nat /\ req[r].ticketId \in TicketIds
        BY <1>t, <1>2 DEF TypeOK, Handler, HandlersHold, At, CreateTicketIfCapacity
    <2>2. [status |-> "pending", expiresAt |-> Stored(req[r].expiresAt),
           challengeId |-> None, sessionId |-> None] \in TicketRow
        BY <2>1, StoredType DEF TicketRow
    <2> QED
        BY <1>t, <1>p, <1>2, <2>1, <2>2 DEF TypeOK, CreateTicketIfCapacity, Return
<1>3. ASSUME NEW r \in Requests, NEW t \in TicketIds, NEW w \in Wallets, NEW c \in ChallengeIds,
             ChallengeBegin(r, t, w, c)
      PROVE  TypeOK'
    <2>1. [ticketId |-> t, address |-> w, expiresAt |-> now + ChallengeTTL] \in ChallengeRow
        BY <1>n DEF ChallengeRow
    <2> QED
        BY <1>t, <1>n, <1>p, <1>3, <2>1 DEF TypeOK, ChallengeBegin, PurgeExpired, Idle, Handler
<1>4. ASSUME NEW r \in Requests, NEW later \in Later, ReplaceChallenge(r, later) PROVE TypeOK'
    <2>1. /\ req[r].ticketId \in TicketIds
          /\ req[r].challengeId \in ChallengeIds
          /\ req[r].challenge \in ChallengeRow
          /\ PurgedTickets(now)[req[r].ticketId] \in TicketRow
        BY <1>t, <1>p, <1>4 DEF TypeOK, Handler, HandlersHold, At, ReplaceChallenge, Replaceable
    <2>2. Drafted(r) \in ChallengeRow
        BY <2>1, StoredType DEF Drafted, ChallengeRow
    <2>3. ReplacedChallenges(r) \in [ChallengeIds -> ChallengeRow \cup {None}]
        BY <1>p, <2>1, <2>2 DEF ReplacedChallenges
    <2>4. ReplacedTickets(r) \in [TicketIds -> TicketRow \cup {None}]
        BY <1>p, <2>1 DEF ReplacedTickets, TicketRow
    <2> QED
        BY <1>t, <1>p, <1>l, <1>4, <2>3, <2>4 DEF TypeOK, ReplaceChallenge, Return
<1>5. ASSUME NEW r \in Requests, NEW later \in Later, ReplaceRefused(r, later) PROVE TypeOK'
    BY <1>t, <1>l, <1>5 DEF TypeOK, ReplaceRefused, Rollback, tables, Return
<1>6. ASSUME NEW r \in Requests, NEW t \in TicketIds, NEW c \in ChallengeIds,
             NEW signed \in BOOLEAN, ApproveBegin(r, t, c, signed)
      PROVE  TypeOK'
    BY <1>t, <1>p, <1>6 DEF TypeOK, ApproveBegin, PurgeExpired, Idle, Handler
<1>7. ASSUME NEW r \in Requests, ApproveGetChallenge(r) PROVE TypeOK'
    <2>1. PurgedChallenges(now)[req[r].challengeId] \in ChallengeRow \cup {None}
        BY <1>t, <1>p, <1>7 DEF TypeOK, Handler, HandlersHold, At, ApproveGetChallenge
    <2> QED
        BY <1>t, <1>p, <1>7, <2>1 DEF TypeOK, ApproveGetChallenge, PurgeExpired, Handler
<1>8. ASSUME NEW r \in Requests, ApproveExpired(r) PROVE TypeOK'
    BY <1>t, <1>8 DEF TypeOK, ApproveExpired, Return
<1>9. ASSUME NEW r \in Requests, ApproveCheckWallet(r) PROVE TypeOK'
    BY <1>t, <1>9 DEF TypeOK, ApproveCheckWallet, tables, Handler
<1>10. ASSUME NEW r \in Requests, ApproveBadSignature(r) PROVE TypeOK'
    <2>1. /\ req[r].ticketId \in TicketIds
          /\ req[r].challenge \in ChallengeRow
        BY <1>t, <1>10 DEF TypeOK, Handler, HandlersHold, At, ApproveBadSignature
    <2>2. [result |-> "blocked", ticketId |-> req[r].ticketId,
           address |-> req[r].challenge.address, sessionId |-> None] \in AuditRow
        BY <2>1 DEF AuditRow, ChallengeRow
    <2> QED
        BY <1>t, <1>10, <2>2 DEF TypeOK, ApproveBadSignature, tables, Return
<1>11. ASSUME NEW r \in Requests, NEW s \in SessionIds, ApproveVerified(r, s) PROVE TypeOK'
    <2>1. now + SessionTTL \in Nat
        BY <1>n
    <2>2. [req[r] EXCEPT !.pc = "grant", !.sessionId = s, !.expiresAt = now + SessionTTL] \in Handler
        BY <1>t, <2>1 DEF TypeOK, Handler
    <2> QED
        BY <1>t, <1>11, <2>2 DEF TypeOK, ApproveVerified, tables
<1>12. ASSUME NEW r \in Requests, NEW later \in Later, FinalizeDeny(r, later) PROVE TypeOK'
    <2>1. /\ req[r].ticketId \in TicketIds
          /\ req[r].challengeId \in ChallengeIds
          /\ req[r].challenge \in ChallengeRow
          /\ PurgedTickets(now)[req[r].ticketId] \in TicketRow
        BY <1>t, <1>p, <1>12
        DEF TypeOK, Handler, HandlersHold, At, FinalizeDeny, Current, TicketCurrent
    <2>2. [result |-> "blocked", ticketId |-> req[r].ticketId,
           address |-> req[r].challenge.address, sessionId |-> None] \in AuditRow
        BY <2>1 DEF AuditRow, ChallengeRow
    <2>3. tickets' \in [TicketIds -> TicketRow \cup {None}]
        BY <1>p, <1>12, <2>1 DEF FinalizeDeny, TicketRow
    <2> QED
        BY <1>t, <1>p, <1>l, <1>12, <2>1, <2>2, <2>3 DEF TypeOK, FinalizeDeny, Return
<1>13. ASSUME NEW r \in Requests, NEW later \in Later, FinalizeContinue(r, later) PROVE TypeOK'
    BY <1>t, <1>p, <1>l, <1>13 DEF TypeOK, FinalizeContinue, PurgeExpired, Handler
<1>14. ASSUME NEW r \in Requests, NEW later \in Later, FinalizeGrant(r, later) PROVE TypeOK'
    <2>1. /\ req[r].ticketId \in TicketIds
          /\ req[r].challengeId \in ChallengeIds
          /\ req[r].sessionId \in SessionIds
          /\ req[r].expiresAt \in Nat
          /\ req[r].challenge \in ChallengeRow
          /\ PurgedTickets(now)[req[r].ticketId] \in TicketRow
        BY <1>t, <1>p, <1>14
        DEF TypeOK, Handler, HandlersHold, At, FinalizeGrant, Current, TicketCurrent
    <2>2. GrantAudited(r) \subseteq AuditRow
        BY <2>1 DEF AuditRow, ChallengeRow, GrantAudited
    <2>3. tickets' \in [TicketIds -> TicketRow \cup {None}]
        BY <1>p, <1>14, <2>1 DEF FinalizeGrant, TicketRow
    <2>4. [address |-> req[r].challenge.address, challengeId |-> req[r].challengeId,
           expiresAt |-> Stored(req[r].expiresAt)] \in SessionRow
        BY <2>1, StoredType DEF SessionRow, ChallengeRow
    <2> QED
        BY <1>t, <1>p, <1>l, <1>14, <2>1, <2>2, <2>3, <2>4 DEF TypeOK, FinalizeGrant, Return
<1>15. ASSUME NEW r \in Requests, NEW later \in Later, FinalizeRefused(r, later) PROVE TypeOK'
    BY <1>t, <1>l, <1>15 DEF TypeOK, FinalizeRefused, Rollback, tables, Return
<1>16. ASSUME NEW r \in Requests, NEW t \in TicketIds, PollTicket(r, t) PROVE TypeOK'
    <2>1. tickets[t].sessionId \in SessionIds \cup {None}
        BY <1>t, <1>16 DEF TypeOK, PollTicket, TicketRow
    <2> QED
        BY <1>t, <1>p, <1>16, <2>1 DEF TypeOK, PollTicket, PurgeExpired, Idle, Handler
<1>17. ASSUME NEW r \in Requests, PollSession(r) PROVE TypeOK'
    <2>1. <<req[r].ticketId, req[r].sessionId>> \in TicketIds \X SessionIds
        BY <1>t, <1>17 DEF Inv, HandlersHold, IdsAreIssued, At, PollSession
    <2> QED
        BY <1>t, <1>p, <1>17, <2>1 DEF TypeOK, PollSession, PurgeExpired, tables, Return
<1>18. CASE ReadTicket
    BY <1>t, <1>p, <1>18 DEF TypeOK, ReadTicket, PurgeExpired
<1>19. ASSUME NEW s \in SessionIds, Logout(s) PROVE TypeOK'
    BY <1>t, <1>19 DEF TypeOK, Logout
<1>20. ASSUME NEW w \in Wallets, NEW enabled \in BOOLEAN, UpsertWallet(w, enabled) PROVE TypeOK'
    BY <1>t, <1>20 DEF TypeOK, UpsertWallet, tables
<1>21. CASE Tick
    BY <1>t, <1>n, <1>21 DEF TypeOK, Tick, tables
<1>22. CASE Restart
    BY <1>t, <1>22, AllowedAssumption DEF TypeOK, Restart, Bootstrapped, tables
<1>23. CASE UNCHANGED vars
    BY <1>t, <1>23 DEF TypeOK, vars
<1> QED
    BY <1>1, <1>2, <1>3, <1>4, <1>5, <1>6, <1>7, <1>8, <1>9, <1>10, <1>11, <1>12, <1>13,
       <1>14, <1>15, <1>16, <1>17, <1>18, <1>19, <1>20, <1>21, <1>22, <1>23
    DEF Next, Create, Challenge, Approve, Finalize, Poll, Environment, UpdateWallet

----------------------------------------------------------------------------
(* What a step does to the tables.  Most steps only remove rows; the       *)
(* proofs about the tables treat those as one case.                        *)

\* Tables lose rows, of tickets none that is approved, and nothing is granted.
Shrinks ==
    /\ \A t \in TicketIds :
          /\ tickets'[t] \in {tickets[t], None}
          /\ tickets[t] # None /\ tickets[t].status = "approved" => tickets'[t] = tickets[t]
    /\ \A c \in ChallengeIds : challenges'[c] \in {challenges[c], None}
    /\ \A s \in SessionIds : sessions'[s] \in {sessions[s], None}
    /\ Grants' = Grants

\* The memory store starts again with nothing.
Forgets ==
    /\ Backend = "memory"
    /\ \A t \in TicketIds : tickets'[t] = None
    /\ \A c \in ChallengeIds : challenges'[c] = None
    /\ \A s \in SessionIds : sessions'[s] = None
    /\ Grants' = {}
    /\ \A r \in Requests : req'[r] = Idle
    /\ issued' = issued /\ told' = told

LEMMA StepsShrink ==
    ASSUME TypeOK, [Next]_vars
    PROVE  \/ Shrinks
           \/ Restart
           \/ \E r \in Requests :
                 \/ CreateTicketIfCapacity(r)
                 \/ \E later \in Later :
                       ReplaceChallenge(r, later) \/ FinalizeDeny(r, later) \/ FinalizeGrant(r, later)
<1>n. now \in Nat
    BY DEF TypeOK
<1>p. PurgeExpired /\ Grants' = Grants => Shrinks
    BY <1>n, PurgeShrinks DEF PurgeExpired, Shrinks
<1>u. UNCHANGED tables /\ Grants' = Grants => Shrinks
    BY DEF tables, Shrinks
<1>1. ASSUME NEW r \in Requests, Create(r) PROVE Shrinks \/ CreateTicketIfCapacity(r)
    BY <1>p, <1>1 DEF Create, CreateBegin, Grants
<1>2. ASSUME NEW r \in Requests, Challenge(r)
      PROVE  Shrinks \/ \E later \in Later : ReplaceChallenge(r, later)
    BY <1>p, <1>u, <1>2 DEF Challenge, ChallengeBegin, ReplaceRefused, Rollback, Grants
<1>3. ASSUME NEW r \in Requests, Approve(r) PROVE Shrinks
    <2>1. CASE ApproveExpired(r)
        BY <2>1 DEF TypeOK, ApproveExpired, Shrinks, Grants
    <2>2. CASE ApproveBadSignature(r)
        <3>1. Grants' = Grants
            BY <2>2 DEF ApproveBadSignature, Grants
        <3> QED
            BY <1>u, <2>2, <3>1 DEF ApproveBadSignature
    <2> QED
        BY <1>p, <1>u, <1>3, <2>1, <2>2
        DEF Approve, ApproveBegin, ApproveGetChallenge, ApproveCheckWallet, ApproveVerified, Grants
<1>4. ASSUME NEW r \in Requests, Finalize(r)
      PROVE  \/ Shrinks
             \/ \E later \in Later : FinalizeDeny(r, later) \/ FinalizeGrant(r, later)
    BY <1>p, <1>u, <1>4 DEF Finalize, FinalizeContinue, FinalizeRefused, Rollback, Grants
<1>5. ASSUME NEW r \in Requests, Poll(r) PROVE Shrinks
    BY <1>p, <1>u, <1>5 DEF Poll, PollTicket, PollSession, Grants
<1>6. CASE Environment
    <2>1. ASSUME NEW s \in SessionIds, Logout(s) PROVE Shrinks
        BY <2>1 DEF TypeOK, Logout, Shrinks, Grants
    <2> QED
        BY <1>p, <1>u, <1>6, <2>1
        DEF Environment, ReadTicket, UpsertWallet, UpdateWallet, Tick, Grants
<1>7. CASE UNCHANGED vars
    BY <1>u, <1>7 DEF vars, tables, Grants
<1> QED
    BY <1>1, <1>2, <1>3, <1>4, <1>5, <1>6, <1>7 DEF Next

LEMMA StepKinds ==
    ASSUME TypeOK, [Next]_vars
    PROVE  \/ Shrinks
           \/ Forgets
           \/ \E r \in Requests :
                 \/ CreateTicketIfCapacity(r)
                 \/ \E later \in Later :
                       ReplaceChallenge(r, later) \/ FinalizeDeny(r, later) \/ FinalizeGrant(r, later)
<1>1. Restart => Shrinks \/ Forgets
    BY DEF Restart, Shrinks, Forgets, Grants, tables
<1> QED
    BY <1>1, StepsShrink

\* The four writers, row by row.

LEMMA CreateWrites ==
    ASSUME TypeOK, HandlersHold, NEW r \in Requests, CreateTicketIfCapacity(r)
    PROVE  /\ req[r].ticketId \in TicketIds
           /\ \/ /\ tickets'[req[r].ticketId] # None
                 /\ tickets'[req[r].ticketId].status = "pending"
                 /\ tickets'[req[r].ticketId].challengeId = None
                 /\ tickets'[req[r].ticketId].sessionId = None
              \/ tickets'[req[r].ticketId] \in {tickets[req[r].ticketId], None}
           /\ \A t \in TicketIds \ {req[r].ticketId} : tickets'[t] \in {tickets[t], None}
           /\ \A t \in TicketIds : tickets[t] # None /\ tickets[t].status = "approved" =>
                 t = req[r].ticketId \/ tickets'[t] = tickets[t]
           /\ \A c \in ChallengeIds : challenges'[c] \in {challenges[c], None}
           /\ \A s \in SessionIds : sessions'[s] \in {sessions[s], None}
           /\ Grants' = Grants
<1>1. req[r].ticketId \in TicketIds /\ req[r].expiresAt \in Nat /\ now \in Nat
    BY DEF TypeOK, Handler, HandlersHold, At, CreateTicketIfCapacity
<1> DEFINE row == [status |-> "pending", expiresAt |-> Stored(req[r].expiresAt),
                   challengeId |-> None, sessionId |-> None]
<1>2. row \in TicketRow
    BY <1>1, StoredType DEF TicketRow
<1>3. row # None
    BY <1>2, RowAssumption
<1>4. Grants' = Grants
    BY DEF CreateTicketIfCapacity, Grants
<1> QED
    BY <1>1, <1>3, <1>4, PurgeShrinks DEF CreateTicketIfCapacity

LEMMA ReplaceWrites ==
    ASSUME TypeOK, HandlersHold, NEW r \in Requests, NEW later \in Later, ReplaceChallenge(r, later)
    PROVE  LET t == req[r].ticketId
               c == req[r].challengeId IN
           /\ t \in TicketIds /\ c \in ChallengeIds
           /\ tickets[t] # None /\ tickets[t].status = "pending"
           /\ tickets'[t] = [tickets[t] EXCEPT !.challengeId = c]
           /\ tickets'[t] # None /\ tickets'[t].status = "pending"
           /\ tickets'[t].challengeId = c /\ tickets'[t].sessionId = tickets[t].sessionId
           /\ \A u \in TicketIds \ {t} :
                 /\ tickets'[u] \in {tickets[u], None}
                 /\ tickets[u] # None /\ tickets[u].status = "approved" => tickets'[u] = tickets[u]
           /\ challenges'[c] # None /\ challenges'[c].ticketId = t
           /\ \A d \in ChallengeIds \ {c} :
                 /\ challenges'[d] \in {challenges[d], None}
                 /\ d = tickets[t].challengeId => challenges'[d] = None
           /\ \A s \in SessionIds : sessions'[s] \in {sessions[s], None}
           /\ Grants' = Grants
<1> DEFINE t == req[r].ticketId
           c == req[r].challengeId
<1>1. /\ t \in TicketIds /\ c \in ChallengeIds /\ now \in Nat
      /\ req[r].challenge \in ChallengeRow /\ req[r].challenge.ticketId = t
    BY DEF TypeOK, Handler, HandlersHold, At, ReplaceChallenge
<1>2. /\ PurgedTickets(now)[t] = tickets[t]
      /\ tickets[t] \in TicketRow /\ tickets[t] # None /\ tickets[t].status = "pending"
    BY <1>1, PurgeShrinks DEF TypeOK, ReplaceChallenge, Replaceable
<1>3. Drafted(r) \in ChallengeRow /\ Drafted(r).ticketId = t
    BY <1>1, StoredType DEF Drafted, ChallengeRow
<1>4. tickets'[t] = [tickets[t] EXCEPT !.challengeId = c] /\ tickets'[t] \in TicketRow
    BY <1>1, <1>2, PurgeShrinks DEF ReplaceChallenge, ReplacedTickets, TicketRow
<1>5. \A u \in TicketIds \ {t} : tickets'[u] = PurgedTickets(now)[u]
    BY <1>1, PurgeShrinks DEF ReplaceChallenge, ReplacedTickets
<1>6. challenges'[c] = Drafted(r)
    BY <1>1 DEF ReplaceChallenge, ReplacedChallenges
<1>7. \A d \in ChallengeIds \ {c} :
          challenges'[d] = IF d = tickets[t].challengeId THEN None ELSE PurgedChallenges(now)[d]
    BY <1>1, <1>2 DEF ReplaceChallenge, ReplacedChallenges
<1>8. Grants' = Grants /\ sessions' = PurgedSessions(now)
    BY DEF ReplaceChallenge, Grants
<1>9. None \notin TicketRow /\ None \notin ChallengeRow
    BY RowAssumption
<1> HIDE DEF t, c
<1>10. tickets'[t] # None /\ challenges'[c] # None /\ challenges'[c].ticketId = t
    BY <1>3, <1>4, <1>6, <1>9
<1>11. /\ tickets'[t].status = "pending" /\ tickets'[t].challengeId = c
       /\ tickets'[t].sessionId = tickets[t].sessionId
    BY <1>2, <1>4 DEF TicketRow
<1> QED
    BY <1>1, <1>2, <1>4, <1>5, <1>7, <1>8, <1>10, <1>11, PurgeShrinks DEF t, c

LEMMA DenyWrites ==
    ASSUME TypeOK, HandlersHold, NEW r \in Requests, NEW later \in Later, FinalizeDeny(r, later)
    PROVE  LET t == req[r].ticketId
               c == req[r].challengeId IN
           /\ t \in TicketIds /\ c \in ChallengeIds
           /\ tickets[t] # None /\ tickets[t].status = "pending" /\ tickets[t].challengeId = c
           /\ tickets'[t] = [tickets[t] EXCEPT !.status = "denied"]
           /\ tickets'[t] # None /\ tickets'[t].status = "denied"
           /\ tickets'[t].challengeId = c /\ tickets'[t].sessionId = tickets[t].sessionId
           /\ \A u \in TicketIds \ {t} :
                 /\ tickets'[u] \in {tickets[u], None}
                 /\ tickets[u] # None /\ tickets[u].status = "approved" => tickets'[u] = tickets[u]
           /\ challenges'[c] = None
           /\ \A d \in ChallengeIds : challenges'[d] \in {challenges[d], None}
           /\ \A s \in SessionIds : sessions'[s] \in {sessions[s], None}
           /\ Grants' = Grants
<1> DEFINE t == req[r].ticketId
           c == req[r].challengeId
<1>1. t \in TicketIds /\ c \in ChallengeIds /\ now \in Nat
    BY DEF TypeOK, Handler, HandlersHold, At, FinalizeDeny
<1>2. /\ PurgedTickets(now)[t] = tickets[t] /\ tickets[t] \in TicketRow /\ tickets[t] # None
      /\ tickets[t].status = "pending" /\ tickets[t].challengeId = c
    BY <1>1, PurgeShrinks DEF TypeOK, FinalizeDeny, Current, TicketCurrent
<1>3. tickets'[t] = [tickets[t] EXCEPT !.status = "denied"] /\ tickets'[t] \in TicketRow
    BY <1>1, <1>2, PurgeShrinks DEF FinalizeDeny, TicketRow
<1>4. \A u \in TicketIds \ {t} : tickets'[u] = PurgedTickets(now)[u]
    BY <1>1, PurgeShrinks DEF FinalizeDeny
<1>5. challenges' = [PurgedChallenges(now) EXCEPT ![c] = None] /\ sessions' = PurgedSessions(now)
    BY DEF FinalizeDeny
<1>6. Grants' = Grants
    BY DEF FinalizeDeny, Grants
<1>7. tickets'[t] # None
    BY <1>3, RowAssumption
<1>8. /\ tickets'[t].status = "denied" /\ tickets'[t].challengeId = c
      /\ tickets'[t].sessionId = tickets[t].sessionId
    BY <1>2, <1>3 DEF TicketRow
<1> HIDE DEF t, c
<1> QED
    BY <1>1, <1>2, <1>3, <1>4, <1>5, <1>6, <1>7, <1>8, PurgeShrinks DEF t, c

LEMMA GrantWrites ==
    ASSUME TypeOK, HandlersHold, NEW r \in Requests, NEW later \in Later, FinalizeGrant(r, later)
    PROVE  LET t == req[r].ticketId
               c == req[r].challengeId
               s == req[r].sessionId
               g == [result |-> "ok", ticketId |-> t,
                     address |-> req[r].challenge.address, sessionId |-> s] IN
           /\ t \in TicketIds /\ c \in ChallengeIds /\ s \in SessionIds
           /\ tickets[t] # None /\ tickets[t].status = "pending" /\ tickets[t].challengeId = c
           /\ tickets'[t] = [tickets[t] EXCEPT !.status = "approved", !.sessionId = s]
           /\ tickets'[t] # None /\ tickets'[t].status = "approved" /\ tickets'[t].sessionId = s
           /\ tickets'[t].challengeId = c
           /\ \A u \in TicketIds \ {t} :
                 /\ tickets'[u] \in {tickets[u], None}
                 /\ tickets[u] # None /\ tickets[u].status = "approved" => tickets'[u] = tickets[u]
           /\ challenges'[c] = None
           /\ \A d \in ChallengeIds : challenges'[d] \in {challenges[d], None}
           /\ sessions'[s].address = req[r].challenge.address
           /\ \A x \in SessionIds \ {s} : sessions'[x] \in {sessions[x], None}
           /\ Grants' = Grants \cup {g}
<1> DEFINE t == req[r].ticketId
           c == req[r].challengeId
           s == req[r].sessionId
<1>1. t \in TicketIds /\ c \in ChallengeIds /\ s \in SessionIds /\ now \in Nat
    BY DEF TypeOK, Handler, HandlersHold, At, FinalizeGrant
<1>2. /\ PurgedTickets(now)[t] = tickets[t] /\ tickets[t] \in TicketRow /\ tickets[t] # None
      /\ tickets[t].status = "pending" /\ tickets[t].challengeId = c
    BY <1>1, PurgeShrinks DEF TypeOK, FinalizeGrant, Current, TicketCurrent
<1>3. /\ tickets'[t] = [tickets[t] EXCEPT !.status = "approved", !.sessionId = s]
      /\ tickets'[t] \in TicketRow
    BY <1>1, <1>2, PurgeShrinks DEF FinalizeGrant, TicketRow
<1>4. tickets'[t].status = "approved" /\ tickets'[t].sessionId = s /\ tickets'[t].challengeId = c
    BY <1>2, <1>3 DEF TicketRow
<1>5. \A u \in TicketIds \ {t} : tickets'[u] = PurgedTickets(now)[u]
    BY <1>1, PurgeShrinks DEF FinalizeGrant
<1>6. challenges' = [PurgedChallenges(now) EXCEPT ![c] = None]
    BY DEF FinalizeGrant
<1>7. /\ sessions'[s].address = req[r].challenge.address
      /\ \A x \in SessionIds \ {s} : sessions'[x] = PurgedSessions(now)[x]
    BY <1>1, PurgeShrinks DEF FinalizeGrant
<1>8. Grants' = Grants \cup GrantAudited(r)
    BY DEF FinalizeGrant, Grants, GrantAudited
<1>9. tickets'[t] # None
    BY <1>3, RowAssumption
<1> HIDE DEF t, c, s
<1> QED
    BY <1>1, <1>2, <1>3, <1>4, <1>5, <1>6, <1>7, <1>8, <1>9, PurgeShrinks DEF t, c, s, GrantAudited

----------------------------------------------------------------------------
(* The parts of Inv about the tables and the audit log                     *)

LEMMA UndecidedKept == ASSUME Inv, [Next]_vars PROVE UndecidedHasNoSession'
<1>t. TypeOK /\ HandlersHold /\ UndecidedHasNoSession /\ tickets \in [TicketIds -> TicketRow \cup {None}]
    BY DEF Inv, TypeOK
<1>1. CASE Shrinks
    BY <1>t, <1>1 DEF UndecidedHasNoSession, Shrinks
<1>2. CASE Forgets
    BY <1>2 DEF UndecidedHasNoSession, Forgets
<1>3. ASSUME NEW r \in Requests, CreateTicketIfCapacity(r) PROVE UndecidedHasNoSession'
    BY <1>t, <1>3, CreateWrites DEF UndecidedHasNoSession
<1>4. ASSUME NEW r \in Requests, NEW later \in Later, ReplaceChallenge(r, later)
      PROVE  UndecidedHasNoSession'
    BY <1>t, <1>4, ReplaceWrites DEF UndecidedHasNoSession
<1>5. ASSUME NEW r \in Requests, NEW later \in Later, FinalizeDeny(r, later)
      PROVE  UndecidedHasNoSession'
    BY <1>t, <1>5, DenyWrites DEF UndecidedHasNoSession
<1>6. ASSUME NEW r \in Requests, NEW later \in Later, FinalizeGrant(r, later)
      PROVE  UndecidedHasNoSession'
    BY <1>t, <1>6, GrantWrites DEF UndecidedHasNoSession
<1> QED
    BY <1>t, <1>1, <1>2, <1>3, <1>4, <1>5, <1>6, StepKinds

LEMMA OneGrantKept == ASSUME Inv, [Next]_vars PROVE OneGrantPerTicket'
<1>t. TypeOK /\ HandlersHold /\ OneGrantPerTicket /\ GrantsAgree /\ DrawnIdsAreOwned
    BY DEF Inv
<1>1. CASE Grants' = Grants
    BY <1>t, <1>1 DEF OneGrantPerTicket
<1>2. CASE Forgets
    BY <1>2 DEF OneGrantPerTicket, Forgets
<1>3. ASSUME NEW r \in Requests, NEW later \in Later, FinalizeGrant(r, later) PROVE OneGrantPerTicket'
    <2> DEFINE g == [result |-> "ok", ticketId |-> req[r].ticketId,
                     address |-> req[r].challenge.address, sessionId |-> req[r].sessionId]
    <2>1. Grants' = Grants \cup {g} /\ tickets[req[r].ticketId].status = "pending"
        BY <1>t, <1>3, GrantWrites
    <2>2. \A h \in Grants : h.ticketId # g.ticketId
        BY <1>t, <2>1 DEF GrantsAgree
    <2>3. Granting(r, g.sessionId) /\ g.sessionId \in SessionIds
        BY <1>t, <1>3, GrantWrites DEF FinalizeGrant, Granting
    <2>4. \A h \in Grants : h.sessionId # g.sessionId
        BY <1>t, <2>3 DEF DrawnIdsAreOwned
    <2> HIDE DEF g
    <2> QED
        BY <1>t, <2>1, <2>2, <2>4 DEF OneGrantPerTicket
<1> QED
    BY <1>t, <1>1, <1>2, <1>3, StepKinds, CreateWrites, ReplaceWrites, DenyWrites DEF Shrinks

LEMMA GrantsAgreeKept == ASSUME Inv, [Next]_vars PROVE GrantsAgree'
<1>t. /\ TypeOK /\ HandlersHold /\ GrantsAgree /\ DrawnIdsAreOwned
      /\ tickets \in [TicketIds -> TicketRow \cup {None}]
      /\ audit \subseteq AuditRow
    BY DEF Inv, TypeOK
<1>g. \A g \in Grants : g.ticketId \in TicketIds
    BY <1>t DEF Grants, AuditRow
<1>1. CASE Shrinks
    BY <1>t, <1>g, <1>1 DEF GrantsAgree, Shrinks
<1>2. CASE Forgets
    BY <1>2 DEF GrantsAgree, Forgets
<1>3. ASSUME NEW r \in Requests, CreateTicketIfCapacity(r) PROVE GrantsAgree'
    <2>1. tickets[req[r].ticketId] = None
        BY <1>t, <1>3, CreateWrites DEF DrawnIdsAreOwned, Creating, CreateTicketIfCapacity
    <2> QED
        BY <1>t, <1>g, <1>3, <2>1, CreateWrites DEF GrantsAgree
<1>4. ASSUME NEW r \in Requests, NEW later \in Later, ReplaceChallenge(r, later) PROVE GrantsAgree'
    <2> DEFINE t == req[r].ticketId
    <2>1. /\ t \in TicketIds /\ tickets[t].status = "pending" /\ tickets'[t].status = "pending"
          /\ \A u \in TicketIds \ {t} :
                /\ tickets'[u] \in {tickets[u], None}
                /\ tickets[u] # None /\ tickets[u].status = "approved" => tickets'[u] = tickets[u]
          /\ \A s \in SessionIds : sessions'[s] \in {sessions[s], None}
          /\ Grants' = Grants
        BY <1>t, <1>4, ReplaceWrites
    <2> HIDE DEF t
    <2> QED
        BY <1>t, <1>g, <2>1 DEF GrantsAgree
<1>5. ASSUME NEW r \in Requests, NEW later \in Later, FinalizeDeny(r, later) PROVE GrantsAgree'
    <2> DEFINE t == req[r].ticketId
    <2>1. /\ t \in TicketIds /\ tickets[t].status = "pending" /\ tickets'[t].status = "denied"
          /\ \A u \in TicketIds \ {t} :
                /\ tickets'[u] \in {tickets[u], None}
                /\ tickets[u] # None /\ tickets[u].status = "approved" => tickets'[u] = tickets[u]
          /\ \A s \in SessionIds : sessions'[s] \in {sessions[s], None}
          /\ Grants' = Grants
        BY <1>t, <1>5, DenyWrites
    <2> HIDE DEF t
    <2> QED
        BY <1>t, <1>g, <2>1 DEF GrantsAgree
<1>6. ASSUME NEW r \in Requests, NEW later \in Later, FinalizeGrant(r, later) PROVE GrantsAgree'
    <2> DEFINE t == req[r].ticketId
               s == req[r].sessionId
               g == [result |-> "ok", ticketId |-> t,
                     address |-> req[r].challenge.address, sessionId |-> s]
    <2>1. /\ t \in TicketIds /\ s \in SessionIds /\ tickets[t].status = "pending"
          /\ tickets'[t] # None /\ tickets'[t].status = "approved" /\ tickets'[t].sessionId = s
          /\ \A u \in TicketIds \ {t} :
                /\ tickets'[u] \in {tickets[u], None}
                /\ tickets[u] # None /\ tickets[u].status = "approved" => tickets'[u] = tickets[u]
          /\ sessions'[s].address = req[r].challenge.address
          /\ \A x \in SessionIds \ {s} : sessions'[x] \in {sessions[x], None}
          /\ Grants' = Grants \cup {g}
        BY <1>t, <1>6, GrantWrites
    <2>2. g.ticketId = t /\ g.sessionId = s /\ g.address = req[r].challenge.address
        OBVIOUS
    <2> HIDE DEF t, s, g
    <2>3. \A x \in SessionIds : sessions'[x] # None =>
              \E h \in Grants' : h.sessionId = x /\ h.address = sessions'[x].address
        BY <1>t, <2>1, <2>2 DEF GrantsAgree
    <2>4. \A u \in TicketIds : tickets'[u] # None /\ tickets'[u].status = "approved" =>
              \E h \in Grants' : h.ticketId = u /\ h.sessionId = tickets'[u].sessionId
        BY <1>t, <2>1, <2>2 DEF GrantsAgree
    <2>5. \A h \in Grants' : tickets'[h.ticketId] # None /\ tickets'[h.ticketId].status = "approved"
        BY <1>t, <1>g, <2>1, <2>2 DEF GrantsAgree
    <2> QED
        BY <2>3, <2>4, <2>5 DEF GrantsAgree
<1> QED
    BY <1>t, <1>1, <1>2, <1>3, <1>4, <1>5, <1>6, StepKinds

LEMMA LiveChallengeKept == ASSUME Inv, [Next]_vars PROVE LiveChallengeIsCurrent'
<1>t. /\ TypeOK /\ HandlersHold /\ LiveChallengeIsCurrent /\ DrawnIdsAreOwned
      /\ tickets \in [TicketIds -> TicketRow \cup {None}]
      /\ challenges \in [ChallengeIds -> ChallengeRow \cup {None}]
    BY DEF Inv, TypeOK
<1>c. \A c \in ChallengeIds : challenges[c] # None => challenges[c].ticketId \in TicketIds
    BY <1>t DEF ChallengeRow
<1>1. CASE Shrinks
    BY <1>t, <1>c, <1>1 DEF LiveChallengeIsCurrent, Shrinks
<1>2. CASE Forgets
    BY <1>2 DEF LiveChallengeIsCurrent, Forgets
<1>3. ASSUME NEW r \in Requests, CreateTicketIfCapacity(r) PROVE LiveChallengeIsCurrent'
    <2>1. \A c \in ChallengeIds : challenges[c] # None => challenges[c].ticketId # req[r].ticketId
        BY <1>t, <1>3, CreateWrites DEF DrawnIdsAreOwned, Creating, CreateTicketIfCapacity
    <2> QED
        BY <1>t, <1>c, <1>3, <2>1, CreateWrites DEF LiveChallengeIsCurrent
<1>4. ASSUME NEW r \in Requests, NEW later \in Later, ReplaceChallenge(r, later)
      PROVE  LiveChallengeIsCurrent'
    <2> DEFINE t == req[r].ticketId
               c == req[r].challengeId
    <2>1. /\ t \in TicketIds /\ c \in ChallengeIds /\ tickets[t] # None
          /\ tickets'[t].status = "pending" /\ tickets'[t].challengeId = c
          /\ \A u \in TicketIds \ {t} : tickets'[u] \in {tickets[u], None}
          /\ challenges'[c].ticketId = t
          /\ \A d \in ChallengeIds \ {c} :
                /\ challenges'[d] \in {challenges[d], None}
                /\ d = tickets[t].challengeId => challenges'[d] = None
        BY <1>t, <1>4, ReplaceWrites
    <2> HIDE DEF t, c
    <2> QED
        BY <1>t, <1>c, <2>1 DEF LiveChallengeIsCurrent
<1>5. ASSUME NEW r \in Requests, NEW later \in Later, FinalizeDeny(r, later)
      PROVE  LiveChallengeIsCurrent'
    <2> DEFINE t == req[r].ticketId
               c == req[r].challengeId
    <2>1. /\ t \in TicketIds /\ tickets[t] # None /\ tickets[t].challengeId = c
          /\ \A u \in TicketIds \ {t} : tickets'[u] \in {tickets[u], None}
          /\ challenges'[c] = None
          /\ \A d \in ChallengeIds : challenges'[d] \in {challenges[d], None}
        BY <1>t, <1>5, DenyWrites
    <2> HIDE DEF t, c
    <2> QED
        BY <1>t, <1>c, <2>1 DEF LiveChallengeIsCurrent
<1>6. ASSUME NEW r \in Requests, NEW later \in Later, FinalizeGrant(r, later)
      PROVE  LiveChallengeIsCurrent'
    <2> DEFINE t == req[r].ticketId
               c == req[r].challengeId
    <2>1. /\ t \in TicketIds /\ tickets[t] # None /\ tickets[t].challengeId = c
          /\ \A u \in TicketIds \ {t} : tickets'[u] \in {tickets[u], None}
          /\ challenges'[c] = None
          /\ \A d \in ChallengeIds : challenges'[d] \in {challenges[d], None}
        BY <1>t, <1>6, GrantWrites
    <2> HIDE DEF t, c
    <2> QED
        BY <1>t, <1>c, <2>1 DEF LiveChallengeIsCurrent
<1> QED
    BY <1>t, <1>1, <1>2, <1>3, <1>4, <1>5, <1>6, StepKinds

----------------------------------------------------------------------------
(* The parts of Inv about the handlers and the ids they hold               *)

LEMMA GrantsStay == ASSUME Inv, [Next]_vars PROVE Forgets \/ Grants \subseteq Grants'
<1>t. TypeOK /\ HandlersHold
    BY DEF Inv
<1> QED
    BY <1>t, StepKinds, CreateWrites, ReplaceWrites, DenyWrites, GrantWrites DEF Shrinks

\* How a step that is not a restart moves the handlers: it leaves them, ends
\* one, or takes one to its next statement.
LEMMA HandlerMoves ==
    ASSUME TypeOK, [Next]_vars
    PROVE  \/ \A r \in Requests : req'[r] = Idle
           \/ req' = req
           \/ \E r \in Requests :
                 \/ Return(r)
                 \/ \E t \in TicketIds : CreateBegin(r, t) \/ PollTicket(r, t)
                 \/ \E t \in TicketIds, w \in Wallets, c \in ChallengeIds : ChallengeBegin(r, t, w, c)
                 \/ \E t \in TicketIds, c \in ChallengeIds, signed \in BOOLEAN :
                       ApproveBegin(r, t, c, signed)
                 \/ ApproveGetChallenge(r)
                 \/ \E pc \in {"verify", "deny"} :
                       /\ req[r].pc \in {"check", "deny"}
                       /\ req' = [req EXCEPT ![r].pc = pc]
                 \/ \E s \in SessionIds : ApproveVerified(r, s)
<1>1. ASSUME NEW r \in Requests, Create(r)
      PROVE  Return(r) \/ \E t \in TicketIds : CreateBegin(r, t)
    BY <1>1 DEF Create, CreateTicketIfCapacity
<1>2. ASSUME NEW r \in Requests, Challenge(r)
      PROVE  \/ Return(r)
             \/ \E t \in TicketIds, w \in Wallets, c \in ChallengeIds : ChallengeBegin(r, t, w, c)
    BY <1>2 DEF Challenge, ReplaceChallenge, ReplaceRefused
<1>3. ASSUME NEW r \in Requests, Approve(r)
      PROVE  \/ Return(r)
             \/ \E t \in TicketIds, c \in ChallengeIds, signed \in BOOLEAN : ApproveBegin(r, t, c, signed)
             \/ ApproveGetChallenge(r)
             \/ \E pc \in {"verify", "deny"} : At(r, "check") /\ req' = [req EXCEPT ![r].pc = pc]
             \/ \E s \in SessionIds : ApproveVerified(r, s)
    BY <1>3 DEF Approve, ApproveExpired, ApproveCheckWallet, ApproveBadSignature
<1>4. ASSUME NEW r \in Requests, Finalize(r)
      PROVE  Return(r) \/ (At(r, "deny") /\ req' = [req EXCEPT ![r].pc = "verify"])
    BY <1>4 DEF Finalize, FinalizeDeny, FinalizeContinue, FinalizeGrant, FinalizeRefused
<1>5. ASSUME NEW r \in Requests, Poll(r) PROVE Return(r) \/ \E t \in TicketIds : PollTicket(r, t)
    BY <1>5 DEF Poll, PollSession
<1>6. CASE Environment
    BY <1>6 DEF Environment, ReadTicket, Logout, UpsertWallet, UpdateWallet, Tick, Restart
<1>7. CASE UNCHANGED vars
    BY <1>7 DEF vars
<1> QED
    BY <1>1, <1>2, <1>3, <1>4, <1>5, <1>6, <1>7 DEF Next, At

LEMMA HandlersKept == ASSUME Inv, [Next]_vars PROVE HandlersHold'
<1>t. TypeOK /\ HandlersHold /\ GrantsAgree /\ req \in [Requests -> Handler]
    BY DEF Inv, TypeOK
<1>p. now \in Nat /\ None \notin ChallengeRow
    BY <1>t, RowAssumption DEF TypeOK
<1>1. CASE \A r \in Requests : req'[r] = Idle
    BY <1>1 DEF HandlersHold, At, Idle
<1>2. CASE Grants \subseteq Grants'
    <2>1. CASE req' = req
        BY <1>t, <1>2, <2>1 DEF HandlersHold, At
    <2>2. ASSUME NEW r \in Requests, Return(r) PROVE HandlersHold'
        BY <1>t, <1>2, <2>2 DEF HandlersHold, At, Return, Idle
    <2>3. ASSUME NEW r \in Requests, NEW t \in TicketIds, CreateBegin(r, t) PROVE HandlersHold'
        BY <1>t, <1>2, <2>3 DEF HandlersHold, At, CreateBegin, Idle
    <2>4. ASSUME NEW r \in Requests, NEW t \in TicketIds, PollTicket(r, t) PROVE HandlersHold'
        BY <1>t, <1>2, <2>4 DEF HandlersHold, At, PollTicket, Idle, GrantsAgree
    <2>5. ASSUME NEW r \in Requests, NEW t \in TicketIds, NEW w \in Wallets, NEW c \in ChallengeIds,
                 ChallengeBegin(r, t, w, c)
          PROVE  HandlersHold'
        <3>1. [ticketId |-> t, address |-> w, expiresAt |-> now + ChallengeTTL] \in ChallengeRow
            BY <1>p, ClockAssumption DEF ChallengeRow
        <3> QED
            BY <1>t, <1>p, <1>2, <2>5, <3>1 DEF HandlersHold, At, ChallengeBegin, Idle
    <2>6. ASSUME NEW r \in Requests, NEW t \in TicketIds, NEW c \in ChallengeIds,
                 NEW signed \in BOOLEAN, ApproveBegin(r, t, c, signed)
          PROVE  HandlersHold'
        BY <1>t, <1>2, <2>6 DEF HandlersHold, At, ApproveBegin, Idle
    <2>7. ASSUME NEW r \in Requests, ApproveGetChallenge(r) PROVE HandlersHold'
        BY <1>t, <1>2, <2>7 DEF HandlersHold, At, ApproveGetChallenge, Idle, Handler
    <2>8. ASSUME NEW r \in Requests, NEW pc \in {"verify", "deny"}, req[r].pc \in {"check", "deny"},
                 req' = [req EXCEPT ![r].pc = pc]
          PROVE  HandlersHold'
        BY <1>t, <1>2, <2>8 DEF HandlersHold, At, Handler
    <2>9. ASSUME NEW r \in Requests, NEW s \in SessionIds, ApproveVerified(r, s) PROVE HandlersHold'
        BY <1>t, <1>2, <2>9 DEF HandlersHold, At, ApproveVerified, Handler
    <2> QED
        BY <1>t, <1>1, <2>1, <2>2, <2>3, <2>4, <2>5, <2>6, <2>7, <2>8, <2>9, HandlerMoves
<1> QED
    BY <1>1, <1>2, GrantsStay DEF Forgets

LEMMA IssuedGrows == ASSUME [Next]_vars PROVE issued \subseteq issued'
BY DEF Next, vars, Create, Challenge, Approve, Finalize, Poll, Environment,
       CreateBegin, CreateTicketIfCapacity, ChallengeBegin, ReplaceChallenge, ReplaceRefused,
       ApproveBegin, ApproveGetChallenge, ApproveExpired, ApproveCheckWallet,
       ApproveBadSignature, ApproveVerified, FinalizeDeny, FinalizeContinue, FinalizeGrant,
       FinalizeRefused, PollTicket, PollSession, ReadTicket, Logout, UpsertWallet,
       UpdateWallet, Tick, Restart, Rollback

\* What clients learn in a step: nothing, or the session of a grant.
LEMMA ToldMoves ==
    ASSUME Inv, [Next]_vars
    PROVE  \/ told' = told
           \/ \E r \in Requests :
                 /\ told' = told \cup {<<req[r].ticketId, req[r].sessionId>>}
                 /\ \/ PollSession(r)
                    \/ \E later \in Later : FinalizeGrant(r, later)
<1>1. ASSUME NEW r \in Requests, Create(r) \/ Challenge(r) \/ Approve(r) PROVE told' = told
    BY <1>1 DEF Create, Challenge, Approve, CreateBegin, CreateTicketIfCapacity, ChallengeBegin,
       ReplaceChallenge, ReplaceRefused, ApproveBegin, ApproveGetChallenge, ApproveExpired,
       ApproveCheckWallet, ApproveBadSignature, ApproveVerified, Rollback
<1>2. ASSUME NEW r \in Requests, Finalize(r)
      PROVE  \/ told' = told
             \/ /\ told' = told \cup {<<req[r].ticketId, req[r].sessionId>>}
                /\ \E later \in Later : FinalizeGrant(r, later)
    BY <1>2 DEF Finalize, FinalizeDeny, FinalizeContinue, FinalizeGrant, FinalizeRefused, Rollback
<1>3. ASSUME NEW r \in Requests, Poll(r)
      PROVE  \/ told' = told
             \/ told' = told \cup {<<req[r].ticketId, req[r].sessionId>>} /\ PollSession(r)
    BY <1>3 DEF Poll, PollTicket, PollSession
<1>4. CASE Environment
    BY <1>4 DEF Environment, ReadTicket, Logout, UpsertWallet, UpdateWallet, Tick, Restart
<1>5. CASE UNCHANGED vars
    BY <1>5 DEF vars
<1> QED
    BY <1>1, <1>2, <1>3, <1>4, <1>5 DEF Next

\* The pair a client learns is one of the grants in the log after the step.
LEMMA ToldIsAGrant ==
    ASSUME Inv, [Next]_vars
    PROVE  /\ told \subseteq told'
           /\ \A pair \in told' \ told :
                 /\ \E g \in Grants' : pair = <<g.ticketId, g.sessionId>>
                 /\ ~ Forgets
<1>t. TypeOK /\ HandlersHold
    BY DEF Inv
<1>1. CASE told' = told
    BY <1>1
<1>2. ASSUME NEW r \in Requests, PollSession(r),
             told' = told \cup {<<req[r].ticketId, req[r].sessionId>>}, told' # told
      PROVE  /\ \E g \in Grants' : <<req[r].ticketId, req[r].sessionId>> = <<g.ticketId, g.sessionId>>
             /\ ~ Forgets
    <2>1. \E g \in Grants : g.ticketId = req[r].ticketId /\ g.sessionId = req[r].sessionId
        BY <1>t, <1>2 DEF PollSession, HandlersHold
    <2>2. Grants' = Grants
        BY <1>2 DEF PollSession, Grants
    <2> QED
        BY <1>2, <2>1, <2>2 DEF Forgets
<1>3. ASSUME NEW r \in Requests, NEW later \in Later, FinalizeGrant(r, later),
             told' = told \cup {<<req[r].ticketId, req[r].sessionId>>}, told' # told
      PROVE  /\ \E g \in Grants' : <<req[r].ticketId, req[r].sessionId>> = <<g.ticketId, g.sessionId>>
             /\ ~ Forgets
    <2> DEFINE g == [result |-> "ok", ticketId |-> req[r].ticketId,
                     address |-> req[r].challenge.address, sessionId |-> req[r].sessionId]
    <2>1. g \in Grants'
        BY <1>t, <1>3, GrantWrites
    <2> QED
        BY <1>3, <2>1 DEF Forgets
<1> QED
    BY <1>1, <1>2, <1>3, ToldMoves

LEMMA IssuedKept == ASSUME Inv, [Next]_vars PROVE IdsAreIssued'
<1>t. /\ TypeOK /\ HandlersHold /\ IdsAreIssued /\ GrantsAgree
      /\ req \in [Requests -> Handler] /\ issued \subseteq issued'
    BY IssuedGrows DEF Inv, TypeOK
<1>1. \A r \in Requests :
          /\ At(r, "create")' => req'[r].ticketId \in issued'
          /\ At(r, "replace")' => req'[r].challengeId \in issued'
          /\ At(r, "grant")' => req'[r].sessionId \in issued'
    <2>1. CASE \A r \in Requests : req'[r] = Idle
        BY <2>1 DEF At, Idle
    <2>2. CASE req' = req
        BY <1>t, <2>2 DEF At, IdsAreIssued
    <2>3. ASSUME NEW r \in Requests, Return(r) PROVE <1>1!:
        BY <1>t, <2>3 DEF At, IdsAreIssued, Return, Idle
    <2>4. ASSUME NEW r \in Requests, NEW t \in TicketIds, CreateBegin(r, t) PROVE <1>1!:
        BY <1>t, <2>4 DEF At, IdsAreIssued, CreateBegin, Idle
    <2>5. ASSUME NEW r \in Requests, NEW t \in TicketIds, PollTicket(r, t) PROVE <1>1!:
        BY <1>t, <2>5 DEF At, IdsAreIssued, PollTicket, Idle
    <2>6. ASSUME NEW r \in Requests, NEW t \in TicketIds, NEW w \in Wallets, NEW c \in ChallengeIds,
                 ChallengeBegin(r, t, w, c)
          PROVE  <1>1!:
        BY <1>t, <2>6 DEF At, IdsAreIssued, ChallengeBegin, Idle
    <2>7. ASSUME NEW r \in Requests, NEW t \in TicketIds, NEW c \in ChallengeIds,
                 NEW signed \in BOOLEAN, ApproveBegin(r, t, c, signed)
          PROVE  <1>1!:
        BY <1>t, <2>7 DEF At, IdsAreIssued, ApproveBegin, Idle
    <2>8. ASSUME NEW r \in Requests, ApproveGetChallenge(r) PROVE <1>1!:
        BY <1>t, <2>8 DEF At, IdsAreIssued, ApproveGetChallenge, Idle, Handler
    <2>9. ASSUME NEW r \in Requests, NEW pc \in {"verify", "deny"}, req[r].pc \in {"check", "deny"},
                 req' = [req EXCEPT ![r].pc = pc]
          PROVE  <1>1!:
        BY <1>t, <2>9 DEF At, IdsAreIssued, Handler
    <2>10. ASSUME NEW r \in Requests, NEW s \in SessionIds, ApproveVerified(r, s) PROVE <1>1!:
        BY <1>t, <2>10 DEF At, IdsAreIssued, ApproveVerified, Handler
    <2> QED
        BY <1>t, <2>1, <2>2, <2>3, <2>4, <2>5, <2>6, <2>7, <2>8, <2>9, <2>10, HandlerMoves
<1>2. \A t \in TicketIds : tickets'[t] # None =>
          t \in issued' /\ tickets'[t].challengeId \in issued' \cup {None}
    <2>1. CASE Shrinks \/ Forgets
        BY <1>t, <2>1 DEF IdsAreIssued, Shrinks, Forgets
    <2>2. ASSUME NEW r \in Requests, CreateTicketIfCapacity(r) PROVE <1>2!:
        <3>1. req[r].ticketId \in issued
            BY <1>t, <2>2 DEF IdsAreIssued, CreateTicketIfCapacity
        <3> QED
            BY <1>t, <2>2, <3>1, CreateWrites DEF IdsAreIssued
    <2>3. ASSUME NEW r \in Requests, NEW later \in Later, ReplaceChallenge(r, later) PROVE <1>2!:
        <3> DEFINE t == req[r].ticketId
        <3>1. req[r].challengeId \in issued
            BY <1>t, <2>3 DEF IdsAreIssued, ReplaceChallenge
        <3>2. /\ t \in TicketIds /\ tickets[t] # None /\ tickets'[t].challengeId = req[r].challengeId
              /\ \A u \in TicketIds \ {t} : tickets'[u] \in {tickets[u], None}
            BY <1>t, <2>3, ReplaceWrites
        <3> HIDE DEF t
        <3> QED
            BY <1>t, <3>1, <3>2 DEF IdsAreIssued
    <2>4. ASSUME NEW r \in Requests, NEW later \in Later,
                 FinalizeDeny(r, later) \/ FinalizeGrant(r, later)
          PROVE  <1>2!:
        <3> DEFINE t == req[r].ticketId
        <3>1. /\ t \in TicketIds /\ tickets[t] # None /\ tickets'[t].challengeId = tickets[t].challengeId
              /\ \A u \in TicketIds \ {t} : tickets'[u] \in {tickets[u], None}
            BY <1>t, <2>4, DenyWrites, GrantWrites
        <3> HIDE DEF t
        <3> QED
            BY <1>t, <3>1 DEF IdsAreIssued
    <2> QED
        BY <1>t, <2>1, <2>2, <2>3, <2>4, StepKinds
<1>3. \A c \in ChallengeIds : challenges'[c] # None =>
          c \in issued' /\ challenges'[c].ticketId \in issued'
    <2>1. ASSUME NEW r \in Requests, NEW later \in Later, ReplaceChallenge(r, later) PROVE <1>3!:
        <3>1. req[r].challengeId \in issued
            BY <1>t, <2>1 DEF IdsAreIssued, ReplaceChallenge
        <3>2. req[r].ticketId \in issued
            BY <1>t, <2>1, ReplaceWrites DEF IdsAreIssued
        <3> DEFINE c == req[r].challengeId
        <3>3. /\ c \in ChallengeIds /\ challenges'[c].ticketId = req[r].ticketId
              /\ \A d \in ChallengeIds \ {c} : challenges'[d] \in {challenges[d], None}
            BY <1>t, <2>1, ReplaceWrites
        <3> QED
            BY <1>t, <3>1, <3>2, <3>3 DEF IdsAreIssued
    <2>2. CASE \A c \in ChallengeIds : challenges'[c] \in {challenges[c], None}
        BY <1>t, <2>2 DEF IdsAreIssued
    <2> QED
        BY <1>t, <2>1, <2>2, StepKinds, CreateWrites, DenyWrites, GrantWrites DEF Shrinks, Forgets
<1>4. \A g \in Grants' : g.sessionId \in SessionIds \cap issued'
    <2>1. ASSUME NEW r \in Requests, NEW later \in Later, FinalizeGrant(r, later) PROVE <1>4!:
        <3>1. req[r].sessionId \in issued
            BY <1>t, <2>1 DEF IdsAreIssued, FinalizeGrant
        <3> DEFINE g == [result |-> "ok", ticketId |-> req[r].ticketId,
                         address |-> req[r].challenge.address, sessionId |-> req[r].sessionId]
        <3>2. req[r].sessionId \in SessionIds /\ Grants' = Grants \cup {g}
            BY <1>t, <2>1, GrantWrites
        <3> QED
            BY <1>t, <3>1, <3>2 DEF IdsAreIssued
    <2>2. CASE Grants' \subseteq Grants
        BY <1>t, <2>2 DEF IdsAreIssued
    <2> QED
        BY <1>t, <2>1, <2>2, StepKinds, CreateWrites, ReplaceWrites, DenyWrites DEF Shrinks, Forgets
<1>5. \A pair \in told' : pair[1] \in issued'
    <2>1. ASSUME NEW pair \in told' \ told PROVE pair[1] \in issued'
        <3>1. PICK g \in Grants' : pair = <<g.ticketId, g.sessionId>>
            BY <2>1, ToldIsAGrant
        <3>2. GrantsAgree' /\ g.ticketId \in TicketIds
            BY GrantsAgreeKept, NextType DEF TypeOK, Grants, AuditRow
        <3>3. tickets'[g.ticketId] # None
            BY <3>2 DEF GrantsAgree
        <3> QED
            BY <1>2, <3>1, <3>2, <3>3
    <2> QED
        BY <1>t, <2>1 DEF IdsAreIssued
<1> QED
    BY <1>1, <1>2, <1>3, <1>4, <1>5 DEF IdsAreIssued

\* A handler holds a drawn id since it drew it.
LEMMA OwnersMove ==
    ASSUME Inv, [Next]_vars, NEW r \in Requests
    PROVE  /\ \A t \in TicketIds : Creating(r, t)' => Creating(r, t) \/ CreateBegin(r, t)
           /\ \A c \in ChallengeIds : Drafting(r, c)' =>
                 \/ Drafting(r, c)
                 \/ \E t \in TicketIds, w \in Wallets : ChallengeBegin(r, t, w, c)
           /\ \A s \in SessionIds : Granting(r, s)' => Granting(r, s) \/ ApproveVerified(r, s)
<1> DEFINE Goal == /\ \A t \in TicketIds : Creating(r, t)' => Creating(r, t) \/ CreateBegin(r, t)
                   /\ \A c \in ChallengeIds : Drafting(r, c)' =>
                         \/ Drafting(r, c)
                         \/ \E t \in TicketIds, w \in Wallets : ChallengeBegin(r, t, w, c)
                   /\ \A s \in SessionIds : Granting(r, s)' =>
                         Granting(r, s) \/ ApproveVerified(r, s)
<1>t. TypeOK /\ req \in [Requests -> Handler]
    BY DEF Inv, TypeOK
<1>1. CASE req'[r] = Idle \/ req'[r] = req[r]
    BY <1>1 DEF Creating, Drafting, Granting, At, Idle
<1>2. ASSUME NEW q \in Requests, Return(q) PROVE Goal
    BY <1>t, <1>1, <1>2 DEF Return
<1>3. ASSUME NEW q \in Requests, NEW t \in TicketIds, CreateBegin(q, t) PROVE Goal
    <2>1. CASE q = r
        <3>1. req'[r].pc = "create" /\ req'[r].ticketId = t
            BY <1>t, <1>3, <2>1 DEF CreateBegin, Idle
        <3> QED
            BY <1>3, <2>1, <3>1 DEF Creating, Drafting, Granting, At
    <2> QED
        BY <1>t, <1>1, <1>3, <2>1 DEF CreateBegin
<1>4. ASSUME NEW q \in Requests, NEW t \in TicketIds, NEW w \in Wallets, NEW c \in ChallengeIds,
             ChallengeBegin(q, t, w, c)
      PROVE  Goal
    <2>1. CASE q = r
        <3>1. req'[r].pc = "replace" /\ req'[r].challengeId = c
            BY <1>t, <1>4, <2>1 DEF ChallengeBegin, Idle
        <3> QED
            BY <1>4, <2>1, <3>1 DEF Creating, Drafting, Granting, At
    <2> QED
        BY <1>t, <1>1, <1>4, <2>1 DEF ChallengeBegin
<1>5. ASSUME NEW q \in Requests, NEW s \in SessionIds, ApproveVerified(q, s) PROVE Goal
    <2>1. CASE q = r
        <3>1. req'[r].pc = "grant" /\ req'[r].sessionId = s
            BY <1>t, <1>5, <2>1 DEF ApproveVerified, Handler
        <3> QED
            BY <1>5, <2>1, <3>1 DEF Creating, Drafting, Granting, At
    <2> QED
        BY <1>t, <1>1, <1>5, <2>1 DEF ApproveVerified
<1>6. CASE req'[r].pc \in {"getChallenge", "getSession", "check", "verify", "deny"}
    BY <1>6 DEF Creating, Drafting, Granting, At
<1>7. ASSUME NEW q \in Requests, NEW t \in TicketIds, PollTicket(q, t) PROVE Goal
    BY <1>t, <1>1, <1>6, <1>7 DEF PollTicket, Idle
<1>8. ASSUME NEW q \in Requests, NEW t \in TicketIds, NEW c \in ChallengeIds, NEW signed \in BOOLEAN,
             ApproveBegin(q, t, c, signed)
      PROVE  Goal
    BY <1>t, <1>1, <1>6, <1>8 DEF ApproveBegin, Idle
<1>9. ASSUME NEW q \in Requests, ApproveGetChallenge(q) PROVE Goal
    BY <1>t, <1>1, <1>6, <1>9 DEF ApproveGetChallenge, Handler
<1>10. ASSUME NEW q \in Requests, NEW pc \in {"verify", "deny"}, req' = [req EXCEPT ![q].pc = pc]
       PROVE  Goal
    BY <1>t, <1>1, <1>6, <1>10 DEF Handler
<1> QED
    BY <1>t, <1>1, <1>2, <1>3, <1>4, <1>5, <1>7, <1>8, <1>9, <1>10, HandlerMoves

\* Rows, the challenge a ticket names and grants come only from the handler
\* that drew their id.
LEMMA RowsComeFromOwners ==
    ASSUME Inv, [Next]_vars
    PROVE  /\ \A t \in TicketIds : tickets[t] = None /\ tickets'[t] # None =>
                 \E r \in Requests : Creating(r, t) /\ Return(r)
           /\ \A c \in ChallengeIds :
                 \/ challenges'[c] \in {challenges[c], None}
                 \/ \E r \in Requests :
                       /\ Drafting(r, c) /\ Return(r)
                       /\ req[r].ticketId \in TicketIds /\ tickets[req[r].ticketId] # None
                       /\ challenges'[c].ticketId = req[r].ticketId
           /\ \A t \in TicketIds, c \in ChallengeIds :
                 tickets'[t] # None /\ tickets'[t].challengeId = c =>
                    \/ tickets[t] # None /\ tickets[t].challengeId = c
                    \/ \E r \in Requests : Drafting(r, c) /\ Return(r)
           /\ \A g \in Grants' \ Grants :
                 \E r \in Requests : Granting(r, g.sessionId) /\ Return(r)
<1>t. TypeOK /\ HandlersHold
    BY DEF Inv
<1> DEFINE Tickets == \A t \in TicketIds : tickets[t] = None /\ tickets'[t] # None =>
                          \E r \in Requests : Creating(r, t) /\ Return(r)
           Rows == \A c \in ChallengeIds :
                       \/ challenges'[c] \in {challenges[c], None}
                       \/ \E r \in Requests :
                             /\ Drafting(r, c) /\ Return(r)
                             /\ req[r].ticketId \in TicketIds /\ tickets[req[r].ticketId] # None
                             /\ challenges'[c].ticketId = req[r].ticketId
           Names == \A t \in TicketIds, c \in ChallengeIds :
                        tickets'[t] # None /\ tickets'[t].challengeId = c =>
                           \/ tickets[t] # None /\ tickets[t].challengeId = c
                           \/ \E r \in Requests : Drafting(r, c) /\ Return(r)
           Granted == \A g \in Grants' \ Grants :
                          \E r \in Requests : Granting(r, g.sessionId) /\ Return(r)
<1>1. CASE Shrinks \/ Forgets
    BY <1>1 DEF Shrinks, Forgets
<1>2. ASSUME NEW r \in Requests, CreateTicketIfCapacity(r) PROVE Tickets /\ Rows /\ Names /\ Granted
    <2>1. Creating(r, req[r].ticketId) /\ Return(r)
        BY <1>2 DEF CreateTicketIfCapacity, Creating
    <2>2. None \notin ChallengeIds
        BY IdAssumption
    <2> QED
        BY <1>t, <1>2, <2>1, <2>2, CreateWrites
<1>3. ASSUME NEW r \in Requests, NEW later \in Later, ReplaceChallenge(r, later)
      PROVE  Tickets /\ Rows /\ Names /\ Granted
    <2> DEFINE t == req[r].ticketId
               c == req[r].challengeId
    <2>1. Drafting(r, c) /\ Return(r)
        BY <1>3 DEF ReplaceChallenge, Drafting
    <2>2. /\ t \in TicketIds /\ c \in ChallengeIds /\ tickets[t] # None
          /\ tickets'[t].challengeId = c /\ challenges'[c].ticketId = t
          /\ \A u \in TicketIds \ {t} : tickets'[u] \in {tickets[u], None}
          /\ \A d \in ChallengeIds \ {c} : challenges'[d] \in {challenges[d], None}
          /\ Grants' = Grants
        BY <1>t, <1>3, ReplaceWrites
    <2>3. Tickets /\ Granted
        BY <2>2
    <2>4. Rows
        BY <2>1, <2>2
    <2>5. Names
        BY <2>1, <2>2
    <2> QED
        BY <2>3, <2>4, <2>5
<1>4. ASSUME NEW r \in Requests, NEW later \in Later, FinalizeDeny(r, later)
      PROVE  Tickets /\ Rows /\ Names /\ Granted
    BY <1>t, <1>4, DenyWrites
<1>5. ASSUME NEW r \in Requests, NEW later \in Later, FinalizeGrant(r, later)
      PROVE  Tickets /\ Rows /\ Names /\ Granted
    <2>1. Tickets /\ Rows /\ Names
        BY <1>t, <1>5, GrantWrites
    <2>2. Granting(r, req[r].sessionId) /\ Return(r)
        BY <1>5 DEF FinalizeGrant, Granting
    <2> DEFINE g == [result |-> "ok", ticketId |-> req[r].ticketId,
                     address |-> req[r].challenge.address, sessionId |-> req[r].sessionId]
    <2>3. Grants' = Grants \cup {g} /\ g.sessionId = req[r].sessionId
        BY <1>t, <1>5, GrantWrites
    <2> HIDE DEF g
    <2>4. Granted
        BY <2>2, <2>3
    <2> QED
        BY <2>1, <2>4
<1> HIDE DEF Tickets, Rows, Names, Granted
<1>6. Tickets /\ Rows /\ Names /\ Granted
    BY <1>t, <1>1, <1>2, <1>3, <1>4, <1>5, StepKinds DEF Tickets, Rows, Names, Granted
<1> QED
    BY <1>6 DEF Tickets, Rows, Names, Granted

LEMMA OwnedKept == ASSUME Inv, [Next]_vars PROVE DrawnIdsAreOwned'
<1>t. /\ TypeOK /\ IdsAreIssued /\ DrawnIdsAreOwned /\ GrantsAgree'
      /\ req \in [Requests -> Handler] /\ TypeOK'
    BY GrantsAgreeKept, NextType DEF Inv, TypeOK
<1>i. \A r \in Requests : Return(r) => req'[r] = Idle
    BY <1>t DEF Return
<1>1. ASSUME NEW r \in Requests, NEW t \in TicketIds, Creating(r, t)'
      PROVE  /\ tickets'[t] = None
             /\ \A c \in ChallengeIds : challenges'[c] # None => challenges'[c].ticketId # t
             /\ \A pair \in told' : pair[1] # t
             /\ \A q \in Requests : Creating(q, t)' => q = r
    <2>1. ~ Return(r)
        BY <1>1, <1>i DEF Creating, At, Idle
    <2>2. /\ tickets[t] = None
          /\ \A c \in ChallengeIds : challenges[c] # None => challenges[c].ticketId # t
          /\ \A pair \in told : pair[1] # t
          /\ \A q \in Requests : Creating(q, t)' => q = r
          /\ \A q \in Requests : Creating(q, t) => q = r
        <3>1. CASE Creating(r, t)
            <4>1. t \in issued
                BY <1>t, <3>1 DEF IdsAreIssued, Creating
            <4>2. \A q \in Requests : Creating(q, t)' => Creating(q, t)
                BY <4>1, OwnersMove DEF CreateBegin
            <4> QED
                BY <1>t, <3>1, <4>2 DEF DrawnIdsAreOwned
        <3>2. CASE CreateBegin(r, t)
            <4>1. t \notin issued
                BY <3>2 DEF CreateBegin
            <4>2. \A q \in Requests \ {r} : req'[q] = req[q]
                BY <1>t, <3>2 DEF CreateBegin
            <4>3. \A q \in Requests : ~ Creating(q, t)
                BY <1>t, <4>1 DEF IdsAreIssued, Creating
            <4>4. \A q \in Requests : Creating(q, t)' => q = r
                BY <4>2, <4>3 DEF Creating, At
            <4> QED
                BY <1>t, <4>1, <4>3, <4>4 DEF IdsAreIssued
        <3> QED
            BY <1>1, <3>1, <3>2, OwnersMove
    <2>3. tickets'[t] = None
        BY <2>1, <2>2, RowsComeFromOwners
    <2>4. \A c \in ChallengeIds : challenges'[c] # None => challenges'[c].ticketId # t
        BY <2>2, RowsComeFromOwners
    <2>5. ASSUME NEW pair \in told' \ told PROVE pair[1] # t
        <3>1. PICK g \in Grants' : pair = <<g.ticketId, g.sessionId>>
            BY <2>5, ToldIsAGrant
        <3>2. tickets'[g.ticketId] # None
            BY <1>t DEF GrantsAgree
        <3> QED
            BY <2>3, <3>1, <3>2
    <2> QED
        BY <2>2, <2>3, <2>4, <2>5
<1>2. ASSUME NEW r \in Requests, NEW c \in ChallengeIds, Drafting(r, c)'
      PROVE  /\ challenges'[c] = None
             /\ \A t \in TicketIds : tickets'[t] # None => tickets'[t].challengeId # c
             /\ \A q \in Requests : Drafting(q, c)' => q = r
    <2>1. ~ Return(r)
        BY <1>2, <1>i DEF Drafting, At, Idle
    <2>2. /\ challenges[c] = None
          /\ \A t \in TicketIds : tickets[t] # None => tickets[t].challengeId # c
          /\ \A q \in Requests : Drafting(q, c)' => q = r
          /\ \A q \in Requests : Drafting(q, c) => q = r
        <3>1. CASE Drafting(r, c)
            <4>1. c \in issued
                BY <1>t, <3>1 DEF IdsAreIssued, Drafting
            <4>2. \A q \in Requests : Drafting(q, c)' => Drafting(q, c)
                BY <4>1, OwnersMove DEF ChallengeBegin
            <4> QED
                BY <1>t, <3>1, <4>2 DEF DrawnIdsAreOwned
        <3>2. ASSUME NEW t \in TicketIds, NEW w \in Wallets, ChallengeBegin(r, t, w, c) PROVE <2>2!:
            <4>1. c \notin issued
                BY <3>2 DEF ChallengeBegin
            <4>2. \A q \in Requests \ {r} : req'[q] = req[q]
                BY <1>t, <3>2 DEF ChallengeBegin
            <4>3. \A q \in Requests : ~ Drafting(q, c)
                BY <1>t, <4>1 DEF IdsAreIssued, Drafting
            <4>4. \A q \in Requests : Drafting(q, c)' => q = r
                BY <4>2, <4>3 DEF Drafting, At
            <4>5. c # None
                BY IdAssumption
            <4> QED
                BY <1>t, <4>1, <4>3, <4>4, <4>5 DEF IdsAreIssued
        <3> QED
            BY <1>2, <3>1, <3>2, OwnersMove
    <2> QED
        BY <2>1, <2>2, RowsComeFromOwners
<1>3. ASSUME NEW r \in Requests, NEW s \in SessionIds, Granting(r, s)'
      PROVE  /\ \A g \in Grants' : g.sessionId # s
             /\ \A q \in Requests : Granting(q, s)' => q = r
    <2>1. ~ Return(r)
        BY <1>3, <1>i DEF Granting, At, Idle
    <2>2. /\ \A g \in Grants : g.sessionId # s
          /\ \A q \in Requests : Granting(q, s)' => q = r
          /\ \A q \in Requests : Granting(q, s) => q = r
        <3>1. CASE Granting(r, s)
            <4>1. s \in issued
                BY <1>t, <3>1 DEF IdsAreIssued, Granting
            <4>2. \A q \in Requests : Granting(q, s)' => Granting(q, s)
                BY <4>1, OwnersMove DEF ApproveVerified
            <4> QED
                BY <1>t, <3>1, <4>2 DEF DrawnIdsAreOwned
        <3>2. CASE ApproveVerified(r, s)
            <4>1. s \notin issued
                BY <3>2 DEF ApproveVerified
            <4>2. \A q \in Requests \ {r} : req'[q] = req[q]
                BY <1>t, <3>2 DEF ApproveVerified
            <4>3. \A q \in Requests : ~ Granting(q, s)
                BY <1>t, <4>1 DEF IdsAreIssued, Granting
            <4>4. \A q \in Requests : Granting(q, s)' => q = r
                BY <4>2, <4>3 DEF Granting, At
            <4> QED
                BY <1>t, <4>1, <4>3, <4>4 DEF IdsAreIssued
        <3> QED
            BY <1>3, <3>1, <3>2, OwnersMove
    <2> QED
        BY <2>1, <2>2, RowsComeFromOwners
<1> QED
    BY <1>1, <1>2, <1>3 DEF DrawnIdsAreOwned

----------------------------------------------------------------------------
(* What clients were told                                                  *)

\* Only a restart of the memory store loses the row of an approved ticket,
\* and no other step changes it.
LEMMA ApprovedStays ==
    ASSUME Inv, [Next]_vars, NEW t \in TicketIds, tickets[t] # None, tickets[t].status = "approved"
    PROVE  tickets'[t] = tickets[t] \/ Forgets
<1>t. TypeOK /\ HandlersHold /\ DrawnIdsAreOwned
    BY DEF Inv
<1>1. ASSUME NEW r \in Requests, CreateTicketIfCapacity(r) PROVE tickets'[t] = tickets[t]
    <2>1. tickets[req[r].ticketId] = None
        BY <1>t, <1>1, CreateWrites DEF DrawnIdsAreOwned, Creating, CreateTicketIfCapacity
    <2> QED
        BY <1>t, <1>1, <2>1, CreateWrites
<1>2. ASSUME NEW r \in Requests, NEW later \in Later,
             ReplaceChallenge(r, later) \/ FinalizeDeny(r, later) \/ FinalizeGrant(r, later)
      PROVE  tickets'[t] = tickets[t]
    <2> DEFINE u == req[r].ticketId
    <2>1. /\ tickets[u].status = "pending"
          /\ \A v \in TicketIds \ {u} :
                tickets[v] # None /\ tickets[v].status = "approved" => tickets'[v] = tickets[v]
        BY <1>t, <1>2, ReplaceWrites, DenyWrites, GrantWrites
    <2> HIDE DEF u
    <2> QED
        BY <2>1
<1> QED
    BY <1>t, <1>1, <1>2, StepKinds DEF Shrinks

\* Only a pending ticket is granted.
LEMMA GrantedWasPending ==
    ASSUME Inv, [Next]_vars, NEW g \in Grants' \ Grants
    PROVE  tickets[g.ticketId] # None /\ tickets[g.ticketId].status = "pending"
<1>t. TypeOK /\ HandlersHold
    BY DEF Inv
<1>1. ASSUME NEW r \in Requests, NEW later \in Later, FinalizeGrant(r, later)
      PROVE  tickets[g.ticketId] # None /\ tickets[g.ticketId].status = "pending"
    <2> DEFINE h == [result |-> "ok", ticketId |-> req[r].ticketId,
                     address |-> req[r].challenge.address, sessionId |-> req[r].sessionId]
    <2>1. /\ Grants' = Grants \cup {h} /\ h.ticketId = req[r].ticketId
          /\ tickets[req[r].ticketId] # None /\ tickets[req[r].ticketId].status = "pending"
        BY <1>t, <1>1, GrantWrites
    <2> HIDE DEF h
    <2> QED
        BY <2>1
<1> QED
    BY <1>t, <1>1, StepKinds, CreateWrites, ReplaceWrites, DenyWrites DEF Shrinks, Forgets

\* What clients were told stays true.
LEMMA ToldKept == ASSUME Inv, [Next]_vars PROVE ToldTicketsAreDecided' /\ ToldIsGranted'
<1>t. /\ TypeOK /\ DrawnIdsAreOwned /\ ToldTicketsAreDecided /\ ToldIsGranted /\ GrantsAgree
      /\ TypeOK' /\ GrantsAgree' /\ OneGrantPerTicket'
    BY GrantsAgreeKept, OneGrantKept, NextType DEF Inv
<1>1. told \subseteq told' /\ \A pair \in told' \ told :
          (\E g \in Grants' : pair = <<g.ticketId, g.sessionId>>) /\ ~ Forgets
    BY ToldIsAGrant
<1>2. /\ \A pair \in told : pair[1] \in TicketIds /\ pair[2] \in SessionIds
      /\ \A pair \in told' : pair[1] \in TicketIds /\ pair[2] \in SessionIds
    BY <1>t DEF TypeOK
<1>3. ASSUME NEW pair \in told, tickets'[pair[1]] # None PROVE tickets'[pair[1]].status = "approved"
    <2>1. CASE tickets[pair[1]] # None
        <3>1. tickets[pair[1]].status = "approved"
            BY <1>t, <2>1 DEF ToldTicketsAreDecided
        <3> QED
            BY <1>2, <1>3, <2>1, <3>1, ApprovedStays DEF Forgets
    <2>2. CASE tickets[pair[1]] = None
        <3>1. PICK r \in Requests : Creating(r, pair[1])
            BY <1>2, <1>3, <2>2, RowsComeFromOwners
        <3> QED
            BY <1>t, <1>2, <3>1 DEF DrawnIdsAreOwned
    <2> QED
        BY <2>1, <2>2
<1>4. ASSUME NEW pair \in told, NEW g \in Grants', g.ticketId = pair[1] PROVE g.sessionId = pair[2]
    <2>1. CASE g \in Grants
        BY <1>t, <1>4, <2>1 DEF ToldTicketsAreDecided
    <2>2. CASE g \notin Grants
        <3>1. tickets[pair[1]] # None /\ tickets[pair[1]].status = "pending"
            BY <1>4, <2>2, GrantedWasPending
        <3> QED
            BY <1>t, <3>1 DEF ToldTicketsAreDecided
    <2> QED
        BY <2>1, <2>2
<1>5. ASSUME NEW pair \in told' \ told
      PROVE  /\ tickets'[pair[1]] # None => tickets'[pair[1]].status = "approved"
             /\ \A g \in Grants' : g.ticketId = pair[1] => g.sessionId = pair[2]
    <2>1. PICK h \in Grants' : pair = <<h.ticketId, h.sessionId>>
        BY <1>1
    <2>2. tickets'[h.ticketId].status = "approved"
        BY <1>t DEF GrantsAgree
    <2>3. \A g \in Grants' : g.ticketId = h.ticketId => g = h
        BY <1>t DEF OneGrantPerTicket
    <2> QED
        BY <2>1, <2>2, <2>3
<1>6. ToldTicketsAreDecided'
    BY <1>3, <1>4, <1>5 DEF ToldTicketsAreDecided
<1>7. ASSUME NEW p \in told', NEW q \in told', p[1] = q[1] PROVE p[2] = q[2]
    <2>1. CASE p \in told /\ q \in told
        BY <1>t, <1>7, <2>1 DEF ToldIsGranted
    <2>2. CASE p \notin told
        <3>1. PICK g \in Grants' : p = <<g.ticketId, g.sessionId>>
            BY <1>1, <2>2
        <3> QED
            BY <1>6, <1>7, <3>1 DEF ToldTicketsAreDecided
    <2>3. CASE q \notin told
        <3>1. PICK g \in Grants' : q = <<g.ticketId, g.sessionId>>
            BY <1>1, <2>3
        <3> QED
            BY <1>6, <1>7, <3>1 DEF ToldTicketsAreDecided
    <2> QED
        BY <2>1, <2>2, <2>3
<1>8. ASSUME Backend = "sqlite", NEW pair \in told'
      PROVE  \E g \in Grants' : g.ticketId = pair[1] /\ g.sessionId = pair[2]
    <2>1. CASE pair \in told
        <3>1. Grants \subseteq Grants'
            BY <1>8, GrantsStay DEF Forgets
        <3> QED
            BY <1>t, <1>8, <2>1, <3>1 DEF ToldIsGranted
    <2>2. CASE pair \notin told
        BY <1>1, <2>2
    <2> QED
        BY <2>1, <2>2
<1> QED
    BY <1>6, <1>7, <1>8 DEF ToldIsGranted

----------------------------------------------------------------------------
(* The invariant                                                           *)

\* The gateway starts in Inv: nothing is stored, drawn or told.
LEMMA InitInv == Init => Inv
<1> SUFFICES ASSUME Init PROVE Inv
    OBVIOUS
<1>1. TypeOK /\ Grants = {}
    BY InitType DEF Init, Grants
<1>2. \A r \in Requests : req[r] = Idle
    BY DEF Init
<1>3. HandlersHold
    BY <1>2 DEF HandlersHold, At, Idle
<1>4. /\ \A t \in TicketIds : tickets[t] = None
      /\ \A c \in ChallengeIds : challenges[c] = None
      /\ \A s \in SessionIds : sessions[s] = None
      /\ told = {}
    BY DEF Init
<1>5. IdsAreIssued
    BY <1>1, <1>2, <1>4 DEF IdsAreIssued, At, Idle
<1>6. DrawnIdsAreOwned
    BY <1>2 DEF DrawnIdsAreOwned, Creating, Drafting, Granting, At, Idle
<1> QED
    BY <1>1, <1>3, <1>4, <1>5, <1>6
    DEF Inv, UndecidedHasNoSession, OneGrantPerTicket, GrantsAgree, LiveChallengeIsCurrent,
        ToldTicketsAreDecided, ToldIsGranted

\* Whatever races, every step of the gateway keeps Inv.
LEMMA NextInv == ASSUME Inv, [Next]_vars PROVE Inv'
BY NextType, HandlersKept, IssuedKept, OwnedKept, UndecidedKept, OneGrantKept, GrantsAgreeKept,
   LiveChallengeKept, ToldKept
DEF Inv

\* Inv holds in every reachable state, for every number of tickets, wallets
\* and workers, both stores and both wallet policies.
THEOREM InvHolds == Spec => []Inv
BY InitInv, NextInv, PTL DEF Spec

\* Every table, log, id pool and handler holds values of its type.
THEOREM TypeCorrect == Spec => []TypeOK
<1>1. Inv => TypeOK
    BY DEF Inv
<1> QED
    BY <1>1, InvHolds, PTL

\* However many finalize_approval calls of a ticket race, one of them at most
\* grants a session.
THEOREM AtMostOneGrant == Spec => []OneGrantPerTicket
<1>1. Inv => OneGrantPerTicket
    BY DEF Inv
<1> QED
    BY <1>1, InvHolds, PTL

\* No failed, late or rolled back call leaves ticket, session and audit log
\* disagreeing about a grant.
THEOREM StoreAgreesOnGrants == Spec => []GrantsAgree
<1>1. Inv => GrantsAgree
    BY DEF Inv
<1> QED
    BY <1>1, InvHolds, PTL

\* A pending ticket never has a second challenge that can be signed.
THEOREM OneLiveChallenge == Spec => []LiveChallengeIsCurrent
<1>1. Inv => LiveChallengeIsCurrent
    BY DEF Inv
<1> QED
    BY <1>1, InvHolds, PTL

\* A session handed to a browser was granted to its ticket and stays the
\* only one any browser gets for it.
THEOREM AnswersStayTrue == Spec => []ToldIsGranted
<1>1. Inv => ToldIsGranted
    BY DEF Inv
<1> QED
    BY <1>1, InvHolds, PTL

----------------------------------------------------------------------------
(* What no step may do                                                     *)

\* The clock never goes back.
LEMMA NowGrows == ASSUME TypeOK, [Next]_vars PROVE now \in Nat /\ now' \in Nat /\ now <= now'
<1>t. now \in Nat /\ \A later \in Later : later \in Nat /\ now <= later
    BY DEF TypeOK, Later
<1>1. ASSUME NEW r \in Requests, Create(r) PROVE now' = now
    BY <1>1 DEF Create, CreateBegin, CreateTicketIfCapacity
<1>2. ASSUME NEW r \in Requests, Challenge(r) PROVE now' = now \/ now' \in Later
    BY <1>2 DEF Challenge, ChallengeBegin, ReplaceChallenge, ReplaceRefused
<1>3. ASSUME NEW r \in Requests, Approve(r) PROVE now' = now
    BY <1>3 DEF Approve, ApproveBegin, ApproveGetChallenge, ApproveExpired, ApproveCheckWallet,
       ApproveBadSignature, ApproveVerified
<1>4. ASSUME NEW r \in Requests, Finalize(r) PROVE now' \in Later
    BY <1>4 DEF Finalize, FinalizeDeny, FinalizeContinue, FinalizeGrant, FinalizeRefused
<1>5. ASSUME NEW r \in Requests, Poll(r) PROVE now' = now
    BY <1>5 DEF Poll, PollTicket, PollSession
<1>6. ASSUME Environment PROVE now' = now \/ now' = now + 1
    BY <1>6 DEF Environment, ReadTicket, Logout, UpsertWallet, UpdateWallet, Tick, Restart
<1>7. now' = now \/ now' \in Later \/ now' = now + 1
    BY <1>1, <1>2, <1>3, <1>4, <1>5, <1>6 DEF Next, vars
<1> QED
    BY <1>t, <1>7

\* A purge removes only tickets that have expired.
LEMMA PurgeRemovesExpired ==
    ASSUME TypeOK, NEW t \in TicketIds, tickets[t] # None, PurgedTickets(now)[t] = None
    PROVE  tickets[t].expiresAt <= now
BY DEF TypeOK, PurgedTickets

\* A ticket leaves the table only after its expiry.
LEMMA TicketsLast ==
    ASSUME Inv, [Next]_vars, NEW t \in TicketIds, tickets[t] # None, tickets'[t] = None
    PROVE  Forgets \/ tickets[t].expiresAt <= now'
<1>t. TypeOK /\ HandlersHold /\ tickets[t] \in TicketRow
    BY DEF Inv, TypeOK
<1>n. now \in Nat /\ now' \in Nat /\ now <= now' /\ tickets[t].expiresAt \in Nat
    BY <1>t, NowGrows DEF TicketRow
<1>p. tickets'[t] = PurgedTickets(now)[t] => tickets[t].expiresAt <= now'
    BY <1>t, <1>n, PurgeRemovesExpired
<1>u. tickets' # tickets
    OBVIOUS
<1>w. ASSUME NEW r \in Requests, req[r].ticketId \in TicketIds, tickets'[req[r].ticketId] # None,
             \A u \in TicketIds \ {req[r].ticketId} : tickets'[u] = PurgedTickets(now)[u]
      PROVE  tickets[t].expiresAt <= now'
    BY <1>p, <1>w
<1>1. ASSUME NEW r \in Requests, CreateTicketIfCapacity(r) PROVE tickets[t].expiresAt <= now'
    <2>1. req[r].ticketId \in TicketIds /\ req[r].expiresAt \in Nat
        BY <1>t, <1>1 DEF TypeOK, Handler, HandlersHold, At, CreateTicketIfCapacity
    <2> DEFINE row == [status |-> "pending", expiresAt |-> Stored(req[r].expiresAt),
                       challengeId |-> None, sessionId |-> None]
    <2>2. row # None
        <3>1. row \in TicketRow
            BY <2>1, StoredType DEF TicketRow
        <3> QED
            BY <3>1, RowAssumption
    <2> HIDE DEF row
    <2>3. tickets' \in {PurgedTickets(now), [PurgedTickets(now) EXCEPT ![req[r].ticketId] = row]}
        BY <1>1 DEF CreateTicketIfCapacity, row
    <2>4. CASE tickets' = PurgedTickets(now)
        BY <1>p, <2>4
    <2>5. CASE tickets' = [PurgedTickets(now) EXCEPT ![req[r].ticketId] = row]
        <3>1. PurgedTickets(now) \in [TicketIds -> TicketRow \cup {None}]
            BY <1>t, <1>n, PurgeShrinks
        <3>2. tickets'[t] = IF t = req[r].ticketId THEN row ELSE PurgedTickets(now)[t]
            BY <2>5, <3>1
        <3> QED
            BY <1>p, <2>2, <3>2
    <2> QED
        BY <2>3, <2>4, <2>5
<1>2. ASSUME NEW r \in Requests, NEW later \in Later,
             ReplaceChallenge(r, later) \/ FinalizeDeny(r, later) \/ FinalizeGrant(r, later)
      PROVE  tickets[t].expiresAt <= now'
    <2> DEFINE u == req[r].ticketId
    <2>1. u \in TicketIds /\ tickets'[u] # None
        BY <1>t, <1>2, ReplaceWrites, DenyWrites, GrantWrites
    <2>2. \A v \in TicketIds \ {u} : tickets'[v] = PurgedTickets(now)[v]
        BY <1>t, <1>n, <1>2, PurgeShrinks
        DEF ReplaceChallenge, ReplacedTickets, FinalizeDeny, FinalizeGrant
    <2> QED
        BY <1>p, <2>1, <2>2
<1>3. CASE Restart
    BY <1>u, <1>3 DEF Restart, Forgets, Grants, tables
<1>4. CASE tickets' = PurgedTickets(now)
    BY <1>p, <1>4
<1>5. ASSUME NEW r \in Requests, Create(r)
      PROVE  CreateTicketIfCapacity(r) \/ tickets' = PurgedTickets(now)
    BY <1>5 DEF Create, CreateBegin, PurgeExpired
<1>6. ASSUME NEW r \in Requests, Challenge(r)
      PROVE  (\E later \in Later : ReplaceChallenge(r, later)) \/ tickets' = PurgedTickets(now)
    BY <1>u, <1>6 DEF Challenge, ChallengeBegin, PurgeExpired, ReplaceRefused, Rollback, tables
<1>7. ASSUME NEW r \in Requests, Approve(r) PROVE tickets' = PurgedTickets(now)
    BY <1>u, <1>7 DEF Approve, ApproveBegin, ApproveGetChallenge, ApproveExpired, ApproveCheckWallet,
       ApproveBadSignature, ApproveVerified, PurgeExpired, tables
<1>8. ASSUME NEW r \in Requests, Finalize(r)
      PROVE  \/ \E later \in Later : FinalizeDeny(r, later) \/ FinalizeGrant(r, later)
             \/ tickets' = PurgedTickets(now)
    BY <1>u, <1>8 DEF Finalize, FinalizeContinue, FinalizeRefused, PurgeExpired, Rollback, tables
<1>9. ASSUME NEW r \in Requests, Poll(r) PROVE tickets' = PurgedTickets(now)
    BY <1>u, <1>9 DEF Poll, PollTicket, PollSession, PurgeExpired, tables
<1>10. CASE Environment
    BY <1>u, <1>3, <1>4, <1>10
    DEF Environment, ReadTicket, PurgeExpired, Logout, UpsertWallet, UpdateWallet, Tick, tables
<1> QED
    BY <1>u, <1>1, <1>2, <1>4, <1>5, <1>6, <1>7, <1>8, <1>9, <1>10 DEF Next, vars

\* A step changes the row of a denied ticket only by removing it.
LEMMA DeniedStays ==
    ASSUME Inv, [Next]_vars, NEW t \in TicketIds, tickets[t] # None, tickets[t].status = "denied"
    PROVE  tickets'[t] \in {tickets[t], None}
<1>t. TypeOK /\ HandlersHold /\ DrawnIdsAreOwned
    BY DEF Inv
<1>1. ASSUME NEW r \in Requests, CreateTicketIfCapacity(r) PROVE tickets'[t] \in {tickets[t], None}
    <2>1. tickets[req[r].ticketId] = None
        BY <1>t, <1>1, CreateWrites DEF DrawnIdsAreOwned, Creating, CreateTicketIfCapacity
    <2> QED
        BY <1>t, <1>1, <2>1, CreateWrites
<1>2. ASSUME NEW r \in Requests, NEW later \in Later,
             ReplaceChallenge(r, later) \/ FinalizeDeny(r, later) \/ FinalizeGrant(r, later)
      PROVE  tickets'[t] \in {tickets[t], None}
    <2> DEFINE u == req[r].ticketId
    <2>1. /\ tickets[u].status = "pending"
          /\ \A v \in TicketIds \ {u} : tickets'[v] \in {tickets[v], None}
        BY <1>t, <1>2, ReplaceWrites, DenyWrites, GrantWrites
    <2> HIDE DEF u
    <2> QED
        BY <2>1
<1> QED
    BY <1>t, <1>1, <1>2, StepKinds DEF Shrinks, Forgets

\* Every step keeps the decisions made.
LEMMA StepKeepsDecisions == ASSUME Inv, [Next]_vars PROVE DecisionKept
<1> SUFFICES ASSUME NEW t \in TicketIds, tickets[t] # None, tickets[t].status # "pending"
             PROVE  \/ tickets'[t] = tickets[t]
                    \/ tickets[t].status = "denied" /\ tickets[t].expiresAt <= now' /\ tickets'[t] = None
                    \/ Backend = "memory" /\ (\A i \in TicketIds : tickets'[i] = None)
    BY DEF DecisionKept
<1>1. tickets[t].status \in {"approved", "denied"}
    BY DEF Inv, TypeOK, TicketRow
<1>2. CASE tickets[t].status = "approved"
    BY <1>2, ApprovedStays DEF Forgets
<1>3. CASE tickets[t].status = "denied"
    BY <1>3, DeniedStays, TicketsLast DEF Forgets
<1> QED
    BY <1>1, <1>2, <1>3

\* A step that approves a ticket is finalize_approval with everything it
\* rechecks in force.
LEMMA StepGrantsOnCurrentState == ASSUME Inv, [Next]_vars PROVE GrantUsesCurrentState
<1> SUFFICES ASSUME NEW t \in TicketIds, tickets'[t] # None, tickets'[t].status = "approved",
                    tickets'[t] # tickets[t]
             PROVE  /\ tickets[t] # None
                    /\ tickets[t].status = "pending"
                    /\ tickets[t].expiresAt > now'
                    /\ tickets[t].challengeId # None
                    /\ challenges[tickets[t].challengeId] # None
                    /\ challenges[tickets[t].challengeId].expiresAt > now'
                    /\ WalletAllowed(challenges[tickets[t].challengeId].address)
                    /\ challenges'[tickets[t].challengeId] = None
    BY DEF GrantUsesCurrentState
<1>t. TypeOK /\ HandlersHold /\ now \in Nat /\ None \notin ChallengeIds
    BY IdAssumption DEF Inv, TypeOK
<1>1. PICK r \in Requests, later \in Later : FinalizeGrant(r, later) /\ t = req[r].ticketId
    <2>1. ASSUME NEW r \in Requests, CreateTicketIfCapacity(r) PROVE FALSE
        BY <1>t, <2>1, CreateWrites
    <2>2. ASSUME NEW r \in Requests, NEW later \in Later, ReplaceChallenge(r, later) PROVE FALSE
        BY <1>t, <2>2, ReplaceWrites
    <2>3. ASSUME NEW r \in Requests, NEW later \in Later, FinalizeDeny(r, later) PROVE FALSE
        BY <1>t, <2>3, DenyWrites
    <2>4. ASSUME NEW r \in Requests, NEW later \in Later, FinalizeGrant(r, later)
          PROVE  t = req[r].ticketId
        BY <1>t, <2>4, GrantWrites
    <2> QED
        BY <1>t, <2>1, <2>2, <2>3, <2>4, StepKinds DEF Shrinks, Forgets
<1> DEFINE c == req[r].challengeId
<1>2. c \in ChallengeIds /\ now' = later /\ TicketCurrent(r, later) /\ ChallengeCurrent(r, later)
    BY <1>t, <1>1, GrantWrites DEF FinalizeGrant, Current
<1>3. PurgedTickets(now)[t] \in {tickets[t], None} /\ PurgedChallenges(now)[c] \in {challenges[c], None}
    BY <1>t, <1>2, PurgeShrinks
<1>4. /\ tickets[t] # None /\ tickets[t].status = "pending" /\ tickets[t].expiresAt > now'
      /\ tickets[t].challengeId = c
    BY <1>1, <1>2, <1>3 DEF TicketCurrent
<1>5. challenges[c] # None /\ challenges[c].expiresAt > now' /\ challenges[c] = req[r].challenge
    BY <1>2, <1>3 DEF ChallengeCurrent
<1>6. WalletAllowed(challenges[c].address)
    BY <1>1, <1>5 DEF FinalizeGrant, StillRefused
<1>7. challenges'[c] = None
    BY <1>t, <1>1, GrantWrites
<1> HIDE DEF c
<1> QED
    BY <1>t, <1>2, <1>4, <1>5, <1>6, <1>7

\* No late handler, purge or restart of SQLite undoes an approval or a
\* denial.
THEOREM DecisionsAreKept == Spec => DecisionsKept
<1>1. Inv /\ [Next]_vars => [DecisionKept]_vars
    BY StepKeepsDecisions
<1> QED
    BY <1>1, InvHolds, PTL DEF Spec, DecisionsKept

\* Whatever approve_device_login read before it, finalize_approval grants on
\* the strength of the ticket, challenge and permission of that moment.
THEOREM GrantsAreCurrent == Spec => GrantsUseCurrentState
<1>1. Inv /\ [Next]_vars => [GrantUsesCurrentState]_vars
    BY StepGrantsOnCurrentState
<1> QED
    BY <1>1, InvHolds, PTL DEF Spec, GrantsUseCurrentState

----------------------------------------------------------------------------
(* The capacity                                                            *)

\* Tickets that can still be approved: what PendingCap counts.
LiveTickets == Pending(PurgedTickets(now))

\* The row of a live ticket is pending and has not expired.
LEMMA LiveTicketRows ==
    ASSUME TypeOK
    PROVE  LiveTickets = {t \in TicketIds : /\ tickets[t] # None
                                            /\ tickets[t].status = "pending"
                                            /\ tickets[t].expiresAt > now}
<1>1. now \in Nat /\ tickets \in [TicketIds -> TicketRow \cup {None}]
    BY DEF TypeOK
<1>2. ASSUME NEW t \in TicketIds
      PROVE  t \in LiveTickets <=>
                 tickets[t] # None /\ tickets[t].status = "pending" /\ tickets[t].expiresAt > now
    <2>1. tickets[t] # None => tickets[t].expiresAt \in Nat
        BY <1>1 DEF TicketRow
    <2> QED
        BY <1>1, <2>1 DEF LiveTickets, Pending, PurgedTickets
<1> QED
    BY <1>2 DEF LiveTickets, Pending

\* Only create_ticket_if_capacity adds a live ticket.
LEMMA LiveTicketsShrink ==
    ASSUME Inv, [Next]_vars, \A r \in Requests : ~ CreateTicketIfCapacity(r)
    PROVE  LiveTickets' \subseteq LiveTickets
<1>t. TypeOK /\ HandlersHold /\ TypeOK' /\ tickets' \in [TicketIds -> TicketRow \cup {None}]
    BY NextType DEF Inv, TypeOK
<1>n. now \in Nat /\ now' \in Nat /\ now <= now'
    BY <1>t, NowGrows
<1> SUFFICES ASSUME NEW t \in LiveTickets' PROVE t \in LiveTickets
    OBVIOUS
<1>0. LiveTickets' = {u \in TicketIds : /\ tickets'[u] # None
                                        /\ tickets'[u].status = "pending"
                                        /\ tickets'[u].expiresAt > now'}
    <2>1. ASSUME NEW u \in TicketIds
          PROVE  u \in LiveTickets' <=>
                     tickets'[u] # None /\ tickets'[u].status = "pending" /\ tickets'[u].expiresAt > now'
        <3>1. tickets'[u] # None => tickets'[u].expiresAt \in Nat
            BY <1>t DEF TicketRow
        <3> QED
            BY <1>t, <1>n, <3>1 DEF LiveTickets, Pending, PurgedTickets
    <2> QED
        BY <2>1 DEF LiveTickets, Pending
<1>1. /\ t \in TicketIds /\ tickets'[t] # None /\ tickets'[t].status = "pending"
      /\ tickets'[t].expiresAt > now' /\ tickets'[t].expiresAt \in Nat
    BY <1>t, <1>0 DEF TicketRow
<1>2. CASE tickets[t] # None /\ tickets[t].status = "pending"
           /\ tickets[t].expiresAt = tickets'[t].expiresAt
    BY <1>t, <1>n, <1>1, <1>2, LiveTicketRows
<1>3. CASE tickets'[t] \in {tickets[t], None}
    BY <1>1, <1>2, <1>3
<1>4. ASSUME NEW r \in Requests, NEW later \in Later, ReplaceChallenge(r, later)
      PROVE  t \in LiveTickets
    <2> DEFINE u == req[r].ticketId
    <2>1. /\ u \in TicketIds /\ tickets[u] # None /\ tickets[u].status = "pending"
          /\ tickets[u] \in TicketRow
          /\ tickets'[u] = [tickets[u] EXCEPT !.challengeId = req[r].challengeId]
          /\ \A v \in TicketIds \ {u} : tickets'[v] \in {tickets[v], None}
        BY <1>t, <1>4, ReplaceWrites DEF TypeOK
    <2>2. tickets'[u].expiresAt = tickets[u].expiresAt
        BY <2>1 DEF TicketRow
    <2> HIDE DEF u
    <2> QED
        BY <1>1, <1>2, <1>3, <2>1, <2>2
<1>5. ASSUME NEW r \in Requests, NEW later \in Later,
             FinalizeDeny(r, later) \/ FinalizeGrant(r, later)
      PROVE  t \in LiveTickets
    <2> DEFINE u == req[r].ticketId
    <2>1. /\ tickets'[u].status \in {"denied", "approved"}
          /\ \A v \in TicketIds \ {u} : tickets'[v] \in {tickets[v], None}
        BY <1>t, <1>5, DenyWrites, GrantWrites
    <2> HIDE DEF u
    <2> QED
        BY <1>1, <1>3, <2>1
<1> QED
    BY <1>t, <1>1, <1>3, <1>4, <1>5, StepKinds DEF Shrinks, Forgets

\* An element more counts at most one more.
LEMMA OneMore ==
    ASSUME NEW S, IsFiniteSet(S), NEW x
    PROVE  Cardinality(S \cup {x}) <= Cardinality(S) + 1
<1>1. Cardinality(S) \in Nat
    BY FS_CardinalityType
<1>2. CASE x \in S
    <2>1. S \cup {x} = S
        BY <1>2
    <2> QED
        BY <1>1, <2>1
<1>3. CASE x \notin S
    <2>1. Cardinality(S \cup {x}) = Cardinality(S) + 1
        BY <1>3, FS_AddElement
    <2> QED
        BY <1>1, <2>1
<1> QED
    BY <1>2, <1>3

\* The counting section leaves at most the limit.
LEMMA CreateKeepsCap ==
    ASSUME Inv, NEW r \in Requests, CreateTicketIfCapacity(r), PendingCap
    PROVE  PendingCap'
<1>t. TypeOK /\ HandlersHold /\ now \in Nat
    BY DEF Inv, TypeOK
<1> DEFINE purged == PurgedTickets(now)
           t == req[r].ticketId
<1>1. /\ t \in TicketIds /\ now' = now /\ req[r].expiresAt \in Nat
      /\ purged \in [TicketIds -> TicketRow \cup {None}]
    BY <1>t, PurgeShrinks DEF CreateTicketIfCapacity, TypeOK, Handler, HandlersHold, At
<1>2. IsFiniteSet(Pending(purged)) /\ IsFiniteSet(Pending(purged) \cup {t})
    <2>1. Pending(purged) \subseteq TicketIds /\ Pending(purged) \cup {t} \subseteq TicketIds
        BY <1>1 DEF Pending
    <2> QED
        BY <2>1, CapacityAssumption, FS_Subset
<1>3. Cardinality(Pending(purged)) \in Nat /\ Cardinality(Pending(purged) \cup {t}) \in Nat
    BY <1>2, FS_CardinalityType
<1>4. Cardinality(Pending(purged) \cup {t}) <= Cardinality(Pending(purged)) + 1
    BY <1>2, OneMore
<1>5. LiveTickets' \subseteq {u \in TicketIds : tickets'[u] # None /\ tickets'[u].status = "pending"}
    BY DEF LiveTickets, Pending, PurgedTickets
<1>6. CASE HasCapacity(purged)
    <2> DEFINE row == [status |-> "pending", expiresAt |-> Stored(req[r].expiresAt),
                       challengeId |-> None, sessionId |-> None]
    <2>1. tickets' = [purged EXCEPT ![t] = row]
        BY <1>6 DEF CreateTicketIfCapacity
    <2> HIDE DEF row
    <2>2. \A u \in TicketIds \ {t} : tickets'[u] = purged[u]
        BY <1>1, <2>1
    <2>3. LiveTickets' \subseteq Pending(purged) \cup {t}
        BY <1>5, <2>2 DEF Pending
    <2>4. Cardinality(LiveTickets') <= Cardinality(Pending(purged) \cup {t})
        BY <1>2, <2>3, FS_Subset
    <2>5. Cardinality(LiveTickets') \in Nat
        BY <1>2, <2>3, FS_Subset, FS_CardinalityType
    <2>6. Cardinality(Pending(purged)) < MaxPendingTickets
        BY <1>6 DEF HasCapacity
    <2>7. Cardinality(LiveTickets') <= MaxPendingTickets
        BY <1>3, <1>4, <2>4, <2>5, <2>6, ClockAssumption
    <2> QED
        BY <2>7 DEF PendingCap, LiveTickets
<1>7. CASE ~ HasCapacity(purged)
    <2>1. tickets' = purged
        BY <1>7 DEF CreateTicketIfCapacity
    <2>2. LiveTickets' \subseteq Pending(purged)
        BY <1>5, <2>1 DEF Pending
    <2>3. Cardinality(LiveTickets') <= Cardinality(Pending(purged))
        BY <1>2, <2>2, FS_Subset
    <2>4. Cardinality(LiveTickets') \in Nat
        BY <1>2, <2>2, FS_Subset, FS_CardinalityType
    <2>5. Cardinality(LiveTickets') <= MaxPendingTickets
        BY <1>3, <2>3, <2>4, ClockAssumption DEF PendingCap
    <2> QED
        BY <2>5 DEF PendingCap, LiveTickets
<1> QED
    BY <1>6, <1>7

\* max_pending_tickets bounds the tickets that can still be approved, however
\* many creations race: counting and inserting are one section.
THEOREM CapacityHolds == Spec => []PendingCap
<1>1. Init => PendingCap
    <2> SUFFICES ASSUME Init PROVE PendingCap
        OBVIOUS
    <2>1. Pending(PurgedTickets(now)) = {}
        BY DEF Init, Pending, PurgedTickets
    <2> QED
        BY <2>1, FS_EmptySet, ClockAssumption DEF PendingCap
<1>2. Inv /\ PendingCap /\ [Next]_vars => PendingCap'
    <2> SUFFICES ASSUME Inv, PendingCap, [Next]_vars PROVE PendingCap'
        OBVIOUS
    <2>1. CASE \E r \in Requests : CreateTicketIfCapacity(r)
        BY <2>1, CreateKeepsCap
    <2>2. CASE \A r \in Requests : ~ CreateTicketIfCapacity(r)
        <3>1. LiveTickets' \subseteq LiveTickets /\ LiveTickets \subseteq TicketIds
            BY <2>2, LiveTicketsShrink DEF LiveTickets, Pending
        <3>2. IsFiniteSet(LiveTickets)
            BY <3>1, CapacityAssumption, FS_Subset
        <3>3. IsFiniteSet(LiveTickets') /\ Cardinality(LiveTickets') <= Cardinality(LiveTickets)
            BY <3>1, <3>2, FS_Subset
        <3>4. Cardinality(LiveTickets) \in Nat /\ Cardinality(LiveTickets') \in Nat
            BY <3>2, <3>3, FS_CardinalityType
        <3> QED
            BY <3>3, <3>4, ClockAssumption DEF PendingCap, LiveTickets
    <2> QED
        BY <2>1, <2>2
<1> QED
    BY <1>1, <1>2, InvHolds, PTL DEF Spec

----------------------------------------------------------------------------
(***************************************************************************)
(* The refinement: under the mapping of DeviceLogin's Authority, every     *)
(* step of the gateway is a step of the promise or changes nothing of it.  *)
(* And a challenge that can be signed is never lost.  Two kinds of lemmas: *)
(* what a step does to one ticket, session or wallet as clients see it (it *)
(* stays, or lapses), and one lemma per step that does more than that.     *)
(***************************************************************************)

(* What clients see of one row                                             *)

\* A ticket id is used once: one that was decided on is not drawn again, and
\* one whose row leaves the table is not about to be created.
LEMMA UsedStays ==
    ASSUME Inv, [Next]_vars, NEW t \in TicketIds, ~ Unused(t) \/ tickets[t] # None
    PROVE  ~ Unused(t)'
<1>1. t \in issued
    BY DEF Inv, IdsAreIssued, Unused
<1>2. ASSUME NEW r \in Requests PROVE ~ Creating(r, t)
    BY DEF Inv, DrawnIdsAreOwned, Unused
<1>3. ASSUME NEW r \in Requests PROVE ~ Creating(r, t)'
    <2>1. ~ CreateBegin(r, t)
        BY <1>1 DEF CreateBegin
    <2> QED
        BY <1>2, <2>1, OwnersMove
<1> QED
    BY <1>1, <1>3, IssuedGrows DEF Unused

\* The row of t stays, goes without an approval, or is pending before and
\* after.
Settled(t) ==
    \/ tickets'[t] = tickets[t]
    \/ tickets[t] # None /\ tickets[t].status # "approved" /\ tickets'[t] = None
    \/ /\ tickets[t] # None /\ tickets'[t] # None
       /\ tickets[t].status = "pending" /\ tickets'[t].status = "pending"
       /\ tickets'[t].expiresAt = tickets[t].expiresAt
       /\ tickets'[t].sessionId = tickets[t].sessionId

\* Such a ticket looks to clients as before, or it has closed.
LEMMA TicketLapses ==
    ASSUME Inv, [Next]_vars, NEW t \in TicketIds, Settled(t)
    PROVE  /\ \/ TicketState'[t] = TicketState[t]
              \/ TicketState'[t] = "closed" /\ TicketState[t] # "approved"
           /\ GrantedSession'[t] = GrantedSession[t]
<1>t. /\ TypeOK /\ UndecidedHasNoSession /\ TypeOK'
      /\ tickets \in [TicketIds -> TicketRow \cup {None}]
    BY NextType DEF Inv, TypeOK
<1>n. now \in Nat /\ now' \in Nat /\ now <= now'
    BY <1>t, NowGrows
<1>1. CASE tickets[t] = None
    BY <1>1, UsedStays DEF TicketState, GrantedSession, Settled
<1>2. CASE tickets[t] # None /\ tickets'[t] = None
    <2>1. tickets[t].status # "approved"
        BY <1>2 DEF Settled
    <2>2. ~ Unused(t)'
        BY <1>2, UsedStays
    <2>3. tickets[t].sessionId = None
        BY <1>t, <1>2, <2>1 DEF UndecidedHasNoSession
    <2> QED
        BY <1>2, <2>1, <2>2, <2>3 DEF TicketState, GrantedSession
<1>3. CASE tickets[t] # None /\ tickets'[t] # None
    <2>1. /\ tickets'[t].status = tickets[t].status
          /\ tickets'[t].expiresAt = tickets[t].expiresAt
          /\ tickets'[t].sessionId = tickets[t].sessionId
        BY <1>3 DEF Settled
    <2>2. tickets[t].expiresAt \in Nat
        BY <1>t, <1>3 DEF TicketRow
    <2>3. tickets[t].expiresAt <= now => tickets[t].expiresAt <= now'
        BY <1>n, <2>2
    <2> QED
        BY <1>3, <2>1, <2>3 DEF TicketState, GrantedSession
<1> QED
    BY <1>1, <1>2, <1>3

\* A session whose row stays or goes authenticates whom it did, or nobody.
LEMMA SessionEnds ==
    ASSUME TypeOK, [Next]_vars, NEW s \in SessionIds, sessions'[s] \in {sessions[s], None}
    PROVE  SessionHolder'[s] \in {SessionHolder[s], None}
<1>1. now \in Nat /\ now' \in Nat /\ now <= now'
    BY NowGrows
<1>2. sessions[s] # None => sessions[s].expiresAt \in Nat
    BY DEF TypeOK, SessionRow
<1>3. sessions[s] # None /\ sessions[s].expiresAt > now' => sessions[s].expiresAt > now
    BY <1>1, <1>2
<1> QED
    BY <1>3 DEF SessionHolder

\* A spent session id stays spent.
LEMMA SpentStays ==
    ASSUME Inv, [Next]_vars
    PROVE  SpentSessions \subseteq SpentSessions' /\ SpentSessions' \subseteq SessionIds
<1> SUFFICES ASSUME NEW s \in SpentSessions PROVE s \in SpentSessions'
    BY DEF SpentSessions
<1>1. s \in SessionIds /\ s \in issued /\ s \in issued'
    BY IssuedGrows DEF SpentSessions
<1>2. ASSUME NEW r \in Requests PROVE ~ Granting(r, s)'
    <2>1. ~ Granting(r, s) /\ ~ ApproveVerified(r, s)
        BY <1>1 DEF SpentSessions, ApproveVerified
    <2> QED
        BY <1>1, <2>1, OwnersMove
<1> QED
    BY <1>1, <1>2 DEF SpentSessions

\* The wallets that may log in change only with the table.
Permitted == {w \in Wallets : WalletAllowed(w)}

----------------------------------------------------------------------------
(* Steps of the promise                                                    *)

\* A step in which every ticket stays or closes, every session stays or
\* ends and no permission changes.
Lapses ==
    /\ \A t \in TicketIds :
          /\ \/ TicketState'[t] = TicketState[t]
             \/ TicketState'[t] = "closed" /\ TicketState[t] # "approved"
          /\ GrantedSession'[t] = GrantedSession[t]
    /\ \A s \in SessionIds : SessionHolder'[s] \in {SessionHolder[s], None}
    /\ SpentSessions \subseteq SpentSessions' /\ SpentSessions' \subseteq SessionIds
    /\ Permitted' = Permitted

\* The tickets that close and the sessions that end in a step.
Closing == {t \in TicketIds : TicketState'[t] = "closed"}
Ending == {s \in SessionIds : SessionHolder'[s] = None}

\* The holders after a step in which sessions only end.
LEMMA Holders ==
    ASSUME NEW S \in SUBSET SessionIds,
           \A s \in S : SessionHolder'[s] \in {SessionHolder[s], None}
    PROVE  \A s \in S : SessionHolder'[s] = Authority!Ended(Ending)[s]
BY DEF Ending, Authority!Ended

\* It is a Lapse.
LEMMA LapsesIsAStep == ASSUME Lapses PROVE Authority!Next
<1>1. TicketState' = Authority!Closed(Closing)
    <2>1. ASSUME NEW t \in TicketIds
          PROVE  TicketState'[t] = IF t \in Closing /\ TicketState[t] # "approved"
                                   THEN "closed" ELSE TicketState[t]
        BY DEF Lapses, Closing
    <2> QED
        BY <2>1 DEF Authority!Closed, TicketState
<1>2. SessionHolder' = Authority!Ended(Ending)
    <2>1. ASSUME NEW s \in SessionIds
          PROVE  SessionHolder'[s] = IF s \in Ending THEN None ELSE SessionHolder[s]
        BY DEF Lapses, Ending
    <2> QED
        BY <2>1 DEF Authority!Ended, SessionHolder
<1>3. GrantedSession' = GrantedSession
    BY DEF Lapses, GrantedSession
<1>4. SpentSessions' = SpentSessions \cup SpentSessions' /\ Permitted' = Permitted
    BY DEF Lapses
<1>5. Authority!Lapse(Closing, Ending, SpentSessions')
    BY <1>1, <1>2, <1>3, <1>4 DEF Authority!Lapse, Permitted
<1>6. /\ Closing \in SUBSET TicketIds /\ Ending \in SUBSET SessionIds
      /\ SpentSessions' \in SUBSET SessionIds
    BY DEF Closing, Ending, Lapses
<1> QED
    BY <1>5, <1>6 DEF Authority!Next

\* What clients see lapses where rows only stay, go or stay pending.
LEMMA SettledLapses ==
    ASSUME Inv, [Next]_vars, wallets' = wallets, \A t \in TicketIds : Settled(t),
           \A s \in SessionIds : sessions'[s] \in {sessions[s], None}
    PROVE  Lapses
<1>1. TypeOK
    BY DEF Inv
<1>2. Permitted' = Permitted
    BY DEF Permitted, WalletAllowed
<1> QED
    BY <1>1, <1>2, TicketLapses, SessionEnds, SpentStays DEF Lapses

\* Replacing a challenge is such a step.
LEMMA ReplaceSettles ==
    ASSUME Inv, [Next]_vars, NEW r \in Requests, NEW later \in Later, ReplaceChallenge(r, later)
    PROVE  Lapses
<1>t. TypeOK /\ HandlersHold
    BY DEF Inv
<1> DEFINE t == req[r].ticketId
<1>1. /\ t \in TicketIds /\ tickets[t] # None /\ tickets[t] \in TicketRow
      /\ tickets[t].status = "pending"
      /\ tickets'[t] = [tickets[t] EXCEPT !.challengeId = req[r].challengeId]
      /\ tickets'[t] # None /\ tickets'[t].status = "pending"
      /\ tickets'[t].sessionId = tickets[t].sessionId
      /\ \A u \in TicketIds \ {t} :
            /\ tickets'[u] \in {tickets[u], None}
            /\ tickets[u] # None /\ tickets[u].status = "approved" => tickets'[u] = tickets[u]
      /\ \A s \in SessionIds : sessions'[s] \in {sessions[s], None}
    BY <1>t, ReplaceWrites DEF TypeOK
<1>2. tickets'[t].expiresAt = tickets[t].expiresAt
    BY <1>1 DEF TicketRow
<1>3. wallets' = wallets
    BY DEF ReplaceChallenge
<1> HIDE DEF t
<1>4. \A u \in TicketIds : Settled(u)
    BY <1>1, <1>2 DEF Settled
<1> QED
    BY <1>1, <1>3, <1>4, SettledLapses

\* LoginAuthority counts as FiniteSets does.
LEMMA SameCardinality == Authority!Cardinality(Authority!OpenTickets) = Cardinality(Authority!OpenTickets)
BY DEF Authority!Cardinality, Cardinality

\* create_ticket_if_capacity opens the ticket it drew, or the id is used up
\* with nothing opened: the limit refused it, or its second has passed.
LEMMA CreateIsAStep ==
    ASSUME Inv, [Next]_vars, NEW r \in Requests, CreateTicketIfCapacity(r)
    PROVE  Authority!Next
<1>0. PICK t \in TicketIds : t = req[r].ticketId
    BY DEF Inv, HandlersHold, At, CreateTicketIfCapacity
<1> DEFINE purged == PurgedTickets(now)
           row == [status |-> "pending", expiresAt |-> Stored(req[r].expiresAt),
                   challengeId |-> None, sessionId |-> None]
<1>t. /\ TypeOK /\ HandlersHold /\ DrawnIdsAreOwned /\ TypeOK'
      /\ now \in Nat /\ req \in [Requests -> Handler]
    BY NextType DEF Inv, TypeOK
<1>1. /\ Creating(r, t) /\ t \in TicketIds /\ req[r].expiresAt \in Nat
      /\ now' = now /\ wallets' = wallets /\ issued' = issued /\ Return(r)
      /\ purged \in [TicketIds -> TicketRow \cup {None}]
    BY <1>0, <1>t, PurgeShrinks
    DEF TypeOK, Handler, HandlersHold, At, CreateTicketIfCapacity, Creating
<1>2. tickets[t] = None /\ Unused(t) /\ TicketState[t] = "unused"
    BY <1>t, <1>1 DEF DrawnIdsAreOwned, Unused, TicketState
<1>3. /\ row \in TicketRow /\ row # None /\ row.expiresAt \in Nat
      /\ row.status = "pending" /\ row.sessionId = None
    BY <1>1, StoredType, RowAssumption DEF TicketRow
<1>4. ASSUME NEW q \in Requests, NEW u \in TicketIds
      PROVE  Creating(q, u)' <=> Creating(q, u) /\ u # t
    <2>1. CASE q = r
        <3>1. req'[q] = Idle /\ Idle.pc = "idle"
            BY <1>t, <1>1, <2>1 DEF Return, Idle
        <3> QED
            BY <1>1, <2>1, <3>1 DEF Creating, At
    <2>2. CASE q # r
        <3>1. req'[q] = req[q] /\ ~ Creating(q, t)
            BY <1>t, <1>1, <2>2 DEF Return, DrawnIdsAreOwned
        <3> QED
            BY <3>1 DEF Creating, At
    <2> QED
        BY <2>1, <2>2
<1>5. ~ Unused(t)' /\ \A u \in TicketIds \ {t} : Unused(u)' <=> Unused(u)
    <2>1. t \in issued
        BY <1>t, <1>1 DEF Inv, IdsAreIssued, Creating
    <2>2. \A q \in Requests : ~ Creating(q, t)'
        BY <1>1, <1>4
    <2>3. ASSUME NEW u \in TicketIds \ {t} PROVE Unused(u)' <=> Unused(u)
        <3>1. \A q \in Requests : Creating(q, u)' <=> Creating(q, u)
            BY <1>4
        <3> QED
            BY <1>1, <3>1 DEF Unused
    <2> QED
        BY <1>1, <2>1, <2>2, <2>3 DEF Unused
<1>6. \A u \in TicketIds \ {t} : tickets'[u] = purged[u]
    BY <1>0, <1>1 DEF CreateTicketIfCapacity
<1>7. ASSUME NEW u \in TicketIds \ {t}
      PROVE  TicketState'[u] = TicketState[u] /\ GrantedSession'[u] = GrantedSession[u]
    <2>1. CASE tickets'[u] = tickets[u]
        BY <1>1, <1>5, <2>1 DEF TicketState, GrantedSession
    <2>2. CASE tickets'[u] # tickets[u]
        <3>1. /\ tickets'[u] = None /\ tickets[u] # None /\ tickets[u].status # "approved"
              /\ tickets[u].expiresAt <= now
            BY <1>6, <2>2 DEF PurgedTickets
        <3>2. ~ Unused(u)' /\ tickets[u].sessionId = None
            BY <3>1, UsedStays DEF Inv, UndecidedHasNoSession
        <3> QED
            BY <3>1, <3>2 DEF TicketState, GrantedSession
    <2> QED
        BY <2>1, <2>2
<1>8. ASSUME NEW s \in SessionIds PROVE SessionHolder'[s] = SessionHolder[s]
    <2>1. sessions'[s] = PurgedSessions(now)[s]
        BY DEF CreateTicketIfCapacity
    <2>2. sessions[s] # None => sessions[s].expiresAt \in Nat
        BY <1>t DEF TypeOK, SessionRow
    <2> QED
        BY <1>t, <1>1, <2>1, <2>2 DEF PurgedSessions, SessionHolder
<1>9. SpentSessions' = SpentSessions
    <2>1. ASSUME NEW q \in Requests, NEW s \in SessionIds PROVE Granting(q, s)' <=> Granting(q, s)
        <3>1. CASE q = r
            <4>1. req'[q] = Idle /\ Idle.pc = "idle" /\ req[q].pc = "create"
                BY <1>t, <1>1, <3>1 DEF Return, Idle, Creating, At
            <4> QED
                BY <4>1 DEF Granting, At
        <3>2. CASE q # r
            BY <1>t, <1>1, <3>2 DEF Return, Granting, At
        <3> QED
            BY <3>1, <3>2
    <2> QED
        BY <1>1, <2>1 DEF SpentSessions
<1>10. Permitted' = Permitted
    BY <1>1 DEF Permitted, WalletAllowed
<1>11. Pending(purged) = Authority!OpenTickets
    <2>1. ASSUME NEW u \in TicketIds PROVE u \in Pending(purged) <=> TicketState[u] = "open"
        <3>1. tickets[u] # None => tickets[u].expiresAt \in Nat
            BY <1>t DEF TypeOK, TicketRow
        <3> QED
            BY <1>t, <3>1 DEF Pending, PurgedTickets, TicketState
    <2> QED
        BY <2>1 DEF Pending, Authority!OpenTickets
<1>12. CASE HasCapacity(purged) /\ row.expiresAt > now
    <2>1. tickets'[t] = row
        BY <1>0, <1>1, <1>12 DEF CreateTicketIfCapacity
    <2> HIDE DEF row
    <2>2. GrantedSession'[t] = None /\ GrantedSession[t] = None
        BY <1>1, <1>2, <1>3, <2>1 DEF GrantedSession
    <2>8. ~ (row.expiresAt <= now') /\ row.status # "approved"
        BY <1>t, <1>1, <1>3, <1>12
    <2>9. TicketState'[t] = "open"
        BY <1>3, <2>1, <2>8 DEF TicketState
    <2>3. TicketState' = [TicketState EXCEPT ![t] = "open"]
        BY <1>1, <1>7, <2>9 DEF TicketState
    <2>4. GrantedSession' = GrantedSession
        BY <1>7, <2>2 DEF GrantedSession
    <2>5. SessionHolder' = SessionHolder
        BY <1>8 DEF SessionHolder
    <2>6. Authority!Cardinality(Authority!OpenTickets) < MaxPendingTickets
        BY <1>11, <1>12, SameCardinality DEF HasCapacity
    <2>7. Authority!Open(t)
        BY <1>2, <1>9, <1>10, <2>3, <2>4, <2>5, <2>6 DEF Authority!Open, Permitted
    <2> QED
        BY <1>1, <2>7 DEF Authority!Next
<1>13. CASE ~ (HasCapacity(purged) /\ row.expiresAt > now)
    <2>1. tickets'[t] \in {row, purged[t]} /\ purged[t] = None
        BY <1>0, <1>1, <1>2 DEF CreateTicketIfCapacity, PurgedTickets
    <2>2. tickets'[t] = row => row.expiresAt <= now
        <3>1. ~ HasCapacity(purged) => tickets'[t] = None
            BY <1>0, <1>1, <2>1 DEF CreateTicketIfCapacity
        <3> QED
            BY <1>t, <1>3, <1>13, <3>1
    <2>3. TicketState'[t] = "closed" /\ GrantedSession'[t] = None /\ GrantedSession[t] = None
        BY <1>1, <1>2, <1>3, <1>5, <2>1, <2>2 DEF TicketState, GrantedSession
    <2>4. Lapses
        BY <1>2, <1>7, <1>8, <1>10, <2>3, SpentStays DEF Lapses
    <2> QED
        BY <2>4, LapsesIsAStep
<1> QED
    BY <1>12, <1>13

\* finalize_approval decides on an open ticket that has not run out when the
\* section ends, for a challenge of a wallet.
LEMMA DecidesAnOpenTicket ==
    ASSUME Inv, NEW r \in Requests, NEW later \in Later, Current(r, later),
           req[r].pc \in {"deny", "grant"}
    PROVE  LET t == req[r].ticketId IN
           /\ t \in TicketIds /\ tickets[t] \in TicketRow /\ tickets[t] # None
           /\ tickets[t].status = "pending" /\ tickets[t].sessionId = None
           /\ ~ (tickets[t].expiresAt <= later)
           /\ TicketState[t] = "open" /\ GrantedSession[t] = None
           /\ req[r].challenge.address \in Wallets
<1>t. /\ TypeOK /\ HandlersHold /\ UndecidedHasNoSession /\ now \in Nat
      /\ later \in Nat /\ now <= later
    BY DEF Inv, TypeOK, Later
<1>1. PICK t \in TicketIds : t = req[r].ticketId
    BY <1>t DEF HandlersHold, At
<1>2. PurgedTickets(now)[t] = tickets[t] /\ tickets[t] \in TicketRow /\ tickets[t] # None
    BY <1>t, <1>1, PurgeShrinks DEF TypeOK, Current, TicketCurrent
<1>3. tickets[t].status = "pending" /\ tickets[t].expiresAt > later /\ tickets[t].expiresAt \in Nat
    BY <1>1, <1>2 DEF Current, TicketCurrent, TicketRow
<1>4. ~ (tickets[t].expiresAt <= later) /\ ~ (tickets[t].expiresAt <= now)
    BY <1>t, <1>3
<1>5. tickets[t].sessionId = None
    BY <1>t, <1>2, <1>3 DEF UndecidedHasNoSession
<1>6. TicketState[t] = "open" /\ GrantedSession[t] = None
    BY <1>2, <1>3, <1>4, <1>5 DEF TicketState, GrantedSession
<1>7. req[r].challenge.address \in Wallets
    BY <1>t DEF TypeOK, Handler, HandlersHold, ChallengeRow
<1> QED
    BY <1>1, <1>2, <1>3, <1>4, <1>5, <1>6, <1>7

\* Meanwhile the other tickets lapse.
LEMMA OthersLapse ==
    ASSUME Inv, [Next]_vars, NEW t \in TicketIds, \A u \in TicketIds \ {t} : Settled(u)
    PROVE  \A u \in TicketIds \ {t} :
              /\ TicketState'[u] = IF u \in Closing /\ TicketState[u] # "approved"
                                   THEN "closed" ELSE TicketState[u]
              /\ GrantedSession'[u] = GrantedSession[u]
BY TicketLapses DEF Closing

\* finalize_approval with a refused wallet denies the ticket.
LEMMA DenyIsAStep ==
    ASSUME Inv, [Next]_vars, NEW r \in Requests, NEW later \in Later, FinalizeDeny(r, later)
    PROVE  Authority!Next
<1>t. TypeOK /\ HandlersHold
    BY DEF Inv
<1>1. PICK t \in TicketIds : t = req[r].ticketId
    BY <1>t DEF HandlersHold, At, FinalizeDeny
<1>2. /\ tickets[t] \in TicketRow /\ tickets[t] # None /\ tickets[t].sessionId = None
      /\ ~ (tickets[t].expiresAt <= now')
      /\ TicketState[t] = "open" /\ GrantedSession[t] = None
    BY <1>1, DecidesAnOpenTicket DEF FinalizeDeny
<1>3. /\ tickets'[t] = [tickets[t] EXCEPT !.status = "denied"]
      /\ tickets'[t] # None /\ tickets'[t].status = "denied"
      /\ tickets'[t].sessionId = tickets[t].sessionId
      /\ \A u \in TicketIds \ {t} :
            /\ tickets'[u] \in {tickets[u], None}
            /\ tickets[u] # None /\ tickets[u].status = "approved" => tickets'[u] = tickets[u]
      /\ \A s \in SessionIds : sessions'[s] \in {sessions[s], None}
    BY <1>t, <1>1, DenyWrites
<1>4. tickets'[t].expiresAt = tickets[t].expiresAt
    BY <1>2, <1>3 DEF TicketRow
<1>5. TicketState'[t] = "denied" /\ GrantedSession'[t] = None
    BY <1>2, <1>3, <1>4 DEF TicketState, GrantedSession
<1>6. \A u \in TicketIds \ {t} :
          /\ TicketState'[u] = IF u \in Closing /\ TicketState[u] # "approved"
                               THEN "closed" ELSE TicketState[u]
          /\ GrantedSession'[u] = GrantedSession[u]
    <2>1. \A u \in TicketIds \ {t} : Settled(u)
        BY <1>3 DEF Settled
    <2> QED
        BY <2>1, OthersLapse
<1>7. \A s \in SessionIds : SessionHolder'[s] = IF s \in Ending THEN None ELSE SessionHolder[s]
    BY <1>t, <1>3, SessionEnds DEF Ending
<1>8. Permitted' = Permitted /\ Permitted # Wallets
    <2>1. wallets' = wallets /\ req[r].challenge.address \notin Permitted
        BY DEF FinalizeDeny, StillRefused, Permitted
    <2>2. req[r].challenge.address \in Wallets
        BY DecidesAnOpenTicket DEF FinalizeDeny
    <2> QED
        BY <2>1, <2>2 DEF Permitted, WalletAllowed
<1>9. t \notin Closing
    BY <1>5 DEF Closing
<1>10. TicketState' = [Authority!Closed(Closing) EXCEPT ![t] = "denied"]
    BY <1>5, <1>6 DEF TicketState, Authority!Closed
<1>11. SessionHolder' = Authority!Ended(Ending)
    BY <1>7 DEF SessionHolder, Authority!Ended
<1>12. GrantedSession' = GrantedSession
    BY <1>2, <1>5, <1>6 DEF GrantedSession
<1>13. SpentSessions' = SpentSessions \cup SpentSessions' /\ SpentSessions' \in SUBSET SessionIds
    BY SpentStays
<1>14. Authority!Deny(t, Closing, Ending, SpentSessions')
    BY <1>2, <1>8, <1>10, <1>11, <1>12, <1>13 DEF Authority!Deny, Permitted
<1>15. Closing \in SUBSET TicketIds /\ Ending \in SUBSET SessionIds /\ t \in TicketIds \ Closing
    BY <1>9 DEF Closing, Ending
<1> QED
    BY <1>13, <1>14, <1>15 DEF Authority!Next

\* finalize_approval with a permitted wallet grants the session it drew.
LEMMA GrantIsAStep ==
    ASSUME Inv, [Next]_vars, NEW r \in Requests, NEW later \in Later, FinalizeGrant(r, later)
    PROVE  Authority!Next
<1>t. TypeOK /\ HandlersHold /\ req \in [Requests -> Handler]
    BY DEF Inv, TypeOK
<1>1. PICK t \in TicketIds, s \in SessionIds, w \in Wallets :
          t = req[r].ticketId /\ s = req[r].sessionId /\ w = req[r].challenge.address
    BY <1>t, DecidesAnOpenTicket DEF HandlersHold, At, FinalizeGrant
<1>2. /\ tickets[t] \in TicketRow /\ tickets[t] # None
      /\ TicketState[t] = "open" /\ GrantedSession[t] = None
    BY <1>1, DecidesAnOpenTicket DEF FinalizeGrant, At
<1>3. /\ tickets'[t] # None /\ tickets'[t].status = "approved" /\ tickets'[t].sessionId = s
      /\ \A u \in TicketIds \ {t} :
            /\ tickets'[u] \in {tickets[u], None}
            /\ tickets[u] # None /\ tickets[u].status = "approved" => tickets'[u] = tickets[u]
      /\ sessions'[s].address = w
      /\ \A x \in SessionIds \ {s} : sessions'[x] \in {sessions[x], None}
    BY <1>t, <1>1, GrantWrites
<1>4. TicketState'[t] = "approved" /\ GrantedSession'[t] = s
    BY <1>3 DEF TicketState, GrantedSession
<1>5. \A u \in TicketIds \ {t} :
          /\ TicketState'[u] = IF u \in Closing /\ TicketState[u] # "approved"
                               THEN "closed" ELSE TicketState[u]
          /\ GrantedSession'[u] = GrantedSession[u]
    <2>1. \A u \in TicketIds \ {t} : Settled(u)
        BY <1>3 DEF Settled
    <2> QED
        BY <2>1, OthersLapse
<1>6. \A x \in SessionIds \ {s} :
          SessionHolder'[x] = IF x \in Ending THEN None ELSE SessionHolder[x]
    BY <1>t, <1>3, SessionEnds DEF Ending
<1>7. SessionHolder'[s] \in {w, None}
    BY <1>3 DEF SessionHolder
<1>8. s \notin SpentSessions /\ SpentSessions' = SpentSessions \cup {s}
    <2>1. Granting(r, s) /\ s \in issued /\ issued' = issued
        BY <1>1 DEF FinalizeGrant, Granting, At, Inv, IdsAreIssued
    <2>2. ASSUME NEW q \in Requests, NEW x \in SessionIds
          PROVE  Granting(q, x)' <=> Granting(q, x) /\ x # s
        <3>1. CASE q = r
            <4>1. req'[q] = Idle /\ Idle.pc = "idle"
                BY <1>t, <3>1 DEF FinalizeGrant, Return, Idle
            <4>2. Granting(q, x) => x = s
                BY <1>1, <3>1 DEF Granting
            <4> QED
                BY <4>1, <4>2 DEF Granting, At
        <3>2. CASE q # r
            <4>1. req'[q] = req[q]
                BY <1>t, <3>2 DEF FinalizeGrant, Return
            <4>2. ~ Granting(q, s)
                BY <2>1, <3>2 DEF Inv, DrawnIdsAreOwned
            <4> QED
                BY <4>1, <4>2 DEF Granting, At
        <3> QED
            BY <3>1, <3>2
    <2> QED
        BY <2>1, <2>2 DEF SpentSessions
<1>9. Permitted' = Permitted /\ w \in Permitted
    BY <1>1 DEF FinalizeGrant, StillRefused, Permitted, WalletAllowed
<1>10. t \notin Closing
    BY <1>4 DEF Closing
<1>11. TicketState' = [Authority!Closed(Closing) EXCEPT ![t] = "approved"]
    BY <1>4, <1>5 DEF TicketState, Authority!Closed
<1>12. GrantedSession' = [GrantedSession EXCEPT ![t] = s]
    BY <1>4, <1>5 DEF GrantedSession
<1>13. SessionHolder' \in {[Authority!Ended(Ending) EXCEPT ![s] = w],
                           [Authority!Ended(Ending) EXCEPT ![s] = None]}
    <2>1. CASE SessionHolder'[s] = w
        <3>1. SessionHolder' = [Authority!Ended(Ending) EXCEPT ![s] = w]
            BY <1>6, <2>1 DEF SessionHolder, Authority!Ended
        <3> QED
            BY <3>1
    <2>2. CASE SessionHolder'[s] = None
        <3>1. SessionHolder' = [Authority!Ended(Ending) EXCEPT ![s] = None]
            BY <1>6, <2>2 DEF SessionHolder, Authority!Ended
        <3> QED
            BY <3>1
    <2> QED
        BY <1>7, <2>1, <2>2
<1>14. Authority!Grant(t, s, w, Closing, Ending)
    BY <1>2, <1>8, <1>9, <1>11, <1>12, <1>13 DEF Authority!Grant, Permitted
<1>15. Closing \in SUBSET TicketIds /\ Ending \in SUBSET SessionIds /\ t \in TicketIds \ Closing
    BY <1>10 DEF Closing, Ending
<1> QED
    BY <1>1, <1>14, <1>15 DEF Authority!Next

\* A restart of SQLite keeps what was decided and closes the tickets that
\* were being created; one of the memory store forgets all but the ids.
LEMMA RestartIsAStep == ASSUME Inv, [Next]_vars, Restart PROVE Authority!Next
<1>1. /\ issued' = issued /\ now' = now
      /\ \A r \in Requests : req'[r].pc = "idle"
    BY DEF Restart, Idle
<1>2. \A t \in TicketIds : Unused(t)' <=> t \notin issued
    BY <1>1 DEF Unused, Creating, At
<1>3. SpentSessions' = SpentSessions \cup SpentSessions' /\ SpentSessions' \in SUBSET SessionIds
    BY SpentStays
<1>4. Permitted' \in SUBSET Wallets
    BY DEF Permitted
<1> DEFINE C == {t \in TicketIds : t \in issued}
           Closes == IF Backend = "sqlite" THEN Authority!Closed(Closing)
                     ELSE [t \in TicketIds |-> IF TicketState[t] = "unused" /\ t \notin C
                                               THEN "unused" ELSE "closed"]
<1>5. CASE Backend = "sqlite"
    <2>1. UNCHANGED tables
        BY <1>5 DEF Restart
    <2>2. ASSUME NEW t \in TicketIds
          PROVE  TicketState'[t] = IF t \in Closing /\ TicketState[t] # "approved"
                                   THEN "closed" ELSE TicketState[t]
        <3>1. Settled(t)
            BY <2>1 DEF Settled, tables
        <3> QED
            BY <3>1, TicketLapses DEF Closing
    <2>3. TicketState' = Authority!Closed(Closing)
        BY <2>2 DEF TicketState, Authority!Closed
    <2>4. GrantedSession' = GrantedSession
        BY <2>1 DEF GrantedSession, tables
    <2>5. SessionHolder' = SessionHolder
        BY <1>1, <2>1 DEF SessionHolder, tables
    <2>6. Authority!Restart(Closing, SpentSessions', Permitted')
        BY <1>3, <1>5, <2>3, <2>4, <2>5 DEF Authority!Restart, Permitted
    <2>7. Closing \in SUBSET TicketIds
        BY DEF Closing
    <2> QED
        BY <1>3, <1>4, <2>6, <2>7 DEF Authority!Next
<1>6. CASE Backend # "sqlite"
    <2>1. /\ tickets' = [t \in TicketIds |-> None] /\ sessions' = [s \in SessionIds |-> None]
          /\ Backend = "memory"
        BY <1>6, BackendAssumption DEF Restart
    <2>2. \A t \in TicketIds :
              TicketState'[t] = IF TicketState[t] = "unused" /\ t \notin C
                                THEN "unused" ELSE "closed"
        <3>1. \A t \in TicketIds : t \notin issued => TicketState[t] = "unused"
            BY DEF Inv, IdsAreIssued, TicketState, Unused
        <3> QED
            BY <1>2, <2>1, <3>1 DEF TicketState
    <2>3. TicketState' = [t \in TicketIds |-> IF TicketState[t] = "unused" /\ t \notin C
                                              THEN "unused" ELSE "closed"]
        BY <2>2 DEF TicketState
    <2>4. GrantedSession' = [t \in TicketIds |-> None]
        BY <2>1 DEF GrantedSession
    <2>5. SessionHolder' = [s \in SessionIds |-> None]
        BY <2>1 DEF SessionHolder
    <2> HIDE DEF C
    <2>6. Authority!Restart(C, SpentSessions', Permitted')
        BY <1>3, <1>6, <2>3, <2>4, <2>5 DEF Authority!Restart, Permitted
    <2>7. C \in SUBSET TicketIds
        BY DEF C
    <2> QED
        BY <1>3, <1>4, <2>6, <2>7 DEF Authority!Next
<1> QED
    BY <1>5, <1>6

\* The administrator changes who may log in, and nothing else.
LEMMA UpsertIsAStep ==
    ASSUME NEW w \in Wallets, NEW enabled \in BOOLEAN, UpsertWallet(w, enabled)
    PROVE  Authority!Next
<1>1. TicketState' = TicketState
    BY DEF UpsertWallet, tables, TicketState, Unused, Creating, At
<1>2. GrantedSession' = GrantedSession /\ SessionHolder' = SessionHolder
    BY DEF UpsertWallet, tables, GrantedSession, SessionHolder
<1>3. SpentSessions' = SpentSessions
    BY DEF UpsertWallet, SpentSessions, Granting, At
<1>4. Authority!SetPermitted(Permitted')
    BY <1>1, <1>2, <1>3 DEF Authority!SetPermitted, Permitted
<1>5. Permitted' \in SUBSET Wallets
    BY DEF Permitted
<1> QED
    BY <1>4, <1>5 DEF Authority!Next

\* Nothing else writes the wallets.
LEMMA WalletsMove ==
    ASSUME [Next]_vars
    PROVE  \/ wallets' = wallets
           \/ Restart
           \/ \E w \in Wallets, enabled \in BOOLEAN : UpsertWallet(w, enabled)
<1>1. ASSUME NEW r \in Requests, Create(r) \/ Challenge(r) \/ Approve(r) PROVE wallets' = wallets
    BY <1>1 DEF Create, Challenge, Approve, CreateBegin, CreateTicketIfCapacity, ChallengeBegin,
       ReplaceChallenge, ReplaceRefused, ApproveBegin, ApproveGetChallenge, ApproveExpired,
       ApproveCheckWallet, ApproveBadSignature, ApproveVerified, Rollback
<1>2. ASSUME NEW r \in Requests, Finalize(r) \/ Poll(r) PROVE wallets' = wallets
    BY <1>2 DEF Finalize, FinalizeDeny, FinalizeContinue, FinalizeGrant, FinalizeRefused, Rollback,
       Poll, PollTicket, PollSession
<1>3. CASE Environment
    BY <1>3 DEF Environment, ReadTicket, Logout, UpdateWallet, Tick
<1> QED
    BY <1>1, <1>2, <1>3 DEF Next, vars

----------------------------------------------------------------------------
(* The refinement                                                          *)

LEMMA InitImplements == ASSUME Init PROVE Authority!Init
<1>1. TicketState = [t \in TicketIds |-> "unused"]
    BY DEF Init, TicketState, Unused
<1>2. GrantedSession = [t \in TicketIds |-> None] /\ SessionHolder = [s \in SessionIds |-> None]
    BY DEF Init, GrantedSession, SessionHolder
<1>3. SpentSessions = {}
    BY DEF Init, SpentSessions
<1> QED
    BY <1>1, <1>2, <1>3 DEF Authority!Init

\* Every step of the gateway is a step of the promise.
LEMMA NextImplements == ASSUME Inv, [Next]_vars PROVE Authority!Next
<1>1. CASE Restart
    BY <1>1, RestartIsAStep
<1>2. CASE \E w \in Wallets, enabled \in BOOLEAN : UpsertWallet(w, enabled)
    BY <1>2, UpsertIsAStep
<1>3. CASE wallets' = wallets /\ Shrinks
    <2>1. \A t \in TicketIds : Settled(t)
        BY <1>3 DEF Shrinks, Settled
    <2>2. Lapses
        BY <1>3, <2>1, SettledLapses DEF Shrinks
    <2> QED
        BY <2>2, LapsesIsAStep
<1>4. ASSUME NEW r \in Requests, CreateTicketIfCapacity(r) PROVE Authority!Next
    BY <1>4, CreateIsAStep
<1>5. ASSUME NEW r \in Requests, NEW later \in Later,
             ReplaceChallenge(r, later) \/ FinalizeDeny(r, later) \/ FinalizeGrant(r, later)
      PROVE  Authority!Next
    BY <1>5, ReplaceSettles, LapsesIsAStep, DenyIsAStep, GrantIsAStep
<1>6. TypeOK
    BY DEF Inv
<1> QED
    BY <1>1, <1>2, <1>3, <1>4, <1>5, <1>6, StepsShrink, WalletsMove

\* The handlers, the store, the clock, the administrator and restarts keep
\* the promise of LoginAuthority, whatever their interleaving and however
\* many there are.
THEOREM GatewayImplementsAuthority == Spec => ImplementsAuthority
<1>1. Init => Authority!Init
    BY InitImplements
<1>2. Inv /\ [Next]_vars => [Authority!Next]_Authority!vars
    BY NextImplements
<1> QED
    BY <1>1, <1>2, InvHolds, PTL DEF Spec, ImplementsAuthority, Authority!Spec

----------------------------------------------------------------------------
(* Challenges that can be signed                                           *)

\* The statements of an approval that has named its challenge.
Approving(r) == req[r].pc \in {"getChallenge", "check", "deny", "verify", "grant"}

\* A challenge row is written once: what an approval has read is the row,
\* as long as there is one, and nobody is about to write it.
ChallengesAsRead ==
    \A r \in Requests : Approving(r) =>
        /\ req[r].challengeId \in issued
        /\ \A q \in Requests : ~ Drafting(q, req[r].challengeId)
        /\ ~ At(r, "getChallenge") =>
              challenges[req[r].challengeId] \in {req[r].challenge, None}

\* The challenge a ticket names is the ticket's own.
NamesAgree ==
    \A t \in TicketIds, c \in ChallengeIds :
        tickets[t] # None /\ tickets[t].challengeId = c /\ challenges[c] # None =>
            challenges[c].ticketId = t

\* How an approval comes to a statement: from the one before, with the
\* challenge it named and, once read, the row.
LEMMA ApprovalsMove ==
    ASSUME Inv, [Next]_vars, NEW r \in Requests, Approving(r)'
    PROVE  \/ /\ Approving(r) /\ req'[r].challengeId = req[r].challengeId
              /\ At(r, "getChallenge") => At(r, "getChallenge")'
              /\ req'[r].challenge = req[r].challenge
           \/ \E t \in TicketIds, c \in ChallengeIds, signed \in BOOLEAN : ApproveBegin(r, t, c, signed)
           \/ /\ ApproveGetChallenge(r)
              /\ req'[r].challengeId = req[r].challengeId
              /\ req'[r].challenge = PurgedChallenges(now)[req[r].challengeId]
<1> DEFINE Stays == /\ Approving(r) /\ req'[r].challengeId = req[r].challengeId
                    /\ At(r, "getChallenge") => At(r, "getChallenge")'
                    /\ req'[r].challenge = req[r].challenge
           Reads == /\ ApproveGetChallenge(r)
                    /\ req'[r].challengeId = req[r].challengeId
                    /\ req'[r].challenge = PurgedChallenges(now)[req[r].challengeId]
<1>t. TypeOK /\ req \in [Requests -> Handler] /\ req[r] \in Handler
    BY DEF Inv, TypeOK
<1>1. req'[r] = req[r] => Stays
    BY DEF Approving, At
<1>2. req'[r] # Idle
    BY DEF Approving, Idle
<1>3. ASSUME NEW q \in Requests, Return(q) PROVE Stays
    BY <1>t, <1>1, <1>2, <1>3 DEF Return
<1>4. ASSUME NEW q \in Requests, NEW t \in TicketIds, CreateBegin(q, t) PROVE Stays
    <2>1. CASE q = r
        <3>1. req'[r].pc = "create"
            BY <1>t, <1>4, <2>1 DEF CreateBegin, Idle
        <3> QED
            BY <3>1 DEF Approving
    <2> QED
        BY <1>t, <1>1, <1>4, <2>1 DEF CreateBegin
<1>5. ASSUME NEW q \in Requests, NEW t \in TicketIds, PollTicket(q, t) PROVE Stays
    <2>1. CASE q = r
        <3>1. req'[r].pc = "getSession"
            BY <1>t, <1>5, <2>1 DEF PollTicket, Idle
        <3> QED
            BY <3>1 DEF Approving
    <2> QED
        BY <1>t, <1>1, <1>5, <2>1 DEF PollTicket
<1>6. ASSUME NEW q \in Requests, NEW t \in TicketIds, NEW w \in Wallets, NEW c \in ChallengeIds,
             ChallengeBegin(q, t, w, c)
      PROVE  Stays
    <2>1. CASE q = r
        <3>1. req'[r].pc = "replace"
            BY <1>t, <1>6, <2>1 DEF ChallengeBegin, Idle
        <3> QED
            BY <3>1 DEF Approving
    <2> QED
        BY <1>t, <1>1, <1>6, <2>1 DEF ChallengeBegin
<1>7. ASSUME NEW q \in Requests, NEW t \in TicketIds, NEW c \in ChallengeIds,
             NEW signed \in BOOLEAN, ApproveBegin(q, t, c, signed)
      PROVE  Stays \/ q = r
    BY <1>t, <1>1, <1>7 DEF ApproveBegin
<1>8. ASSUME NEW q \in Requests, ApproveGetChallenge(q) PROVE Stays \/ Reads
    <2>1. CASE q = r
        <3> DEFINE row == PurgedChallenges(now)[req[r].challengeId]
        <3>1. req'[r] = [req[r] EXCEPT !.pc = "check", !.challenge = row]
            BY <1>t, <1>2, <1>8, <2>1 DEF ApproveGetChallenge
        <3> HIDE DEF row
        <3>2. req'[r].challengeId = req[r].challengeId /\ req'[r].challenge = row
            BY <1>t, <3>1 DEF Handler
        <3> QED
            BY <1>8, <2>1, <3>2 DEF row
    <2> QED
        BY <1>t, <1>1, <1>8, <2>1 DEF ApproveGetChallenge
<1>9. ASSUME NEW q \in Requests, NEW pc \in {"verify", "deny"}, req[q].pc \in {"check", "deny"},
             req' = [req EXCEPT ![q].pc = pc]
      PROVE  Stays
    <2>1. CASE q = r
        BY <1>t, <1>9, <2>1 DEF Handler, Approving, At
    <2> QED
        BY <1>t, <1>1, <1>9, <2>1
<1>10. ASSUME NEW q \in Requests, NEW s \in SessionIds, ApproveVerified(q, s) PROVE Stays
    <2>1. CASE q = r
        BY <1>t, <1>10, <2>1 DEF ApproveVerified, Handler, Approving, At
    <2> QED
        BY <1>t, <1>1, <1>10, <2>1 DEF ApproveVerified
<1>11. (\A q \in Requests : req'[q] = Idle) => FALSE
    BY <1>2
<1> HIDE DEF Stays, Reads
<1>12. Stays \/ Reads
           \/ \E t \in TicketIds, c \in ChallengeIds, signed \in BOOLEAN : ApproveBegin(r, t, c, signed)
    BY <1>t, <1>1, <1>3, <1>4, <1>5, <1>6, <1>7, <1>8, <1>9, <1>10, <1>11, HandlerMoves DEF Stays
<1> QED
    BY <1>12 DEF Stays, Reads

\* Nobody writes the row of a challenge whose id is in use.
LEMMA UsedChallengeStays ==
    ASSUME Inv, [Next]_vars, NEW c \in ChallengeIds, c \in issued,
           \A r \in Requests : ~ Drafting(r, c)
    PROVE  /\ c \in issued'
           /\ \A r \in Requests : ~ Drafting(r, c)'
           /\ challenges'[c] \in {challenges[c], None}
<1>1. ASSUME NEW r \in Requests PROVE ~ Drafting(r, c)'
    <2>1. \A t \in TicketIds, w \in Wallets : ~ ChallengeBegin(r, t, w, c)
        BY DEF ChallengeBegin
    <2> QED
        BY <2>1, OwnersMove
<1> QED
    BY <1>1, IssuedGrows, RowsComeFromOwners

LEMMA ReadsKept ==
    ASSUME Inv, ChallengesAsRead, [Next]_vars
    PROVE  ChallengesAsRead'
<1> SUFFICES ASSUME NEW r \in Requests, Approving(r)'
             PROVE  /\ req'[r].challengeId \in issued'
                    /\ \A q \in Requests : ~ Drafting(q, req[r].challengeId)'
                    /\ ~ At(r, "getChallenge")' =>
                          challenges'[req'[r].challengeId] \in {req'[r].challenge, None}
    BY DEF ChallengesAsRead
<1>t. TypeOK /\ req \in [Requests -> Handler] /\ now \in Nat
    BY DEF Inv, TypeOK
<1>0. PICK c \in ChallengeIds : c = req'[r].challengeId
    BY HandlersKept DEF HandlersHold, Approving, At
<1>1. (\A q \in Requests : ~ Drafting(q, c)') =>
          \A q \in Requests : ~ Drafting(q, req[r].challengeId)'
    BY <1>0 DEF Drafting, At
<1>2. CASE Approving(r) /\ c = req[r].challengeId
    <2>1. c \in issued /\ \A q \in Requests : ~ Drafting(q, c)
        BY <1>2 DEF ChallengesAsRead
    <2>2. /\ c \in issued' /\ \A q \in Requests : ~ Drafting(q, c)'
          /\ challenges'[c] \in {challenges[c], None}
        BY <2>1, UsedChallengeStays
    <2>3. CASE /\ At(r, "getChallenge") => At(r, "getChallenge")'
               /\ req'[r].challenge = req[r].challenge
        <3>1. ~ At(r, "getChallenge")' => challenges[c] \in {req[r].challenge, None}
            BY <1>2, <2>3 DEF ChallengesAsRead
        <3> QED
            BY <1>0, <1>1, <2>2, <2>3, <3>1
    <2>4. CASE ApproveGetChallenge(r) /\ req'[r].challenge = PurgedChallenges(now)[c]
        <3>1. challenges'[c] = PurgedChallenges(now)[c]
            BY <2>4 DEF ApproveGetChallenge, PurgeExpired
        <3> QED
            BY <1>0, <1>1, <2>2, <2>4, <3>1
    <2>5. CASE \E t \in TicketIds, d \in ChallengeIds, signed \in BOOLEAN : ApproveBegin(r, t, d, signed)
        BY <1>2, <2>5 DEF ApproveBegin, Approving, At
    <2> QED
        BY <1>0, <1>2, <2>3, <2>4, <2>5, ApprovalsMove
<1>3. ASSUME NEW t \in TicketIds, NEW d \in ChallengeIds, NEW signed \in BOOLEAN,
             ApproveBegin(r, t, d, signed)
      PROVE  /\ c \in issued' /\ \A q \in Requests : ~ Drafting(q, c)'
             /\ At(r, "getChallenge")'
    <2>1. req'[r].challengeId = d /\ req'[r].pc = "getChallenge"
        BY <1>t, <1>3 DEF ApproveBegin, Idle
    <2>2. c \in issued /\ \A q \in Requests : ~ Drafting(q, c)
        BY <1>0, <1>3, <2>1 DEF ApproveBegin, Known
    <2> QED
        BY <2>1, <2>2, UsedChallengeStays DEF At
<1>4. ASSUME ApproveGetChallenge(r) PROVE Approving(r)
    BY <1>4 DEF ApproveGetChallenge, At, Approving
<1> QED
    BY <1>0, <1>1, <1>2, <1>3, <1>4, ApprovalsMove

LEMMA NamesKept ==
    ASSUME Inv, NamesAgree, [Next]_vars
    PROVE  NamesAgree'
<1> SUFFICES ASSUME NEW t \in TicketIds, NEW c \in ChallengeIds,
                    tickets'[t] # None, tickets'[t].challengeId = c, challenges'[c] # None
             PROVE  challenges'[c].ticketId = t
    BY DEF NamesAgree
<1>t. TypeOK /\ HandlersHold /\ None \notin ChallengeIds
    BY IdAssumption DEF Inv
<1>1. CASE tickets[t] # None /\ tickets[t].challengeId = c
    <2>1. \A r \in Requests : ~ Drafting(r, c)
        BY <1>1 DEF Inv, DrawnIdsAreOwned
    <2>2. challenges'[c] = challenges[c]
        BY <2>1, RowsComeFromOwners
    <2> QED
        BY <1>1, <2>2 DEF NamesAgree
<1>2. CASE tickets'[t] \in {tickets[t], None}
    BY <1>1, <1>2
<1>3. ASSUME NEW r \in Requests, CreateTicketIfCapacity(r) PROVE tickets'[t] \in {tickets[t], None}
    BY <1>t, <1>3, CreateWrites
<1>4. ASSUME NEW r \in Requests, NEW later \in Later, ReplaceChallenge(r, later)
      PROVE  challenges'[c].ticketId = t \/ tickets'[t] \in {tickets[t], None}
    BY <1>t, <1>4, ReplaceWrites
<1>5. ASSUME NEW r \in Requests, NEW later \in Later,
             FinalizeDeny(r, later) \/ FinalizeGrant(r, later)
      PROVE  \/ tickets[t] # None /\ tickets[t].challengeId = c
             \/ tickets'[t] \in {tickets[t], None}
    BY <1>t, <1>5, DenyWrites, GrantWrites
<1> QED
    BY <1>t, <1>1, <1>2, <1>3, <1>4, <1>5, StepKinds DEF Shrinks, Forgets

\* A challenge disappears because it expired, because the memory store
\* restarted, or in a section that replaces or decides.
LEMMA ChallengesLast ==
    ASSUME Inv, ChallengesAsRead, [Next]_vars, NEW c \in ChallengeIds,
           challenges[c] # None, challenges'[c] = None
    PROVE  \/ challenges[c].expiresAt <= now'
           \/ \A t \in TicketIds : tickets'[t] = None
           \/ \E r \in Requests, later \in Later :
                 ReplaceChallenge(r, later) \/ FinalizeDeny(r, later) \/ FinalizeGrant(r, later)
<1>t. TypeOK /\ HandlersHold /\ challenges[c].expiresAt \in Nat
    BY DEF Inv, TypeOK, ChallengeRow
<1>n. now \in Nat /\ now' \in Nat /\ now <= now'
    BY <1>t, NowGrows
<1>p. challenges' = PurgedChallenges(now) => challenges[c].expiresAt <= now'
    BY <1>t, <1>n DEF PurgedChallenges
<1>u. challenges' # challenges
    OBVIOUS
<1>1. ASSUME NEW r \in Requests, Create(r) PROVE challenges' = PurgedChallenges(now)
    BY <1>1 DEF Create, CreateBegin, PurgeExpired, CreateTicketIfCapacity
<1>2. ASSUME NEW r \in Requests, Challenge(r)
      PROVE  (\E later \in Later : ReplaceChallenge(r, later)) \/ challenges' = PurgedChallenges(now)
    BY <1>u, <1>2 DEF Challenge, ChallengeBegin, PurgeExpired, ReplaceRefused, Rollback, tables
<1>3. ASSUME NEW r \in Requests, ApproveExpired(r) PROVE challenges[c].expiresAt <= now'
    <2>1. c = req[r].challengeId
        BY <1>3 DEF TypeOK, ApproveExpired
    <2>2. challenges[c] = req[r].challenge /\ now' = now
        BY <1>3, <2>1 DEF ApproveExpired, At, ChallengesAsRead, Approving
    <2> QED
        BY <1>3, <2>2 DEF ApproveExpired
<1>4. ASSUME NEW r \in Requests, Approve(r)
      PROVE  ApproveExpired(r) \/ challenges' = PurgedChallenges(now)
    BY <1>u, <1>4 DEF Approve, ApproveBegin, ApproveGetChallenge, ApproveCheckWallet,
       ApproveBadSignature, ApproveVerified, PurgeExpired, tables
<1>5. ASSUME NEW r \in Requests, Finalize(r)
      PROVE  \/ \E later \in Later : FinalizeDeny(r, later) \/ FinalizeGrant(r, later)
             \/ challenges' = PurgedChallenges(now)
    BY <1>u, <1>5 DEF Finalize, FinalizeContinue, FinalizeRefused, PurgeExpired, Rollback, tables
<1>6. ASSUME NEW r \in Requests, Poll(r) PROVE challenges' = PurgedChallenges(now)
    BY <1>u, <1>6 DEF Poll, PollTicket, PollSession, PurgeExpired, tables
<1>7. CASE Restart
    BY <1>u, <1>7 DEF Restart, tables
<1>8. ASSUME Environment PROVE Restart \/ challenges' = PurgedChallenges(now)
    BY <1>u, <1>8 DEF Environment, ReadTicket, PurgeExpired, Logout, UpsertWallet, UpdateWallet, Tick, tables
<1> QED
    BY <1>p, <1>u, <1>1, <1>2, <1>3, <1>4, <1>5, <1>6, <1>7, <1>8 DEF Next, vars

LEMMA StepKeepsChallenges ==
    ASSUME Inv, ChallengesAsRead, NamesAgree, [Next]_vars
    PROVE  ChallengeKept
<1> SUFFICES ASSUME NEW c \in ChallengeIds, NEW t \in TicketIds, t = challenges[c].ticketId,
                    challenges[c] # None, challenges[c].expiresAt > now', challenges'[c] = None
             PROVE  \/ tickets'[t] = None
                    \/ tickets'[t].status # "pending"
                    \/ tickets'[t].challengeId # c /\ challenges'[tickets'[t].challengeId] # None
    BY DEF ChallengeKept, Inv, TypeOK, ChallengeRow
<1>t. /\ TypeOK /\ HandlersHold /\ DrawnIdsAreOwned
      /\ now' \in Nat /\ challenges[c].expiresAt \in Nat
    BY NowGrows DEF Inv, TypeOK, ChallengeRow
<1>1. ASSUME NEW r \in Requests, NEW later \in Later, ReplaceChallenge(r, later)
      PROVE  \/ tickets'[t] = None
             \/ tickets'[t].challengeId # c /\ challenges'[tickets'[t].challengeId] # None
    <2>1. PICK u \in TicketIds, d \in ChallengeIds : u = req[r].ticketId /\ d = req[r].challengeId
        BY <1>t, <1>1, ReplaceWrites
    <2>2. /\ tickets[u] # None /\ tickets'[u].challengeId = d
          /\ challenges'[d] # None
          /\ \A e \in ChallengeIds \ {d} : e # tickets[u].challengeId => challenges'[e] = PurgedChallenges(now)[e]
        BY <1>t, <1>1, <2>1, ReplaceWrites DEF ReplaceChallenge, ReplacedChallenges, Replaceable, PurgedTickets
    <2>3. c # d
        BY <2>2
    <2>4. challenges'[c] # PurgedChallenges(now)[c]
        <3>1. ~ (challenges[c].expiresAt <= now)
            BY <1>t, NowGrows
        <3> QED
            BY <3>1 DEF PurgedChallenges
    <2>5. c = tickets[u].challengeId
        BY <2>2, <2>3, <2>4
    <2>6. u = t
        BY <2>2, <2>5 DEF NamesAgree
    <2> QED
        BY <2>2, <2>3, <2>6
<1>2. ASSUME NEW r \in Requests, NEW later \in Later,
             FinalizeDeny(r, later) \/ FinalizeGrant(r, later)
      PROVE  tickets'[t].status # "pending"
    <2>1. PICK u \in TicketIds, d \in ChallengeIds : u = req[r].ticketId /\ d = req[r].challengeId
        BY <1>t, <1>2, DenyWrites, GrantWrites
    <2>2. /\ challenges' = [PurgedChallenges(now) EXCEPT ![d] = None]
          /\ tickets'[u].status # "pending" /\ tickets[u] # None /\ tickets[u].challengeId = d
        BY <1>t, <1>2, <2>1, DenyWrites, GrantWrites DEF FinalizeDeny, FinalizeGrant
    <2>3. challenges'[c] # PurgedChallenges(now)[c]
        <3>1. ~ (challenges[c].expiresAt <= now)
            BY <1>t, NowGrows
        <3> QED
            BY <3>1 DEF PurgedChallenges
    <2>4. c = d
        BY <2>2, <2>3 DEF PurgedChallenges
    <2>5. u = t
        BY <2>2, <2>4 DEF NamesAgree
    <2> QED
        BY <2>2, <2>5
<1> QED
    BY <1>t, <1>1, <1>2, ChallengesLast

\* A wallet that was asked to sign can still sign, until the challenge
\* expires, is replaced by another that exists, or its ticket is decided or
\* gone: no refused section and no approval of an old challenge removes it.
THEOREM ChallengesAreKept == Spec => ChallengesKept
<1>1. Init => ChallengesAsRead /\ NamesAgree
    BY DEF Init, ChallengesAsRead, NamesAgree, Approving, Idle
<1>2. Inv /\ ChallengesAsRead /\ NamesAgree /\ [Next]_vars => (ChallengesAsRead /\ NamesAgree)'
    BY ReadsKept, NamesKept
<1>3. Inv /\ ChallengesAsRead /\ NamesAgree /\ [Next]_vars => [ChallengeKept]_vars
    BY StepKeepsChallenges
<1> QED
    BY <1>1, <1>2, <1>3, InvHolds, PTL DEF Spec, ChallengesKept

=============================================================================
