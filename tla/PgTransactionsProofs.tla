------------------------ MODULE PgTransactionsProofs ------------------------
(***************************************************************************)
(* Proofs about PgTransactions for any number of processes, tickets,       *)
(* challenges and wallets.  The invariant says what a transaction has read *)
(* and locked at each statement; a row a process holds is written by no    *)
(* other, so what a process read is kept by the steps of the others.       *)
(***************************************************************************)
EXTENDS PgTransactions, FiniteSetTheorems, WellFoundedInduction, TLAPS

(* Sets of numbers: the least, the greatest, and one more *)

\* An element more counts at most one more.
LEMMA OneMore ==
    ASSUME NEW S, NEW x, IsFiniteSet(S)
    PROVE  /\ Cardinality(S) \in Nat /\ Cardinality(S \cup {x}) \in Nat
           /\ IsFiniteSet(S \cup {x})
           /\ Cardinality(S \cup {x}) <= Cardinality(S) + 1
<1>1. Cardinality(S) \in Nat
    BY FS_CardinalityType
<1>2. /\ IsFiniteSet(S \cup {x})
      /\ Cardinality(S \cup {x}) = IF x \in S THEN Cardinality(S) ELSE Cardinality(S) + 1
    BY FS_AddElement
<1> QED
    BY <1>1, <1>2

\* A set of numbers has a least member.
LEMMA LeastNumber ==
    ASSUME NEW T, T # {}
    PROVE  T \subseteq Nat => \E m \in T : \A k \in T : m <= k
<1>0. SUFFICES ASSUME T \subseteq Nat PROVE \E m \in T : \A k \in T : m <= k
    OBVIOUS
<1>1. PICK m \in T : \A k \in T : <<k, m>> \notin OpToRel(<, Nat)
    BY <1>0, NatLessThanWellFounded, WFMin
<1>2. ASSUME NEW k \in T PROVE m <= k
    <2>1. k \in Nat /\ m \in Nat
        BY <1>0
    <2>2. ~ (k < m)
        BY <1>1, <2>1 DEF OpToRel
    <2> QED
        BY <2>1, <2>2
<1> QED
    BY <1>2

\* A finite set of numbers has a greatest member: the one with the fewest above it.
LEMMA GreatestNumber ==
    ASSUME NEW T, IsFiniteSet(T), T # {}
    PROVE  T \subseteq Nat => \E m \in T : \A k \in T : k <= m
<1>0. SUFFICES ASSUME T \subseteq Nat PROVE \E m \in T : \A k \in T : k <= m
    OBVIOUS
<1> DEFINE R == StrictSubsetOrdering(T)
           Above == [k \in T |-> {x \in T : k <= x}]
           F == {Above[k] : k \in T}
<1>1. IsWellFoundedOn(R, SUBSET T)
    BY FS_StrictSubsetOrderingWellFounded, FS_FiniteSubsetsOfFinite, Zenon
<1>2. F \subseteq SUBSET T /\ F # {}
    OBVIOUS
<1>3. \E A \in F : \A B \in F : ~ (<<B, A>> \in R)
    <2> HIDE DEF R, F
    <2> QED
        BY <1>1, <1>2, WFMin, Zenon
<1>4. PICK m \in T : \A k \in T : <<Above[k], Above[m]>> \notin R
    <2> HIDE DEF R, Above
    <2> QED
        BY <1>3
<1>5. ASSUME NEW k \in T, ~ (k <= m) PROVE FALSE
    <2>1. k \in Nat /\ m \in Nat
        BY <1>0
    <2>2. ASSUME NEW x \in Above[k] PROVE x \in Above[m]
        BY <1>0, <1>5, <2>1
    <2>3. m \in Above[m] /\ m \notin Above[k]
        BY <1>5, <2>1
    <2>4. Above[k] \in SUBSET T /\ Above[m] \in SUBSET T
        OBVIOUS
    <2>5. <<Above[k], Above[m]>> \in R
        <3> HIDE DEF Above
        <3> QED
            BY <2>2, <2>3, <2>4 DEF StrictSubsetOrdering
    <2> QED
        BY <1>4, <2>5
<1> QED
    BY <1>5

----------------------------------------------------------------------------
(* The inductive invariant                                                 *)

Creating == {"purgeTickets", "purgeChallenges", "purgeCommit", "capacity", "createCommit"}
Replacing == {"replaceTicket", "replaceOld", "replaceCommit"}
Approving ==
    {"readChallenge", "readWallet", "deleteExpired", "verify", "finalizeTicket",
     "finalizeChallenge", "finalizeWallet", "denyCommit", "grantCommit"}
Upserting == {"upsertLock", "upsertInsert", "insertCommit"}
Updating == {"updateLock", "walletCommit"}

\* Statements that come after the select that locks the ticket.
TicketLocked ==
    {"replaceOld", "replaceCommit", "finalizeChallenge", "finalizeWallet",
     "denyCommit", "grantCommit"}

\* Statements of finalize_approval that come after it locked the challenge.
ChallengeLocked == {"finalizeWallet", "denyCommit", "grantCommit"}

Statements ==
    {"idle", "bootstrap"} \cup Creating \cup Replacing \cup Approving \cup Upserting \cup Updating

Operation ==
    [pc: Statements, ticketId: TicketIds \cup {None}, challengeId: ChallengeIds \cup {None},
     sessionId: SessionIds \cup {None}, expiresAt: Nat, ticket: TicketRow \cup {None},
     challenge: ChallengeRow \cup {None}, wallet: Wallets \cup {None},
     enabled: BOOLEAN \cup {None}, todo: SUBSET AllowedWallets, at: Nat]

TypeOK ==
    /\ tickets \in [TicketIds -> TicketRow \cup {None}]
    /\ challenges \in [ChallengeIds -> ChallengeRow \cup {None}]
    /\ wallets \in [Wallets -> WalletRow \cup {None}]
    /\ grants \subseteq [ticketId: TicketIds, sessionId: SessionIds]
    /\ locks \in [Rows -> Processes \cup {None}]
    /\ now \in Nat
    /\ tx \in [Processes -> Operation]

\* The locals an operation has at a statement.
LocalsHold(p) ==
    /\ tx[p].pc \in Creating \cup Replacing \cup Approving => tx[p].ticketId \in TicketIds
    /\ tx[p].pc \in Replacing \cup Approving => tx[p].challengeId \in ChallengeIds
    /\ tx[p].pc \in Replacing =>
          tx[p].challenge # None /\ tx[p].challenge.ticketId = tx[p].ticketId
    /\ tx[p].pc \in Approving \ {"readChallenge"} => tx[p].challenge # None
    /\ At(p, "grantCommit") => tx[p].sessionId \in SessionIds
    /\ tx[p].pc \in Upserting \cup Updating => tx[p].wallet \in Wallets
    /\ tx[p].pc \in Upserting => tx[p].enabled \in BOOLEAN

\* A ticket whose lock a process has is as its select returned it, and is
\* still pending; what the purge has locked is no approved ticket.
TicketsHeld(p) ==
    /\ tx[p].pc \in TicketLocked =>
          /\ locks[tx[p].ticketId] = p
          /\ tickets[tx[p].ticketId] = tx[p].ticket
          /\ tx[p].ticket # None
          /\ tx[p].ticket.status = "pending"
    /\ tx[p].pc \in TicketLocked \cap Approving => tx[p].ticket.challengeId = tx[p].challengeId
    /\ tx[p].pc \in {"purgeChallenges", "purgeCommit"} =>
          \A t \in TicketIds : locks[t] = p =>
              tickets[t] # None /\ tickets[t].status # "approved"

\* The challenge to be replaced is held, or gone for good; the one being
\* approved is held and is as the handler read it.
ChallengesHeld(p) ==
    /\ At(p, "replaceCommit") /\ tx[p].ticket.challengeId # None =>
          locks[tx[p].ticket.challengeId] = p \/ challenges[tx[p].ticket.challengeId] = None
    /\ tx[p].pc \in ChallengeLocked =>
          /\ locks[tx[p].challengeId] = p
          /\ challenges[tx[p].challengeId] = tx[p].challenge

\* The permission a grant rests on is held, and so is every wallet about to
\* be inserted or changed.
WalletsHeld(p) ==
    /\ At(p, "grantCommit") /\ WalletPolicy = "allowlist" =>
          /\ locks[tx[p].challenge.address] = p
          /\ wallets[tx[p].challenge.address] # None
          /\ wallets[tx[p].challenge.address].enabled
    /\ At(p, "walletCommit") => locks[tx[p].wallet] = p /\ wallets[tx[p].wallet] # None
    /\ At(p, "insertCommit") => locks[tx[p].wallet] = p /\ wallets[tx[p].wallet] = None
    /\ At(p, "bootstrap") => \A w \in Wallets : locks[w] = p => wallets[w] = None

\* Which rows a process can have locked at a statement: every transaction
\* takes ticket, challenge and wallet in that order, and bootstrap its
\* wallets in theirs.
LocksInOrder(p) ==
    /\ \A t \in TicketIds : locks[t] = p =>
          tx[p].pc \in TicketLocked \cup {"purgeChallenges", "purgeCommit"}
    /\ \A c \in ChallengeIds : locks[c] = p =>
          tx[p].pc \in ChallengeLocked \cup {"replaceCommit", "purgeCommit"}
    /\ \A w \in Wallets : locks[w] = p =>
          /\ tx[p].pc \in {"denyCommit", "grantCommit", "walletCommit", "insertCommit", "bootstrap"}
          /\ At(p, "bootstrap") => \A v \in tx[p].todo : w < v
    /\ locks[Capacity] = p => At(p, "createCommit")

\* The process about to insert a ticket holds the capacity, and there is room.
RoomHeld(p) ==
    At(p, "createCommit") =>
        locks[Capacity] = p /\ Cardinality(Pending) < MaxPendingTickets

\* An id in a table or in a transaction has been drawn.
IdsAreIssued ==
    /\ \A p \in Processes :
          tx[p].ticketId \in issued \cup {None} /\ tx[p].challengeId \in issued \cup {None}
    /\ \A t \in TicketIds : tickets[t] # None =>
          t \in issued /\ tickets[t].challengeId \in issued \cup {None}
    /\ \A c \in ChallengeIds : challenges[c] # None =>
          c \in issued /\ challenges[c].ticketId \in issued

\* The id of a row that is being created is in no other transaction and in
\* no table.
DraftsAreOwned(p) ==
    /\ tx[p].pc \in Creating =>
          /\ tickets[tx[p].ticketId] = None
          /\ \A c \in ChallengeIds : challenges[c] # None =>
                challenges[c].ticketId # tx[p].ticketId
          /\ \A q \in Processes \ {p} : tx[q].ticketId # tx[p].ticketId
    /\ tx[p].pc \in Replacing =>
          /\ challenges[tx[p].challengeId] = None
          /\ \A t \in TicketIds : tickets[t] # None =>
                tickets[t].challengeId # tx[p].challengeId
          /\ \A q \in Processes \ {p} : tx[q].challengeId # tx[p].challengeId

OperationHolds(p) ==
    /\ LocalsHold(p)
    /\ TicketsHeld(p)
    /\ ChallengesHeld(p)
    /\ WalletsHeld(p)
    /\ LocksInOrder(p)
    /\ RoomHeld(p)
    /\ DraftsAreOwned(p)

\* Everything at once: each part needs others to be kept.
Inv ==
    /\ TypeOK
    /\ \A p \in Processes : OperationHolds(p)
    /\ IdsAreIssued
    /\ GrantsLast
    /\ LiveChallengeIsCurrent
    /\ PendingCap

----------------------------------------------------------------------------
(* Types                                                                   *)

USE DEF At

LEMMA IdleIsOperation == Idle \in Operation
BY DEF Idle, Operation, Statements

\* What the locals are after one statement.
LEMMA OperationFields ==
    ASSUME NEW op \in Operation
    PROVE  /\ op.pc \in Statements
           /\ op.ticketId \in TicketIds \cup {None}
           /\ op.challengeId \in ChallengeIds \cup {None}
           /\ op.sessionId \in SessionIds \cup {None}
           /\ op.expiresAt \in Nat
           /\ op.ticket \in TicketRow \cup {None}
           /\ op.challenge \in ChallengeRow \cup {None}
           /\ op.wallet \in Wallets \cup {None}
           /\ op.enabled \in BOOLEAN \cup {None}
           /\ op.todo \subseteq AllowedWallets
           /\ op.at \in Nat
BY DEF Operation

LEMMA EndTypes ==
    ASSUME TypeOK, NEW p \in Processes, End(p)
    PROVE  /\ locks' \in [Rows -> Processes \cup {None}]
           /\ tx' \in [Processes -> Operation]
           /\ tx'[p] = Idle
BY IdleIsOperation DEF TypeOK, End, Release

LEMMA ContinueTypes ==
    ASSUME TypeOK, NEW p \in Processes, NEW local \in Operation, Continue(p, local)
    PROVE  /\ locks' \in [Rows -> Processes \cup {None}]
           /\ tx' \in [Processes -> Operation]
           /\ tx'[p] = local
BY DEF TypeOK, Continue

\* The locals of a running operation are changed one statement at a time.
LEMMA GoesOn ==
    ASSUME NEW op \in Operation, NEW pc \in Statements
    PROVE  [op EXCEPT !.pc = pc] \in Operation
BY DEF Operation

\* Locals that change with the statement.
LEMMA GoesOnWith ==
    ASSUME NEW op \in Operation, NEW pc \in Statements
    PROVE  /\ \A e \in Nat : [op EXCEPT !.pc = pc, !.expiresAt = e] \in Operation
           /\ \A s \in SessionIds, e \in Nat :
                 [op EXCEPT !.pc = pc, !.sessionId = s, !.expiresAt = e] \in Operation
           /\ \A row \in TicketRow \cup {None} :
                 [op EXCEPT !.pc = pc, !.ticket = row] \in Operation
           /\ \A row \in TicketRow \cup {None}, t \in Nat :
                 [op EXCEPT !.pc = pc, !.at = t, !.ticket = row] \in Operation
BY DEF Operation

LEMMA Bounds ==
    /\ TicketTTL \in Nat /\ ChallengeTTL \in Nat /\ SessionTTL \in Nat
    /\ MaxPendingTickets \in Nat
BY PgBoundsAssumption

\* The operations begin with typed locals, and change nothing else but the
\* ids that were drawn.
LEMMA BeginTypes ==
    ASSUME TypeOK, NEW p \in Processes, Begin(p)
    PROVE  /\ tx' \in [Processes -> Operation]
           /\ UNCHANGED <<tables, locks, now>>
<1> USE Bounds, PgWalletAssumption DEF TypeOK, tables
<1>1. ASSUME NEW t \in TicketIds, CreateBegin(p, t) PROVE tx' \in [Processes -> Operation]
    <2>1. [Idle EXCEPT !.pc = "purgeTickets", !.ticketId = t, !.at = now] \in Operation
        BY DEF Idle, Operation, Statements, Creating
    <2> QED
        BY <1>1, <2>1 DEF CreateBegin
<1>2. ASSUME NEW t \in TicketIds, NEW w \in Wallets, NEW c \in ChallengeIds,
             ChallengeBegin(p, t, w, c)
      PROVE  tx' \in [Processes -> Operation]
    <2>1. [ticketId |-> t, address |-> w, expiresAt |-> now + ChallengeTTL] \in ChallengeRow
        BY DEF ChallengeRow
    <2>2. [Idle EXCEPT !.pc = "replaceTicket", !.ticketId = t, !.challengeId = c,
                       !.challenge = [ticketId |-> t, address |-> w,
                                      expiresAt |-> now + ChallengeTTL]] \in Operation
        BY <2>1 DEF Idle, Operation, Statements, Replacing
    <2> QED
        BY <1>2, <2>2 DEF ChallengeBegin
<1>3. ASSUME NEW t \in TicketIds, NEW c \in ChallengeIds, ApproveBegin(p, t, c)
      PROVE  tx' \in [Processes -> Operation]
    <2>1. [Idle EXCEPT !.pc = "readChallenge", !.ticketId = t, !.challengeId = c] \in Operation
        BY DEF Idle, Operation, Statements, Approving
    <2> QED
        BY <1>3, <2>1 DEF ApproveBegin
<1>4. ASSUME NEW w \in Wallets, NEW enabled \in BOOLEAN, UpsertBegin(p, w, enabled)
      PROVE  tx' \in [Processes -> Operation]
    <2>1. [Idle EXCEPT !.pc = "upsertLock", !.wallet = w, !.enabled = enabled,
                       !.at = now] \in Operation
        BY DEF Idle, Operation, Statements, Upserting
    <2> QED
        BY <1>4, <2>1 DEF UpsertBegin
<1>5. ASSUME NEW w \in Wallets, NEW enabled \in BOOLEAN \cup {None}, UpdateBegin(p, w, enabled)
      PROVE  tx' \in [Processes -> Operation]
    <2>1. [Idle EXCEPT !.pc = "updateLock", !.wallet = w, !.enabled = enabled] \in Operation
        BY DEF Idle, Operation, Statements, Updating
    <2> QED
        BY <1>5, <2>1 DEF UpdateBegin
<1>6. CASE BootstrapBegin(p)
    <2>1. [Idle EXCEPT !.pc = "bootstrap", !.todo = AllowedWallets, !.at = now] \in Operation
        BY DEF Idle, Operation, Statements
    <2> QED
        BY <1>6, <2>1 DEF BootstrapBegin
<1>7. UNCHANGED <<tables, locks, now>>
    BY DEF Begin, CreateBegin, ChallengeBegin, ApproveBegin, UpsertBegin, UpdateBegin,
           BootstrapBegin
<1> QED
    BY <1>1, <1>2, <1>3, <1>4, <1>5, <1>6, <1>7 DEF Begin

\* A step of a running operation keeps types.
LEMMA StepTypes ==
    ASSUME TypeOK, NEW p \in Processes, LocalsHold(p), TicketsHeld(p), WalletsHeld(p), Step(p)
    PROVE  TypeOK'
<1> USE Bounds, PgWalletAssumption DEF tables
<1> DEFINE op == tx[p]
<1>0. /\ op \in Operation /\ op.pc \in Statements
      /\ op.ticket \in TicketRow \cup {None} /\ op.challenge \in ChallengeRow \cup {None}
      /\ op.wallet \in Wallets \cup {None} /\ op.enabled \in BOOLEAN \cup {None}
      /\ op.expiresAt \in Nat /\ op.at \in Nat /\ op.todo \subseteq AllowedWallets
    BY OperationFields DEF TypeOK
<1>1. CASE PurgeTickets(p)
    <2>1. tx' = [tx EXCEPT ![p] = [op EXCEPT !.pc = "purgeChallenges"]]
        BY <1>1 DEF PurgeTickets
    <2>2. [op EXCEPT !.pc = "purgeChallenges"] \in Operation
        BY <1>0, GoesOn DEF Statements, Creating
    <2>3. locks' \in [Rows -> Processes \cup {None}]
        BY <1>1 DEF PurgeTickets, TypeOK
    <2> QED
        BY <1>1, <2>1, <2>2, <2>3 DEF PurgeTickets, TypeOK
<1>2. CASE PurgeChallenges(p)
    <2>1. tx' = [tx EXCEPT ![p] = [op EXCEPT !.pc = "purgeCommit"]]
        BY <1>2 DEF PurgeChallenges
    <2>2. [op EXCEPT !.pc = "purgeCommit"] \in Operation
        BY <1>0, GoesOn DEF Statements, Creating
    <2>3. locks' \in [Rows -> Processes \cup {None}]
        BY <1>2 DEF PurgeChallenges, TypeOK
    <2> QED
        BY <1>2, <2>1, <2>2, <2>3 DEF PurgeChallenges, TypeOK
<1>3. CASE PurgeCommit(p)
    <2>1. tx' = [tx EXCEPT ![p] = [op EXCEPT !.pc = "capacity", !.expiresAt = now + TicketTTL]]
        BY <1>3 DEF PurgeCommit
    <2>0. now + TicketTTL \in Nat
        BY DEF TypeOK
    <2>2. [op EXCEPT !.pc = "capacity", !.expiresAt = now + TicketTTL] \in Operation
        BY <1>0, <2>0, GoesOnWith DEF Statements, Creating
    <2>3. /\ locks' \in [Rows -> Processes \cup {None}]
          /\ tickets' \in [TicketIds -> TicketRow \cup {None}]
          /\ challenges' \in [ChallengeIds -> ChallengeRow \cup {None}]
        BY <1>3 DEF PurgeCommit, TypeOK, Release
    <2>4. tx' \in [Processes -> Operation]
        BY <2>1, <2>2 DEF TypeOK
    <2> HIDE DEF op
    <2> QED
        BY <1>3, <2>3, <2>4 DEF PurgeCommit, TypeOK
<1>4. CASE CountPending(p)
    <2>1. [op EXCEPT !.pc = "createCommit"] \in Operation
        BY <1>0, GoesOn DEF Statements, Creating
    <2>2. End(p) \/ Continue(p, [op EXCEPT !.pc = "createCommit"])
        BY <1>4 DEF CountPending
    <2> QED
        BY <1>4, <2>1, <2>2, EndTypes, ContinueTypes DEF CountPending, TypeOK
<1>5. CASE CreateCommit(p)
    <2>1. [status |-> "pending", expiresAt |-> op.expiresAt,
           challengeId |-> None, sessionId |-> None] \in TicketRow
        BY <1>0 DEF TicketRow
    <2>2. tickets' \in [TicketIds -> TicketRow \cup {None}]
        BY <1>5, <2>1 DEF CreateCommit, TypeOK
    <2> QED
        BY <1>5, <2>2, EndTypes DEF CreateCommit, TypeOK
<1>6. CASE ReplaceLockTicket(p)
    <2>1. \/ End(p)
          \/ /\ op.ticketId \in TicketIds
             /\ Continue(p, [op EXCEPT !.pc = "replaceOld", !.ticket = tickets[op.ticketId]])
        BY <1>6 DEF ReplaceLockTicket, Pending
    <2>2. ASSUME op.ticketId \in TicketIds
          PROVE  [op EXCEPT !.pc = "replaceOld", !.ticket = tickets[op.ticketId]] \in Operation
        BY <1>0, <2>2 DEF Operation, Statements, Replacing, TypeOK
    <2> QED
        BY <1>6, <2>1, <2>2, EndTypes, ContinueTypes DEF ReplaceLockTicket, TypeOK
<1>7. CASE ReplaceDeleteOld(p)
    <2>1. [op EXCEPT !.pc = "replaceCommit"] \in Operation
        BY <1>0, GoesOn DEF Statements, Replacing
    <2> QED
        BY <1>7, <2>1, EndTypes, ContinueTypes DEF ReplaceDeleteOld, TypeOK
<1>8. CASE ReplaceCommit(p)
    <2>1. op.challengeId \in ChallengeIds /\ op.challenge \in ChallengeRow
        BY <1>0, <1>8 DEF ReplaceCommit, LocalsHold, Replacing
    <2>2. challenges' \in [ChallengeIds -> ChallengeRow \cup {None}]
        BY <1>8, <2>1 DEF ReplaceCommit, TypeOK
    <2>3. op.ticket \in TicketRow
        BY <1>0, <1>8 DEF ReplaceCommit, TicketsHeld, TicketLocked
    <2>4. [op.ticket EXCEPT !.challengeId = op.challengeId] \in TicketRow
        BY <2>1, <2>3 DEF TicketRow
    <2>5. tickets' \in [TicketIds -> TicketRow \cup {None}]
        BY <1>8, <2>4 DEF ReplaceCommit, TypeOK
    <2> QED
        BY <1>8, <2>2, <2>5, EndTypes DEF ReplaceCommit, TypeOK
<1>9. CASE ApproveReadChallenge(p)
    <2>1. op.challengeId \in ChallengeIds
        BY <1>9 DEF ApproveReadChallenge, LocalsHold, Approving
    <2> DEFINE row == challenges[op.challengeId]
    <2>2. \/ tx' = [tx EXCEPT ![p] = Idle]
          \/ tx' = [tx EXCEPT ![p] = [op EXCEPT !.pc = "readWallet", !.challenge = row]]
        BY <1>9 DEF ApproveReadChallenge
    <2>3. row \in ChallengeRow \cup {None}
        BY <2>1 DEF TypeOK
    <2> HIDE DEF row
    <2>4. [op EXCEPT !.pc = "readWallet", !.challenge = row] \in Operation
        BY <1>0, <2>3 DEF Operation, Statements, Approving
    <2>5. tx' \in [Processes -> Operation]
        BY <2>2, <2>4, IdleIsOperation DEF TypeOK
    <2> QED
        BY <1>9, <2>5 DEF ApproveReadChallenge, TypeOK
<1>10. ASSUME NEW pc \in {"deleteExpired", "verify", "finalizeTicket"},
              tx' = [tx EXCEPT ![p].pc = pc], UNCHANGED <<tables, locks, now>>
       PROVE  TypeOK'
    <2>1. [op EXCEPT !.pc = pc] \in Operation
        BY <1>0, GoesOn DEF Statements, Approving
    <2>2. tx' = [tx EXCEPT ![p] = [op EXCEPT !.pc = pc]]
        BY <1>10
    <2> HIDE DEF op
    <2>3. tx' \in [Processes -> Operation]
        BY <2>1, <2>2 DEF TypeOK
    <2> QED
        BY <1>10, <2>3 DEF TypeOK
<1>11. CASE ApproveExpired(p) \/ ApproveReadWallet(p)
    BY <1>10, <1>11 DEF ApproveExpired, ApproveReadWallet
<1>12. CASE DeleteExpired(p)
    BY <1>12, EndTypes DEF DeleteExpired, TypeOK
<1>13. CASE ApproveBadSignature(p)
    BY <1>13, IdleIsOperation DEF ApproveBadSignature, TypeOK
<1>14. ASSUME NEW s \in SessionIds, ApproveVerified(p, s) PROVE TypeOK'
    <2> DEFINE local == [op EXCEPT !.pc = "finalizeTicket", !.sessionId = s,
                                   !.expiresAt = now + SessionTTL]
    <2>0. now + SessionTTL \in Nat
        BY DEF TypeOK
    <2>1. local \in Operation
        BY <1>0, <2>0, GoesOnWith DEF Statements, Approving
    <2>2. tx' = [tx EXCEPT ![p] = local]
        BY <1>14 DEF ApproveVerified
    <2> HIDE DEF local
    <2>3. tx' \in [Processes -> Operation]
        BY <2>1, <2>2 DEF TypeOK
    <2> QED
        BY <1>14, <2>3 DEF ApproveVerified, TypeOK
<1>15. CASE FinalizeLockTicket(p)
    <2> DEFINE local == [op EXCEPT !.pc = "finalizeChallenge", !.at = now,
                                   !.ticket = tickets[op.ticketId]]
    <2>1. End(p) \/ (op.ticketId \in TicketIds /\ Continue(p, local))
        BY <1>15 DEF FinalizeLockTicket, Pending
    <2>2. op.ticketId \in TicketIds => local \in Operation
        BY <1>0 DEF Operation, Statements, Approving, TypeOK
    <2> HIDE DEF local
    <2> QED
        BY <1>15, <2>1, <2>2, EndTypes, ContinueTypes DEF FinalizeLockTicket, TypeOK
<1>16. CASE FinalizeLockChallenge(p)
    <2>1. [op EXCEPT !.pc = "finalizeWallet"] \in Operation
        BY <1>0, GoesOn DEF Statements, Approving
    <2> QED
        BY <1>16, <2>1, EndTypes, ContinueTypes DEF FinalizeLockChallenge, TypeOK
<1>17. CASE FinalizeLockWallet(p)
    <2>1. /\ [op EXCEPT !.pc = "denyCommit"] \in Operation
          /\ [op EXCEPT !.pc = "grantCommit"] \in Operation
          /\ [op EXCEPT !.pc = "verify", !.ticket = None] \in Operation
        BY <1>0, GoesOn, GoesOnWith DEF Statements, Approving
    <2>2. \/ End(p)
          \/ Continue(p, [op EXCEPT !.pc = "denyCommit"])
          \/ Continue(p, [op EXCEPT !.pc = "grantCommit"])
          \/ Release(p) /\ tx' = [tx EXCEPT ![p] = [op EXCEPT !.pc = "verify", !.ticket = None]]
        BY <1>17 DEF FinalizeLockWallet
    <2> HIDE DEF op
    <2>3. locks' \in [Rows -> Processes \cup {None}] /\ tx' \in [Processes -> Operation]
        BY <2>1, <2>2, EndTypes, ContinueTypes DEF TypeOK, Release
    <2> QED
        BY <1>17, <2>3 DEF FinalizeLockWallet, TypeOK
<1>18. CASE DenyCommit(p)
    <2>1. op.ticket \in TicketRow
        BY <1>0, <1>18 DEF DenyCommit, TicketsHeld, TicketLocked
    <2>2. [op.ticket EXCEPT !.status = "denied"] \in TicketRow
        BY <2>1 DEF TicketRow
    <2>3. /\ tickets' \in [TicketIds -> TicketRow \cup {None}]
          /\ challenges' \in [ChallengeIds -> ChallengeRow \cup {None}]
        BY <1>18, <2>2 DEF DenyCommit, TypeOK
    <2> QED
        BY <1>18, <2>3, EndTypes DEF DenyCommit, TypeOK
<1>19. CASE GrantCommit(p)
    <2>1. op.ticket \in TicketRow /\ op.sessionId \in SessionIds /\ op.ticketId \in TicketIds
        BY <1>0, <1>19 DEF GrantCommit, TicketsHeld, TicketLocked, LocalsHold, Approving
    <2>2. [op.ticket EXCEPT !.status = "approved", !.sessionId = op.sessionId] \in TicketRow
        BY <2>1 DEF TicketRow
    <2>3. /\ tickets' \in [TicketIds -> TicketRow \cup {None}]
          /\ challenges' \in [ChallengeIds -> ChallengeRow \cup {None}]
        BY <1>19, <2>2 DEF GrantCommit, TypeOK
    <2>4. grants' \subseteq [ticketId: TicketIds, sessionId: SessionIds]
        BY <1>19, <2>1 DEF GrantCommit, TypeOK
    <2> QED
        BY <1>19, <2>3, <2>4, EndTypes DEF GrantCommit, TypeOK
<1>20. CASE UpsertLock(p) \/ UpsertInsert(p) \/ UpdateLock(p)
    <2>1. \A pc \in {"upsertInsert", "walletCommit", "insertCommit", "upsertLock"} :
              [op EXCEPT !.pc = pc] \in Operation
        BY <1>0, GoesOn DEF Statements, Upserting, Updating
    <2>2. \/ End(p)
          \/ \E pc \in {"upsertInsert", "walletCommit", "insertCommit", "upsertLock"} :
                Continue(p, [op EXCEPT !.pc = pc])
        BY <1>20 DEF UpsertLock, UpsertInsert, UpdateLock
    <2>3. UNCHANGED <<tables, now>>
        BY <1>20 DEF UpsertLock, UpsertInsert, UpdateLock
    <2> QED
        BY <2>1, <2>2, <2>3, EndTypes, ContinueTypes DEF TypeOK
<1>21. CASE InsertCommit(p)
    <2>1. op.enabled \in BOOLEAN
        BY <1>0, <1>21 DEF InsertCommit, LocalsHold, Upserting
    <2>2. [enabled |-> op.enabled, createdAt |-> op.at] \in WalletRow
        BY <1>0, <2>1 DEF WalletRow
    <2>3. wallets' \in [Wallets -> WalletRow \cup {None}]
        BY <1>21, <2>2 DEF InsertCommit, TypeOK
    <2> QED
        BY <1>21, <2>3, EndTypes DEF InsertCommit, TypeOK
<1>22. CASE WalletCommit(p)
    <2>1. op.wallet \in Wallets /\ wallets[op.wallet] \in WalletRow
        BY <1>0, <1>22 DEF WalletCommit, LocalsHold, Updating, WalletsHeld, TypeOK
    <2> DEFINE enabled == IF op.enabled = None THEN wallets[op.wallet].enabled ELSE op.enabled
    <2>2. enabled \in BOOLEAN
        BY <1>0, <2>1 DEF WalletRow
    <2>3. wallets' = [wallets EXCEPT ![op.wallet] = [wallets[op.wallet] EXCEPT !.enabled = enabled]]
        BY <1>22, <2>1 DEF WalletCommit
    <2> HIDE DEF enabled
    <2>4. [wallets[op.wallet] EXCEPT !.enabled = enabled] \in WalletRow
        BY <2>1, <2>2 DEF WalletRow
    <2>5. wallets' \in [Wallets -> WalletRow \cup {None}]
        BY <2>1, <2>3, <2>4 DEF TypeOK
    <2> QED
        BY <1>22, <2>5, EndTypes DEF WalletCommit, TypeOK
<1>23. CASE BootstrapInsert(p)
    <2> DEFINE local == [op EXCEPT !.todo = op.todo \ {NextWallet(p)}]
    <2>1. local \in Operation
        BY <1>0 DEF Operation
    <2>2. Continue(p, local)
        BY <1>23 DEF BootstrapInsert
    <2> HIDE DEF local
    <2> QED
        BY <1>23, <2>1, <2>2, ContinueTypes DEF BootstrapInsert, TypeOK
<1>24. CASE BootstrapCommit(p)
    <2>1. [enabled |-> TRUE, createdAt |-> op.at] \in WalletRow
        BY <1>0 DEF WalletRow
    <2>2. wallets' \in [Wallets -> WalletRow \cup {None}]
        BY <1>24, <2>1 DEF BootstrapCommit, TypeOK
    <2> QED
        BY <1>24, <2>2, EndTypes DEF BootstrapCommit, TypeOK
<1> QED
    BY <1>1, <1>2, <1>3, <1>4, <1>5, <1>6, <1>7, <1>8, <1>9, <1>11, <1>12, <1>13, <1>14,
       <1>15, <1>16, <1>17, <1>18, <1>19, <1>20, <1>21, <1>22, <1>23, <1>24 DEF Step

LEMMA TypesKept ==
    ASSUME Inv, [Next]_vars
    PROVE  TypeOK'
<1>1. ASSUME NEW p \in Processes, Begin(p) PROVE TypeOK'
    BY <1>1, BeginTypes DEF Inv, TypeOK, tables
<1>2. ASSUME NEW p \in Processes, Step(p) PROVE TypeOK'
    BY <1>2, StepTypes DEF Inv, OperationHolds
<1>3. ASSUME NEW p \in Processes, Abort(p) PROVE TypeOK'
    BY <1>3, EndTypes DEF Inv, TypeOK, Abort, tables
<1>4. ASSUME NEW s \in SessionIds, Logout(s) PROVE TypeOK'
    BY <1>4 DEF Inv, TypeOK, Logout
<1>5. CASE Tick \/ UNCHANGED vars
    BY <1>5 DEF Inv, TypeOK, Tick, vars, tables
<1> QED
    BY <1>1, <1>2, <1>3, <1>4, <1>5 DEF Next

----------------------------------------------------------------------------
(* What one step may change                                                *)

ByProcess(p) == Begin(p) \/ Step(p) \/ Abort(p)

\* The row whose lock a statement needs.
LEMMA WantedRow ==
    ASSUME TypeOK, NEW p \in Processes, LocalsHold(p)
    PROVE  /\ At(p, "capacity") => Wanted(p) = Capacity
           /\ tx[p].pc \in {"replaceTicket", "finalizeTicket"} =>
                 Wanted(p) = Existing(tickets, tx[p].ticketId)
           /\ At(p, "replaceOld") =>
                 Wanted(p) = IF tx[p].ticket.challengeId # None
                             THEN Existing(challenges, tx[p].ticket.challengeId) ELSE None
           /\ tx[p].pc \in {"finalizeChallenge", "deleteExpired"} =>
                 Wanted(p) = Existing(challenges, tx[p].challengeId)
           /\ At(p, "finalizeWallet") => Wanted(p) = PermissionRow(p)
           /\ tx[p].pc \in {"upsertLock", "updateLock"} =>
                 Wanted(p) = Existing(wallets, tx[p].wallet)
           /\ At(p, "upsertInsert") =>
                 Wanted(p) = IF wallets[tx[p].wallet] = None THEN tx[p].wallet ELSE None
           /\ At(p, "bootstrap") /\ tx[p].todo # {} =>
                 Wanted(p) = IF wallets[NextWallet(p)] = None THEN NextWallet(p) ELSE None
           /\ At(p, "bootstrap") /\ tx[p].todo = {} => Wanted(p) = None
           /\ tx[p].pc \notin {"capacity", "replaceTicket", "replaceOld", "finalizeTicket",
                               "finalizeChallenge", "deleteExpired", "finalizeWallet",
                               "upsertLock", "updateLock", "upsertInsert", "bootstrap"} =>
                 Wanted(p) = None
BY DEF Wanted, LockCapacity, TicketForUpdate, FinalizeRow

\* A process moves its own locals, and locks that are its own or free.
LEMMA OnlyOwnLocks ==
    ASSUME TypeOK, NEW p \in Processes, ByProcess(p)
    PROVE  /\ \A q \in Processes \ {p} : tx'[q] = tx[q]
           /\ \A i \in Rows : locks'[i] = locks[i]
                                \/ (locks[i] \in {p, None} /\ locks'[i] \in {p, None})
<1> USE DEF TypeOK
<1>1. CASE Begin(p)
    BY <1>1 DEF Begin, CreateBegin, ChallengeBegin, ApproveBegin, UpsertBegin, UpdateBegin,
                BootstrapBegin
<1>2. ASSUME End(p)
      PROVE  /\ \A q \in Processes \ {p} : tx'[q] = tx[q]
             /\ \A i \in Rows : locks'[i] = locks[i]
                                  \/ (locks[i] \in {p, None} /\ locks'[i] \in {p, None})
    BY <1>2 DEF End, Release
<1>3. ASSUME NEW local, NotBlocked(p), Continue(p, local)
      PROVE  /\ \A q \in Processes \ {p} : tx'[q] = tx[q]
             /\ \A i \in Rows : locks'[i] = locks[i]
                                  \/ (locks[i] \in {p, None} /\ locks'[i] \in {p, None})
    <2>1. None \notin Rows
        BY PgIdAssumption DEF Rows
    <2> QED
        BY <1>3, <2>1 DEF Continue, NotBlocked
<1>4. CASE PurgeTickets(p)
    <2>1. \A q \in Processes \ {p} : tx'[q] = tx[q]
        BY <1>4 DEF PurgeTickets
    <2>2. PICK batch \in Batches(tickets, {i \in TicketIds : Purgeable(i, tx[p].at)}) :
              locks' = [i \in Rows |-> IF i \in batch THEN p ELSE locks[i]]
        BY <1>4 DEF PurgeTickets
    <2>3. \A i \in batch : locks[i] = None
        BY <2>2 DEF Batches, Purgeable
    <2> QED
        BY <2>1, <2>2, <2>3
<1>5. CASE PurgeChallenges(p)
    <2>1. \A q \in Processes \ {p} : tx'[q] = tx[q]
        BY <1>5 DEF PurgeChallenges
    <2>2. PICK batch \in Batches(challenges, {i \in ChallengeIds : Expired(challenges[i], tx[p].at)
                                                  /\ locks[i] = None}) :
              locks' = [i \in Rows |-> IF i \in batch THEN p ELSE locks[i]]
        BY <1>5 DEF PurgeChallenges
    <2>3. \A i \in batch : locks[i] = None
        BY <2>2 DEF Batches
    <2> QED
        BY <2>1, <2>2, <2>3
<1>6. CASE PurgeCommit(p)
    BY <1>6 DEF PurgeCommit, Release
<1>7. CASE FinalizeLockWallet(p)
    <2>1. CASE Release(p) /\ tx' = [tx EXCEPT ![p].pc = "verify", ![p].ticket = None]
        BY <2>1 DEF Release
    <2> QED
        BY <1>2, <1>3, <1>7, <2>1 DEF FinalizeLockWallet
<1>8. CASE \/ CountPending(p) \/ ReplaceLockTicket(p) \/ ReplaceDeleteOld(p)
           \/ FinalizeLockTicket(p) \/ FinalizeLockChallenge(p) \/ UpsertLock(p)
           \/ UpsertInsert(p) \/ UpdateLock(p) \/ BootstrapInsert(p)
    BY <1>2, <1>3, <1>8 DEF CountPending, ReplaceLockTicket, ReplaceDeleteOld, FinalizeLockTicket,
        FinalizeLockChallenge, UpsertLock, UpsertInsert, UpdateLock, BootstrapInsert
<1>9. CASE \/ CreateCommit(p) \/ ReplaceCommit(p) \/ DeleteExpired(p) \/ DenyCommit(p)
           \/ GrantCommit(p) \/ InsertCommit(p) \/ WalletCommit(p) \/ BootstrapCommit(p)
           \/ Abort(p)
    BY <1>2, <1>9 DEF CreateCommit, ReplaceCommit, DeleteExpired, DenyCommit, GrantCommit,
        InsertCommit, WalletCommit, BootstrapCommit, Abort
<1>10. CASE \/ ApproveReadChallenge(p) \/ ApproveExpired(p) \/ ApproveReadWallet(p)
            \/ ApproveBadSignature(p) \/ \E s \in SessionIds : ApproveVerified(p, s)
    BY <1>10 DEF ApproveReadChallenge, ApproveExpired, ApproveReadWallet, ApproveBadSignature,
        ApproveVerified
<1> QED
    BY <1>1, <1>4, <1>5, <1>6, <1>7, <1>8, <1>9, <1>10 DEF ByProcess, Step

\* The steps of a process that write a table other than sessions.
Writes(p) ==
    \/ PurgeCommit(p) \/ CreateCommit(p) \/ ReplaceCommit(p) \/ DeleteExpired(p)
    \/ DenyCommit(p) \/ GrantCommit(p)
    \/ InsertCommit(p) \/ WalletCommit(p) \/ BootstrapCommit(p)

LEMMA StepKinds ==
    ASSUME NEW p \in Processes, ByProcess(p)
    PROVE  now' = now /\ (Writes(p) \/ UNCHANGED <<tickets, challenges, wallets, grants>>)
<1>1. CASE Begin(p) \/ Abort(p)
    BY <1>1 DEF Begin, CreateBegin, ChallengeBegin, ApproveBegin, UpsertBegin, UpdateBegin,
                BootstrapBegin, Abort, tables
<1>2. CASE Step(p)
    BY <1>2 DEF Step, Writes, tables, PurgeTickets, PurgeChallenges, PurgeCommit, CountPending,
        CreateCommit, ReplaceLockTicket, ReplaceDeleteOld, ReplaceCommit, ApproveReadChallenge,
        ApproveExpired, DeleteExpired, ApproveReadWallet, ApproveBadSignature, ApproveVerified,
        FinalizeLockTicket, FinalizeLockChallenge, FinalizeLockWallet, DenyCommit, GrantCommit,
        UpsertLock, UpsertInsert, InsertCommit, UpdateLock, WalletCommit, BootstrapInsert,
        BootstrapCommit
<1> QED
    BY <1>1, <1>2 DEF ByProcess

----------------------------------------------------------------------------
(* The process that takes a step                                           *)

\* The operation is over and its locks are released.
Released(p) == \A i \in Rows : locks'[i] # p
Ended(p) == tx'[p] = Idle /\ Released(p)

\* Where a statement that returns leads to, and which locals it changes.
GoneOn(p) ==
    /\ tx'[p].ticketId = tx[p].ticketId /\ tx'[p].challengeId = tx[p].challengeId
    /\ tx'[p].wallet = tx[p].wallet /\ tx'[p].enabled = tx[p].enabled
    /\ tx[p].pc # "readChallenge" => tx'[p].challenge = tx[p].challenge
    /\ \/ tx[p].pc \in {"replaceTicket", "finalizeTicket"}
       \/ At(p, "finalizeWallet") /\ tx'[p].pc = "verify"
       \/ tx'[p].ticket = tx[p].ticket
    /\ tx[p].pc # "verify" => tx'[p].sessionId = tx[p].sessionId
    /\ At(p, "bootstrap") =>
          tx[p].todo # {} /\ tx'[p].todo = tx[p].todo \ {NextWallet(p)}
    /\ <<tx[p].pc, tx'[p].pc>> \in
          {<<"purgeTickets", "purgeChallenges">>, <<"purgeChallenges", "purgeCommit">>,
           <<"purgeCommit", "capacity">>, <<"capacity", "createCommit">>,
           <<"replaceTicket", "replaceOld">>, <<"replaceOld", "replaceCommit">>,
           <<"readChallenge", "readWallet">>, <<"readWallet", "deleteExpired">>,
           <<"readWallet", "verify">>, <<"readWallet", "finalizeTicket">>,
           <<"verify", "finalizeTicket">>, <<"finalizeTicket", "finalizeChallenge">>,
           <<"finalizeChallenge", "finalizeWallet">>, <<"finalizeWallet", "denyCommit">>,
           <<"finalizeWallet", "grantCommit">>, <<"finalizeWallet", "verify">>,
           <<"upsertLock", "upsertInsert">>, <<"upsertLock", "walletCommit">>,
           <<"upsertInsert", "insertCommit">>, <<"upsertInsert", "upsertLock">>,
           <<"updateLock", "walletCommit">>, <<"bootstrap", "bootstrap">>}

LEMMA EndIsEnded ==
    ASSUME TypeOK, NEW p \in Processes, End(p)
    PROVE  Ended(p)
BY PgIdAssumption DEF TypeOK, End, Release, Ended, Released

\* The fields of a running operation after an edit.
LEMMA EditedFields ==
    ASSUME TypeOK, NEW p \in Processes, NEW pc, NEW e, NEW s, NEW row, NEW t, NEW todo
    PROVE  LET op == tx[p]
               Same(new) == /\ new.ticketId = op.ticketId /\ new.challengeId = op.challengeId
                            /\ new.wallet = op.wallet /\ new.enabled = op.enabled
           IN
           /\ LET new == [op EXCEPT !.pc = pc] IN
              /\ Same(new) /\ new.pc = pc /\ new.challenge = op.challenge
              /\ new.ticket = op.ticket /\ new.sessionId = op.sessionId
           /\ LET new == [op EXCEPT !.pc = pc, !.expiresAt = e] IN
              /\ Same(new) /\ new.pc = pc /\ new.challenge = op.challenge
              /\ new.ticket = op.ticket /\ new.sessionId = op.sessionId
           /\ LET new == [op EXCEPT !.pc = pc, !.challenge = row] IN
              /\ Same(new) /\ new.pc = pc /\ new.challenge = row
              /\ new.ticket = op.ticket /\ new.sessionId = op.sessionId
           /\ LET new == [op EXCEPT !.pc = pc, !.sessionId = s, !.expiresAt = e] IN
              /\ Same(new) /\ new.pc = pc /\ new.challenge = op.challenge
              /\ new.ticket = op.ticket /\ new.sessionId = s
           /\ LET new == [op EXCEPT !.pc = pc, !.ticket = row] IN
              /\ Same(new) /\ new.pc = pc /\ new.challenge = op.challenge
              /\ new.ticket = row /\ new.sessionId = op.sessionId
           /\ LET new == [op EXCEPT !.pc = pc, !.at = t, !.ticket = row] IN
              /\ Same(new) /\ new.pc = pc /\ new.challenge = op.challenge
              /\ new.ticket = row /\ new.sessionId = op.sessionId
           /\ LET new == [op EXCEPT !.todo = todo] IN
              /\ Same(new) /\ new.pc = op.pc /\ new.challenge = op.challenge
              /\ new.ticket = op.ticket /\ new.sessionId = op.sessionId /\ new.todo = todo
<1>1. tx[p] \in Operation
    BY DEF TypeOK
<1> QED
    BY <1>1 DEF Operation

\* Every statement ends its operation or goes on to a statement that
\* follows it.
LEMMA StepEndsOrGoesOn ==
    ASSUME TypeOK, NEW p \in Processes, LocksInOrder(p), Step(p)
    PROVE  Ended(p) \/ GoneOn(p)
<1> DEFINE op == tx[p]
<1>0. tx \in [Processes -> Operation]
    BY DEF TypeOK
<1>1. ASSUME NEW new, tx' = [tx EXCEPT ![p] = new] PROVE tx'[p] = new
    BY <1>0, <1>1
<1>2. ASSUME NEW local, Continue(p, local) PROVE tx'[p] = local
    BY <1>0, <1>2 DEF Continue
<1>3. CASE PurgeTickets(p)
    <2>1. tx'[p] = [op EXCEPT !.pc = "purgeChallenges"] /\ op.pc = "purgeTickets"
        BY <1>1, <1>3 DEF PurgeTickets
    <2> QED
        BY <2>1, EditedFields DEF GoneOn
<1>4. CASE PurgeChallenges(p)
    <2>1. tx'[p] = [op EXCEPT !.pc = "purgeCommit"] /\ op.pc = "purgeChallenges"
        BY <1>1, <1>4 DEF PurgeChallenges
    <2> QED
        BY <2>1, EditedFields DEF GoneOn
<1>5. CASE PurgeCommit(p)
    <2>1. tx'[p] = [op EXCEPT !.pc = "capacity", !.expiresAt = now + TicketTTL]
          /\ op.pc = "purgeCommit"
        BY <1>1, <1>5 DEF PurgeCommit
    <2> QED
        BY <2>1, EditedFields DEF GoneOn
<1>6. CASE CountPending(p) /\ ~ End(p)
    <2>1. tx'[p] = [op EXCEPT !.pc = "createCommit"] /\ op.pc = "capacity"
        BY <1>2, <1>6 DEF CountPending
    <2> QED
        BY <2>1, EditedFields DEF GoneOn
<1>7. CASE ReplaceLockTicket(p) /\ ~ End(p)
    <2>1. tx'[p] = [op EXCEPT !.pc = "replaceOld", !.ticket = tickets[op.ticketId]]
          /\ op.pc = "replaceTicket"
        BY <1>2, <1>7 DEF ReplaceLockTicket
    <2> QED
        BY <2>1, EditedFields DEF GoneOn
<1>8. CASE ReplaceDeleteOld(p) /\ ~ End(p)
    <2>1. tx'[p] = [op EXCEPT !.pc = "replaceCommit"] /\ op.pc = "replaceOld"
        BY <1>2, <1>8 DEF ReplaceDeleteOld
    <2> QED
        BY <2>1, EditedFields DEF GoneOn
<1>9. CASE ApproveReadChallenge(p) /\ tx'[p] # Idle
    <2>1. tx'[p] = [op EXCEPT !.pc = "readWallet", !.challenge = challenges[op.challengeId]]
          /\ op.pc = "readChallenge"
        BY <1>0, <1>9 DEF ApproveReadChallenge
    <2> QED
        BY <2>1, EditedFields DEF GoneOn
<1>10. CASE ApproveExpired(p)
    <2>1. tx'[p] = [op EXCEPT !.pc = "deleteExpired"] /\ op.pc = "readWallet"
        BY <1>1, <1>10 DEF ApproveExpired
    <2> QED
        BY <2>1, EditedFields DEF GoneOn
<1>11. CASE ApproveReadWallet(p)
    <2>1. PICK pc \in {"verify", "finalizeTicket"} : tx' = [tx EXCEPT ![p] = [op EXCEPT !.pc = pc]]
        BY <1>11 DEF ApproveReadWallet
    <2>2. tx'[p] = [op EXCEPT !.pc = pc] /\ op.pc = "readWallet"
        BY <1>1, <1>11, <2>1 DEF ApproveReadWallet
    <2> QED
        BY <2>2, EditedFields DEF GoneOn
<1>12. ASSUME NEW s \in SessionIds, ApproveVerified(p, s) PROVE GoneOn(p)
    <2>1. tx' = [tx EXCEPT ![p] = [op EXCEPT !.pc = "finalizeTicket", !.sessionId = s,
                                             !.expiresAt = now + SessionTTL]]
        BY <1>12 DEF ApproveVerified
    <2>2. tx'[p] = [op EXCEPT !.pc = "finalizeTicket", !.sessionId = s,
                              !.expiresAt = now + SessionTTL]
        BY <1>1, <2>1
    <2>3. op.pc = "verify"
        BY <1>12 DEF ApproveVerified
    <2> QED
        BY <2>2, <2>3, EditedFields DEF GoneOn
<1>13. CASE FinalizeLockTicket(p) /\ ~ End(p)
    <2>1. tx'[p] = [op EXCEPT !.pc = "finalizeChallenge", !.at = now,
                              !.ticket = tickets[op.ticketId]]
          /\ op.pc = "finalizeTicket"
        BY <1>2, <1>13 DEF FinalizeLockTicket
    <2> QED
        BY <2>1, EditedFields DEF GoneOn
<1>14. CASE FinalizeLockChallenge(p) /\ ~ End(p)
    <2>1. tx'[p] = [op EXCEPT !.pc = "finalizeWallet"] /\ op.pc = "finalizeChallenge"
        BY <1>2, <1>14 DEF FinalizeLockChallenge
    <2> QED
        BY <2>1, EditedFields DEF GoneOn
<1>15. CASE FinalizeLockWallet(p) /\ ~ End(p)
    <2>1. op.pc = "finalizeWallet"
        BY <1>15 DEF FinalizeLockWallet
    <2>2. \/ Continue(p, [op EXCEPT !.pc = "denyCommit"])
          \/ Continue(p, [op EXCEPT !.pc = "grantCommit"])
          \/ tx' = [tx EXCEPT ![p] = [op EXCEPT !.pc = "verify", !.ticket = None]]
        BY <1>15 DEF FinalizeLockWallet
    <2>3. \/ tx'[p] = [op EXCEPT !.pc = "denyCommit"]
          \/ tx'[p] = [op EXCEPT !.pc = "grantCommit"]
          \/ tx'[p] = [op EXCEPT !.pc = "verify", !.ticket = None]
        BY <1>1, <1>2, <2>2
    <2>4. CASE tx'[p] = [op EXCEPT !.pc = "verify", !.ticket = None]
        BY <2>1, <2>4, EditedFields DEF GoneOn
    <2>5. ASSUME NEW pc \in {"denyCommit", "grantCommit"}, tx'[p] = [op EXCEPT !.pc = pc]
          PROVE  GoneOn(p)
        BY <2>1, <2>5, EditedFields DEF GoneOn
    <2> QED
        BY <2>3, <2>4, <2>5
<1>16. CASE (UpsertLock(p) \/ UpsertInsert(p) \/ UpdateLock(p)) /\ ~ End(p)
    <2>1. PICK pc : /\ Continue(p, [op EXCEPT !.pc = pc])
                    /\ <<op.pc, pc>> \in
                          {<<"upsertLock", "upsertInsert">>, <<"upsertLock", "walletCommit">>,
                           <<"upsertInsert", "insertCommit">>, <<"upsertInsert", "upsertLock">>,
                           <<"updateLock", "walletCommit">>}
        BY <1>16 DEF UpsertLock, UpsertInsert, UpdateLock
    <2>2. tx'[p] = [op EXCEPT !.pc = pc]
        BY <1>2, <2>1
    <2> QED
        BY <2>1, <2>2, EditedFields DEF GoneOn
<1>17. CASE BootstrapInsert(p)
    <2>1. tx'[p] = [op EXCEPT !.todo = op.todo \ {NextWallet(p)}] /\ op.pc = "bootstrap"
          /\ op.todo # {}
        BY <1>2, <1>17 DEF BootstrapInsert
    <2> QED
        BY <2>1, EditedFields DEF GoneOn
<1>18. CASE \/ ApproveReadChallenge(p) /\ tx'[p] = Idle
            \/ ApproveBadSignature(p)
    <2>1. UNCHANGED locks /\ tx[p].pc \in {"readChallenge", "verify"} /\ tx'[p] = Idle
        BY <1>0, <1>18 DEF ApproveReadChallenge, ApproveBadSignature
    <2> QED
        BY <2>1 DEF Ended, Released, LocksInOrder, Rows, TicketLocked, ChallengeLocked
<1>19. CASE End(p)
    BY <1>19, EndIsEnded
<1>20. CASE \/ CreateCommit(p) \/ ReplaceCommit(p) \/ DeleteExpired(p) \/ DenyCommit(p)
            \/ GrantCommit(p) \/ InsertCommit(p) \/ WalletCommit(p) \/ BootstrapCommit(p)
    <2>1. End(p)
        BY <1>20 DEF CreateCommit, ReplaceCommit, DeleteExpired, DenyCommit, GrantCommit,
            InsertCommit, WalletCommit, BootstrapCommit
    <2> QED
        BY <2>1, EndIsEnded
<1> QED
    BY <1>3, <1>4, <1>5, <1>6, <1>7, <1>8, <1>9, <1>10, <1>11, <1>12, <1>13, <1>14, <1>15, <1>16,
       <1>17, <1>18, <1>19, <1>20 DEF Step

\* The statement a process is at is the one it executes.
LEMMA StepAt ==
    ASSUME NEW p \in Processes, Step(p)
    PROVE  /\ At(p, "purgeTickets") => PurgeTickets(p)
           /\ At(p, "purgeChallenges") => PurgeChallenges(p)
           /\ At(p, "purgeCommit") => PurgeCommit(p)
           /\ At(p, "capacity") => CountPending(p)
           /\ At(p, "createCommit") => CreateCommit(p)
           /\ At(p, "replaceTicket") => ReplaceLockTicket(p)
           /\ At(p, "replaceOld") => ReplaceDeleteOld(p)
           /\ At(p, "replaceCommit") => ReplaceCommit(p)
           /\ At(p, "readChallenge") => ApproveReadChallenge(p)
           /\ At(p, "readWallet") => ApproveExpired(p) \/ ApproveReadWallet(p)
           /\ At(p, "deleteExpired") => DeleteExpired(p)
           /\ At(p, "verify") =>
                 ApproveBadSignature(p) \/ \E s \in SessionIds : ApproveVerified(p, s)
           /\ At(p, "finalizeTicket") => FinalizeLockTicket(p)
           /\ At(p, "finalizeChallenge") => FinalizeLockChallenge(p)
           /\ At(p, "finalizeWallet") => FinalizeLockWallet(p)
           /\ At(p, "denyCommit") => DenyCommit(p)
           /\ At(p, "grantCommit") => GrantCommit(p)
           /\ At(p, "upsertLock") => UpsertLock(p)
           /\ At(p, "upsertInsert") => UpsertInsert(p)
           /\ At(p, "insertCommit") => InsertCommit(p)
           /\ At(p, "updateLock") => UpdateLock(p)
           /\ At(p, "walletCommit") => WalletCommit(p)
           /\ At(p, "bootstrap") => BootstrapInsert(p) \/ BootstrapCommit(p)
BY DEF Step, PurgeTickets, PurgeChallenges, PurgeCommit, CountPending, CreateCommit,
    ReplaceLockTicket, ReplaceDeleteOld, ReplaceCommit, ApproveReadChallenge, ApproveExpired,
    DeleteExpired, ApproveReadWallet, ApproveBadSignature, ApproveVerified, FinalizeLockTicket,
    FinalizeLockChallenge, FinalizeLockWallet, DenyCommit, GrantCommit, UpsertLock,
    UpsertInsert, InsertCommit, UpdateLock, WalletCommit, BootstrapInsert, BootstrapCommit

\* A statement that returns keeps the locks of its transaction and takes the
\* one it wanted; the purge takes those of its batch, and a transaction that
\* has nothing to write releases its own.
Took(p) ==
    /\ tx[p].pc # "purgeCommit"
    /\ ~ (At(p, "finalizeWallet") /\ tx'[p].pc = "verify")
    /\ NotBlocked(p)
    /\ \A i \in Rows : locks'[i] = IF i = Wanted(p) THEN p ELSE locks[i]

LEMMA StepTakes ==
    ASSUME TypeOK, NEW p \in Processes, LocalsHold(p), Step(p), GoneOn(p)
    PROVE  /\ At(p, "purgeCommit") => Released(p)
           /\ At(p, "finalizeWallet") /\ tx'[p].pc = "verify" => Released(p)
           /\ \/ tx[p].pc \in {"purgeTickets", "purgeChallenges", "purgeCommit"}
              \/ At(p, "finalizeWallet") /\ tx'[p].pc = "verify"
              \/ Took(p)
<1>0. tx \in [Processes -> Operation] /\ None \notin Rows
    BY PgIdAssumption DEF TypeOK, Rows
<1>1. ~ End(p)
    BY <1>0 DEF End, GoneOn, Idle
<1>2. ASSUME NEW local, Continue(p, local), NotBlocked(p), tx[p].pc # "purgeCommit",
             ~ (At(p, "finalizeWallet") /\ local.pc = "verify")
      PROVE  Took(p)
    <2>1. tx'[p] = local
        BY <1>0, <1>2 DEF Continue
    <2> QED
        BY <1>2, <2>1 DEF Took, Continue
<1>3. CASE tx[p].pc \in {"capacity", "replaceTicket", "replaceOld", "finalizeTicket",
                         "finalizeChallenge", "upsertLock", "upsertInsert", "updateLock",
                         "bootstrap"}
    <2>1. (\E local : Continue(p, local)) /\ NotBlocked(p)
        BY <1>1, <1>3, StepAt DEF CountPending, ReplaceLockTicket, ReplaceDeleteOld,
            FinalizeLockTicket, FinalizeLockChallenge, UpsertLock, UpsertInsert, UpdateLock,
            BootstrapInsert, BootstrapCommit
    <2> QED
        BY <1>2, <1>3, <2>1
<1>4. CASE At(p, "finalizeWallet")
    <2>1. /\ NotBlocked(p)
          /\ \/ Continue(p, [tx[p] EXCEPT !.pc = "denyCommit"])
             \/ Continue(p, [tx[p] EXCEPT !.pc = "grantCommit"])
             \/ Release(p) /\ tx' = [tx EXCEPT ![p] = [tx[p] EXCEPT !.pc = "verify",
                                                                    !.ticket = None]]
        BY <1>1, <1>4, StepAt DEF FinalizeLockWallet
    <2>2. ASSUME Release(p) PROVE Released(p)
        BY <2>2, PgIdAssumption DEF Release, Released
    <2>3. /\ [tx[p] EXCEPT !.pc = "denyCommit"].pc = "denyCommit"
          /\ [tx[p] EXCEPT !.pc = "grantCommit"].pc = "grantCommit"
          /\ [tx[p] EXCEPT !.pc = "verify", !.ticket = None].pc = "verify"
        BY EditedFields
    <2>4. CASE \E pc \in {"denyCommit", "grantCommit"} : Continue(p, [tx[p] EXCEPT !.pc = pc])
        <3>1. PICK pc \in {"denyCommit", "grantCommit"} : Continue(p, [tx[p] EXCEPT !.pc = pc])
            BY <2>4
        <3>2. tx'[p].pc # "verify"
            BY <1>0, <2>3, <3>1 DEF Continue
        <3> QED
            BY <1>2, <1>4, <2>1, <2>3, <3>1, <3>2
    <2>5. CASE Release(p) /\ tx' = [tx EXCEPT ![p] = [tx[p] EXCEPT !.pc = "verify",
                                                                   !.ticket = None]]
        <3>1. tx'[p].pc = "verify"
            BY <1>0, <2>3, <2>5
        <3> QED
            BY <1>4, <2>2, <2>5, <3>1
    <2> QED
        BY <2>1, <2>4, <2>5
<1>5. CASE At(p, "purgeCommit")
    <2>1. Release(p)
        BY <1>5, StepAt DEF PurgeCommit
    <2> QED
        BY <1>5, <2>1, PgIdAssumption DEF Release, Released
<1>6. CASE tx[p].pc \in {"readChallenge", "readWallet", "verify"}
    <2>1. UNCHANGED locks
        BY <1>6, StepAt DEF ApproveReadChallenge, ApproveExpired, ApproveReadWallet,
            ApproveBadSignature, ApproveVerified
    <2>2. Wanted(p) = None
        BY <1>6, WantedRow
    <2> QED
        BY <1>0, <1>6, <2>1, <2>2 DEF Took, NotBlocked
<1> QED
    BY <1>3, <1>4, <1>5, <1>6 DEF GoneOn

\* sorted(settings.allowed_wallets): the next wallet is the least to come.
LEMMA NextWalletIsLeast ==
    ASSUME TypeOK, NEW p \in Processes, tx[p].todo # {}
    PROVE  /\ NextWallet(p) \in tx[p].todo
           /\ NextWallet(p) \in Wallets
           /\ \A v \in tx[p].todo : NextWallet(p) <= v
<1>1. tx[p].todo \subseteq AllowedWallets
    BY OperationFields DEF TypeOK
<1>2. tx[p].todo \in SUBSET Nat /\ IsFiniteSet(tx[p].todo)
    BY <1>1, PgWalletAssumption, FS_Subset
<1>3. \E w \in tx[p].todo : \A v \in tx[p].todo : w <= v
    BY <1>2, LeastNumber
<1> QED
    BY <1>1, <1>3, PgWalletAssumption DEF NextWallet

\* The ids of the rows of different tables differ.
LEMMA RowKinds ==
    /\ None \notin Rows /\ None \notin Processes
    /\ \A t \in TicketIds :
          t \in Rows /\ t \notin ChallengeIds /\ t \notin Wallets /\ t # Capacity /\ t # None
    /\ \A c \in ChallengeIds :
          c \in Rows /\ c \notin TicketIds /\ c \notin Wallets /\ c # Capacity /\ c # None
    /\ \A w \in Wallets :
          w \in Rows /\ w \notin TicketIds /\ w \notin ChallengeIds /\ w # Capacity /\ w # None
    /\ Capacity \in Rows /\ Capacity # None
BY PgIdAssumption DEF Rows

LEMMA EndedHolds ==
    ASSUME NEW p \in Processes, Ended(p)
    PROVE  OperationHolds(p)'
<1>1. tx'[p].pc = "idle"
    BY DEF Ended, Idle
<1>2. \A i \in TicketIds \cup ChallengeIds \cup Wallets \cup {Capacity} : locks'[i] # p
    BY DEF Ended, Released, Rows
<1> QED
    BY <1>1, <1>2 DEF OperationHolds, LocalsHold, TicketsHeld, ChallengesHeld, WalletsHeld,
        LocksInOrder, RoomHeld, DraftsAreOwned, Creating, Replacing, Approving, Upserting,
        Updating, TicketLocked, ChallengeLocked

\* A statement that returns leaves the locals the next one needs.
LEMMA StepKeepsLocals ==
    ASSUME TypeOK, NEW p \in Processes, LocalsHold(p), Step(p), GoneOn(p)
    PROVE  LocalsHold(p)'
<1>0. tx[p].sessionId \in SessionIds \cup {None} /\ tx \in [Processes -> Operation]
    BY OperationFields DEF TypeOK
<1>1. tx[p].pc = "readChallenge" => tx'[p].challenge # None
    <2>1. SUFFICES ASSUME tx[p].pc = "readChallenge" PROVE tx'[p].challenge # None
        OBVIOUS
    <2>2. ApproveReadChallenge(p) /\ tx'[p].pc # "idle"
        BY <2>1, StepAt DEF GoneOn
    <2>3. tx' # [tx EXCEPT ![p] = Idle]
        BY <1>0, <2>2 DEF Idle
    <2>4. challenges[tx[p].challengeId] # None
        BY <2>2, <2>3 DEF ApproveReadChallenge
    <2>5. tx' = [tx EXCEPT ![p] = [tx[p] EXCEPT !.pc = "readWallet",
                                                !.challenge = challenges[tx[p].challengeId]]]
        BY <2>2, <2>3 DEF ApproveReadChallenge
    <2>6. tx'[p] = [tx[p] EXCEPT !.pc = "readWallet", !.challenge = challenges[tx[p].challengeId]]
        BY <1>0, <2>5
    <2> QED
        BY <2>4, <2>6, EditedFields
<1>2. tx'[p].pc = "grantCommit" => tx[p].sessionId \in SessionIds
    <2>1. SUFFICES ASSUME tx'[p].pc = "grantCommit" PROVE tx[p].sessionId # None
        BY <1>0
    <2>2. FinalizeLockWallet(p)
        BY <2>1, StepAt DEF GoneOn
    <2>3. ASSUME NEW new \in {Idle, [tx[p] EXCEPT !.pc = "denyCommit"],
                              [tx[p] EXCEPT !.pc = "verify", !.ticket = None]}
          PROVE  tx' # [tx EXCEPT ![p] = new]
        <3>0. /\ Idle.pc = "idle"
              /\ [tx[p] EXCEPT !.pc = "denyCommit"].pc = "denyCommit"
              /\ [tx[p] EXCEPT !.pc = "verify", !.ticket = None].pc = "verify"
            BY EditedFields DEF Idle
        <3>1. new.pc # "grantCommit"
            BY <2>3, <3>0
        <3> QED
            BY <1>0, <2>1, <3>1
    <2> QED
        BY <2>2, <2>3 DEF FinalizeLockWallet, End, Continue
<1> QED
    BY <1>1, <1>2 DEF LocalsHold, GoneOn, Creating, Replacing, Approving, Upserting, Updating

\* A statement that returns writes nothing, the commit of the purge aside.
LEMMA GoneOnIsQuiet ==
    ASSUME TypeOK, NEW p \in Processes, Step(p), GoneOn(p)
    PROVE  /\ now' = now
           /\ tx[p].pc # "purgeCommit" => UNCHANGED <<tickets, challenges, wallets, grants>>
<1>1. Writes(p) => tx[p].pc \in {"purgeCommit", "createCommit", "replaceCommit", "deleteExpired",
                                 "denyCommit", "grantCommit", "insertCommit", "walletCommit"}
                   \/ BootstrapCommit(p)
    BY DEF Writes, PurgeCommit, CreateCommit, ReplaceCommit, DeleteExpired, DenyCommit,
        GrantCommit, InsertCommit, WalletCommit
<1>2. BootstrapCommit(p) => tx'[p].pc = "idle"
    BY DEF BootstrapCommit, End, TypeOK, Idle
<1> QED
    BY <1>1, <1>2, StepKinds DEF GoneOn, ByProcess

\* The row a statement wants to lock, by the statement.
LEMMA WantedKind ==
    ASSUME TypeOK, NEW p \in Processes, LocalsHold(p), TicketsHeld(p)
    PROVE  \/ Wanted(p) = None
           \/ At(p, "capacity") /\ Wanted(p) = Capacity
           \/ /\ tx[p].pc \in {"replaceTicket", "finalizeTicket"}
              /\ Wanted(p) = tx[p].ticketId /\ tx[p].ticketId \in TicketIds
           \/ /\ At(p, "replaceOld")
              /\ Wanted(p) = tx[p].ticket.challengeId /\ tx[p].ticket.challengeId \in ChallengeIds
           \/ /\ tx[p].pc \in {"finalizeChallenge", "deleteExpired"}
              /\ Wanted(p) = tx[p].challengeId /\ tx[p].challengeId \in ChallengeIds
           \/ /\ At(p, "finalizeWallet")
              /\ Wanted(p) = tx[p].challenge.address /\ tx[p].challenge.address \in Wallets
           \/ /\ tx[p].pc \in {"upsertLock", "updateLock", "upsertInsert"}
              /\ Wanted(p) = tx[p].wallet /\ tx[p].wallet \in Wallets
           \/ /\ At(p, "bootstrap") /\ tx[p].todo # {}
              /\ Wanted(p) = NextWallet(p) /\ NextWallet(p) \in Wallets
<1>1. CASE tx[p].pc \in {"replaceTicket", "finalizeTicket"}
    BY <1>1, WantedRow DEF Existing, LocalsHold, Replacing, Approving
<1>2. CASE At(p, "replaceOld")
    <2>1. tx[p].ticket \in TicketRow
        BY <1>2, OperationFields DEF TypeOK, TicketsHeld, TicketLocked
    <2> QED
        BY <1>2, <2>1, WantedRow DEF Existing, TicketRow
<1>3. CASE tx[p].pc \in {"finalizeChallenge", "deleteExpired"}
    BY <1>3, WantedRow DEF Existing, LocalsHold, Approving
<1>4. CASE At(p, "finalizeWallet")
    <2>1. tx[p].challenge \in ChallengeRow
        BY <1>4, OperationFields DEF TypeOK, LocalsHold, Approving
    <2> QED
        BY <1>4, <2>1, WantedRow DEF Existing, ChallengeRow, PermissionRow
<1>5. CASE tx[p].pc \in {"upsertLock", "updateLock", "upsertInsert"}
    BY <1>5, WantedRow DEF Existing, LocalsHold, Upserting, Updating
<1>6. CASE At(p, "bootstrap")
    BY <1>6, WantedRow, NextWalletIsLeast
<1>7. CASE tx[p].pc \notin {"replaceTicket", "replaceOld", "finalizeTicket", "finalizeChallenge",
                            "deleteExpired", "finalizeWallet", "upsertLock", "updateLock",
                            "upsertInsert", "bootstrap"}
    BY <1>7, WantedRow
<1> QED
    BY <1>1, <1>2, <1>3, <1>4, <1>5, <1>6, <1>7

\* An upsert inserts the wallet when there is no row and changes it when
\* there is one.
LEMMA UpsertGoesOn ==
    ASSUME TypeOK, NEW p \in Processes, Step(p)
    PROVE  /\ At(p, "upsertLock") =>
                 tx'[p].pc = IF wallets[tx[p].wallet] = None THEN "upsertInsert" ELSE "walletCommit"
           /\ At(p, "upsertInsert") =>
                 tx'[p].pc = IF wallets[tx[p].wallet] = None THEN "insertCommit" ELSE "upsertLock"
<1>1. ASSUME NEW pc, Continue(p, [tx[p] EXCEPT !.pc = pc]) PROVE tx'[p].pc = pc
    <2>1. tx'[p] = [tx[p] EXCEPT !.pc = pc]
        BY <1>1 DEF Continue, TypeOK
    <2> QED
        BY <2>1, EditedFields
<1>2. CASE At(p, "upsertLock")
    BY <1>1, <1>2, StepAt DEF UpsertLock
<1>3. CASE At(p, "upsertInsert")
    BY <1>1, <1>3, StepAt DEF UpsertInsert
<1> QED
    BY <1>2, <1>3

\* The locks of a transaction after a statement that returns.
LEMMA StepKeepsOrder ==
    ASSUME TypeOK, NEW p \in Processes, OperationHolds(p), Step(p), GoneOn(p)
    PROVE  LocksInOrder(p)'
<1> USE RowKinds DEF OperationHolds
<1>1. CASE Released(p)
    BY <1>1 DEF Released, LocksInOrder
<1>2. CASE At(p, "purgeTickets")
    <2>1. PICK batch \in SUBSET TicketIds :
              locks' = [i \in Rows |-> IF i \in batch THEN p ELSE locks[i]]
        BY <1>2, StepAt DEF PurgeTickets, Batches
    <2>2. tx[p].pc = "purgeTickets" /\ tx'[p].pc = "purgeChallenges"
        BY <1>2 DEF GoneOn
    <2> QED
        BY <2>1, <2>2 DEF LocksInOrder, TicketLocked, ChallengeLocked
<1>3. CASE At(p, "purgeChallenges")
    <2>1. PICK batch \in SUBSET ChallengeIds :
              locks' = [i \in Rows |-> IF i \in batch THEN p ELSE locks[i]]
        BY <1>3, StepAt DEF PurgeChallenges, Batches
    <2>2. tx[p].pc = "purgeChallenges" /\ tx'[p].pc = "purgeCommit"
        BY <1>3 DEF GoneOn
    <2> QED
        BY <2>1, <2>2 DEF LocksInOrder, TicketLocked, ChallengeLocked
<1>4. CASE Took(p)
    <2>1. \A i \in Rows : locks'[i] = p => locks[i] = p \/ i = Wanted(p)
        BY <1>4 DEF Took
    <2>2. ASSUME NEW t \in TicketIds, locks'[t] = p
          PROVE  tx'[p].pc \in TicketLocked \cup {"purgeChallenges", "purgeCommit"}
        <3>1. CASE locks[t] = p
            <4>1. tx[p].pc \in TicketLocked \cup {"purgeChallenges", "purgeCommit"}
                BY <3>1 DEF LocksInOrder
            <4> QED
                BY <1>4, <4>1 DEF Took, GoneOn, TicketLocked
        <3>2. CASE t = Wanted(p)
            <4>1. tx[p].pc \in {"replaceTicket", "finalizeTicket"}
                BY <3>2, WantedKind
            <4> QED
                BY <4>1 DEF GoneOn, TicketLocked
        <3> QED
            BY <2>1, <2>2, <3>1, <3>2
    <2>3. ASSUME NEW c \in ChallengeIds, locks'[c] = p
          PROVE  tx'[p].pc \in ChallengeLocked \cup {"replaceCommit", "purgeCommit"}
        <3>1. CASE locks[c] = p
            <4>1. tx[p].pc \in ChallengeLocked \cup {"replaceCommit", "purgeCommit"}
                BY <3>1 DEF LocksInOrder
            <4> QED
                BY <1>4, <4>1 DEF Took, GoneOn, ChallengeLocked
        <3>2. CASE c = Wanted(p)
            <4>1. tx[p].pc \in {"replaceOld", "finalizeChallenge", "deleteExpired"}
                BY <3>2, WantedKind
            <4> QED
                BY <4>1 DEF GoneOn, ChallengeLocked
        <3> QED
            BY <2>1, <2>3, <3>1, <3>2
    <2>4. ASSUME NEW w \in Wallets, locks'[w] = p
          PROVE  /\ tx'[p].pc \in {"denyCommit", "grantCommit", "walletCommit", "insertCommit",
                                   "bootstrap"}
                 /\ tx'[p].pc = "bootstrap" => \A v \in tx'[p].todo : w < v
        <3>1. CASE locks[w] = p
            <4>1. At(p, "bootstrap") /\ \A v \in tx[p].todo : w < v
                BY <1>4, <3>1 DEF LocksInOrder, Took, GoneOn
            <4> QED
                BY <4>1 DEF GoneOn
        <3>2. CASE w = Wanted(p)
            <4>1. CASE tx[p].pc = "bootstrap"
                <5>1. w = NextWallet(p) /\ tx[p].todo # {}
                    BY <3>2, <4>1, WantedKind
                <5>2. tx[p].todo \subseteq Nat /\ w \in Nat
                    BY OperationFields, PgWalletAssumption DEF TypeOK
                <5> QED
                    BY <4>1, <5>1, <5>2, NextWalletIsLeast DEF GoneOn
            <4>2. CASE tx[p].pc \in {"finalizeWallet", "updateLock"}
                BY <1>4, <4>2 DEF GoneOn, Took
            <4>3. CASE At(p, "upsertLock")
                BY <3>2, <4>3, WantedRow, UpsertGoesOn DEF Existing
            <4>4. CASE At(p, "upsertInsert")
                BY <3>2, <4>4, WantedRow, UpsertGoesOn
            <4> QED
                BY <3>2, <4>1, <4>2, <4>3, <4>4, WantedKind
        <3> QED
            BY <2>1, <2>4, <3>1, <3>2
    <2>5. ASSUME locks'[Capacity] = p PROVE tx'[p].pc = "createCommit"
        <3>1. At(p, "capacity") \/ At(p, "createCommit")
            BY <2>1, <2>5, WantedKind DEF LocksInOrder
        <3> QED
            BY <3>1 DEF GoneOn
    <2> QED
        BY <2>2, <2>3, <2>4, <2>5 DEF LocksInOrder
<1> QED
    BY <1>1, <1>2, <1>3, <1>4, StepTakes

\* What a statement that returns has checked.
LEMMA StepChecks ==
    ASSUME TypeOK, NEW p \in Processes, LocalsHold(p), Step(p), GoneOn(p)
    PROVE  /\ tx[p].pc \in {"replaceTicket", "finalizeTicket"} =>
                 tx[p].ticketId \in Pending /\ tx'[p].ticket = tickets[tx[p].ticketId]
           /\ At(p, "finalizeTicket") => tickets[tx[p].ticketId].challengeId = tx[p].challengeId
           /\ At(p, "finalizeChallenge") => challenges[tx[p].challengeId] = tx[p].challenge
           /\ At(p, "capacity") => Cardinality(Pending) < MaxPendingTickets
           /\ tx'[p].pc = "grantCommit" =>
                 /\ WalletAllowed(tx[p].challenge.address)
                 /\ tx[p].ticket.expiresAt > now
                 /\ tx[p].challenge.expiresAt > now
                 /\ tx[p].expiresAt > now
                 /\ tx'[p].expiresAt = tx[p].expiresAt
           /\ At(p, "updateLock") => wallets[tx[p].wallet] # None
<1>0. tx \in [Processes -> Operation] /\ tx[p] \in Operation
    BY DEF TypeOK
<1>1. ~ End(p)
    BY <1>0 DEF End, GoneOn, Idle
<1>2. CASE At(p, "replaceTicket")
    <2>1. /\ tx[p].ticketId \in Pending
          /\ tx' = [tx EXCEPT ![p] = [tx[p] EXCEPT !.pc = "replaceOld",
                                                   !.ticket = tickets[tx[p].ticketId]]]
        BY <1>1, <1>2, StepAt DEF ReplaceLockTicket, Continue
    <2>2. tx'[p] = [tx[p] EXCEPT !.pc = "replaceOld", !.ticket = tickets[tx[p].ticketId]]
        BY <1>0, <2>1
    <2>3. tx'[p].ticket = tickets[tx[p].ticketId] /\ tx'[p].pc = "replaceOld"
        BY <2>2, EditedFields
    <2> QED
        BY <1>2, <2>1, <2>3
<1>3. CASE At(p, "finalizeTicket")
    <2>1. /\ tx[p].ticketId \in Pending
          /\ tickets[tx[p].ticketId].challengeId = tx[p].challengeId
          /\ tx' = [tx EXCEPT ![p] = [tx[p] EXCEPT !.pc = "finalizeChallenge", !.at = now,
                                                   !.ticket = tickets[tx[p].ticketId]]]
        BY <1>1, <1>3, StepAt DEF FinalizeLockTicket, Continue
    <2>2. tx'[p] = [tx[p] EXCEPT !.pc = "finalizeChallenge", !.at = now,
                                 !.ticket = tickets[tx[p].ticketId]]
        BY <1>0, <2>1
    <2>3. tx'[p].ticket = tickets[tx[p].ticketId] /\ tx'[p].pc = "finalizeChallenge"
        BY <2>2, EditedFields
    <2> QED
        BY <1>3, <2>1, <2>3
<1>4. CASE At(p, "finalizeWallet") /\ tx'[p].pc = "grantCommit"
    <2>1. /\ [tx[p] EXCEPT !.pc = "denyCommit"].pc = "denyCommit"
          /\ [tx[p] EXCEPT !.pc = "verify", !.ticket = None].pc = "verify"
        BY EditedFields
    <2>2. /\ ~ Continue(p, [tx[p] EXCEPT !.pc = "denyCommit"])
          /\ tx' # [tx EXCEPT ![p] = [tx[p] EXCEPT !.pc = "verify", !.ticket = None]]
        <3>1. ASSUME NEW new, tx' = [tx EXCEPT ![p] = new] PROVE new.pc = "grantCommit"
            BY <1>0, <1>4, <3>1
        <3> QED
            BY <2>1, <3>1 DEF Continue
    <2>3. /\ WalletAllowed(tx[p].challenge.address)
          /\ tx[p].ticket.expiresAt > now
          /\ tx[p].challenge.expiresAt > now
          /\ tx[p].expiresAt > now
          /\ Continue(p, [tx[p] EXCEPT !.pc = "grantCommit"])
        BY <1>1, <1>4, <2>2, StepAt DEF FinalizeLockWallet, DecisionTime
    <2>4. tx'[p] = [tx[p] EXCEPT !.pc = "grantCommit"]
        BY <1>0, <2>3 DEF Continue
    <2>5. tx'[p].expiresAt = tx[p].expiresAt
        BY <1>0, <2>4 DEF Operation
    <2> QED
        BY <1>4, <2>3, <2>5
<1>5. CASE tx[p].pc \in {"finalizeChallenge", "capacity", "updateLock"}
    BY <1>1, <1>5, StepAt DEF FinalizeLockChallenge, CountPending, UpdateLock, GoneOn
<1> QED
    BY <1>2, <1>3, <1>4, <1>5 DEF GoneOn

LEMMA StepKeepsTickets ==
    ASSUME TypeOK, NEW p \in Processes, OperationHolds(p), Step(p), GoneOn(p)
    PROVE  TicketsHeld(p)'
<1> USE RowKinds DEF OperationHolds
<1>1. CASE tx[p].pc \in {"replaceTicket", "finalizeTicket"}
    <2>1. /\ tx[p].ticketId \in TicketIds /\ tickets[tx[p].ticketId] # None
          /\ tickets[tx[p].ticketId].status = "pending"
          /\ tx'[p].ticket = tickets[tx[p].ticketId]
          /\ At(p, "finalizeTicket") => tx'[p].ticket.challengeId = tx[p].challengeId
        BY <1>1, StepChecks DEF Pending
    <2>2. Wanted(p) = tx[p].ticketId
        BY <1>1, <2>1, WantedRow DEF Existing
    <2>3. locks'[tx[p].ticketId] = p
        BY <1>1, <2>1, <2>2, StepTakes DEF Took
    <2>4. tickets' = tickets
        BY <1>1, GoneOnIsQuiet
    <2> QED
        BY <1>1, <2>1, <2>3, <2>4 DEF TicketsHeld, GoneOn, TicketLocked, Approving
<1>2. CASE tx'[p].pc \in TicketLocked /\ tx[p].pc \in TicketLocked
    <2>1. tx[p].pc # "purgeCommit" /\ ~ (At(p, "finalizeWallet") /\ tx'[p].pc = "verify")
        BY <1>2 DEF TicketLocked
    <2>2. tx[p].ticketId \in TicketIds
        BY <1>2 DEF LocalsHold, TicketLocked, Creating, Replacing, Approving
    <2>3. locks'[tx[p].ticketId] = p
        BY <1>2, <2>1, <2>2, StepTakes DEF Took, TicketsHeld, TicketLocked
    <2>4. tickets' = tickets /\ tx'[p].ticketId = tx[p].ticketId
          /\ tx'[p].challengeId = tx[p].challengeId
        BY <2>1, GoneOnIsQuiet DEF GoneOn
    <2>5. tx'[p].ticket = tx[p].ticket
        BY <1>2 DEF GoneOn, TicketLocked
    <2> QED
        BY <1>2, <2>3, <2>4, <2>5 DEF TicketsHeld, GoneOn, TicketLocked, Approving
<1>3. CASE At(p, "purgeTickets")
    <2>1. PICK batch \in SUBSET {i \in TicketIds : Purgeable(i, tx[p].at)} :
              locks' = [i \in Rows |-> IF i \in batch THEN p ELSE locks[i]]
        BY <1>3, StepAt DEF PurgeTickets, Batches
    <2>2. \A t \in TicketIds : locks[t] # p
        BY <1>3 DEF LocksInOrder, TicketLocked
    <2>3. \A t \in batch : tickets[t] # None /\ tickets[t].status # "approved"
        BY <2>1 DEF Purgeable, Expired
    <2>4. tickets' = tickets /\ tx'[p].pc = "purgeChallenges"
        BY <1>3, GoneOnIsQuiet DEF GoneOn
    <2> QED
        BY <2>1, <2>2, <2>3, <2>4 DEF TicketsHeld, TicketLocked
<1>4. CASE At(p, "purgeChallenges")
    <2>1. PICK batch \in SUBSET ChallengeIds :
              locks' = [i \in Rows |-> IF i \in batch THEN p ELSE locks[i]]
        BY <1>4, StepAt DEF PurgeChallenges, Batches
    <2>2. tickets' = tickets /\ tx'[p].pc = "purgeCommit"
        BY <1>4, GoneOnIsQuiet DEF GoneOn
    <2> QED
        BY <1>4, <2>1, <2>2 DEF TicketsHeld, TicketLocked
<1>5. CASE tx'[p].pc \notin TicketLocked \cup {"purgeChallenges", "purgeCommit"}
    BY <1>5 DEF TicketsHeld
<1> QED
    BY <1>1, <1>2, <1>3, <1>4, <1>5 DEF GoneOn, TicketLocked

LEMMA StepKeepsChallenges ==
    ASSUME TypeOK, NEW p \in Processes, OperationHolds(p), Step(p), GoneOn(p)
    PROVE  ChallengesHeld(p)'
<1> USE RowKinds DEF OperationHolds
<1>1. CASE At(p, "replaceOld")
    <2>1. /\ tx'[p].pc = "replaceCommit" /\ tx'[p].ticket = tx[p].ticket
          /\ challenges' = challenges
        BY <1>1, GoneOnIsQuiet DEF GoneOn
    <2>2. tx[p].ticket \in TicketRow
        BY <1>1, OperationFields DEF TypeOK, TicketsHeld, TicketLocked
    <2>3. ASSUME tx[p].ticket.challengeId # None
          PROVE  \/ locks'[tx[p].ticket.challengeId] = p
                 \/ challenges[tx[p].ticket.challengeId] = None
        <3>1. tx[p].ticket.challengeId \in Rows
            BY <2>2, <2>3 DEF TicketRow
        <3> QED
            BY <1>1, <2>3, <3>1, StepTakes, WantedRow DEF Took, Existing
    <2> QED
        BY <2>1, <2>3 DEF ChallengesHeld, ChallengeLocked
<1>2. CASE At(p, "finalizeChallenge")
    <2>1. /\ tx[p].challengeId \in ChallengeIds
          /\ challenges[tx[p].challengeId] = tx[p].challenge
          /\ tx[p].challenge # None
        BY <1>2, StepChecks DEF LocalsHold, Approving
    <2>2. locks'[tx[p].challengeId] = p
        BY <1>2, <2>1, StepTakes, WantedRow DEF Took, Existing
    <2> QED
        BY <1>2, <2>1, <2>2, GoneOnIsQuiet DEF GoneOn, ChallengesHeld, ChallengeLocked
<1>3. CASE At(p, "finalizeWallet") /\ tx'[p].pc # "verify"
    <2>1. tx[p].challengeId \in ChallengeIds /\ locks[tx[p].challengeId] = p
          /\ challenges[tx[p].challengeId] = tx[p].challenge
        BY <1>3 DEF ChallengesHeld, ChallengeLocked, LocalsHold, Approving
    <2>2. locks'[tx[p].challengeId] = p
        BY <1>3, <2>1, StepTakes DEF Took
    <2> QED
        BY <1>3, <2>1, <2>2, GoneOnIsQuiet DEF GoneOn, ChallengesHeld, ChallengeLocked
<1>4. CASE tx'[p].pc \notin ChallengeLocked \cup {"replaceCommit"}
    BY <1>4 DEF ChallengesHeld
<1> QED
    BY <1>1, <1>2, <1>3, <1>4 DEF GoneOn, ChallengeLocked

LEMMA StepKeepsWallets ==
    ASSUME TypeOK, NEW p \in Processes, OperationHolds(p), Step(p), GoneOn(p)
    PROVE  WalletsHeld(p)'
<1> USE RowKinds DEF OperationHolds
<1>1. CASE At(p, "finalizeWallet") /\ tx'[p].pc = "grantCommit" /\ WalletPolicy = "allowlist"
    <2>1. tx[p].challenge \in ChallengeRow
        BY <1>1, OperationFields DEF TypeOK, LocalsHold, Approving
    <2>2. /\ tx[p].challenge.address \in Wallets
          /\ wallets[tx[p].challenge.address] # None
          /\ wallets[tx[p].challenge.address].enabled
        BY <1>1, <2>1, StepChecks DEF WalletAllowed, ChallengeRow
    <2>3. locks'[tx[p].challenge.address] = p
        BY <1>1, <2>2, StepTakes, WantedRow DEF Took, PermissionRow, Existing
    <2> QED
        BY <1>1, <2>2, <2>3, GoneOnIsQuiet DEF GoneOn, WalletsHeld
<1>2. CASE tx[p].pc \in {"upsertLock", "updateLock"} /\ tx'[p].pc = "walletCommit"
    <2>1. tx[p].wallet \in Wallets /\ wallets[tx[p].wallet] # None
        BY <1>2, StepChecks, UpsertGoesOn DEF LocalsHold, Upserting, Updating
    <2>2. locks'[tx[p].wallet] = p
        BY <1>2, <2>1, StepTakes, WantedRow DEF Took, Existing
    <2> QED
        BY <1>2, <2>1, <2>2, GoneOnIsQuiet DEF GoneOn, WalletsHeld
<1>3. CASE At(p, "upsertInsert") /\ tx'[p].pc = "insertCommit"
    <2>1. tx[p].wallet \in Wallets /\ wallets[tx[p].wallet] = None
        BY <1>3, UpsertGoesOn DEF LocalsHold, Upserting
    <2>2. locks'[tx[p].wallet] = p
        BY <1>3, <2>1, StepTakes, WantedRow DEF Took
    <2> QED
        BY <1>3, <2>1, <2>2, GoneOnIsQuiet DEF GoneOn, WalletsHeld
<1>4. CASE At(p, "bootstrap")
    <2>1. ASSUME NEW w \in Wallets, locks'[w] = p PROVE wallets[w] = None
        <3>1. CASE locks[w] = p
            BY <1>4, <3>1 DEF WalletsHeld
        <3>2. CASE w = Wanted(p)
            BY <1>4, <3>2, WantedRow
        <3> QED
            BY <1>4, <2>1, <3>1, <3>2, StepTakes DEF Took
    <2> QED
        BY <1>4, <2>1, GoneOnIsQuiet DEF GoneOn, WalletsHeld
<1>5. CASE /\ tx'[p].pc \notin {"walletCommit", "insertCommit", "bootstrap"}
           /\ tx'[p].pc = "grantCommit" => WalletPolicy # "allowlist"
    BY <1>5 DEF WalletsHeld
<1> QED
    BY <1>1, <1>2, <1>3, <1>4, <1>5 DEF GoneOn

LEMMA StepKeepsRoom ==
    ASSUME TypeOK, NEW p \in Processes, OperationHolds(p), Step(p), GoneOn(p)
    PROVE  RoomHeld(p)'
<1> USE RowKinds DEF OperationHolds
<1>1. CASE At(p, "capacity")
    <2>1. Wanted(p) = Capacity /\ Cardinality(Pending) < MaxPendingTickets
        BY <1>1, WantedRow, StepChecks
    <2>2. locks'[Capacity] = p
        BY <1>1, <2>1, StepTakes DEF Took
    <2>3. Pending' = Pending
        BY <1>1, GoneOnIsQuiet DEF Pending
    <2> QED
        BY <2>1, <2>2, <2>3 DEF RoomHeld
<1>2. CASE tx'[p].pc # "createCommit"
    BY <1>2 DEF RoomHeld
<1> QED
    BY <1>1, <1>2 DEF GoneOn

LEMMA StepKeepsDraft ==
    ASSUME TypeOK, NEW p \in Processes, OperationHolds(p), Step(p), GoneOn(p)
    PROVE  DraftsAreOwned(p)'
<1>1. /\ \A q \in Processes \ {p} : tx'[q] = tx[q]
      /\ tx'[p].ticketId = tx[p].ticketId /\ tx'[p].challengeId = tx[p].challengeId
    BY OnlyOwnLocks DEF ByProcess, GoneOn
<1>2. /\ \A t \in TicketIds : tickets'[t] # None => tickets'[t] = tickets[t]
      /\ \A c \in ChallengeIds : challenges'[c] # None => challenges'[c] = challenges[c]
    <2>1. CASE At(p, "purgeCommit")
        BY <2>1, StepAt DEF PurgeCommit
    <2> QED
        BY <2>1, GoneOnIsQuiet
<1>3. ASSUME tx'[p].pc \in Creating
      PROVE  tx[p].pc \in Creating /\ tx[p].ticketId \in TicketIds
    BY <1>3 DEF GoneOn, Creating, OperationHolds, LocalsHold
<1>4. ASSUME tx'[p].pc \in Replacing
      PROVE  tx[p].pc \in Replacing /\ tx[p].challengeId \in ChallengeIds
    BY <1>4 DEF GoneOn, Replacing, OperationHolds, LocalsHold
<1> QED
    BY <1>1, <1>2, <1>3, <1>4 DEF DraftsAreOwned, OperationHolds

LEMMA StepHolds ==
    ASSUME TypeOK, NEW p \in Processes, OperationHolds(p), Step(p)
    PROVE  OperationHolds(p)'
<1>1. CASE Ended(p)
    BY <1>1, EndedHolds
<1>2. CASE GoneOn(p)
    <2>1. LocalsHold(p)'
        BY <1>2, StepKeepsLocals DEF OperationHolds
    <2> QED
        BY <1>2, <2>1, StepKeepsTickets, StepKeepsChallenges, StepKeepsWallets, StepKeepsOrder,
           StepKeepsRoom, StepKeepsDraft DEF OperationHolds
<1> QED
    BY <1>1, <1>2, StepEndsOrGoesOn DEF OperationHolds

\* An idle process has no lock.
LEMMA IdleHoldsNothing ==
    ASSUME NEW p \in Processes, LocksInOrder(p), At(p, "idle")
    PROVE  \A i \in Rows : locks[i] # p
BY DEF LocksInOrder, Rows, TicketLocked, ChallengeLocked

\* An operation begins with the locals its first statement needs, no lock
\* and an id nobody has.
LEMMA BeginHolds ==
    ASSUME Inv, NEW p \in Processes, Begin(p)
    PROVE  OperationHolds(p)'
<1> USE RowKinds
<1>1. /\ At(p, "idle") /\ UNCHANGED <<tables, locks, now>>
      /\ \A q \in Processes \ {p} : tx'[q] = tx[q]
      /\ tx \in [Processes -> Operation]
    BY OnlyOwnLocks DEF Begin, CreateBegin, ChallengeBegin, ApproveBegin, UpsertBegin,
        UpdateBegin, BootstrapBegin, Inv, TypeOK, ByProcess
<1>2. \A i \in Rows : locks'[i] # p
    BY <1>1, IdleHoldsNothing DEF Inv, OperationHolds
<1>3. ASSUME NEW new, tx' = [tx EXCEPT ![p] = new] PROVE tx'[p] = new
    BY <1>1, <1>3
<1>4. ASSUME tx'[p].pc \in {"purgeTickets", "replaceTicket", "readChallenge", "upsertLock",
                            "updateLock", "bootstrap"}
      PROVE  /\ TicketsHeld(p)' /\ ChallengesHeld(p)' /\ WalletsHeld(p)' /\ LocksInOrder(p)'
             /\ RoomHeld(p)'
    BY <1>2, <1>4 DEF TicketsHeld, ChallengesHeld, WalletsHeld, LocksInOrder, RoomHeld,
        TicketLocked, ChallengeLocked
<1>5. ASSUME NEW t \in TicketIds, CreateBegin(p, t) PROVE OperationHolds(p)'
    <2>1. tx'[p] = [Idle EXCEPT !.pc = "purgeTickets", !.ticketId = t, !.at = now]
          /\ t \notin issued
        BY <1>3, <1>5 DEF CreateBegin
    <2>2. tx'[p].pc = "purgeTickets" /\ tx'[p].ticketId = t
        BY <2>1 DEF Idle
    <2>3. LocalsHold(p)'
        BY <2>2 DEF LocalsHold, Creating, Replacing, Approving, Upserting, Updating
    <2>4. DraftsAreOwned(p)'
        BY <1>1, <2>1, <2>2 DEF DraftsAreOwned, Creating, Replacing, Inv, IdsAreIssued, tables
    <2> QED
        BY <1>4, <2>2, <2>3, <2>4 DEF OperationHolds
<1>6. ASSUME NEW t \in TicketIds, NEW w \in Wallets, NEW c \in ChallengeIds,
             ChallengeBegin(p, t, w, c)
      PROVE  OperationHolds(p)'
    <2> DEFINE row == [ticketId |-> t, address |-> w, expiresAt |-> now + ChallengeTTL]
    <2>1. tx'[p] = [Idle EXCEPT !.pc = "replaceTicket", !.ticketId = t, !.challengeId = c,
                                !.challenge = row]
          /\ c \notin issued
        BY <1>3, <1>6 DEF ChallengeBegin
    <2>2. /\ tx'[p].pc = "replaceTicket" /\ tx'[p].ticketId = t /\ tx'[p].challengeId = c
          /\ tx'[p].challenge = row
        BY <2>1 DEF Idle
    <2>3. row # None /\ row.ticketId = t
        <3>1. row \in ChallengeRow
            BY Bounds DEF ChallengeRow, Inv, TypeOK
        <3> QED
            BY <3>1, PgRowAssumption
    <2>4. LocalsHold(p)'
        BY <2>2, <2>3 DEF LocalsHold, Creating, Replacing, Approving, Upserting, Updating
    <2>5. DraftsAreOwned(p)'
        BY <1>1, <2>1, <2>2 DEF DraftsAreOwned, Creating, Replacing, Inv, IdsAreIssued, tables
    <2> QED
        BY <1>4, <2>2, <2>4, <2>5 DEF OperationHolds
<1>7. ASSUME NEW t \in TicketIds, NEW c \in ChallengeIds, ApproveBegin(p, t, c)
      PROVE  OperationHolds(p)'
    <2>1. tx'[p] = [Idle EXCEPT !.pc = "readChallenge", !.ticketId = t, !.challengeId = c]
        BY <1>3, <1>7 DEF ApproveBegin
    <2>2. tx'[p].pc = "readChallenge" /\ tx'[p].ticketId = t /\ tx'[p].challengeId = c
        BY <2>1 DEF Idle
    <2>3. LocalsHold(p)' /\ DraftsAreOwned(p)'
        BY <2>2 DEF LocalsHold, DraftsAreOwned, Creating, Replacing, Approving, Upserting, Updating
    <2> QED
        BY <1>4, <2>2, <2>3 DEF OperationHolds
<1>8. ASSUME NEW w \in Wallets, NEW enabled \in BOOLEAN, UpsertBegin(p, w, enabled)
      PROVE  OperationHolds(p)'
    <2>1. tx'[p] = [Idle EXCEPT !.pc = "upsertLock", !.wallet = w, !.enabled = enabled, !.at = now]
        BY <1>3, <1>8 DEF UpsertBegin
    <2>2. tx'[p].pc = "upsertLock" /\ tx'[p].wallet = w /\ tx'[p].enabled = enabled
        BY <2>1 DEF Idle
    <2>3. LocalsHold(p)' /\ DraftsAreOwned(p)'
        BY <2>2 DEF LocalsHold, DraftsAreOwned, Creating, Replacing, Approving, Upserting, Updating
    <2> QED
        BY <1>4, <2>2, <2>3 DEF OperationHolds
<1>9. ASSUME NEW w \in Wallets, NEW enabled \in BOOLEAN \cup {None}, UpdateBegin(p, w, enabled)
      PROVE  OperationHolds(p)'
    <2>1. tx'[p] = [Idle EXCEPT !.pc = "updateLock", !.wallet = w, !.enabled = enabled]
        BY <1>3, <1>9 DEF UpdateBegin
    <2>2. tx'[p].pc = "updateLock" /\ tx'[p].wallet = w
        BY <2>1 DEF Idle
    <2>3. LocalsHold(p)' /\ DraftsAreOwned(p)'
        BY <2>2 DEF LocalsHold, DraftsAreOwned, Creating, Replacing, Approving, Upserting, Updating
    <2> QED
        BY <1>4, <2>2, <2>3 DEF OperationHolds
<1>10. CASE BootstrapBegin(p)
    <2>1. tx'[p] = [Idle EXCEPT !.pc = "bootstrap", !.todo = AllowedWallets, !.at = now]
        BY <1>3, <1>10 DEF BootstrapBegin
    <2>2. tx'[p].pc = "bootstrap"
        BY <2>1 DEF Idle
    <2>3. LocalsHold(p)' /\ DraftsAreOwned(p)'
        BY <2>2 DEF LocalsHold, DraftsAreOwned, Creating, Replacing, Approving, Upserting, Updating
    <2> QED
        BY <1>4, <2>2, <2>3 DEF OperationHolds
<1> QED
    BY <1>5, <1>6, <1>7, <1>8, <1>9, <1>10 DEF Begin

----------------------------------------------------------------------------
(* The rows a step writes, and the processes that do not take it           *)

\* A ticket is purged, inserted, or written back by the process that has it
\* locked and pending.
LEMMA TicketsWritten ==
    ASSUME TypeOK, NEW p \in Processes, OperationHolds(p), ByProcess(p),
           NEW t \in TicketIds, tickets'[t] # tickets[t]
    PROVE  \/ /\ tickets'[t] = None /\ tickets[t] # None /\ tickets[t].status # "approved"
              /\ locks[t] = p
           \/ /\ CreateCommit(p) /\ t = tx[p].ticketId /\ tickets'[t] # None
              /\ tickets'[t].challengeId = None
           \/ /\ ReplaceCommit(p) \/ DenyCommit(p) \/ GrantCommit(p)
              /\ t = tx[p].ticketId /\ locks[t] = p
              /\ tickets[t] # None /\ tickets[t].status = "pending" /\ tickets'[t] # None
              /\ tickets'[t].expiresAt = tickets[t].expiresAt
              /\ tickets'[t].challengeId = tx[p].challengeId
              /\ ~ ReplaceCommit(p) => tickets[t].challengeId = tx[p].challengeId
<1> USE RowKinds DEF OperationHolds
<1>0. tickets \in [TicketIds -> TicketRow \cup {None}] /\ tx[p] \in Operation
      /\ tx[p].expiresAt \in Nat /\ tx[p].challengeId \in ChallengeIds \cup {None}
      /\ tx[p].ticket \in TicketRow \cup {None} /\ tx[p].sessionId \in SessionIds \cup {None}
    BY OperationFields DEF TypeOK
<1>1. CASE PurgeCommit(p)
    <2>1. tickets'[t] = None /\ locks[t] = p
        BY <1>1 DEF PurgeCommit, Held
    <2> QED
        BY <1>1, <2>1 DEF PurgeCommit, TicketsHeld
<1>2. CASE CreateCommit(p)
    <2> DEFINE row == [status |-> "pending", expiresAt |-> tx[p].expiresAt,
                       challengeId |-> None, sessionId |-> None]
    <2>1. row \in TicketRow /\ row.challengeId = None
        BY <1>0 DEF TicketRow
    <2>2. tickets' = [tickets EXCEPT ![tx[p].ticketId] = row]
        BY <1>2 DEF CreateCommit
    <2> HIDE DEF row
    <2>3. t = tx[p].ticketId /\ tickets'[t] = row
        BY <1>0, <2>2
    <2> QED
        BY <1>2, <2>1, <2>3, PgRowAssumption
<1>3. CASE ReplaceCommit(p) \/ DenyCommit(p) \/ GrantCommit(p)
    <2>1. tx[p].pc \in {"replaceCommit", "denyCommit", "grantCommit"}
        BY <1>3 DEF ReplaceCommit, DenyCommit, GrantCommit
    <2>2. /\ locks[tx[p].ticketId] = p /\ tickets[tx[p].ticketId] = tx[p].ticket
          /\ tx[p].ticket \in TicketRow /\ tx[p].ticket.status = "pending"
          /\ tx[p].ticketId \in TicketIds /\ tx[p].challengeId \in ChallengeIds
          /\ tx[p].pc # "replaceCommit" => tx[p].ticket.challengeId = tx[p].challengeId
          /\ tx[p].pc = "grantCommit" => tx[p].sessionId \in SessionIds
        BY <1>0, <2>1 DEF TicketsHeld, TicketLocked, LocalsHold, Approving, Replacing
    <2>3. ~ ReplaceCommit(p) => tx[p].pc # "replaceCommit"
        BY <1>3 DEF DenyCommit, GrantCommit
    <2>4. PICK row : /\ tickets' = [tickets EXCEPT ![tx[p].ticketId] = row]
                     /\ row \in TicketRow /\ row.expiresAt = tx[p].ticket.expiresAt
                     /\ row.challengeId = tx[p].challengeId
        <3>1. CASE ReplaceCommit(p)
            <4>1. [tx[p].ticket EXCEPT !.challengeId = tx[p].challengeId] \in TicketRow
                BY <2>2 DEF TicketRow
            <4> QED
                BY <2>2, <3>1, <4>1 DEF ReplaceCommit, TicketRow
        <3>2. CASE DenyCommit(p)
            <4> DEFINE new == [tx[p].ticket EXCEPT !.status = "denied"]
            <4>1. At(p, "denyCommit") /\ tickets' = [tickets EXCEPT ![tx[p].ticketId] = new]
                BY <3>2 DEF DenyCommit
            <4>2. /\ new \in TicketRow /\ new.expiresAt = tx[p].ticket.expiresAt
                  /\ new.challengeId = tx[p].ticket.challengeId
                BY <2>2, <4>1 DEF TicketRow
            <4> HIDE DEF new
            <4> QED
                BY <2>2, <4>1, <4>2
        <3>3. CASE GrantCommit(p)
            <4> DEFINE new == [tx[p].ticket EXCEPT !.status = "approved",
                                                   !.sessionId = tx[p].sessionId]
            <4>1. At(p, "grantCommit") /\ tickets' = [tickets EXCEPT ![tx[p].ticketId] = new]
                BY <3>3 DEF GrantCommit
            <4>2. /\ new \in TicketRow /\ new.expiresAt = tx[p].ticket.expiresAt
                  /\ new.challengeId = tx[p].ticket.challengeId
                BY <2>2, <4>1 DEF TicketRow
            <4> HIDE DEF new
            <4> QED
                BY <2>2, <4>1, <4>2
        <3> QED
            BY <1>3, <3>1, <3>2, <3>3
    <2>5. t = tx[p].ticketId /\ tickets'[t] = row
        BY <1>0, <2>2, <2>4
    <2> QED
        BY <1>3, <2>2, <2>3, <2>4, <2>5, PgRowAssumption
<1>4. CASE DeleteExpired(p) \/ InsertCommit(p) \/ WalletCommit(p) \/ BootstrapCommit(p)
    BY <1>4 DEF DeleteExpired, InsertCommit, WalletCommit, BootstrapCommit
<1> QED
    BY <1>1, <1>2, <1>3, <1>4, StepKinds DEF Writes

\* A challenge is deleted by a process that could lock it, or is the draft
\* that replaces another.
LEMMA ChallengesWritten ==
    ASSUME TypeOK, NEW p \in Processes, OperationHolds(p), ByProcess(p),
           NEW c \in ChallengeIds, challenges'[c] # challenges[c]
    PROVE  \/ challenges'[c] = None /\ locks[c] \in {p, None}
           \/ /\ ReplaceCommit(p) /\ c = tx[p].challengeId
              /\ challenges'[c] = tx[p].challenge /\ tx[p].challenge # None
              /\ tx[p].challenge.ticketId = tx[p].ticketId
<1> USE RowKinds DEF OperationHolds
<1>0. challenges \in [ChallengeIds -> ChallengeRow \cup {None}]
    BY DEF TypeOK
<1>1. CASE PurgeCommit(p)
    BY <1>1 DEF PurgeCommit, Held
<1>2. CASE ReplaceCommit(p)
    <2>1. At(p, "replaceCommit")
        BY <1>2 DEF ReplaceCommit
    <2>2. tx[p].challenge # None /\ tx[p].challenge.ticketId = tx[p].ticketId
        BY <2>1 DEF LocalsHold, Replacing
    <2>3. CASE c = tx[p].challengeId
        BY <1>2, <2>2, <2>3 DEF ReplaceCommit
    <2>4. CASE c # tx[p].challengeId
        <3>1. c = tx[p].ticket.challengeId /\ challenges'[c] = None
            BY <1>2, <2>4 DEF ReplaceCommit
        <3> QED
            BY <2>1, <3>1 DEF ChallengesHeld
    <2> QED
        BY <2>3, <2>4
<1>3. CASE DeleteExpired(p)
    <2>1. c = tx[p].challengeId /\ challenges'[c] = None
        BY <1>0, <1>3 DEF DeleteExpired
    <2>2. At(p, "deleteExpired") /\ NotBlocked(p)
        BY <1>3 DEF DeleteExpired
    <2> QED
        BY <2>1, <2>2, WantedRow DEF NotBlocked, Existing
<1>4. CASE DenyCommit(p) \/ GrantCommit(p)
    <2>1. c = tx[p].challengeId /\ challenges'[c] = None
        BY <1>0, <1>4 DEF DenyCommit, GrantCommit
    <2>2. tx[p].pc \in {"denyCommit", "grantCommit"}
        BY <1>4 DEF DenyCommit, GrantCommit
    <2> QED
        BY <2>1, <2>2 DEF ChallengesHeld, ChallengeLocked
<1>5. CASE CreateCommit(p) \/ InsertCommit(p) \/ WalletCommit(p) \/ BootstrapCommit(p)
    BY <1>5 DEF CreateCommit, InsertCommit, WalletCommit, BootstrapCommit
<1> QED
    BY <1>1, <1>2, <1>3, <1>4, <1>5, StepKinds DEF Writes

\* A wallet is written by the process that has it locked.
LEMMA WalletsWritten ==
    ASSUME TypeOK, NEW p \in Processes, OperationHolds(p), ByProcess(p),
           NEW w \in Wallets, wallets'[w] # wallets[w]
    PROVE  /\ locks[w] = p
           /\ \/ WalletCommit(p) /\ w = tx[p].wallet
              \/ wallets[w] = None
<1> USE RowKinds DEF OperationHolds
<1>1. CASE InsertCommit(p) \/ WalletCommit(p)
    <2>1. w = tx[p].wallet
        BY <1>1 DEF InsertCommit, WalletCommit, TypeOK
    <2> QED
        BY <1>1, <2>1 DEF InsertCommit, WalletCommit, WalletsHeld
<1>2. CASE BootstrapCommit(p)
    BY <1>2 DEF BootstrapCommit, Held, WalletsHeld
<1>3. CASE \/ PurgeCommit(p) \/ CreateCommit(p) \/ ReplaceCommit(p) \/ DeleteExpired(p)
           \/ DenyCommit(p) \/ GrantCommit(p)
    BY <1>3 DEF PurgeCommit, CreateCommit, ReplaceCommit, DeleteExpired, DenyCommit, GrantCommit
<1> QED
    BY <1>1, <1>2, <1>3, StepKinds DEF Writes

\* The ids a process gets by a step are its own, fresh, or in a table.
LEMMA StepIds ==
    ASSUME TypeOK, NEW p \in Processes, LocksInOrder(p), ByProcess(p)
    PROVE  /\ \/ tx'[p].ticketId \in {tx[p].ticketId, None}
              \/ /\ tx'[p].ticketId \in TicketIds /\ tickets[tx'[p].ticketId] # None
              \/ /\ tx'[p].ticketId \in TicketIds \ issued /\ tx'[p].ticketId \in issued'
           /\ \/ tx'[p].challengeId \in {tx[p].challengeId, None}
              \/ \E t \in TicketIds : tickets[t] # None /\ tickets[t].challengeId = tx'[p].challengeId
              \/ tx'[p].challengeId \in ChallengeIds \ issued /\ tx'[p].challengeId \in issued'
           /\ issued \subseteq issued'
<1>0. tx \in [Processes -> Operation]
    BY DEF TypeOK
<1>1. ASSUME NEW new, tx' = [tx EXCEPT ![p] = new] PROVE tx'[p] = new
    BY <1>0, <1>1
<1>2. CASE Step(p)
    <2>1. issued \subseteq issued'
        BY <1>2 DEF Step, tables, PurgeTickets, PurgeChallenges, PurgeCommit, CountPending,
            CreateCommit, ReplaceLockTicket, ReplaceDeleteOld, ReplaceCommit,
            ApproveReadChallenge, ApproveExpired, DeleteExpired, ApproveReadWallet,
            ApproveBadSignature, ApproveVerified, FinalizeLockTicket, FinalizeLockChallenge,
            FinalizeLockWallet, DenyCommit, GrantCommit, UpsertLock, UpsertInsert, InsertCommit,
            UpdateLock, WalletCommit, BootstrapInsert, BootstrapCommit
    <2> QED
        BY <1>2, <2>1, StepEndsOrGoesOn DEF Ended, GoneOn, Idle
<1>3. CASE Abort(p)
    BY <1>3, EndIsEnded DEF Abort, Ended, Idle
<1>4. ASSUME NEW t \in TicketIds, CreateBegin(p, t)
      PROVE  /\ tx'[p].ticketId = t /\ tx'[p].challengeId = None
             /\ t \in TicketIds \ issued /\ t \in issued' /\ issued \subseteq issued'
    <2>1. tx'[p] = [Idle EXCEPT !.pc = "purgeTickets", !.ticketId = t, !.at = now]
        BY <1>1, <1>4 DEF CreateBegin
    <2>2. tx'[p].ticketId = t /\ tx'[p].challengeId = None
        BY <2>1 DEF Idle
    <2> QED
        BY <1>4, <2>2 DEF CreateBegin
<1>5. ASSUME NEW t \in TicketIds, NEW w \in Wallets, NEW c \in ChallengeIds,
             ChallengeBegin(p, t, w, c)
      PROVE  /\ tx'[p].ticketId = t /\ tickets[t] # None /\ tx'[p].challengeId = c
             /\ c \in ChallengeIds \ issued /\ c \in issued' /\ issued \subseteq issued'
    <2>1. tx'[p] = [Idle EXCEPT !.pc = "replaceTicket", !.ticketId = t, !.challengeId = c,
                                !.challenge = [ticketId |-> t, address |-> w,
                                               expiresAt |-> now + ChallengeTTL]]
        BY <1>1, <1>5 DEF ChallengeBegin
    <2>2. tx'[p].ticketId = t /\ tx'[p].challengeId = c
        BY <2>1 DEF Idle
    <2> QED
        BY <1>5, <2>2 DEF ChallengeBegin, Pending
<1>6. ASSUME NEW t \in TicketIds, NEW c \in ChallengeIds, ApproveBegin(p, t, c)
      PROVE  /\ tx'[p].ticketId = t /\ tickets[t] # None /\ tickets[t].challengeId = c
             /\ tx'[p].challengeId = c /\ issued' = issued
    <2>1. tx'[p] = [Idle EXCEPT !.pc = "readChallenge", !.ticketId = t, !.challengeId = c]
        BY <1>1, <1>6 DEF ApproveBegin
    <2>2. tx'[p].ticketId = t /\ tx'[p].challengeId = c
        BY <2>1 DEF Idle
    <2> QED
        BY <1>6, <2>2 DEF ApproveBegin, Pending
<1>7. ASSUME NEW w \in Wallets, NEW enabled, UpsertBegin(p, w, enabled)
      PROVE  tx'[p].ticketId = None /\ tx'[p].challengeId = None /\ issued' = issued
    <2>1. tx'[p] = [Idle EXCEPT !.pc = "upsertLock", !.wallet = w, !.enabled = enabled, !.at = now]
        BY <1>1, <1>7 DEF UpsertBegin
    <2>2. tx'[p].ticketId = None /\ tx'[p].challengeId = None
        BY <2>1 DEF Idle
    <2> QED
        BY <1>7, <2>2 DEF UpsertBegin
<1>8. ASSUME NEW w \in Wallets, NEW enabled, UpdateBegin(p, w, enabled)
      PROVE  tx'[p].ticketId = None /\ tx'[p].challengeId = None /\ issued' = issued
    <2>1. tx'[p] = [Idle EXCEPT !.pc = "updateLock", !.wallet = w, !.enabled = enabled]
        BY <1>1, <1>8 DEF UpdateBegin
    <2>2. tx'[p].ticketId = None /\ tx'[p].challengeId = None
        BY <2>1 DEF Idle
    <2> QED
        BY <1>8, <2>2 DEF UpdateBegin
<1>9. ASSUME BootstrapBegin(p)
      PROVE  tx'[p].ticketId = None /\ tx'[p].challengeId = None /\ issued' = issued
    <2>1. tx'[p] = [Idle EXCEPT !.pc = "bootstrap", !.todo = AllowedWallets, !.at = now]
        BY <1>1, <1>9 DEF BootstrapBegin
    <2>2. tx'[p].ticketId = None /\ tx'[p].challengeId = None
        BY <2>1 DEF Idle
    <2> QED
        BY <1>9, <2>2 DEF BootstrapBegin
<1>10. CASE Begin(p)
    BY <1>4, <1>5, <1>6, <1>7, <1>8, <1>9, <1>10 DEF Begin
<1> QED
    BY <1>2, <1>3, <1>10 DEF ByProcess

\* Only an insert adds a pending ticket.
LEMMA PendingShrinks ==
    ASSUME TypeOK, NEW p \in Processes, OperationHolds(p), ByProcess(p)
    PROVE  Pending' \subseteq Pending \cup {i \in TicketIds : CreateCommit(p) /\ i = tx[p].ticketId}
<1>1. now' = now
    BY StepKinds
<1>2. ASSUME NEW t \in TicketIds, t \in Pending', ~ (CreateCommit(p) /\ t = tx[p].ticketId)
      PROVE  t \in Pending
    <2>1. tickets'[t] # None /\ tickets'[t].status = "pending" /\ tickets'[t].expiresAt > now
        BY <1>1, <1>2 DEF Pending
    <2>2. CASE tickets'[t] = tickets[t]
        BY <2>1, <2>2 DEF Pending
    <2>3. CASE tickets'[t] # tickets[t]
        <3>1. /\ tickets[t] # None /\ tickets[t].status = "pending"
              /\ tickets'[t].expiresAt = tickets[t].expiresAt
            BY <1>2, <2>1, <2>3, TicketsWritten
        <3> QED
            BY <2>1, <3>1 DEF Pending
    <2> QED
        BY <2>2, <2>3
<1> QED
    BY <1>2 DEF Pending

LEMMA SmallerPending ==
    ASSUME Pending' \subseteq Pending
    PROVE  Cardinality(Pending') <= Cardinality(Pending) /\ Cardinality(Pending) \in Nat
           /\ Cardinality(Pending') \in Nat
<1>1. IsFiniteSet(Pending)
    BY PgIdAssumption, FS_Subset DEF Pending
<1> QED
    BY <1>1, FS_Subset, FS_CardinalityType

\* What a process has read and locked is kept by the steps of the others.
LEMMA OthersHold ==
    ASSUME Inv, NEW p \in Processes, NEW q \in Processes \ {p}, ByProcess(p)
    PROVE  OperationHolds(q)'
<1> USE RowKinds
<1>0. TypeOK /\ OperationHolds(p) /\ OperationHolds(q)
    BY DEF Inv
<1>1. tx'[q] = tx[q] /\ \A i \in Rows : locks'[i] = q <=> locks[i] = q
    BY <1>0, OnlyOwnLocks
<1>2. \A i \in TicketIds \cup ChallengeIds \cup Wallets \cup {Capacity} :
          locks'[i] = q <=> locks[i] = q
    BY <1>1
<1>3. tx[q].ticketId \in TicketIds \cup {None} /\ tx[q].challengeId \in ChallengeIds \cup {None}
      /\ tx[q].ticket \in TicketRow \cup {None} /\ tx[q].challenge \in ChallengeRow \cup {None}
    BY <1>0, OperationFields DEF TypeOK
<1>4. LocalsHold(q)'
    BY <1>0, <1>1 DEF OperationHolds, LocalsHold
<1>5. LocksInOrder(q)'
    BY <1>0, <1>1, <1>2 DEF OperationHolds, LocksInOrder
<1>6. TicketsHeld(q)'
    <2>1. ASSUME NEW t \in TicketIds, locks[t] = q, tickets[t] # None
          PROVE  tickets'[t] = tickets[t]
        <3>1. CreateCommit(p) => tickets[tx[p].ticketId] = None
            BY <1>0 DEF CreateCommit, OperationHolds, DraftsAreOwned, Creating
        <3> QED
            BY <1>0, <2>1, <3>1, TicketsWritten
    <2>2. tx[q].pc \in TicketLocked =>
              /\ tx[q].ticketId \in TicketIds /\ locks[tx[q].ticketId] = q
              /\ tickets[tx[q].ticketId] # None
        BY <1>0, <1>3 DEF OperationHolds, TicketsHeld, LocalsHold, TicketLocked, Replacing, Approving
    <2> QED
        BY <1>0, <1>1, <1>2, <2>1, <2>2 DEF OperationHolds, TicketsHeld
<1>7. ChallengesHeld(q)'
    <2>1. ASSUME NEW c \in ChallengeIds, locks[c] = q, challenges'[c] # challenges[c]
          PROVE  ReplaceCommit(p) /\ c = tx[p].challengeId /\ challenges[c] = None
        <3>1. ReplaceCommit(p) => challenges[tx[p].challengeId] = None
            BY <1>0 DEF ReplaceCommit, OperationHolds, DraftsAreOwned, Replacing
        <3> QED
            BY <1>0, <2>1, <3>1, ChallengesWritten
    <2>2. ASSUME At(q, "replaceCommit"), tx[q].ticket.challengeId # None
          PROVE  \/ locks[tx[q].ticket.challengeId] = q
                 \/ challenges'[tx[q].ticket.challengeId] = None
        <3>1. /\ tickets[tx[q].ticketId] = tx[q].ticket /\ tx[q].ticketId \in TicketIds
              /\ tx[q].ticket # None /\ tx[q].ticket.challengeId \in ChallengeIds
            BY <1>0, <1>3, <2>2 DEF OperationHolds, TicketsHeld, LocalsHold, TicketLocked, Replacing,
                TicketRow
        <3>2. ReplaceCommit(p) => tx[p].challengeId # tx[q].ticket.challengeId
            BY <1>0, <3>1 DEF ReplaceCommit, OperationHolds, DraftsAreOwned, Replacing
        <3> QED
            BY <1>0, <2>2, <3>1, <3>2, ChallengesWritten DEF OperationHolds, ChallengesHeld
    <2>3. ASSUME tx[q].pc \in ChallengeLocked
          PROVE  /\ locks[tx[q].challengeId] = q
                 /\ challenges'[tx[q].challengeId] = tx[q].challenge
        <3>1. /\ tx[q].challengeId \in ChallengeIds /\ locks[tx[q].challengeId] = q
              /\ challenges[tx[q].challengeId] = tx[q].challenge /\ tx[q].challenge # None
            BY <1>0, <2>3 DEF OperationHolds, ChallengesHeld, LocalsHold, ChallengeLocked, Approving
        <3> QED
            BY <2>1, <3>1
    <2>4. At(q, "replaceCommit") /\ tx[q].ticket.challengeId # None =>
              tx[q].ticket.challengeId \in ChallengeIds
        BY <1>0, <1>3 DEF OperationHolds, TicketsHeld, TicketLocked, TicketRow
    <2>5. tx[q].pc \in ChallengeLocked => tx[q].challengeId \in ChallengeIds
        BY <1>0 DEF OperationHolds, LocalsHold, ChallengeLocked, Approving
    <2> QED
        BY <1>1, <1>2, <2>2, <2>3, <2>4, <2>5 DEF ChallengesHeld
<1>8. WalletsHeld(q)'
    <2>1. ASSUME NEW w \in Wallets, locks[w] = q PROVE wallets'[w] = wallets[w]
        BY <1>0, <2>1, WalletsWritten
    <2>2. At(q, "grantCommit") => tx[q].challenge.address \in Wallets
        BY <1>0, <1>3 DEF OperationHolds, LocalsHold, Approving, ChallengeRow
    <2>3. tx[q].pc \in {"walletCommit", "insertCommit"} => tx[q].wallet \in Wallets
        BY <1>0 DEF OperationHolds, LocalsHold, Upserting, Updating
    <2> QED
        BY <1>0, <1>1, <1>2, <2>1, <2>2, <2>3 DEF OperationHolds, WalletsHeld
<1>9. RoomHeld(q)'
    <2>1. SUFFICES ASSUME At(q, "createCommit")
                   PROVE  locks'[Capacity] = q /\ Cardinality(Pending') < MaxPendingTickets
        BY <1>1 DEF RoomHeld
    <2>2. locks[Capacity] = q /\ Cardinality(Pending) < MaxPendingTickets
        BY <1>0, <2>1 DEF OperationHolds, RoomHeld
    <2>3. ~ CreateCommit(p)
        BY <1>0, <2>2 DEF CreateCommit, OperationHolds, RoomHeld
    <2>4. Pending' \subseteq Pending
        BY <1>0, <2>3, PendingShrinks
    <2> QED
        BY <1>2, <2>2, <2>4, SmallerPending, Bounds
<1>10. DraftsAreOwned(q)'
    <2>1. ASSUME tx[q].pc \in Creating
          PROVE  /\ tickets'[tx[q].ticketId] = None
                 /\ \A c \in ChallengeIds : challenges'[c] # None =>
                       challenges'[c].ticketId # tx[q].ticketId
                 /\ \A r \in Processes \ {q} : tx'[r].ticketId # tx[q].ticketId
        <3> DEFINE t == tx[q].ticketId
        <3>1. /\ t \in TicketIds /\ tickets[t] = None /\ t # tx[p].ticketId /\ t \in issued
              /\ \A c \in ChallengeIds : challenges[c] # None => challenges[c].ticketId # t
              /\ \A r \in Processes \ {q} : tx[r].ticketId # t
            BY <1>0, <2>1 DEF OperationHolds, DraftsAreOwned, LocalsHold, Inv, IdsAreIssued
        <3>2. tickets'[t] = None
            BY <1>0, <3>1, TicketsWritten
        <3>3. ASSUME NEW c \in ChallengeIds, challenges'[c] # None PROVE challenges'[c].ticketId # t
            BY <1>0, <3>1, <3>3, ChallengesWritten
        <3>4. tx'[p].ticketId # t
            BY <1>0, <3>1, StepIds DEF OperationHolds
        <3>5. \A r \in Processes \ {p} : tx'[r] = tx[r]
            BY <1>0, OnlyOwnLocks
        <3> QED
            BY <3>1, <3>2, <3>3, <3>4, <3>5
    <2>2. ASSUME tx[q].pc \in Replacing
          PROVE  /\ challenges'[tx[q].challengeId] = None
                 /\ \A t \in TicketIds : tickets'[t] # None =>
                       tickets'[t].challengeId # tx[q].challengeId
                 /\ \A r \in Processes \ {q} : tx'[r].challengeId # tx[q].challengeId
        <3> DEFINE c == tx[q].challengeId
        <3>1. /\ c \in ChallengeIds /\ challenges[c] = None /\ c # tx[p].challengeId /\ c \in issued
              /\ \A t \in TicketIds : tickets[t] # None => tickets[t].challengeId # c
              /\ \A r \in Processes \ {q} : tx[r].challengeId # c
            BY <1>0, <2>2 DEF OperationHolds, DraftsAreOwned, LocalsHold, Inv, IdsAreIssued
        <3>2. challenges'[c] = None
            BY <1>0, <3>1, ChallengesWritten
        <3>3. ASSUME NEW t \in TicketIds, tickets'[t] # None PROVE tickets'[t].challengeId # c
            BY <1>0, <3>1, <3>3, TicketsWritten
        <3>4. tx'[p].challengeId # c
            BY <1>0, <3>1, StepIds DEF OperationHolds
        <3>5. \A r \in Processes \ {p} : tx'[r] = tx[r]
            BY <1>0, OnlyOwnLocks
        <3> QED
            BY <3>1, <3>2, <3>3, <3>4, <3>5
    <2> QED
        BY <1>1, <2>1, <2>2 DEF DraftsAreOwned
<1> QED
    BY <1>4, <1>5, <1>6, <1>7, <1>8, <1>9, <1>10 DEF OperationHolds

----------------------------------------------------------------------------
(* What holds of the tables                                                *)

LEMMA IdsStayIssued ==
    ASSUME Inv, NEW p \in Processes, ByProcess(p)
    PROVE  IdsAreIssued'
<1> USE RowKinds
<1>0. TypeOK /\ OperationHolds(p) /\ IdsAreIssued /\ LocksInOrder(p)
    BY DEF Inv, OperationHolds
<1>1. ASSUME NEW q \in Processes
      PROVE  tx'[q].ticketId \in issued' \cup {None} /\ tx'[q].challengeId \in issued' \cup {None}
    <2>1. CASE q = p
        BY <1>0, <2>1, StepIds DEF IdsAreIssued
    <2>2. CASE q # p
        BY <1>0, <2>2, StepIds, OnlyOwnLocks DEF IdsAreIssued
    <2> QED
        BY <2>1, <2>2
<1>2. ASSUME NEW t \in TicketIds, tickets'[t] # None
      PROVE  t \in issued' /\ tickets'[t].challengeId \in issued' \cup {None}
    <2>1. CASE tickets'[t] = tickets[t]
        BY <1>0, <1>2, <2>1, StepIds DEF IdsAreIssued
    <2>2. CASE tickets'[t] # tickets[t]
        <3>1. t = tx[p].ticketId /\ tickets'[t].challengeId \in {None, tx[p].challengeId}
            BY <1>0, <1>2, <2>2, TicketsWritten
        <3> QED
            BY <1>0, <3>1, StepIds DEF IdsAreIssued
    <2> QED
        BY <2>1, <2>2
<1>3. ASSUME NEW c \in ChallengeIds, challenges'[c] # None
      PROVE  c \in issued' /\ challenges'[c].ticketId \in issued'
    <2>1. CASE challenges'[c] = challenges[c]
        BY <1>0, <1>3, <2>1, StepIds DEF IdsAreIssued
    <2>2. CASE challenges'[c] # challenges[c]
        <3>1. /\ c = tx[p].challengeId /\ challenges'[c].ticketId = tx[p].ticketId
              /\ At(p, "replaceCommit")
            BY <1>0, <1>3, <2>2, ChallengesWritten DEF ReplaceCommit
        <3>2. tx[p].ticketId \in TicketIds
            BY <1>0, <3>1 DEF OperationHolds, LocalsHold, Replacing
        <3> QED
            BY <1>0, <3>1, <3>2, StepIds DEF IdsAreIssued
    <2> QED
        BY <2>1, <2>2
<1> QED
    BY <1>1, <1>2, <1>3 DEF IdsAreIssued

\* No process writes a ticket that is approved, and the grant approves its
\* ticket in the same transaction.
LEMMA GrantsStayLast ==
    ASSUME Inv, NEW p \in Processes, ByProcess(p)
    PROVE  GrantsLast'
<1> USE RowKinds
<1>0. TypeOK /\ OperationHolds(p) /\ GrantsLast
    BY DEF Inv
<1>1. ASSUME NEW g \in grants
      PROVE  /\ tickets'[g.ticketId] # None /\ tickets'[g.ticketId].status = "approved"
             /\ tickets'[g.ticketId].sessionId = g.sessionId
    <2>1. g.ticketId \in TicketIds /\ tickets[g.ticketId] # None
          /\ tickets[g.ticketId].status = "approved" /\ tickets[g.ticketId].sessionId = g.sessionId
        BY <1>0 DEF GrantsLast, TypeOK
    <2>2. CreateCommit(p) => tickets[tx[p].ticketId] = None
        BY <1>0 DEF CreateCommit, OperationHolds, DraftsAreOwned, Creating
    <2>3. tickets'[g.ticketId] = tickets[g.ticketId]
        BY <1>0, <2>1, <2>2, TicketsWritten
    <2> QED
        BY <2>1, <2>3
<1>2. ASSUME NEW g \in grants', g \notin grants
      PROVE  /\ tickets'[g.ticketId] # None /\ tickets'[g.ticketId].status = "approved"
             /\ tickets'[g.ticketId].sessionId = g.sessionId
    <2>1. GrantCommit(p)
        BY <1>2, StepKinds DEF Writes, PurgeCommit, CreateCommit, ReplaceCommit, DeleteExpired,
            DenyCommit, InsertCommit, WalletCommit, BootstrapCommit
    <2>2. At(p, "grantCommit")
        BY <2>1 DEF GrantCommit
    <2>3. tx[p].ticket \in TicketRow /\ tx[p].ticketId \in TicketIds /\ tx[p].sessionId \in SessionIds
        BY <1>0, <2>2, OperationFields
           DEF TypeOK, OperationHolds, TicketsHeld, LocalsHold, TicketLocked, Approving
    <2> DEFINE new == [tx[p].ticket EXCEPT !.status = "approved", !.sessionId = tx[p].sessionId]
    <2>4. new \in TicketRow /\ new.status = "approved" /\ new.sessionId = tx[p].sessionId
        BY <2>3 DEF TicketRow
    <2>5. g = [ticketId |-> tx[p].ticketId, sessionId |-> tx[p].sessionId]
        BY <1>2, <2>1 DEF GrantCommit
    <2>6. tickets' = [tickets EXCEPT ![tx[p].ticketId] = new]
        BY <2>1 DEF GrantCommit
    <2> HIDE DEF new
    <2>7. tickets'[tx[p].ticketId] = new
        BY <1>0, <2>3, <2>6 DEF TypeOK
    <2> QED
        BY <2>4, <2>5, <2>7, PgRowAssumption
<1> QED
    BY <1>1, <1>2 DEF GrantsLast

\* A ticket is written with the challenge that stays, or its challenge goes
\* with it.
LEMMA LiveChallengeStaysCurrent ==
    ASSUME Inv, NEW p \in Processes, ByProcess(p)
    PROVE  LiveChallengeIsCurrent'
<1> USE RowKinds
<1>0. TypeOK /\ OperationHolds(p) /\ LiveChallengeIsCurrent
    BY DEF Inv
<1>1. SUFFICES ASSUME NEW c \in ChallengeIds, challenges'[c] # None,
                      tickets'[challenges'[c].ticketId] # None
               PROVE  /\ tickets'[challenges'[c].ticketId].status = "pending"
                      /\ tickets'[challenges'[c].ticketId].challengeId = c
    BY DEF LiveChallengeIsCurrent
<1> DEFINE t == challenges'[c].ticketId
<1>2. CASE challenges'[c] # challenges[c]
    <2>1. /\ ReplaceCommit(p) /\ c = tx[p].challengeId /\ t = tx[p].ticketId
        BY <1>0, <1>1, <1>2, ChallengesWritten
    <2>2. At(p, "replaceCommit") /\ tickets' = [tickets EXCEPT ![tx[p].ticketId] =
              [tx[p].ticket EXCEPT !.challengeId = tx[p].challengeId]]
        BY <2>1 DEF ReplaceCommit
    <2>3. /\ tx[p].ticket \in TicketRow /\ tx[p].ticketId \in TicketIds
          /\ tx[p].ticket.status = "pending"
        BY <1>0, <2>2, OperationFields
           DEF TypeOK, OperationHolds, TicketsHeld, LocalsHold, TicketLocked, Replacing
    <2>4. tickets'[t] = [tx[p].ticket EXCEPT !.challengeId = tx[p].challengeId]
        BY <1>0, <2>1, <2>2, <2>3 DEF TypeOK
    <2> QED
        BY <2>1, <2>3, <2>4 DEF TicketRow
<1>3. CASE challenges'[c] = challenges[c]
    <2>0. t \in TicketIds
        BY <1>0, <1>1, <1>3 DEF TypeOK, ChallengeRow
    <2>1. tickets[t] # None => tickets[t].status = "pending" /\ tickets[t].challengeId = c
        BY <1>0, <1>1, <1>3 DEF LiveChallengeIsCurrent
    <2>2. ~ (CreateCommit(p) /\ t = tx[p].ticketId)
        BY <1>0, <1>1, <1>3 DEF CreateCommit, OperationHolds, DraftsAreOwned, Creating
    <2>3. ASSUME ReplaceCommit(p), t = tx[p].ticketId PROVE FALSE
        <3>1. At(p, "replaceCommit")
            BY <2>3 DEF ReplaceCommit
        <3>2. /\ tickets[t] = tx[p].ticket /\ tickets[t] # None
              /\ challenges[tx[p].challengeId] = None
            BY <1>0, <2>3, <3>1
               DEF OperationHolds, TicketsHeld, DraftsAreOwned, TicketLocked, Replacing
        <3>3. c = tx[p].ticket.challengeId /\ c # tx[p].challengeId
            BY <1>1, <1>3, <2>1, <3>2
        <3> QED
            BY <1>1, <2>3, <3>3 DEF ReplaceCommit
    <2>4. ASSUME DenyCommit(p) \/ GrantCommit(p), t = tx[p].ticketId PROVE FALSE
        <3>1. tx[p].pc \in {"denyCommit", "grantCommit"}
            BY <2>4 DEF DenyCommit, GrantCommit
        <3>2. /\ tickets[t] = tx[p].ticket /\ tickets[t] # None
              /\ tx[p].ticket.challengeId = tx[p].challengeId
            BY <1>0, <2>4, <3>1 DEF OperationHolds, TicketsHeld, TicketLocked, Approving
        <3>3. c = tx[p].challengeId
            BY <2>1, <3>2
        <3> QED
            BY <1>0, <1>1, <2>4, <3>3 DEF DenyCommit, GrantCommit, TypeOK
    <2>5. tickets'[t] = tickets[t]
        BY <1>0, <1>1, <2>0, <2>2, <2>3, <2>4, TicketsWritten
    <2> QED
        BY <1>1, <2>1, <2>5
<1> QED
    BY <1>2, <1>3

\* An insert is made with room left for one more, under the lock.
LEMMA PendingStaysCapped ==
    ASSUME Inv, NEW p \in Processes, ByProcess(p)
    PROVE  PendingCap'
<1>0. TypeOK /\ OperationHolds(p) /\ PendingCap
    BY DEF Inv
<1>1. CASE CreateCommit(p)
    <2>1. Cardinality(Pending) < MaxPendingTickets
        BY <1>0, <1>1 DEF CreateCommit, OperationHolds, RoomHeld
    <2>2. Pending' \subseteq Pending \cup {tx[p].ticketId}
        BY <1>0, PendingShrinks
    <2>3. IsFiniteSet(Pending)
        BY PgIdAssumption, FS_Subset DEF Pending
    <2> DEFINE more == Pending \cup {tx[p].ticketId}
    <2>4. /\ Cardinality(more) <= Cardinality(Pending) + 1 /\ Cardinality(Pending) \in Nat
          /\ IsFiniteSet(more) /\ Cardinality(more) \in Nat
        BY <2>3, OneMore
    <2> HIDE DEF more
    <2>5. Cardinality(Pending') <= Cardinality(more) /\ Cardinality(Pending') \in Nat
        BY <2>2, <2>4, FS_Subset, FS_CardinalityType DEF more
    <2> QED
        BY <2>1, <2>4, <2>5, Bounds DEF PendingCap
<1>2. CASE ~ CreateCommit(p)
    <2>1. Pending' \subseteq Pending
        BY <1>0, <1>2, PendingShrinks
    <2> QED
        BY <1>0, <2>1, SmallerPending, Bounds DEF PendingCap
<1> QED
    BY <1>1, <1>2

----------------------------------------------------------------------------
(* The invariant holds                                                     *)

LEMMA InvInit == ASSUME Init PROVE Inv
<1> USE RowKinds
<1>1. TypeOK
    BY IdleIsOperation DEF Init, TypeOK
<1>2. ASSUME NEW p \in Processes PROVE OperationHolds(p)
    BY <1>2 DEF Init, Idle, OperationHolds, LocalsHold, TicketsHeld, ChallengesHeld, WalletsHeld,
        LocksInOrder, RoomHeld, DraftsAreOwned, Creating, Replacing, Approving, Upserting,
        Updating, TicketLocked, ChallengeLocked, Rows
<1>3. IdsAreIssued
    BY DEF Init, Idle, IdsAreIssued
<1>4. GrantsLast /\ LiveChallengeIsCurrent
    BY DEF Init, GrantsLast, LiveChallengeIsCurrent
<1>5. PendingCap
    <2>1. Pending = {}
        BY DEF Init, Pending
    <2> QED
        BY <2>1, FS_EmptySet, Bounds DEF PendingCap
<1> QED
    BY <1>1, <1>2, <1>3, <1>4, <1>5 DEF Inv

LEMMA InvByProcess ==
    ASSUME Inv, NEW p \in Processes, ByProcess(p)
    PROVE  Inv'
<1>1. TypeOK'
    BY TypesKept DEF ByProcess, Next
<1>2. OperationHolds(p)'
    <2>1. CASE Begin(p)
        BY <2>1, BeginHolds
    <2>2. CASE Step(p)
        BY <2>2, StepHolds DEF Inv
    <2>3. CASE Abort(p)
        BY <2>3, EndIsEnded, EndedHolds DEF Abort, Inv
    <2> QED
        BY <2>1, <2>2, <2>3 DEF ByProcess
<1>3. \A q \in Processes \ {p} : OperationHolds(q)'
    BY OthersHold
<1> QED
    BY <1>1, <1>2, <1>3, IdsStayIssued, GrantsStayLast, LiveChallengeStaysCurrent,
       PendingStaysCapped DEF Inv

\* Time passes: fewer tickets are pending.
LEMMA InvTick ==
    ASSUME Inv, Tick
    PROVE  Inv'
<1>1. TypeOK' /\ UNCHANGED <<tables, locks, tx, issued>> /\ now' = now + 1 /\ now \in Nat
    BY TypesKept DEF Next, Tick, Inv, TypeOK
<1>2. Pending' \subseteq Pending
    <2>1. ASSUME NEW t \in TicketIds, tickets[t] # None, tickets[t].expiresAt > now + 1
          PROVE  tickets[t].expiresAt > now
        <3>1. tickets[t].expiresAt \in Nat
            BY <2>1 DEF Inv, TypeOK, TicketRow
        <3> QED
            BY <1>1, <2>1, <3>1
    <2> QED
        BY <1>1, <2>1 DEF Pending, tables
<1>3. Cardinality(Pending') <= Cardinality(Pending) /\ Cardinality(Pending) \in Nat
      /\ Cardinality(Pending') \in Nat
    BY <1>2, SmallerPending
<1>4. ASSUME NEW p \in Processes PROVE OperationHolds(p)'
    <2>1. OperationHolds(p)
        BY DEF Inv
    <2>2. RoomHeld(p)'
        BY <1>1, <1>3, <2>1, Bounds DEF OperationHolds, RoomHeld
    <2> QED
        BY <1>1, <2>1, <2>2 DEF OperationHolds, LocalsHold, TicketsHeld, ChallengesHeld,
            WalletsHeld, LocksInOrder, DraftsAreOwned, tables
<1>5. IdsAreIssued' /\ GrantsLast' /\ LiveChallengeIsCurrent'
    BY <1>1 DEF Inv, IdsAreIssued, GrantsLast, LiveChallengeIsCurrent, tables
<1>6. PendingCap'
    BY <1>3, Bounds DEF Inv, PendingCap
<1> QED
    BY <1>1, <1>4, <1>5, <1>6 DEF Inv

\* A logout writes no table but the sessions.
LEMMA InvSame ==
    ASSUME Inv, UNCHANGED <<tickets, challenges, wallets, grants, locks, now, tx, issued>>
    PROVE  Inv'
<1>1. Pending' = Pending
    BY DEF Pending
<1>2. ASSUME NEW p \in Processes PROVE OperationHolds(p)'
    BY <1>1 DEF Inv, OperationHolds, LocalsHold, TicketsHeld, ChallengesHeld, WalletsHeld,
        LocksInOrder, RoomHeld, DraftsAreOwned
<1> QED
    BY <1>1, <1>2 DEF Inv, TypeOK, IdsAreIssued, GrantsLast, LiveChallengeIsCurrent, PendingCap

LEMMA InvNext ==
    ASSUME Inv, [Next]_vars
    PROVE  Inv'
<1>1. ASSUME NEW s \in SessionIds, Logout(s) PROVE Inv'
    BY <1>1, InvSame DEF Logout
<1>2. CASE UNCHANGED vars
    BY <1>2, InvSame DEF vars, tables
<1>3. ASSUME NEW p \in Processes, Begin(p) \/ Step(p) \/ Abort(p) PROVE Inv'
    BY <1>3, InvByProcess DEF ByProcess
<1> QED
    BY <1>1, <1>2, <1>3, InvTick DEF Next

\* The invariant holds in every state of every execution.
THEOREM InvHolds == SafetySpec => []Inv
BY InvInit, InvNext, PTL DEF SafetySpec

\* However replacements, approvals, denials and purges of different processes
\* interleave, every committed grant is the session its ticket names, and the
\* ticket stays approved.
THEOREM GrantsLastHolds == SafetySpec => []GrantsLast
<1>1. Inv => GrantsLast
    BY DEF Inv
<1> QED
    BY <1>1, InvHolds, PTL

\* The only challenge of a ticket that can be signed is the one the ticket
\* names, and then the ticket is pending.
THEOREM LiveChallengeIsCurrentHolds == SafetySpec => []LiveChallengeIsCurrent
<1>1. Inv => LiveChallengeIsCurrent
    BY DEF Inv
<1> QED
    BY <1>1, InvHolds, PTL

\* The advisory lock makes count and insert one section: the cap holds for
\* any number of processes.
THEOREM PendingCapHolds == SafetySpec => []PendingCap
<1>1. Inv => PendingCap
    BY DEF Inv
<1> QED
    BY <1>1, InvHolds, PTL

----------------------------------------------------------------------------
(* Deadlock                                                                *)

\* The order of the locks: who waits for a wallet waits for a bootstrap at
\* a wallet after it, if its holder waits at all; who waits for a challenge
\* waits for one who waits for a wallet; who waits for a ticket waits for one
\* who waits for a challenge or a wallet.  The holder of the capacity and the
\* purge wait for nothing.
LEMMA WaitsInOrder ==
    ASSUME TypeOK, NEW p \in Processes, NEW q \in Processes, OperationHolds(p), OperationHolds(q),
           WaitsFor(p, q), Wanted(q) # None
    PROVE  /\ Wanted(p) \in Wallets =>
                 /\ At(q, "bootstrap") /\ Wanted(q) \in AllowedWallets
                 /\ Wanted(p) < Wanted(q)
           /\ Wanted(p) \in ChallengeIds => Wanted(q) \in Wallets
           /\ Wanted(p) \in TicketIds => Wanted(q) \in Wallets \cup ChallengeIds
           /\ Wanted(p) \in Wallets \cup ChallengeIds \cup TicketIds
<1> USE RowKinds DEF OperationHolds
<1>1. locks[Wanted(p)] = q
    BY DEF WaitsFor
<1>2. CASE Wanted(p) \in Wallets
    <2>1. tx[q].pc \in {"denyCommit", "grantCommit", "walletCommit", "insertCommit", "bootstrap"}
          /\ (At(q, "bootstrap") => \A v \in tx[q].todo : Wanted(p) < v)
        BY <1>1, <1>2 DEF LocksInOrder
    <2>2. At(q, "bootstrap") /\ tx[q].todo # {} /\ Wanted(q) = NextWallet(q)
        BY <2>1, WantedRow
    <2>3. NextWallet(q) \in tx[q].todo /\ tx[q].todo \subseteq AllowedWallets
        BY <2>2, NextWalletIsLeast, OperationFields DEF TypeOK
    <2> QED
        BY <1>2, <2>1, <2>2, <2>3
<1>3. CASE Wanted(p) \in ChallengeIds
    <2>1. tx[q].pc \in ChallengeLocked \cup {"replaceCommit", "purgeCommit"}
        BY <1>1, <1>3 DEF LocksInOrder
    <2>2. At(q, "finalizeWallet")
        BY <2>1, WantedRow DEF ChallengeLocked
    <2> QED
        BY <1>3, <2>2, WantedKind
<1>4. CASE Wanted(p) \in TicketIds
    <2>1. tx[q].pc \in TicketLocked \cup {"purgeChallenges", "purgeCommit"}
        BY <1>1, <1>4 DEF LocksInOrder
    <2>2. tx[q].pc \in {"replaceOld", "finalizeChallenge", "finalizeWallet"}
        BY <2>1, WantedRow DEF TicketLocked
    <2> QED
        BY <1>4, <2>2, WantedKind
<1>5. CASE Wanted(p) = Capacity
    <2>1. At(q, "createCommit")
        BY <1>1, <1>5 DEF LocksInOrder
    <2> QED
        BY <2>1, WantedRow
<1>6. Wanted(p) \in Wallets \cup ChallengeIds \cup TicketIds \cup {Capacity}
    BY WantedKind DEF WaitsFor
<1> QED
    BY <1>2, <1>3, <1>4, <1>5, <1>6

\* A set of processes that wait for each other would hold bootstraps only,
\* each at a greater wallet than the one before: a finite set of wallets has
\* a greatest one.
LEMMA NobodyWaitsInACircle ==
    ASSUME Inv
    PROVE  NoWaitCycle
<1> USE RowKinds
<1>1. SUFFICES ASSUME NEW S \in SUBSET Processes, S # {},
                      \A p \in S : \E q \in S : WaitsFor(p, q)
               PROVE  FALSE
    BY DEF NoWaitCycle
<1>2. ASSUME NEW p \in S
      PROVE  \E q \in S : /\ WaitsFor(p, q) /\ Wanted(q) # None
                          /\ Wanted(p) \in Wallets =>
                                Wanted(q) \in AllowedWallets /\ Wanted(p) < Wanted(q)
                          /\ Wanted(p) \in ChallengeIds => Wanted(q) \in Wallets
                          /\ Wanted(p) \in TicketIds => Wanted(q) \in Wallets \cup ChallengeIds
                          /\ Wanted(p) \in Wallets \cup ChallengeIds \cup TicketIds
    <2>1. PICK q \in S : WaitsFor(p, q)
        BY <1>1
    <2>2. Wanted(q) # None
        BY <1>1 DEF WaitsFor
    <2>3. p \in Processes /\ q \in Processes
        BY <1>1
    <2> QED
        BY <2>1, <2>2, <2>3, WaitsInOrder DEF Inv
<1> DEFINE Waited == {w \in AllowedWallets : \E p \in S : Wanted(p) = w}
<1>3. Waited # {}
    <2>1. PICK p \in S : TRUE
        BY <1>1
    <2>2. PICK q \in S : Wanted(q) \in Wallets \cup ChallengeIds
        BY <1>2, <2>1
    <2>3. PICK r \in S : Wanted(r) \in Wallets
        BY <1>2, <2>2
    <2>4. \E s \in S : Wanted(s) \in AllowedWallets
        BY <1>2, <2>3
    <2> QED
        BY <2>4
<1>4. \E m \in Waited : \A w \in Waited : w <= m
    <2>1. IsFiniteSet(Waited) /\ Waited \subseteq Nat
        BY PgWalletAssumption, FS_Subset
    <2> HIDE DEF Waited
    <2> QED
        BY <1>3, <2>1, GreatestNumber
<1>5. PICK p \in S : Wanted(p) \in AllowedWallets /\ \A w \in Waited : w <= Wanted(p)
    BY <1>4
<1>6. PICK q \in S : Wanted(q) \in AllowedWallets /\ Wanted(p) < Wanted(q)
    BY <1>2, <1>5, PgWalletAssumption
<1>7. Wanted(q) <= Wanted(p) /\ Wanted(p) \in Nat /\ Wanted(q) \in Nat
    BY <1>5, <1>6, PgWalletAssumption
<1> QED
    BY <1>6, <1>7

\* No set of transactions waits for itself, whatever the number of processes
\* and rows: "lock only their ticket, challenge and wallet rows, in that
\* order", and bootstrap sorts the wallets it inserts.
THEOREM NoWaitCycleHolds == SafetySpec => []NoWaitCycle
BY InvHolds, NobodyWaitsInACircle, PTL

----------------------------------------------------------------------------
(* What a step may never do                                                *)

LEMMA GrantUsesWhatIsThere ==
    ASSUME Inv, [Next]_vars
    PROVE  GrantUsesCurrentState
<1> USE RowKinds
<1>1. SUFFICES ASSUME NEW t \in TicketIds, tickets'[t] # None, tickets'[t].status = "approved",
                      tickets'[t] # tickets[t]
               PROVE  /\ tickets[t] # None
                      /\ tickets[t].status = "pending"
                      /\ tickets[t].challengeId # None
                      /\ challenges[tickets[t].challengeId] # None
                      /\ WalletAllowed(challenges[tickets[t].challengeId].address)
    BY DEF GrantUsesCurrentState
<1>2. PICK p \in Processes : ByProcess(p)
    BY <1>1 DEF Next, ByProcess, Logout, Tick, vars, tables
<1>3. TypeOK /\ OperationHolds(p)
    BY DEF Inv
<1>4. t = tx[p].ticketId
    BY <1>1, <1>2, <1>3, TicketsWritten
<1>5. GrantCommit(p)
    <2>1. ~ CreateCommit(p)
        BY <1>1, <1>3, <1>4 DEF CreateCommit, TypeOK
    <2>2. ASSUME ReplaceCommit(p) PROVE FALSE
        <3>1. /\ At(p, "replaceCommit")
              /\ tickets' = [tickets EXCEPT ![t] = [tx[p].ticket EXCEPT !.challengeId = tx[p].challengeId]]
            BY <1>4, <2>2 DEF ReplaceCommit
        <3>2. tx[p].ticket \in TicketRow /\ tx[p].ticket.status = "pending"
            BY <1>3, <3>1, OperationFields DEF TypeOK, OperationHolds, TicketsHeld, TicketLocked
        <3>3. tickets'[t] = [tx[p].ticket EXCEPT !.challengeId = tx[p].challengeId]
            BY <1>3, <3>1 DEF TypeOK
        <3> QED
            BY <1>1, <3>2, <3>3 DEF TicketRow
    <2>3. ASSUME DenyCommit(p) PROVE FALSE
        <3>1. /\ At(p, "denyCommit")
              /\ tickets' = [tickets EXCEPT ![t] = [tx[p].ticket EXCEPT !.status = "denied"]]
            BY <1>4, <2>3 DEF DenyCommit
        <3>2. tx[p].ticket \in TicketRow
            BY <1>3, <3>1, OperationFields DEF TypeOK, OperationHolds, TicketsHeld, TicketLocked
        <3>3. tickets'[t] = [tx[p].ticket EXCEPT !.status = "denied"]
            BY <1>3, <3>1 DEF TypeOK
        <3> QED
            BY <1>1, <3>2, <3>3 DEF TicketRow
    <2> QED
        BY <1>1, <1>2, <1>3, <2>1, <2>2, <2>3, TicketsWritten
<1>6. At(p, "grantCommit")
    BY <1>5 DEF GrantCommit
<1>7. /\ tickets[t] = tx[p].ticket /\ tickets[t] # None /\ tickets[t].status = "pending"
      /\ tickets[t].challengeId = tx[p].challengeId /\ tx[p].challengeId \in ChallengeIds
      /\ challenges[tx[p].challengeId] = tx[p].challenge /\ tx[p].challenge # None
    BY <1>3, <1>4, <1>6 DEF OperationHolds, TicketsHeld, ChallengesHeld, LocalsHold,
        TicketLocked, ChallengeLocked, Approving
<1>8. WalletAllowed(tx[p].challenge.address)
    BY <1>3, <1>6, PgPolicyAssumption DEF OperationHolds, WalletsHeld, WalletAllowed
<1> QED
    BY <1>7, <1>8

\* A ticket becomes approved only while it is pending, with its challenge in
\* the table and its wallet enabled in the same committed state: neither a
\* replacement nor a revocation that committed before is missed.
THEOREM GrantsUseCurrentStateHolds == SafetySpec => GrantsUseCurrentState
<1>1. Inv /\ [Next]_vars => [GrantUsesCurrentState]_vars
    BY GrantUsesWhatIsThere
<1> QED
    BY <1>1, InvHolds, PTL DEF SafetySpec, GrantsUseCurrentState

LEMMA DecidesWithWhatIsValid ==
    ASSUME Inv, [Next]_vars
    PROVE  DecidesInTime
<1>1. SUFFICES ASSUME NEW p \in Processes, tx'[p].pc = "grantCommit", tx[p].pc # "grantCommit"
               PROVE  /\ tx[p].ticket.expiresAt > now /\ tx[p].challenge.expiresAt > now
                      /\ tx[p].expiresAt > now
    BY DEF DecidesInTime
<1>2. TypeOK /\ OperationHolds(p)
    BY DEF Inv
<1>3. PICK q \in Processes : ByProcess(q)
    BY <1>1 DEF Next, ByProcess, Logout, Tick, vars, tables
<1>4. ByProcess(p)
    BY <1>1, <1>2, <1>3, OnlyOwnLocks
<1>5. ~ Ended(p)
    BY <1>1 DEF Ended, Idle
<1>6. Step(p)
    <2>1. ~ Abort(p)
        BY <1>2, <1>5, EndIsEnded DEF Abort
    <2>2. ~ Begin(p)
        <3>1. ASSUME NEW new, new.pc # "grantCommit", tx' = [tx EXCEPT ![p] = new] PROVE FALSE
            BY <1>1, <1>2, <3>1 DEF TypeOK
        <3> QED
            BY <3>1 DEF Begin, CreateBegin, ChallengeBegin, ApproveBegin, UpsertBegin, UpdateBegin,
                BootstrapBegin, Idle
    <2> QED
        BY <1>4, <2>1, <2>2 DEF ByProcess
<1>7. GoneOn(p)
    BY <1>2, <1>5, <1>6, StepEndsOrGoesOn DEF OperationHolds
<1> QED
    BY <1>1, <1>2, <1>6, <1>7, StepChecks DEF OperationHolds

\* Between the decision to grant and the clock there is no lock wait: what is
\* granted was valid when the last lock was held.
THEOREM DecisionsInTimeHolds == SafetySpec => DecisionsInTime
<1>1. Inv /\ [Next]_vars => [DecidesInTime]_vars
    BY DecidesWithWhatIsValid
<1> QED
    BY <1>1, InvHolds, PTL DEF SafetySpec, DecisionsInTime

LEMMA WalletChangedOnRequest ==
    ASSUME Inv, [Next]_vars
    PROVE  WalletKept
<1>1. SUFFICES ASSUME NEW w \in Wallets, wallets[w] # None
               PROVE  /\ wallets'[w] # None
                      /\ wallets'[w].createdAt = wallets[w].createdAt
                      /\ wallets'[w].enabled # wallets[w].enabled =>
                            \E p \in Processes :
                                /\ At(p, "walletCommit")
                                /\ tx[p].wallet = w
                                /\ tx[p].enabled = wallets'[w].enabled
                                /\ tx'[p].pc = "idle"
    BY DEF WalletKept
<1>2. CASE wallets'[w] = wallets[w]
    BY <1>1, <1>2
<1>3. CASE wallets'[w] # wallets[w]
    <2>1. PICK p \in Processes : ByProcess(p)
        BY <1>3 DEF Next, ByProcess, Logout, Tick, vars, tables
    <2>2. TypeOK /\ OperationHolds(p)
        BY DEF Inv
    <2>3. WalletCommit(p) /\ tx[p].wallet = w
        BY <1>1, <1>3, <2>1, <2>2, WalletsWritten
    <2>4. At(p, "walletCommit") /\ tx'[p].pc = "idle"
        BY <2>2, <2>3, EndTypes DEF WalletCommit, Idle
    <2>5. wallets[w] \in WalletRow
        BY <1>1, <2>2 DEF TypeOK
    <2> DEFINE enabled == IF tx[p].enabled = None THEN wallets[w].enabled ELSE tx[p].enabled
    <2>6. wallets' = [wallets EXCEPT ![w] = [wallets[w] EXCEPT !.enabled = enabled]]
        BY <2>3 DEF WalletCommit
    <2>7. enabled \in BOOLEAN
        BY <2>2, <2>5, OperationFields DEF TypeOK, WalletRow
    <2> HIDE DEF enabled
    <2>8. wallets'[w] = [wallets[w] EXCEPT !.enabled = enabled]
        BY <2>2, <2>6 DEF TypeOK
    <2>9. /\ [wallets[w] EXCEPT !.enabled = enabled] \in WalletRow
          /\ wallets'[w].createdAt = wallets[w].createdAt /\ wallets'[w].enabled = enabled
        BY <2>5, <2>7, <2>8 DEF WalletRow
    <2>10. wallets'[w].enabled # wallets[w].enabled => tx[p].enabled = wallets'[w].enabled
        BY <2>9 DEF enabled
    <2> QED
        BY <2>3, <2>4, <2>8, <2>9, <2>10, PgRowAssumption
<1> QED
    BY <1>2, <1>3

\* No upsert, PATCH of something else or bootstrap touches the creation time
\* of a wallet, and only a request that says so its permission.
THEOREM WalletsKeptHolds == SafetySpec => WalletsKept
<1>1. Inv /\ [Next]_vars => [WalletKept]_vars
    BY WalletChangedOnRequest
<1> QED
    BY <1>1, InvHolds, PTL DEF SafetySpec, WalletsKept

=============================================================================
