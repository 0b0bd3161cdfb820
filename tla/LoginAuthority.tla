--------------------------- MODULE LoginAuthority ---------------------------
(***************************************************************************)
(* What the gateway promises its clients, without handlers, tables, stored *)
(* rows or clocks: a ticket is opened within capacity, is decided at most  *)
(* once while it is open, and a session exists because one open ticket was *)
(* decided for a wallet that was permitted at that moment.  Sessions end   *)
(* and never come back.  DeviceLogin implements it.                        *)
(***************************************************************************)
EXTENDS Naturals, FiniteSets

CONSTANTS
    TicketIds, SessionIds, Wallets,
    None,               \* no session, no wallet
    MaxPendingTickets,  \* how many tickets may be open at once
    Durable             \* whether a restart keeps what was decided

VARIABLES
    ticket,     \* TicketIds -> "unused", "open", "approved", "denied", "closed"
    granted,    \* TicketIds -> the session granted to it, or None
    holder,     \* SessionIds -> the wallet it authenticates now, or None
    spent,      \* sessions that can not be granted any more
    permitted   \* wallets that may log in

vars == <<ticket, granted, holder, spent, permitted>>

Init ==
    /\ ticket = [t \in TicketIds |-> "unused"]
    /\ granted = [t \in TicketIds |-> None]
    /\ holder = [s \in SessionIds |-> None]
    /\ spent = {}
    /\ permitted \subseteq Wallets

OpenTickets == {t \in TicketIds : ticket[t] = "open"}

\* Tickets without an approval time out; sessions end.
Closed(C) == [t \in TicketIds |-> IF t \in C /\ ticket[t] # "approved" THEN "closed" ELSE ticket[t]]
Ended(E) == [s \in SessionIds |-> IF s \in E THEN None ELSE holder[s]]

Open(t) ==
    /\ ticket[t] = "unused"
    /\ Cardinality(OpenTickets) < MaxPendingTickets
    /\ ticket' = [ticket EXCEPT ![t] = "open"]
    /\ UNCHANGED <<granted, holder, spent, permitted>>

\* The decision takes time: other tickets and sessions, and the new session
\* itself, may run out while it is made.
Grant(t, s, w, C, E) ==
    /\ ticket[t] = "open"
    /\ s \notin spent
    /\ w \in permitted
    /\ ticket' = [Closed(C) EXCEPT ![t] = "approved"]
    /\ granted' = [granted EXCEPT ![t] = s]
    /\ holder' \in {[Ended(E) EXCEPT ![s] = w], [Ended(E) EXCEPT ![s] = None]}
    /\ spent' = spent \cup {s}
    /\ UNCHANGED permitted

\* The session drawn for a refused wallet is given up.
Deny(t, C, E, G) ==
    /\ ticket[t] = "open"
    /\ permitted # Wallets
    /\ ticket' = [Closed(C) EXCEPT ![t] = "denied"]
    /\ holder' = Ended(E)
    /\ spent' = spent \cup G
    /\ UNCHANGED <<granted, permitted>>

\* Tickets close, sessions end, and session ids are given up unused.
Lapse(C, E, G) ==
    /\ ticket' = Closed(C)
    /\ holder' = Ended(E)
    /\ spent' = spent \cup G
    /\ UNCHANGED <<granted, permitted>>

SetPermitted(P) ==
    /\ permitted' = P
    /\ UNCHANGED <<ticket, granted, holder, spent>>

Restart(C, G, P) ==
    /\ ticket' = IF Durable THEN Closed(C)
                 ELSE [t \in TicketIds |-> IF ticket[t] = "unused" /\ t \notin C
                                           THEN "unused" ELSE "closed"]
    /\ granted' = IF Durable THEN granted ELSE [t \in TicketIds |-> None]
    /\ holder' = IF Durable THEN holder ELSE [s \in SessionIds |-> None]
    /\ spent' = spent \cup G
    /\ permitted' = P

Next ==
    \/ \E t \in TicketIds : Open(t)
    \/ \E C \in SUBSET TicketIds, E \in SUBSET SessionIds :
        \/ \E t \in TicketIds \ C, s \in SessionIds, w \in Wallets : Grant(t, s, w, C, E)
        \/ \E G \in SUBSET SessionIds :
            Lapse(C, E, G) \/ \E t \in TicketIds \ C : Deny(t, C, E, G)
    \/ \E P \in SUBSET Wallets :
        \/ SetPermitted(P)
        \/ \E C \in SUBSET TicketIds, G \in SUBSET SessionIds : Restart(C, G, P)

Spec == Init /\ [][Next]_vars

=============================================================================
