----------------------- MODULE SchemaMigrationProofs -----------------------
(***************************************************************************)
(* No start of the gateway serves on less than the whole schema, whatever  *)
(* was cut off before it and for any number of processes: what the         *)
(* statements behind a start have made or found stays, and together they   *)
(* make everything.                                                        *)
(***************************************************************************)
EXTENDS SchemaMigration, TLAPS

(* The two migrations                                                      *)

Migration == Statements("start")

\* What the statements before `at' see to.
Behind(at) == {Migration[i].on : i \in {j \in DOMAIN Migration :
                                            j < at /\ Migration[j].does \in {"make", "add"}}}

\* A statement adds its object at most.
LEMMA OneStatement ==
    ASSUME NEW at \in DOMAIN Migration
    PROVE  /\ Behind(at + 1) \subseteq Behind(at) \cup {Migration[at].on}
           /\ Migration[at].does \notin {"make", "add"} => Behind(at + 1) = Behind(at)
<1>1. DOMAIN Migration \subseteq Nat
    BY DEF Migration, Statements, SqliteMigration, PostgresMigration
<1>2. \A j \in DOMAIN Migration : j < at + 1 <=> j < at \/ j = at
    BY <1>1
<1> HIDE DEF Migration
<1> QED
    BY <1>2 DEF Behind

LEMMA SqliteList ==
    /\ DOMAIN SqliteMigration = 1 .. 7 /\ Len(SqliteMigration) = 7
    /\ SqliteMigration[1] = Make("tickets") /\ SqliteMigration[2] = Make("challenges")
    /\ SqliteMigration[3] = Make("sessions") /\ SqliteMigration[4] = Make("wallets")
    /\ SqliteMigration[5] = Make("audit_log")
    /\ SqliteMigration[6] = Look("failure_reason") /\ SqliteMigration[7] = Add("failure_reason")
BY DEF SqliteMigration

LEMMA PostgresList ==
    /\ DOMAIN PostgresMigration = 1 .. 11 /\ Len(PostgresMigration) = 11
    /\ PostgresMigration[2] = Make("tickets") /\ PostgresMigration[4] = Make("failure_reason")
    /\ PostgresMigration[5] = Make("challenges") /\ PostgresMigration[6] = Make("sessions")
    /\ PostgresMigration[7] = Make("wallets") /\ PostgresMigration[8] = Make("audit_log")
    /\ \A i \in {1, 3, 9, 10, 11} : PostgresMigration[i].does = "lock"
<1>1. /\ PostgresMigration[1] = LockCapacity
      /\ PostgresMigration[3] = Lock("tickets", "access exclusive")
      /\ PostgresMigration[9] = Lock("challenges", "share")
      /\ PostgresMigration[10] = Lock("sessions", "share")
      /\ PostgresMigration[11] = Lock("audit_log", "share")
    BY DEF PostgresMigration
<1>2. \A object, mode : Lock(object, mode).does = "lock"
    BY DEF Lock
<1>3. \A i \in {1, 3, 9, 10, 11} : PostgresMigration[i].does = "lock"
    BY <1>1, <1>2 DEF LockCapacity
<1>4. /\ DOMAIN PostgresMigration = 1 .. 11 /\ Len(PostgresMigration) = 11
      /\ PostgresMigration[2] = Make("tickets") /\ PostgresMigration[4] = Make("failure_reason")
      /\ PostgresMigration[5] = Make("challenges") /\ PostgresMigration[6] = Make("sessions")
      /\ PostgresMigration[7] = Make("wallets") /\ PostgresMigration[8] = Make("audit_log")
    BY DEF PostgresMigration
<1> QED
    BY <1>3, <1>4

LEMMA Backends ==
    Migration = IF backend = "sqlite" THEN SqliteMigration ELSE PostgresMigration
BY DEF Migration, Statements

LEMMA Fields ==
    \A object \in Needed :
        /\ Make(object).does = "make" /\ Make(object).on = object
        /\ Look(object).does = "look" /\ Look(object).on = object
        /\ Add(object).does = "add" /\ Add(object).on = object
BY DEF Make, Look, Add

\* A look is followed by the addition of what it looks for.
LEMMA LookAndAdd ==
    ASSUME NEW at \in DOMAIN Migration, Migration[at].does = "look"
    PROVE  /\ at + 1 \in DOMAIN Migration /\ Migration[at + 1].on = Migration[at].on
           /\ Migration[at].on \in Needed
<1>1. {"tickets", "challenges", "sessions", "wallets", "audit_log", "failure_reason"} = Needed
    BY DEF Needed, Tables
<1>2. CASE backend = "sqlite"
    <2>1. at \in 1 .. 7
        BY <1>2, SqliteList, Backends
    <2>2. at = 6
        BY <1>1, <1>2, <2>1, SqliteList, Backends, Fields
    <2> QED
        BY <1>1, <1>2, <2>2, SqliteList, Backends, Fields
<1>3. CASE backend # "sqlite"
    <2>1. at \in 1 .. 11
        BY <1>3, PostgresList, Backends
    <2> QED
        BY <1>1, <1>3, <2>1, PostgresList, Backends, Fields
<1> QED
    BY <1>2, <1>3

\* A whole migration sees to the whole schema.
LEMMA WholeMigration ==
    ASSUME NEW at \in Nat, at > Len(Migration)
    PROVE  Needed \subseteq Behind(at)
<1>1. Needed = {"tickets", "challenges", "sessions", "wallets", "audit_log", "failure_reason"}
    BY DEF Needed, Tables
<1>2. CASE backend = "sqlite"
    <2>1. /\ Migration[1] = Make("tickets") /\ Migration[2] = Make("challenges")
          /\ Migration[3] = Make("sessions") /\ Migration[4] = Make("wallets")
          /\ Migration[5] = Make("audit_log") /\ Migration[7] = Add("failure_reason")
          /\ DOMAIN Migration = 1 .. 7 /\ at > 7
        BY <1>2, SqliteList, Backends
    <2> QED
        BY <1>1, <2>1, Fields DEF Behind
<1>3. CASE backend # "sqlite"
    <2>1. /\ Migration[2] = Make("tickets") /\ Migration[4] = Make("failure_reason")
          /\ Migration[5] = Make("challenges") /\ Migration[6] = Make("sessions")
          /\ Migration[7] = Make("wallets") /\ Migration[8] = Make("audit_log")
          /\ DOMAIN Migration = 1 .. 11 /\ at > 11
        BY <1>3, PostgresList, Backends
    <2> QED
        BY <1>1, <2>1, Fields DEF Behind
<1> QED
    BY <1>2, <1>3

----------------------------------------------------------------------------
(* The inductive invariant                                                 *)

Doings == {"down", "start", "serving", "failed"} \cup Requests

\* Every process is somewhere, and has its own uncommitted objects.
Placed ==
    /\ pc \in [Processes -> [doing: Doings, at: Nat]]
    /\ DOMAIN made = Processes

\* A start finds everything that is behind it, wherever it stands.
StartsHaveMade ==
    \A p \in Processes : Doing(p) = "start" => Behind(pc[p].at) \subseteq Seen(p)

Inv == Placed /\ StartsHaveMade /\ ServesWholeSchema

----------------------------------------------------------------------------
(* Steps                                                                   *)

LEMMA PlacedKept == ASSUME Placed, [Next]_vars PROVE Placed'
<1>1. At("down", 1) \in [doing: Doings, at: Nat] /\ At("start", 1) \in [doing: Doings, at: Nat]
    BY DEF At, Doings
<1>2. \A d \in {"serving", "failed"} \cup Requests : At(d, 1) \in [doing: Doings, at: Nat]
    BY DEF At, Doings
<1>3. ASSUME NEW p \in Processes, NEW d \in {"down", "serving", "failed"}, Ended(p, d) PROVE Placed'
    BY <1>1, <1>2, <1>3 DEF Placed, Ended
<1>4. ASSUME NEW p \in Processes, pc' = NextStatement(p), DOMAIN made' = Processes PROVE Placed'
    BY <1>4 DEF Placed, NextStatement
<1>5. ASSUME NEW p \in Processes, Start(p) PROVE Placed'
    BY <1>1, <1>5 DEF Placed, Start
<1>6. ASSUME NEW p \in Processes, Step(p) PROVE Placed'
    <2>1. CASE MakeExists(p)
        BY <1>4, <2>1 DEF MakeExists, Placed
    <2>2. CASE MakeNew(p)
        BY <1>3, <1>4, <2>2 DEF MakeNew, Fail, Makes, Placed
    <2>3. CASE LookFor(p)
        BY <2>3 DEF LookFor, Placed
    <2>4. CASE AddMissing(p)
        BY <1>3, <1>4, <2>4 DEF AddMissing, Fail, Makes, Placed
    <2>5. CASE TakeLock(p)
        BY <1>4, <2>5 DEF TakeLock, Placed
    <2>6. CASE Commit(p)
        BY <1>3, <2>6 DEF Commit
    <2> QED
        BY <1>6, <2>1, <2>2, <2>3, <2>4, <2>5, <2>6 DEF Step
<1>7. ASSUME NEW p \in Processes, Request(p) PROVE Placed'
    BY <1>2, <1>7 DEF Placed, Request
<1>8. ASSUME NEW p \in Processes, Crash(p) PROVE Placed'
    BY <1>3, <1>8 DEF Crash
<1>9. CASE UNCHANGED vars
    BY <1>9 DEF Placed, vars
<1> QED
    BY <1>5, <1>6, <1>7, <1>8, <1>9 DEF Next

\* What a step of p does to the rest: committed objects stay, and the other
\* processes with what they have made.
Apart(p) ==
    /\ schema \subseteq schema'
    /\ \A q \in Processes \ {p} : pc'[q] = pc[q] /\ made'[q] = made[q]

LEMMA StepsApart ==
    ASSUME Placed, NEW p \in Processes, Start(p) \/ Step(p) \/ Request(p) \/ Crash(p)
    PROVE  Apart(p)
<1>1. \A d : Ended(p, d) => \A q \in Processes \ {p} : pc'[q] = pc[q] /\ made'[q] = made[q]
    BY DEF Placed, Ended
<1>2. ASSUME NEW objects, Makes(p, objects)
      PROVE  schema \subseteq schema' /\ \A q \in Processes \ {p} : made'[q] = made[q]
    BY <1>2 DEF Placed, Makes
<1>3. pc' = NextStatement(p) => \A q \in Processes \ {p} : pc'[q] = pc[q]
    BY DEF Placed, NextStatement
<1>4. CASE Start(p) \/ Request(p)
    BY <1>4 DEF Placed, Start, Request, Apart
<1>5. CASE MakeExists(p) \/ TakeLock(p)
    BY <1>3, <1>5 DEF MakeExists, TakeLock, Apart
<1>6. CASE MakeNew(p)
    BY <1>1, <1>2, <1>3, <1>6 DEF MakeNew, Fail, Apart
<1>7. CASE AddMissing(p)
    BY <1>1, <1>2, <1>3, <1>7 DEF AddMissing, Fail, Apart
<1>8. CASE LookFor(p)
    BY <1>8 DEF Placed, LookFor, Apart
<1>9. CASE Commit(p) \/ Crash(p)
    BY <1>1, <1>9 DEF Commit, Crash, Apart
<1> QED
    BY <1>4, <1>5, <1>6, <1>7, <1>8, <1>9 DEF Step

\* The backend is chosen once, and with it the migration.
LEMMA SameMigration == ASSUME [Next]_vars PROVE Migration' = Migration /\ \A n : Behind(n)' = Behind(n)
<1>1. backend' = backend
    BY DEF Next, vars
<1>2. Migration' = Migration
    BY <1>1 DEF Migration, Statements
<1> QED
    BY <1>2 DEF Behind

\* A statement of a start leaves its object made or found.
LEMMA StatementBehind ==
    ASSUME Inv, [Next]_vars, NEW p \in Processes, Doing(p) = "start",
           pc[p].at \in DOMAIN Migration, Apart(p), made[p] \subseteq made'[p],
           pc' = NextStatement(p),
           Statement(p).does \in {"make", "add"} => Statement(p).on \in Seen(p)'
    PROVE  Behind(pc'[p].at) \subseteq Seen(p)'
<1>1. PICK at \in DOMAIN Migration : at = pc[p].at /\ pc'[p].at = at + 1
    BY DEF Inv, Placed, NextStatement
<1>2. Statement(p) = Migration[at]
    BY <1>1 DEF Statement, Migration
<1>3. Behind(at) \subseteq Seen(p)'
    BY <1>1 DEF Inv, StartsHaveMade, Seen, Apart
<1> QED
    BY <1>1, <1>2, <1>3, OneStatement

LEMMA StartsKept == ASSUME Inv, [Next]_vars PROVE StartsHaveMade'
<1> SUFFICES ASSUME NEW q \in Processes, Doing(q)' = "start"
             PROVE  Behind(pc'[q].at) \subseteq Seen(q)'
    BY SameMigration DEF StartsHaveMade
<1>t. /\ Placed /\ pc \in [Processes -> [doing: Doings, at: Nat]]
      /\ \A p \in Processes : Doing(p) = "start" => Behind(pc[p].at) \subseteq Seen(p)
    BY DEF Inv, Placed, StartsHaveMade
<1>f. \A d : Ended(q, d) => Doing(q)' = d
    BY <1>t DEF Ended, Doing, At
<1>s. pc' = NextStatement(q) => Doing(q) = "start" /\ pc'[q].at = pc[q].at + 1
    BY <1>t DEF NextStatement, Doing
<1>1. CASE pc'[q] = pc[q] /\ made'[q] = made[q] /\ schema \subseteq schema'
    BY <1>t, <1>1 DEF Doing, Seen
<1>2. ASSUME NEW p \in Processes \ {q}, Apart(p) PROVE Behind(pc'[q].at) \subseteq Seen(q)'
    BY <1>1, <1>2 DEF Apart
<1>3. CASE Start(q)
    <2>1. pc'[q].at = 1
        BY <1>t, <1>3 DEF Start, At
    <2>2. \A i \in DOMAIN Migration : i \in Nat /\ ~ (i < 1)
        BY Backends, SqliteList, PostgresList
    <2> QED
        BY <2>1, <2>2 DEF Behind
<1>4. CASE MakeExists(q)
    <2>1. Doing(q) = "start" /\ pc' = NextStatement(q) /\ Statement(q).on \in Seen(q)
        BY <1>s, <1>4 DEF MakeExists
    <2>2. pc[q].at \in DOMAIN Migration /\ Seen(q)' = Seen(q) /\ made' = made
        BY <1>4, <2>1 DEF MakeExists, Running, Migration, Seen
    <2> QED
        BY <1>t, <1>4, <2>1, <2>2, StepsApart, StatementBehind DEF Step
<1>5. CASE MakeNew(q)
    <2>1. Makes(q, Objects(Statement(q).on)) /\ pc' = NextStatement(q)
        BY <1>f, <1>5 DEF MakeNew, Fail
    <2>2. Doing(q) = "start" /\ pc[q].at \in DOMAIN Migration
        BY <1>s, <1>5, <2>1 DEF MakeNew, Running, Migration
    <2>3. Statement(q).on \in Objects(Statement(q).on)
        BY DEF Objects
    <2>4. made[q] \subseteq made'[q] /\ Statement(q).on \in Seen(q)'
        BY <1>t, <2>1, <2>3 DEF Makes, Seen, Placed
    <2> QED
        BY <1>t, <1>5, <2>1, <2>2, <2>4, StepsApart, StatementBehind DEF Step
<1>6. CASE AddMissing(q)
    <2>1. Makes(q, {Statement(q).on}) /\ pc' = NextStatement(q)
        BY <1>f, <1>6 DEF AddMissing, Fail
    <2>2. Doing(q) = "start" /\ pc[q].at \in DOMAIN Migration
        BY <1>s, <1>6, <2>1 DEF AddMissing, Running, Migration
    <2>3. made[q] \subseteq made'[q] /\ Statement(q).on \in Seen(q)'
        BY <1>t, <2>1 DEF Makes, Seen, Placed
    <2> QED
        BY <1>t, <1>6, <2>1, <2>2, <2>3, StepsApart, StatementBehind DEF Step
<1>7. CASE TakeLock(q)
    <2>1. Doing(q) = "start" /\ pc' = NextStatement(q) /\ Statement(q).does = "lock"
        BY <1>s, <1>7 DEF TakeLock, Running
    <2>2. pc[q].at \in DOMAIN Migration /\ made' = made
        BY <1>7, <2>1 DEF TakeLock, Running, Migration
    <2> QED
        BY <1>t, <1>7, <2>1, <2>2, StepsApart, StatementBehind DEF Step
<1>8. CASE LookFor(q)
    <2>1. Doing(q) = "start"
        BY <1>t, <1>8 DEF LookFor, Doing
    <2>2. PICK at \in DOMAIN Migration :
              /\ at = pc[q].at /\ Statement(q) = Migration[at] /\ Migration[at].does = "look"
              /\ pc'[q].at = IF Migration[at].on \in schema THEN at + 2 ELSE at + 1
        BY <1>t, <1>8, <2>1 DEF LookFor, Running, Statement, Migration
    <2>3. Behind(at + 1) \subseteq Seen(q) /\ Seen(q)' = Seen(q)
        BY <1>t, <1>8, <2>1, <2>2, OneStatement DEF LookFor, Seen
    <2>4. /\ at + 1 \in DOMAIN Migration /\ Migration[at + 1].on = Migration[at].on
          /\ (at + 1) + 1 = at + 2
        BY <2>2, LookAndAdd, Backends, SqliteList, PostgresList
    <2>5. Behind(at + 2) \subseteq Behind(at + 1) \cup {Migration[at].on}
        BY <2>4, OneStatement
    <2> QED
        BY <2>2, <2>3, <2>5 DEF Seen
<1>9. Commit(q) \/ Crash(q) => FALSE
    BY <1>f DEF Commit, Crash
<1>10. Request(q) => FALSE
    BY <1>t, RequestsAssumption DEF Request, Doing, At
<1>11. ASSUME NEW p \in Processes, Start(p) \/ Step(p) \/ Request(p) \/ Crash(p)
       PROVE  Behind(pc'[q].at) \subseteq Seen(q)'
    BY <1>t, <1>2, <1>3, <1>4, <1>5, <1>6, <1>7, <1>8, <1>9, <1>10, <1>11, StepsApart DEF Step
<1>12. CASE UNCHANGED vars
    BY <1>1, <1>12 DEF vars
<1> QED
    BY <1>11, <1>12 DEF Next

\* Who serves after a step served before it, or has committed a whole start.
LEMMA ServingKept == ASSUME Inv, [Next]_vars PROVE ServesWholeSchema'
<1> SUFFICES ASSUME NEW q \in Processes, Doing(q)' \in {"serving"} \cup Requests
             PROVE  Needed \subseteq schema'
    BY DEF ServesWholeSchema
<1>t. /\ Placed /\ pc \in [Processes -> [doing: Doings, at: Nat]]
      /\ "start" \notin Requests /\ "down" \notin Requests /\ "failed" \notin Requests
    BY RequestsAssumption DEF Inv, Placed
<1>f. \A d : Ended(q, d) => Doing(q)' = d
    BY <1>t DEF Ended, Doing, At
<1>1. CASE Doing(q) \in {"serving"} \cup Requests /\ schema \subseteq schema'
    BY <1>1 DEF Inv, ServesWholeSchema
<1>2. CASE Commit(q)
    <2>1. CASE Doing(q) = "start"
        <3>1. Needed \subseteq Behind(pc[q].at)
            BY <1>t, <1>2, <2>1, WholeMigration DEF Commit, Migration
        <3> QED
            BY <1>2, <2>1, <3>1 DEF Commit, Inv, StartsHaveMade, Seen
    <2>2. CASE Doing(q) # "start"
        <3>1. Doing(q) \in Requests /\ schema \subseteq schema'
            BY <1>t, <1>2, <2>2 DEF Commit, Doing, Doings
        <3> QED
            BY <1>1, <3>1
    <2> QED
        BY <2>1, <2>2
<1>3. Doing(q)' = Doing(q) => Doing(q) \in {"serving"} \cup Requests
    OBVIOUS
<1>4. pc' = NextStatement(q) => Doing(q)' = Doing(q)
    BY <1>t DEF NextStatement, Doing
<1>5. Start(q) \/ Crash(q) \/ Fail(q) => FALSE
    <2>1. Start(q) => Doing(q)' = "start"
        BY <1>t DEF Start, Doing, At
    <2> QED
        BY <1>t, <1>f, <2>1 DEF Crash, Fail
<1>6. MakeExists(q) \/ MakeNew(q) \/ LookFor(q) \/ AddMissing(q) \/ TakeLock(q) => Doing(q)' = Doing(q)
    <2>1. LookFor(q) => Doing(q)' = Doing(q)
        BY <1>t DEF LookFor, Doing
    <2> QED
        BY <1>4, <1>5, <2>1 DEF MakeExists, MakeNew, AddMissing, TakeLock
<1>7. ASSUME NEW p \in Processes, Start(p) \/ Step(p) \/ Request(p) \/ Crash(p)
      PROVE  Needed \subseteq schema'
    <2>1. Apart(p)
        BY <1>t, <1>7, StepsApart
    <2>2. CASE p # q
        BY <1>1, <2>1, <2>2 DEF Apart, Doing
    <2>3. CASE p = q
        <3>1. Request(q) => Doing(q) = "serving"
            BY DEF Request
        <3> QED
            BY <1>1, <1>2, <1>3, <1>5, <1>6, <1>7, <2>1, <2>3, <3>1 DEF Apart, Step
    <2> QED
        BY <2>2, <2>3
<1>8. CASE UNCHANGED vars
    BY <1>1, <1>8 DEF vars, Doing
<1> QED
    BY <1>7, <1>8 DEF Next

LEMMA InitInv == ASSUME Init PROVE Inv
<1>1. \A p \in Processes : Doing(p) = "down"
    BY DEF Init, Doing, At
<1>2. Placed
    BY DEF Init, Placed, Doings, At
<1> QED
    BY <1>1, <1>2, RequestsAssumption DEF Inv, StartsHaveMade, ServesWholeSchema

\* What the invariant says holds of any number of processes, starts, crashes
\* and requests.
THEOREM InvHolds == Spec => []Inv
<1>1. Inv /\ [Next]_vars => Inv'
    BY PlacedKept, StartsKept, ServingKept DEF Inv
<1> QED
    BY <1>1, InitInv, PTL DEF Spec

\* A process serves only on all five tables and the added column, wherever
\* this start or an earlier one was cut off, and whoever else is starting.
THEOREM ServingIsOnWholeSchema == Spec => []ServesWholeSchema
<1>1. Inv => ServesWholeSchema
    BY DEF Inv
<1> QED
    BY <1>1, InvHolds, PTL

=============================================================================
