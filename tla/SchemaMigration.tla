-------------------------- MODULE SchemaMigration --------------------------
(***************************************************************************)
(* Starting the gateway: _migrate of SQLiteStore and of PostgresStore,     *)
(* statement by statement, killed and started again anywhere, on an empty, *)
(* an old or a current database, and on PostgreSQL while other processes   *)
(* start and serve. A request is the sequence of table locks its           *)
(* transaction takes; PgTransactions has what it does under them.          *)
(***************************************************************************)
EXTENDS Naturals, SequencesExt

CONSTANTS Processes,
          Requests,      \* the transactions that processes serve
          MaxCrashes,    \* bound: processes killed on PostgreSQL
          MaxRequests    \* bound: requests served

\* What Statements has the locks of.
ASSUME RequestsAssumption ==
    Requests \subseteq {"create", "purge", "replace", "finalize", "logout", "health", "import",
                        "rollback"}

VARIABLES backend,       \* "sqlite" or "postgres"
          schema,        \* committed: tables and the added column
          made,          \* made by the open transaction of each process
          locks,         \* table and advisory locks held
          pc,            \* what each process does, and at which statement
          crashes, requests
vars == <<backend, schema, made, locks, pc, crashes, requests>>

Tables == {"tickets", "challenges", "sessions", "wallets", "audit_log"}
Needed == Tables \cup {"failure_reason"}
Old == Tables

\* A statement makes an object if it is not there, looks for one, adds the
\* column it missed, or takes a lock.
Make(object) == [does |-> "make", on |-> object, mode |-> "none"]
Look(object) == [does |-> "look", on |-> object, mode |-> "none"]
Add(object)  == [does |-> "add",  on |-> object, mode |-> "none"]
Lock(object, mode) == [does |-> "lock", on |-> object, mode |-> mode]

\* The column comes with a table made by this start, as on PostgreSQL.
SqliteMigrationTablesOnly ==
    << Make("tickets"), Make("challenges"), Make("sessions"), Make("wallets"),
       Make("audit_log") >>

\* SQLiteStore._migrate: five tables, then the column that old databases lack
\* and that its own create statement does not have either.
SqliteMigration ==
    << Make("tickets"), Make("challenges"), Make("sessions"), Make("wallets"),
       Make("audit_log"), Look("failure_reason"), Add("failure_reason") >>

\* PostgresStore._lock_capacity
LockCapacity == Lock("capacity", "exclusive")

\* PostgresStore._migrate. "alter table ... if not exists" locks the table
\* before it looks, and so does "create index if not exists".
PostgresMigration ==
    << LockCapacity, Make("tickets"), Lock("tickets", "access exclusive"),
       Make("failure_reason"), Make("challenges"), Make("sessions"),
       Make("wallets"), Make("audit_log"),
       Lock("challenges", "share"), Lock("sessions", "share"), Lock("audit_log", "share") >>

\* The transactions of a serving process. Reads take "access share" of a table,
\* "for update" takes "row share", writes take "row exclusive".
Create == << LockCapacity, Lock("tickets", "access share"), Lock("tickets", "row exclusive") >>
Purge == << Lock("tickets", "row exclusive"), Lock("challenges", "row exclusive"),
            Lock("sessions", "row exclusive") >>

\* The old challenge is deleted before the ticket is locked.
ReplaceDeletesFirst ==
           << Lock("challenges", "row exclusive"), Lock("tickets", "row share"),
              Lock("tickets", "row exclusive"), Lock("audit_log", "row exclusive") >>
Replace == << Lock("tickets", "row share"), Lock("challenges", "row exclusive"),
              Lock("tickets", "row exclusive"), Lock("audit_log", "row exclusive") >>
Finalize == << Lock("tickets", "row share"), Lock("challenges", "row share"),
               Lock("wallets", "row share"), Lock("sessions", "row exclusive"),
               Lock("tickets", "row exclusive"), Lock("challenges", "row exclusive"),
               Lock("audit_log", "row exclusive") >>
Logout == << Lock("sessions", "row exclusive") >>
Ordered == <<"tickets", "challenges", "sessions", "wallets", "audit_log">>
Health == [i \in 1..5 |-> Lock(Ordered[i], "access share")]

\* The transfer tool counts or reads every table, then writes them: an import
\* in the order of its file, which is sorted.
Sorted == <<"audit_log", "challenges", "sessions", "tickets", "wallets">>
Import == Health \o [i \in 1..5 |-> Lock(Sorted[i], "row exclusive")]
Rollback == Health \o [i \in 1..5 |-> Lock(Ordered[i], "row exclusive")]

Statements(doing) ==
    CASE doing = "start" -> IF backend = "sqlite" THEN SqliteMigration ELSE PostgresMigration
      [] doing = "create" -> Create
      [] doing = "purge" -> Purge
      [] doing = "replace" -> Replace
      [] doing = "finalize" -> Finalize
      [] doing = "logout" -> Logout
      [] doing = "health" -> Health
      [] doing = "import" -> Import
      [] doing = "rollback" -> Rollback
      [] OTHER -> <<>>

\* PostgreSQL's table of conflicting lock modes.
Modes == {"access share", "row share", "row exclusive", "share", "exclusive",
          "access exclusive"}
Conflict(a, b) == {a, b} \in
    {{"access exclusive", m} : m \in Modes} \cup
    {{"exclusive", m} : m \in Modes \ {"access share"}} \cup
    {{"share", "row exclusive"}}

Doing(p) == pc[p].doing
Statement(p) == Statements(Doing(p))[pc[p].at]
Running(p, does) ==
    /\ Doing(p) \notin {"down", "serving", "failed"}
    /\ pc[p].at \in DOMAIN Statements(Doing(p))
    /\ Statement(p).does = does
At(doing, at) == [doing |-> doing, at |-> at]
NextStatement(p) == [pc EXCEPT ![p].at = @ + 1]

Ended(p, doing) ==
    /\ pc' = [pc EXCEPT ![p] = At(doing, 1)]
    /\ made' = [made EXCEPT ![p] = {}]
    /\ locks' = {l \in locks: l.by # p}
Fail(p) == Ended(p, "failed")

Seen(p) == schema \cup made[p]
MadeByOthers(p) == UNION {made[q] : q \in Processes \ {p}}

Init ==
    /\ backend \in {"sqlite", "postgres"}
    /\ schema \in {{}, Old, Needed}
    /\ made = [p \in Processes |-> {}]
    /\ locks = {}
    /\ pc = [p \in Processes |-> At("down", 1)]
    /\ crashes = 0 /\ requests = 0

\* A SQLite file belongs to one process.
Start(p) ==
    /\ Doing(p) = "down"
    /\ backend = "sqlite" => \A q \in Processes: Doing(q) = "down"
    /\ pc' = [pc EXCEPT ![p] = At("start", 1)]
    /\ UNCHANGED <<schema, made, locks, crashes, requests>>

\* What a statement makes is seen by others at the commit of its transaction;
\* SQLite commits each statement of a script by itself.
Makes(p, objects) ==
    IF backend = "sqlite"
    THEN schema' = schema \cup objects /\ UNCHANGED made
    ELSE made' = [made EXCEPT ![p] = @ \cup objects] /\ UNCHANGED schema

\* The new tickets table of PostgreSQL has the column.
Objects(object) ==
    IF backend = "postgres" /\ object = "tickets" THEN {"tickets", "failure_reason"}
    ELSE {object}

MakeExists(p) ==
    /\ Running(p, "make")
    /\ Statement(p).on \in Seen(p)
    /\ pc' = NextStatement(p)
    /\ UNCHANGED <<schema, made, locks, crashes, requests>>

\* On PostgreSQL "if not exists" does not see what another transaction is
\* making: the statement would wait in the catalog's unique index for the other
\* to commit, and fail.
MakeNew(p) ==
    /\ Running(p, "make")
    /\ Statement(p).on \notin Seen(p)
    /\ IF Statement(p).on \in MadeByOthers(p)
       THEN Fail(p) /\ UNCHANGED schema
       ELSE /\ Makes(p, Objects(Statement(p).on))
            /\ locks' = IF backend = "sqlite" THEN locks ELSE
                   locks \cup {[by |-> p, on |-> Statement(p).on, mode |-> "access exclusive"]}
            /\ pc' = NextStatement(p)
    /\ UNCHANGED <<crashes, requests>>

\* SQLite: the columns are read, and the column is added if it was not there.
LookFor(p) ==
    /\ Running(p, "look")
    /\ pc' = [pc EXCEPT ![p].at = IF Statement(p).on \in schema THEN @ + 2 ELSE @ + 1]
    /\ UNCHANGED <<schema, made, locks, crashes, requests>>

AddMissing(p) ==
    /\ Running(p, "add")
    /\ IF Statement(p).on \in schema
       THEN Fail(p) /\ UNCHANGED schema
       ELSE pc' = NextStatement(p) /\ Makes(p, {Statement(p).on}) /\ UNCHANGED locks
    /\ UNCHANGED <<crashes, requests>>

Blockers(p) == {l.by : l \in {k \in locks : /\ k.by # p /\ k.on = Statement(p).on
                                            /\ Conflict(k.mode, Statement(p).mode)}}
TakeLock(p) ==
    /\ Running(p, "lock")
    /\ Blockers(p) = {}
    /\ locks' = locks \cup {[by |-> p, on |-> Statement(p).on, mode |-> Statement(p).mode]}
    /\ pc' = NextStatement(p)
    /\ UNCHANGED <<schema, made, crashes, requests>>

\* The end of a migration or a request commits and releases.
Commit(p) ==
    /\ Doing(p) \notin {"down", "serving", "failed"}
    /\ pc[p].at > Len(Statements(Doing(p)))
    /\ schema' = schema \cup made[p]
    /\ Ended(p, "serving")
    /\ UNCHANGED <<crashes, requests>>

Request(p) ==
    /\ Doing(p) = "serving" /\ backend = "postgres"
    /\ requests < MaxRequests
    /\ requests' = requests + 1
    /\ \E r \in Requests: pc' = [pc EXCEPT ![p] = At(r, 1)]
    /\ UNCHANGED <<schema, made, locks, crashes>>

\* The process is killed, or its session lost: its transaction is undone.
Crash(p) ==
    /\ Doing(p) # "down"
    /\ IF backend = "sqlite" THEN UNCHANGED crashes
       ELSE crashes < MaxCrashes /\ crashes' = crashes + 1
    /\ Ended(p, "down")
    /\ UNCHANGED <<schema, requests>>

Step(p) == \/ MakeExists(p) \/ MakeNew(p) \/ LookFor(p) \/ AddMissing(p)
           \/ TakeLock(p) \/ Commit(p)
Next == /\ \E p \in Processes: Start(p) \/ Step(p) \/ Request(p) \/ Crash(p)
        /\ UNCHANGED backend

\* A statement is executed when it can be. PostgreSQL queues the waiters for a
\* lock, so none is passed over again and again.
Fairness == \A p \in Processes: SF_vars(Step(p) /\ UNCHANGED backend)
Spec == Init /\ [][Next]_vars /\ Fairness

-----------------------------------------------------------------------------

\* A process serves only on all five tables and the added column, wherever
\* this start or an earlier one was cut off, and whoever else is starting.
ServesWholeSchema ==
    \A p \in Processes: Doing(p) \in {"serving"} \cup Requests => Needed \subseteq schema

\* A start that is not killed ends by serving: it fails on nothing that an
\* earlier start, cut off anywhere, or one at the same time has made, and it
\* never waits in a circle with others that start or serve.
StartsFinish == \A p \in Processes: Doing(p) = "start" ~> Doing(p) \in {"serving", "down"}
=============================================================================
