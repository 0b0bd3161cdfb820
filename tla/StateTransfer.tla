--------------------------- MODULE StateTransfer ---------------------------
(***************************************************************************)
(* tools/state_transfer.py: export, import and rollback, statement by      *)
(* statement, while a gateway writes to one of the two databases and       *)
(* operators stop, start and move it as docs/shared-runtime.md says.       *)
(* PostgreSQL transactions are READ COMMITTED: each statement sees what is *)
(* committed when it runs, and what its own transaction did.               *)
(***************************************************************************)
EXTENDS Integers, FiniteSets, Sequences, SequencesExt

CONSTANTS
    Tools,         \* runs of the command at the same time
    None,
    Keyed,         \* the tables with text keys, in the order of COLUMNS
    Backend,       \* Stores -> {"sqlite", "postgres"}
    MaxWrites,     \* bound: writes of the gateway, by whether operators are careful
    MaxRuns        \* bound: commands the operators run, likewise

Stores == {"source", "target"}
Tables == Append(Keyed, "audit_log")
Names == Range(Tables)

ASSUME TablesAssumption ==
    /\ Keyed \in Seq(STRING) /\ "audit_log" \notin Range(Keyed)
    /\ \A i, j \in DOMAIN Keyed : Keyed[i] = Keyed[j] => i = j
ASSUME BackendAssumption == Backend \in [Stores -> {"sqlite", "postgres"}]
ASSUME BoundsAssumption == {MaxWrites, MaxRuns} \subseteq [BOOLEAN -> Nat]

VARIABLES
    careful,   \* do these operators stop the gateway as documented?
    rows,      \* committed: Stores -> tables -> keys; audit_log's keys are ids
    lastId,    \* Stores -> the audit sequence: not part of any transaction
    tool,      \* Tools -> the command in progress, or None
    file,      \* the bundle's file: None, Torn, or a bundle
    reported,  \* bundles whose digest an export printed
    gateway,   \* the store the gateway runs on, or None
    authority, \* the store the operators start it on, None until they decide
    fresh,     \* the gateway has not run since the last export
    accepted,  \* writes the gateway acknowledged
    runs

vars == <<careful, rows, lastId, tool, file, reported, gateway, authority, fresh, accepted, runs>>
gatewayVars == <<gateway, authority, fresh, accepted>>

Torn == <<>>   \* created, and nothing complete in it

\* A bundle is the rows of each table, and stands for its own digest: they are
\* listed `order by' their key, alike in both databases.
Bundles == [Names -> {keys \in SUBSET Nat : IsFiniteSet(keys)}]
NoRows == [t \in Names |-> {}]

\* A command: what it read, and what its transaction inserted and deleted.
Commands ==
    [op : {"export", "import", "rollback"}, store : Stores, i : 1 .. Len(Tables) + 1,
     at : {"snapshot", "write", "count", "insert", "delete"}, bundle : Bundles \cup {None},
     snap : Bundles, added : Bundles, deleted : Bundles, late : Bundles]

ASSUME NoneAssumption == None \notin Stores \cup Commands \cup Bundles \cup {Torn}
-----------------------------------------------------------------------------
(* Transactions *)

\* What a statement of run o sees of table t.
Sees(o, t) == (rows[tool[o].store][t] \ tool[o].deleted[t]) \cup tool[o].added[t]

\* Rows another run's open transaction inserted or deleted: a statement waits.
Pending(o, t) ==
    UNION {tool[p].added[t] \cup tool[p].deleted[t] :
               p \in {q \in Tools \ {o} : tool[q] # None /\ tool[q].store = tool[o].store}}

\* `begin immediate' of SQLite keeps every other writer out.
Locked(s) ==
    Backend[s] = "sqlite" /\ \E o \in Tools : tool[o] # None /\ tool[o].store = s /\ tool[o].op # "export"

Goto(o, at) == tool' = [tool EXCEPT ![o].at = at, ![o].i = 1]
Step(o, run) == tool' = [tool EXCEPT ![o] = [run EXCEPT !.i = @ + 1]]
Ready(o, at) == tool[o] # None /\ tool[o].at = at
More(o) == tool[o].i <= Len(Tables)
Table(o) == Tables[tool[o].i]

\* Mutant: what an aborted import inserted stays.
AbortKeeps(o) ==
    /\ tool' = [tool EXCEPT ![o] = None]
    /\ rows' = [rows EXCEPT ![tool[o].store] = [t \in Names |-> @[t] \cup tool[o].added[t]]]

Abort(o) == tool' = [tool EXCEPT ![o] = None] /\ UNCHANGED rows

\* History: a rollback in progress notes what is committed beside it.
Noted(p, s, new) ==
    IF tool[p] # None /\ tool[p].op = "rollback" /\ tool[p].store = s
    THEN [tool[p] EXCEPT !.late = [t \in Names |-> @[t] \cup new[t]]]
    ELSE tool[p]

Commit(o) ==
    /\ tool' = [p \in Tools |-> IF p = o THEN None ELSE Noted(p, tool[o].store, tool[o].added)]
    /\ rows' = [rows EXCEPT ![tool[o].store] = [t \in Names |-> Sees(o, t)]]

-----------------------------------------------------------------------------
(* The command *)

Init ==
    /\ careful \in BOOLEAN
    /\ rows = [s \in Stores |-> NoRows] /\ lastId = [s \in Stores |-> 0]
    /\ tool = [o \in Tools |-> None]
    /\ file = None /\ reported = {}
    /\ gateway = "source" /\ authority = "source" /\ fresh = FALSE
    /\ accepted = {} /\ runs = 0

Begin(o, op, s, at, bundle) ==
    /\ tool[o] = None /\ runs < MaxRuns[careful] /\ ~ Locked(s)
    /\ careful => gateway = None
    /\ runs' = runs + 1
    /\ tool' = [tool EXCEPT ![o] =
                 [op |-> op, store |-> s, at |-> at, i |-> 1, bundle |-> bundle, snap |-> NoRows,
                  added |-> NoRows, deleted |-> NoRows, late |-> NoRows]]
    /\ authority' = IF op = "rollback" THEN None ELSE authority
    /\ UNCHANGED <<rows, lastId, file, reported, gateway, fresh, accepted>>

BeginExport(o, s) == Begin(o, "export", s, "snapshot", None)

\* The file is read, validated and compared with --expected-sha256 first.
BeginImport(o) ==
    /\ file \in reported
    /\ careful => fresh /\ \A p \in Tools : tool[p] # None => tool[p].op # "rollback"
    /\ Begin(o, "import", "target", "count", file)

\* The operators pass the digest of any export.  Careful ones begin a rollback
\* alone, and no import beside it; an import may meet a retry of itself.
BeginRollback(o) ==
    /\ careful => \A p \in Tools : tool[p] = None
    /\ \E bundle \in reported : Begin(o, "rollback", "target", "snapshot", bundle)

\* _snapshot: one select per table; a transaction of SQLite sees one state.
Snapshot(o) ==
    /\ Ready(o, "snapshot") /\ More(o)
    /\ IF Backend[tool[o].store] = "sqlite"
       THEN tool' = [tool EXCEPT ![o].snap = [t \in Names |-> Sees(o, t)], ![o].i = Len(Tables) + 1]
       ELSE Step(o, [tool[o] EXCEPT !.snap[Table(o)] = Sees(o, Table(o))])

\* write_bundle opens the file exclusively, then fills it.
OpenBundle(o) ==
    /\ Ready(o, "snapshot") /\ ~ More(o) /\ tool[o].op = "export"
    /\ IF file = None THEN file' = Torn /\ Goto(o, "write") ELSE Abort(o) /\ UNCHANGED file
    /\ UNCHANGED <<rows, lastId, reported, gatewayVars, runs>>

WriteBundle(o) ==
    /\ Ready(o, "write")
    /\ file' = tool[o].snap /\ reported' = reported \cup {tool[o].snap}
    /\ fresh' = (gateway = None /\ tool[o].store = authority)
    /\ Abort(o)
    /\ UNCHANGED <<lastId, gateway, authority, accepted, runs>>

CountTable(o) ==
    /\ Ready(o, "count")
    /\ IF ~ More(o) THEN Goto(o, "insert") /\ UNCHANGED rows
       ELSE IF Sees(o, Table(o)) # {} THEN Abort(o)
       ELSE Step(o, tool[o]) /\ UNCHANGED rows

\* The file has its tables sorted by name, and they are imported as it has them.
FileOrder == <<"audit_log">> \o Keyed

\* The inserts into one table: a key committed meanwhile is a unique violation.
InsertTable(o) ==
    /\ Ready(o, "insert") /\ More(o)
    /\ LET t == FileOrder[tool[o].i]
           new == tool[o].bundle[t]
       IN  /\ new \cap Pending(o, t) = {}
           /\ IF new \cap Sees(o, t) # {} THEN Abort(o)
              ELSE Step(o, [tool[o] EXCEPT !.added[t] = new]) /\ UNCHANGED rows

\* Mutant: the sequence is left where it was.
SetvalSkipped(o) == UNCHANGED lastId

\* setval takes effect at once and outlives the transaction.  SQLite's own
\* sequence follows the inserts and never goes back.
Setval(o) ==
    LET s == tool[o].store
        least == IF Backend[s] = "postgres" THEN 0 ELSE lastId[s]
    IN  lastId' = [lastId EXCEPT ![s] = Max({least} \cup tool[o].bundle["audit_log"])]

AfterInsert(o) ==
    /\ Ready(o, "insert") /\ ~ More(o)
    /\ Setval(o) /\ Goto(o, "snapshot")
    /\ UNCHANGED <<rows, file, reported, gatewayVars, runs>>

\* Mutant: the digest is not compared.
SameDigestAlways(o) == TRUE

SameDigest(o) == tool[o].snap = tool[o].bundle

\* The roundtrip check; then import commits.  Its report, with which the
\* operators move the authority, may be lost.
FinishImport(o) ==
    /\ Ready(o, "snapshot") /\ ~ More(o) /\ tool[o].op = "import"
    /\ IF ~ SameDigest(o) THEN Abort(o) /\ UNCHANGED authority
       ELSE Commit(o) /\ authority' \in {authority, "target"}
    /\ UNCHANGED <<lastId, file, reported, gateway, fresh, accepted, runs>>

CompareRollback(o) ==
    /\ Ready(o, "snapshot") /\ ~ More(o) /\ tool[o].op = "rollback"
    /\ IF SameDigest(o) THEN Goto(o, "delete") /\ UNCHANGED rows ELSE Abort(o)

\* `delete from <table>': whatever is committed by now.
DeleteTable(o) ==
    /\ Ready(o, "delete") /\ More(o)
    /\ Sees(o, Table(o)) \cap Pending(o, Table(o)) = {}
    /\ Step(o, [tool[o] EXCEPT !.deleted[Table(o)] = Sees(o, Table(o))])

FinishRollback(o) == Ready(o, "delete") /\ ~ More(o) /\ Commit(o)

Plain == UNCHANGED <<lastId, file, reported, gatewayVars, runs>>

\* The command dies, or its connection does.
Crash(o) == tool[o] # None /\ Abort(o) /\ Plain

-----------------------------------------------------------------------------
(* The gateway and its operators *)

\* One transaction that writes a row of every table, as finalize_approval.
Write ==
    LET s == gateway
        w == Cardinality(accepted) + 1
        id == lastId[s] + 1
        new == [t \in Names |-> {IF t = "audit_log" THEN id ELSE w}]
    IN  /\ s # None /\ w <= MaxWrites[careful] /\ ~ Locked(s)
        /\ \A o \in Tools : tool[o] # None /\ tool[o].store = s => id \notin tool[o].added["audit_log"]
        /\ lastId' = [lastId EXCEPT ![s] = id]
        /\ IF id \in rows[s]["audit_log"] THEN UNCHANGED <<rows, accepted, tool>>
           ELSE /\ rows' = [rows EXCEPT ![s] = [t \in Names |-> @[t] \cup new[t]]]
                /\ accepted' = accepted \cup {w}
                /\ tool' = [p \in Tools |-> Noted(p, s, new)]
        /\ UNCHANGED <<file, reported, gateway, authority, fresh, runs>>

Stop == gateway # None /\ gateway' = None /\ UNCHANGED <<rows, lastId, tool, file, reported, authority, fresh, accepted, runs>>

Start ==
    /\ gateway = None /\ authority # None /\ (careful => \A o \in Tools : tool[o] = None)
    /\ gateway' = authority /\ fresh' = FALSE
    /\ UNCHANGED <<rows, lastId, tool, file, reported, authority, accepted, runs>>

\* After a rollback, whatever came of it, routing goes to a store by which no
\* accepted write is lost.
Decide ==
    /\ authority = None /\ (\A o \in Tools : tool[o] = None)
    /\ \E s \in Stores : accepted \subseteq rows[s][Keyed[1]] /\ authority' = s
    /\ UNCHANGED <<rows, lastId, tool, file, reported, gateway, fresh, accepted, runs>>

\* The operators put a bundle away, or clean up after a torn one.
MoveFile ==
    /\ file # None /\ (\A o \in Tools : tool[o] = None) /\ file' = None
    /\ UNCHANGED <<rows, lastId, tool, reported, gatewayVars, runs>>

Command(o) ==
    \/ \E s \in Stores : BeginExport(o, s)
    \/ BeginImport(o) \/ BeginRollback(o)
    \/ (Snapshot(o) \/ DeleteTable(o)) /\ UNCHANGED rows /\ Plain
    \/ (CountTable(o) \/ InsertTable(o) \/ CompareRollback(o) \/ FinishRollback(o)) /\ Plain
    \/ OpenBundle(o) \/ WriteBundle(o) \/ AfterInsert(o)
    \/ FinishImport(o) \/ Crash(o)

Next ==
    /\ (\E o \in Tools : Command(o)) \/ Write \/ Stop \/ Start \/ Decide \/ MoveFile
    /\ UNCHANGED careful

Spec == Init /\ [][Next]_vars
-----------------------------------------------------------------------------
(* Properties *)

\* With the gateway stopped as documented, whatever store it runs on has every
\* write it ever acknowledged, and no audit row has the id it gives out next:
\* neither an import that stopped half way, nor a retry, nor a rollback, nor a
\* sequence set by an import that came to nothing leaves it on less.
AcceptedServed ==
    (careful /\ gateway # None) =>
        /\ \A t \in Range(Keyed) : accepted \subseteq rows[gateway][t]
        /\ lastId[gateway] + 1 \notin rows[gateway]["audit_log"]

\* With the gateway stopped likewise, an import fills an empty target with one
\* whole bundle and a rollback empties it of one, or they change nothing.
ImportIsWhole ==
    [][careful /\ rows'["target"] # rows["target"] /\ gateway # "target" =>
         {rows["target"], rows'["target"]} \in {{NoRows, b} : b \in reported}]_vars

\* What a rollback deletes was in the digest's state, or was committed after the
\* rollback began by a gateway nobody had stopped.
RollbackLosesOnlyLate ==
    [][\A o \in Tools : (Ready(o, "delete") /\ rows' # rows /\ tool'[o] = None) =>
         \A t \in Names : rows["target"][t] \ rows'["target"][t] \subseteq
             tool[o].bundle[t] \cup tool[o].late[t]]_vars
=============================================================================
