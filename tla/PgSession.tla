------------------------------ MODULE PgSession ------------------------------
(***************************************************************************)
(* The database session of one PostgreSQL gateway process, and what        *)
(* becomes of an operation when it is lost.                                *)
(*                                                                         *)
(* An operation is a read (one statement outside a transaction) or a write *)
(* (begin, some statements, commit).  It holds the store's lock from the   *)
(* probe of ensure_ready to its end, so operations come one at a time; the *)
(* server may lose the session, or stop being a writable primary, at any   *)
(* point.  Only the statements of the application are counted: probe,      *)
(* begin, commit and rollback are not.                                     *)
(***************************************************************************)
EXTENDS Naturals

CONSTANTS
    Ops,        \* operations, in whatever order they get the lock
    N,          \* application statements of a write
    None,       \* no operation, no transaction
    MaxFaults   \* bound: sessions lost or demoted

ASSUME SizeAssumption == N \in Nat \ {0} /\ MaxFaults \in Nat
ASSUME NoneAssumption == None \notin Ops \cup [op: Ops, done: 0 .. N]

VARIABLES
    closed,    \* _conn.closed, as the client knows it
    server,    \* the server's end of the session: "primary", "readonly", "gone"
    txn,       \* the transaction open on the server: its operation and how many
               \* statements it holds; None when there is none
    cur,       \* the operation that holds the lock
    pc,        \* what it does next
    next,      \* the statement it sends next
    kind,      \* Ops -> "read" or "write", fixed when it starts
    sent,      \* Ops -> how often each of its statements was sent
    connects,  \* Ops -> how often it connected
    checked,   \* the operation that last found this session a primary
    durable,   \* operations whose writes are committed
    answer,    \* Ops -> "none", or what its caller was told: "ok", "error"
    faulty,    \* operations during which something failed outside the process
    faults     \* sessions lost or demoted so far

session == <<closed, server, txn, checked>>
history == <<sent, connects, durable, answer, faulty, faults>>
vars == <<session, cur, pc, next, kind, history>>

Statements == 1 .. N

Init ==
    /\ closed = FALSE
    /\ server = "primary"
    /\ txn = None
    /\ cur = None
    /\ pc = "free"
    /\ next = 1
    /\ kind = [o \in Ops |-> "read"]
    /\ sent = [o \in Ops |-> [k \in Statements |-> 0]]
    /\ connects = [o \in Ops |-> 0]
    /\ checked = None
    /\ durable = {}
    /\ answer = [o \in Ops |-> "none"]
    /\ faulty = {}
    /\ faults = 0

Finish(result) ==
    /\ answer' = [answer EXCEPT ![cur] = result]
    /\ cur' = None
    /\ pc' = "free"

\* close(): the server drops what the session had open.
Close == closed' = TRUE /\ txn' = None

\* Something outside the process failed while an operation had the lock.
Blame == faulty' = IF cur = None THEN faulty ELSE faulty \cup {cur}

----------------------------------------------------------------------------
(* ensure_ready                                                            *)

Start(o, k) ==
    /\ cur = None
    /\ answer[o] = "none"
    /\ cur' = o
    /\ kind' = [kind EXCEPT ![o] = k]
    /\ pc' = IF closed THEN "connect" ELSE "probe"
    /\ next' = 1
    /\ UNCHANGED <<session, history>>

\* Where the operation goes once the session is known to be a primary.
Ready == IF kind[cur] = "write" THEN "begin" ELSE "statement"

ProbeFinds ==
    /\ pc \in {"probe", "reprobe"}
    /\ server = "primary"
    /\ checked' = cur
    /\ pc' = Ready
    /\ UNCHANGED <<closed, server, txn, cur, next, kind, history>>

\* Mutant: a session found unusable fails the operation.
ProbeFailsForGood ==
    /\ pc = "probe"
    /\ server # "primary"
    /\ Close
    /\ Finish("error")
    /\ UNCHANGED <<server, checked, next, kind, sent, connects, durable, faulty, faults>>

\* The retained session is unusable: close it and connect.
ProbeFails ==
    /\ pc = "probe"
    /\ server # "primary"
    /\ Close
    /\ pc' = "connect"
    /\ UNCHANGED <<server, checked, cur, next, kind, history>>

\* Mutant: the new session is used as it is.
ConnectUnchecked ==
    /\ pc = "connect"
    /\ closed' = FALSE
    /\ server' = "primary"
    /\ txn' = None
    /\ checked' = None
    /\ connects' = [connects EXCEPT ![cur] = @ + 1]
    /\ pc' = Ready
    /\ UNCHANGED <<cur, next, kind, sent, durable, answer, faulty, faults>>

\* target_session_attrs="read-write" picks a server that is writable now.
Connect ==
    /\ pc = "connect"
    /\ closed' = FALSE
    /\ server' = "primary"
    /\ txn' = None
    /\ checked' = None
    /\ connects' = [connects EXCEPT ![cur] = @ + 1]
    /\ pc' = "reprobe"
    /\ UNCHANGED <<cur, next, kind, sent, durable, answer, faulty, faults>>

\* No server answers, or none is writable: the closed session stays.
ConnectFails ==
    /\ pc = "connect"
    /\ connects' = [connects EXCEPT ![cur] = @ + 1]
    /\ Blame
    /\ Finish("error")
    /\ UNCHANGED <<session, next, kind, sent, durable, faults>>

\* Mutant: a new session that is no primary is replaced again.
ReprobeFailsAgain ==
    /\ pc = "reprobe"
    /\ server # "primary"
    /\ Close
    /\ pc' = "connect"
    /\ UNCHANGED <<server, checked, cur, next, kind, history>>

\* The new session is no primary either: the operation fails.
ReprobeFails ==
    /\ pc = "reprobe"
    /\ server # "primary"
    /\ Close
    /\ Finish("error")
    /\ UNCHANGED <<server, checked, next, kind, sent, connects, durable, faulty, faults>>

----------------------------------------------------------------------------
(* The operation                                                           *)

\* A begin that finds the session gone raises before the try of atomic.
Begin ==
    /\ pc = "begin"
    /\ IF server = "gone"
       THEN Close /\ Finish("error")
       ELSE /\ txn' = [op |-> cur, done |-> 0]
            /\ pc' = "statement"
            /\ UNCHANGED <<closed, cur, answer>>
    /\ UNCHANGED <<server, checked, next, kind, sent, connects, durable, faulty, faults>>

Send == sent' = [sent EXCEPT ![cur][next] = @ + 1]

\* A primary executes anything.  A read-only server executes a read; of the
\* statements of a write it may execute some, but never all of them.
Executes ==
    \/ server = "primary"
    \/ server = "readonly" /\ (kind[cur] = "read" \/ next < N)

\* The session is gone, or the server answers 25006.
Refused == server = "gone" \/ (server = "readonly" /\ kind[cur] = "write")

StatementReturns ==
    /\ pc = "statement"
    /\ Executes
    /\ Send
    /\ IF kind[cur] = "read"
       THEN Finish("ok") /\ UNCHANGED <<txn, next>>
       ELSE /\ txn' = [txn EXCEPT !.done = @ + 1]
            /\ pc' = IF next = N THEN "commit" ELSE "statement"
            /\ next' = IF next = N THEN next ELSE next + 1
            /\ UNCHANGED <<cur, answer>>
    /\ UNCHANGED <<closed, server, checked, kind, connects, durable, faulty, faults>>

\* The database refuses the statement, or the transition itself raises (an
\* expired ticket, say): the session is sound.
StatementRaises ==
    /\ pc = "statement"
    /\ Executes
    /\ Send
    /\ Blame
    /\ IF kind[cur] = "read" THEN Finish("error")
       ELSE pc' = "rollback" /\ UNCHANGED <<cur, answer>>
    /\ UNCHANGED <<session, next, kind, connects, durable, faults>>

\* Mutant: a statement that lost its session is sent again on a new one.
StatementLostResent ==
    /\ pc = "statement"
    /\ Refused
    /\ Send
    /\ Close
    /\ pc' = "connect"
    /\ UNCHANGED <<server, checked, cur, next, kind, connects, durable, answer, faulty, faults>>

\* The connection is closed, and the error raised.
StatementLost ==
    /\ pc = "statement"
    /\ Refused
    /\ Send
    /\ Close
    /\ IF kind[cur] = "read" THEN Finish("error")
       ELSE pc' = "rollback" /\ UNCHANGED <<cur, answer>>
    /\ UNCHANGED <<server, checked, next, kind, connects, durable, faulty, faults>>

\* Mutant: a lost acknowledgement is answered as success.
CommitLostAnswersOk ==
    /\ pc = "commit"
    /\ \E committed \in {d \in BOOLEAN : d => server # "gone"} :
          durable' = IF committed THEN durable \cup {cur} ELSE durable
    /\ server' = "gone"
    /\ Close
    /\ Blame
    /\ Finish("ok")
    /\ UNCHANGED <<checked, next, kind, sent, connects, faults>>

Commit ==
    /\ pc = "commit"
    /\ server # "gone"
    /\ durable' = durable \cup {cur}
    /\ txn' = None
    /\ Finish("ok")
    /\ UNCHANGED <<closed, server, checked, next, kind, sent, connects, faulty, faults>>

\* The session is lost around the commit: before it took effect, or after,
\* when only the acknowledgement is missing.  Either way the call raises.
CommitLost ==
    /\ pc = "commit"
    /\ \E committed \in {d \in BOOLEAN : d => server # "gone"} :
          durable' = IF committed THEN durable \cup {cur} ELSE durable
    /\ server' = "gone"
    /\ Close
    /\ Blame
    /\ pc' = "rollback"
    /\ UNCHANGED <<checked, cur, next, kind, sent, connects, answer, faults>>

\* Mutant: the exception leaves the transaction open.
RollbackSkipped ==
    /\ pc = "rollback"
    /\ Finish("error")
    /\ UNCHANGED <<session, next, kind, sent, connects, durable, faulty, faults>>

\* Mutant: rollback waits for the server's reply.
RollbackWaits ==
    /\ pc = "rollback"
    /\ server # "gone"
    /\ txn' = None
    /\ Finish("error")
    /\ UNCHANGED <<closed, server, checked, next, kind, sent, connects, durable, faulty, faults>>

\* rollback: nothing on a closed session; one that fails closes it.
Rollback ==
    /\ pc = "rollback"
    /\ closed' = (closed \/ server = "gone")
    /\ txn' = None
    /\ Finish("error")
    /\ UNCHANGED <<server, checked, next, kind, sent, connects, durable, faulty, faults>>

----------------------------------------------------------------------------
(* The server                                                              *)

\* The server ends the session and rolls back; the client does not know yet.
SessionLost ==
    /\ faults < MaxFaults
    /\ ~ closed
    /\ server # "gone"
    /\ server' = "gone"
    /\ txn' = None
    /\ faults' = faults + 1
    /\ Blame
    /\ UNCHANGED <<closed, checked, cur, pc, next, kind, sent, connects, durable, answer>>

\* A switchover that leaves the session connected, to a standby now.
Demoted ==
    /\ faults < MaxFaults
    /\ ~ closed
    /\ server = "primary"
    /\ txn = None
    /\ server' = "readonly"
    /\ faults' = faults + 1
    /\ Blame
    /\ UNCHANGED <<closed, txn, checked, cur, pc, next, kind, sent, connects, durable, answer>>

Step ==
    \/ ProbeFinds \/ ProbeFails \/ Connect \/ ConnectFails \/ ReprobeFails
    \/ Begin \/ StatementReturns \/ StatementRaises \/ StatementLost
    \/ Commit \/ CommitLost \/ Rollback

\* Every operation has been answered; there is nothing left to ask.
Done == cur = None /\ (\A o \in Ops : answer[o] # "none") /\ UNCHANGED vars

Next ==
    \/ \E o \in Ops, k \in {"read", "write"} : Start(o, k)
    \/ Step
    \/ SessionLost
    \/ Demoted
    \/ Done

\* A thread that has the lock goes on; connecting has a timeout.
Spec == Init /\ [][Next]_vars /\ WF_vars(Step)

----------------------------------------------------------------------------
(* Properties                                                              *)

\* The session, the operation and the histories hold values of their types.
TypeOK ==
    /\ closed \in BOOLEAN
    /\ server \in {"primary", "readonly", "gone"}
    /\ txn \in [op: Ops, done: 0 .. N] \cup {None}
    /\ cur \in Ops \cup {None}
    /\ next \in Statements
    /\ pc \in {"free", "probe", "connect", "reprobe", "begin", "statement", "commit", "rollback"}
    /\ kind \in [Ops -> {"read", "write"}]
    /\ sent \in [Ops -> [Statements -> Nat]]
    /\ connects \in [Ops -> Nat]
    /\ checked \in Ops \cup {None}
    /\ durable \subseteq Ops
    /\ answer \in [Ops -> {"none", "ok", "error"}]
    /\ faulty \subseteq Ops
    /\ faults \in 0 .. MaxFaults

\* "Application SQL is never repeated": whatever was lost, no statement of an
\* operation is sent a second time.
SentAtMostOnce == \A o \in Ops, k \in Statements : sent[o][k] <= 1

\* "A retained session ... is replaced at most once".
ConnectsAtMostOnce == \A o \in Ops : connects[o] <= 1

\* A caller is told "ok" only of a write that is committed, and a committed
\* write holds all its statements.  ("error" promises nothing.)
OkIsDurable ==
    \A o \in Ops :
        /\ answer[o] = "ok" /\ kind[o] = "write" => o \in durable
        /\ o \in durable => \A k \in Statements : sent[o][k] = 1

\* An operation's transaction ends with it, however it failed: the next one
\* neither joins it nor commits its writes.
NoTransactionLeft == txn # None => txn.op = cur

\* An operation fails only if something failed while it ran: a session lost
\* before it started is replaced without its caller noticing.
ErrorsHaveCause == \A o \in Ops : answer[o] = "error" => o \in faulty

\* Application SQL goes only to a session that this operation itself found
\* to be a writable primary.
SendsOnlyIfChecked == sent' # sent => checked = cur

SentOnlyIfChecked == [][SendsOnlyIfChecked]_vars

\* Every operation that got the lock is answered and gives the lock back.
LockIsGivenBack == cur # None ~> cur = None

----------------------------------------------------------------------------
(* The inductive invariant of PgSessionProofs                              *)

Opening == {"probe", "connect", "reprobe", "begin"}

HolderIsUnanswered ==
    /\ pc = "free" <=> cur = None
    /\ cur # None => answer[cur] = "none"
    /\ pc \in {"begin", "commit", "rollback"} => kind[cur] = "write"

UnstartedIsClean ==
    \A o \in Ops :
        answer[o] = "none" /\ o # cur =>
            /\ connects[o] = 0
            /\ o \notin durable
            /\ \A k \in Statements : sent[o][k] = 0

\* Statements are sent in order, and none before the session is checked.
SentInOrder ==
    /\ pc \in Opening => next = 1
    /\ pc \in Opening \cup {"statement"} =>
          \A k \in Statements : sent[cur][k] = IF k < next THEN 1 ELSE 0
    /\ pc = "commit" => \A k \in Statements : sent[cur][k] = 1
    /\ pc \in {"probe", "connect"} => connects[cur] = 0
    /\ pc \in {"begin", "statement"} => checked = cur

TransactionIsCurrent ==
    /\ txn # None =>
          /\ pc \in {"statement", "commit", "rollback"}
          /\ txn.op = cur
          /\ kind[cur] = "write"
          /\ pc = "statement" => txn.done = next - 1
    /\ pc \in {"statement", "commit"} /\ kind[cur] = "write" /\ server # "gone" => txn # None

\* A checked session is a primary, or it was lost during this operation.
FailureIsBlamed ==
    /\ pc \in {"reprobe", "begin", "statement", "commit"} /\ server # "primary" => cur \in faulty
    /\ pc = "rollback" => cur \in faulty

Inv ==
    /\ TypeOK
    /\ HolderIsUnanswered
    /\ UnstartedIsClean
    /\ SentInOrder
    /\ TransactionIsCurrent
    /\ FailureIsBlamed
    /\ SentAtMostOnce
    /\ ConnectsAtMostOnce
    /\ OkIsDurable
    /\ ErrorsHaveCause

=============================================================================
