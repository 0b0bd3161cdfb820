--------------------------- MODULE PgSessionProofs ---------------------------
(***************************************************************************)
(* Proofs about PgSession for every number of operations, statements and   *)
(* faults: each part of the invariant is kept by every action.             *)
(***************************************************************************)
EXTENDS PgSession, TLAPS

\* Values keep their types: a transaction never holds more than N statements.
LEMMA TypeOKKept == Inv /\ [Next]_vars => TypeOK'
<1> SUFFICES ASSUME Inv, [Next]_vars PROVE TypeOK'
    OBVIOUS
<1> USE SizeAssumption, NoneAssumption
    DEF Inv, HolderIsUnanswered, TransactionIsCurrent, TypeOK, Statements,
        session, history
<1>1. ASSUME NEW o \in Ops, NEW k \in {"read", "write"}, Start(o, k) PROVE TypeOK'
    BY <1>1 DEF Start
<1>2. CASE ProbeFinds
    BY <1>2 DEF ProbeFinds, Ready
<1>3. CASE ProbeFails
    BY <1>3 DEF ProbeFails, Close
<1>4. CASE Connect
    <2>1. cur \in Ops
        BY <1>4 DEF Connect
    <2>2. [connects EXCEPT ![cur] = @ + 1] \in [Ops -> Nat]
        BY <2>1
    <2> QED
        BY <1>4, <2>2 DEF Connect
<1>5. CASE ConnectFails
    BY <1>5 DEF ConnectFails, Finish, Blame
<1>6. CASE ReprobeFails
    BY <1>6 DEF ReprobeFails, Finish, Close
<1>7. CASE Begin
    <2>1. cur \in Ops /\ 0 \in 0 .. N
        BY <1>7 DEF Begin
    <2>2. [op |-> cur, done |-> 0] \in [op: Ops, done: 0 .. N]
        BY <2>1
    <2>3. txn' \in [op: Ops, done: 0 .. N] \cup {None}
        BY <1>7, <2>2 DEF Begin, Close
    <2>4. /\ closed' \in BOOLEAN
          /\ cur' \in Ops \cup {None}
          /\ pc' \in {"free", "statement"}
          /\ answer' \in [Ops -> {"none", "ok", "error"}]
        BY <1>7 DEF Begin, Finish, Close
    <2> QED
        BY <1>7, <2>3, <2>4 DEF Begin
<1>8. CASE StatementReturns
    <2>1. cur \in Ops
        BY <1>8 DEF StatementReturns
    <2>2. sent' \in [Ops -> [Statements -> Nat]]
        BY <1>8, <2>1 DEF StatementReturns, Send
    <2>3. CASE kind[cur] = "read"
        <3>1. /\ answer' \in [Ops -> {"none", "ok", "error"}]
              /\ cur' = None /\ pc' = "free" /\ txn' = txn /\ next' = next
            BY <1>8, <2>1, <2>3 DEF StatementReturns, Finish
        <3> QED
            BY <1>8, <2>2, <3>1 DEF StatementReturns
    <2>4. CASE kind[cur] = "write"
        <3>1. txn \in [op: Ops, done: 0 .. N] /\ txn.done = next - 1
            BY <1>8, <2>4 DEF StatementReturns, Executes
        <3>2. txn.done + 1 \in 0 .. N
            BY <3>1
        <3>3. [txn EXCEPT !.done = @ + 1] \in [op: Ops, done: 0 .. N]
            BY <3>1, <3>2
        <3>4. /\ next' = (IF next = N THEN next ELSE next + 1)
              /\ pc' \in {"commit", "statement"}
              /\ txn' = [txn EXCEPT !.done = @ + 1]
              /\ cur' = cur /\ answer' = answer
            BY <1>8, <2>4 DEF StatementReturns
        <3>5. next' \in Statements
            BY <3>4
        <3> QED
            BY <1>8, <2>2, <3>3, <3>4, <3>5 DEF StatementReturns
    <2> QED
        BY <2>1, <2>3, <2>4
<1>9. CASE StatementRaises
    BY <1>9 DEF StatementRaises, Finish, Send, Blame, Executes
<1>10. CASE StatementLost
    BY <1>10 DEF StatementLost, Finish, Send, Close, Refused
<1>11. CASE Commit
    BY <1>11 DEF Commit, Finish
<1>12. CASE CommitLost
    BY <1>12 DEF CommitLost, Close, Blame
<1>13. CASE Rollback
    BY <1>13 DEF Rollback, Finish
<1>14. CASE SessionLost
    BY <1>14 DEF SessionLost, Blame
<1>15. CASE Demoted
    BY <1>15 DEF Demoted, Blame
<1>16. CASE UNCHANGED vars
    BY <1>16 DEF vars
<1> HIDE DEF Inv, TypeOK
<1> QED
    BY <1>1, <1>2, <1>3, <1>4, <1>5, <1>6, <1>7, <1>8, <1>9, <1>10, <1>11, <1>12, <1>13, <1>14, <1>15, <1>16
       DEF Next, Step, Done

\* The holder of the lock has no answer yet; free means nobody holds it.
LEMMA HolderIsUnansweredKept == Inv /\ [Next]_vars => HolderIsUnanswered'
<1> SUFFICES ASSUME Inv, [Next]_vars PROVE HolderIsUnanswered'
    OBVIOUS
<1> USE SizeAssumption, NoneAssumption
    DEF Inv, TypeOK, HolderIsUnanswered, Statements,
        session, history
<1>1. ASSUME NEW o \in Ops, NEW k \in {"read", "write"}, Start(o, k) PROVE HolderIsUnanswered'
    BY <1>1 DEF Start
<1>2. CASE ProbeFinds
    BY <1>2 DEF ProbeFinds, Ready
<1>3. CASE ProbeFails
    BY <1>3 DEF ProbeFails, Close
<1>4. CASE Connect
    BY <1>4 DEF Connect
<1>5. CASE ConnectFails
    BY <1>5 DEF ConnectFails, Finish, Blame
<1>6. CASE ReprobeFails
    BY <1>6 DEF ReprobeFails, Finish, Close
<1>7. CASE Begin
    BY <1>7 DEF Begin, Finish, Close
<1>8. CASE StatementReturns
    BY <1>8 DEF StatementReturns, Finish, Send, Executes
<1>9. CASE StatementRaises
    BY <1>9 DEF StatementRaises, Finish, Send, Blame, Executes
<1>10. CASE StatementLost
    BY <1>10 DEF StatementLost, Finish, Send, Close, Refused
<1>11. CASE Commit
    BY <1>11 DEF Commit, Finish
<1>12. CASE CommitLost
    BY <1>12 DEF CommitLost, Close, Blame
<1>13. CASE Rollback
    BY <1>13 DEF Rollback, Finish
<1>14. CASE SessionLost
    BY <1>14 DEF SessionLost, Blame
<1>15. CASE Demoted
    BY <1>15 DEF Demoted, Blame
<1>16. CASE UNCHANGED vars
    BY <1>16 DEF vars
<1> QED
    BY <1>1, <1>2, <1>3, <1>4, <1>5, <1>6, <1>7, <1>8, <1>9, <1>10, <1>11, <1>12, <1>13, <1>14, <1>15, <1>16
       DEF Next, Step, Done

\* An operation that has not started sent, connected and committed nothing.
LEMMA UnstartedIsCleanKept == Inv /\ [Next]_vars => UnstartedIsClean'
<1> SUFFICES ASSUME Inv, [Next]_vars PROVE UnstartedIsClean'
    OBVIOUS
<1> USE SizeAssumption, NoneAssumption
    DEF Inv, TypeOK, HolderIsUnanswered, UnstartedIsClean, Statements, Opening,
        session, history
<1>1. ASSUME NEW o \in Ops, NEW k \in {"read", "write"}, Start(o, k) PROVE UnstartedIsClean'
    BY <1>1 DEF Start
<1>2. CASE ProbeFinds
    BY <1>2 DEF ProbeFinds, Ready
<1>3. CASE ProbeFails
    BY <1>3 DEF ProbeFails, Close
<1>4. CASE Connect
    BY <1>4 DEF Connect
<1>5. CASE ConnectFails
    BY <1>5 DEF ConnectFails, Finish, Blame
<1>6. CASE ReprobeFails
    BY <1>6 DEF ReprobeFails, Finish, Close
<1>7. CASE Begin
    <2>1. CASE server = "gone"
        BY <1>7, <2>1 DEF Begin, Finish, Close
    <2>2. CASE server # "gone"
        BY <1>7, <2>2 DEF Begin
    <2> QED
        BY <2>1, <2>2
<1>8. CASE StatementReturns
    BY <1>8 DEF StatementReturns, Finish, Send, Executes
<1>9. CASE StatementRaises
    BY <1>9 DEF StatementRaises, Finish, Send, Blame, Executes
<1>10. CASE StatementLost
    BY <1>10 DEF StatementLost, Finish, Send, Close, Refused
<1>11. CASE Commit
    BY <1>11 DEF Commit, Finish
<1>12. CASE CommitLost
    BY <1>12 DEF CommitLost, Close, Blame
<1>13. CASE Rollback
    BY <1>13 DEF Rollback, Finish
<1>14. CASE SessionLost
    BY <1>14 DEF SessionLost, Blame
<1>15. CASE Demoted
    BY <1>15 DEF Demoted, Blame
<1>16. CASE UNCHANGED vars
    BY <1>16 DEF vars
<1> QED
    BY <1>1, <1>2, <1>3, <1>4, <1>5, <1>6, <1>7, <1>8, <1>9, <1>10, <1>11, <1>12, <1>13, <1>14, <1>15, <1>16
       DEF Next, Step, Done

\* A lost statement ends its operation's sending, so "next" tells what was sent.
LEMMA SentInOrderKept == Inv /\ [Next]_vars => SentInOrder'
<1> SUFFICES ASSUME Inv, [Next]_vars PROVE SentInOrder'
    OBVIOUS
<1> USE SizeAssumption, NoneAssumption
    DEF Inv, TypeOK, HolderIsUnanswered, UnstartedIsClean, SentInOrder, Statements, Opening,
        session, history
<1>1. ASSUME NEW o \in Ops, NEW k \in {"read", "write"}, Start(o, k) PROVE SentInOrder'
    BY <1>1 DEF Start
<1>2. CASE ProbeFinds
    BY <1>2 DEF ProbeFinds, Ready
<1>3. CASE ProbeFails
    BY <1>3 DEF ProbeFails, Close
<1>4. CASE Connect
    BY <1>4 DEF Connect
<1>5. CASE ConnectFails
    BY <1>5 DEF ConnectFails, Finish, Blame
<1>6. CASE ReprobeFails
    BY <1>6 DEF ReprobeFails, Finish, Close
<1>7. CASE Begin
    BY <1>7 DEF Begin, Finish, Close
<1>8. CASE StatementReturns
    BY <1>8 DEF StatementReturns, Finish, Send, Executes
<1>9. CASE StatementRaises
    BY <1>9 DEF StatementRaises, Finish, Send, Blame, Executes
<1>10. CASE StatementLost
    BY <1>10 DEF StatementLost, Finish, Send, Close, Refused
<1>11. CASE Commit
    BY <1>11 DEF Commit, Finish
<1>12. CASE CommitLost
    BY <1>12 DEF CommitLost, Close, Blame
<1>13. CASE Rollback
    BY <1>13 DEF Rollback, Finish
<1>14. CASE SessionLost
    BY <1>14 DEF SessionLost, Blame
<1>15. CASE Demoted
    BY <1>15 DEF Demoted, Blame
<1>16. CASE UNCHANGED vars
    BY <1>16 DEF vars
<1> QED
    BY <1>1, <1>2, <1>3, <1>4, <1>5, <1>6, <1>7, <1>8, <1>9, <1>10, <1>11, <1>12, <1>13, <1>14, <1>15, <1>16
       DEF Next, Step, Done

\* Whatever ends an operation ends its transaction first.
LEMMA TransactionIsCurrentKept == Inv /\ [Next]_vars => TransactionIsCurrent'
<1> SUFFICES ASSUME Inv, [Next]_vars PROVE TransactionIsCurrent'
    OBVIOUS
<1> USE SizeAssumption, NoneAssumption
    DEF Inv, TypeOK, HolderIsUnanswered, TransactionIsCurrent, Statements,
        session, history
<1>1. ASSUME NEW o \in Ops, NEW k \in {"read", "write"}, Start(o, k) PROVE TransactionIsCurrent'
    BY <1>1 DEF Start
<1>2. CASE ProbeFinds
    BY <1>2 DEF ProbeFinds, Ready
<1>3. CASE ProbeFails
    BY <1>3 DEF ProbeFails, Close
<1>4. CASE Connect
    BY <1>4 DEF Connect
<1>5. CASE ConnectFails
    BY <1>5 DEF ConnectFails, Finish, Blame
<1>6. CASE ReprobeFails
    BY <1>6 DEF ReprobeFails, Finish, Close
<1>7. CASE Begin
    <2>1. cur \in Ops /\ 0 \in 0 .. N
        BY <1>7 DEF Begin
    <2>2. [op |-> cur, done |-> 0] \in [op: Ops, done: 0 .. N]
        BY <2>1
    <2>3. [op |-> cur, done |-> 0] # None
        BY <2>2
    <2>4. CASE server = "gone"
        BY <1>7, <2>4 DEF Begin, Close
    <2>5. CASE server # "gone"
        <3>1. txn' = [op |-> cur, done |-> 0] /\ pc' = "statement"
            BY <1>7, <2>5 DEF Begin
        <3>2. txn'.op = cur /\ txn'.done = 0 /\ txn' # None
            BY <2>3, <3>1
        <3>3. next = 1 /\ kind[cur] = "write"
            BY <1>7 DEF Begin, SentInOrder, Opening
        <3> QED
            BY <1>7, <2>5, <3>1, <3>2, <3>3 DEF Begin
    <2> QED
        BY <2>4, <2>5
<1>8. CASE StatementReturns
    BY <1>8 DEF StatementReturns, Finish, Send, Executes
<1>9. CASE StatementRaises
    BY <1>9 DEF StatementRaises, Finish, Send, Blame, Executes
<1>10. CASE StatementLost
    BY <1>10 DEF StatementLost, Finish, Send, Close, Refused
<1>11. CASE Commit
    BY <1>11 DEF Commit, Finish
<1>12. CASE CommitLost
    BY <1>12 DEF CommitLost, Close, Blame
<1>13. CASE Rollback
    BY <1>13 DEF Rollback, Finish
<1>14. CASE SessionLost
    BY <1>14 DEF SessionLost, Blame
<1>15. CASE Demoted
    BY <1>15 DEF Demoted, Blame
<1>16. CASE UNCHANGED vars
    BY <1>16 DEF vars
<1> QED
    BY <1>1, <1>2, <1>3, <1>4, <1>5, <1>6, <1>7, <1>8, <1>9, <1>10, <1>11, <1>12, <1>13, <1>14, <1>15, <1>16
       DEF Next, Step, Done

\* A session that was a primary and is not was lost while the operation ran.
LEMMA FailureIsBlamedKept == Inv /\ [Next]_vars => FailureIsBlamed'
<1> SUFFICES ASSUME Inv, [Next]_vars PROVE FailureIsBlamed'
    OBVIOUS
<1> USE SizeAssumption, NoneAssumption
    DEF Inv, TypeOK, HolderIsUnanswered, FailureIsBlamed, Statements,
        session, history
<1>1. ASSUME NEW o \in Ops, NEW k \in {"read", "write"}, Start(o, k) PROVE FailureIsBlamed'
    BY <1>1 DEF Start
<1>2. CASE ProbeFinds
    BY <1>2 DEF ProbeFinds, Ready
<1>3. CASE ProbeFails
    BY <1>3 DEF ProbeFails, Close
<1>4. CASE Connect
    BY <1>4 DEF Connect
<1>5. CASE ConnectFails
    BY <1>5 DEF ConnectFails, Finish, Blame
<1>6. CASE ReprobeFails
    BY <1>6 DEF ReprobeFails, Finish, Close
<1>7. CASE Begin
    BY <1>7 DEF Begin, Finish, Close
<1>8. CASE StatementReturns
    BY <1>8 DEF StatementReturns, Finish, Send, Executes
<1>9. CASE StatementRaises
    BY <1>9 DEF StatementRaises, Finish, Send, Blame, Executes
<1>10. CASE StatementLost
    BY <1>10 DEF StatementLost, Finish, Send, Close, Refused
<1>11. CASE Commit
    BY <1>11 DEF Commit, Finish
<1>12. CASE CommitLost
    BY <1>12 DEF CommitLost, Close, Blame
<1>13. CASE Rollback
    BY <1>13 DEF Rollback, Finish
<1>14. CASE SessionLost
    BY <1>14 DEF SessionLost, Blame
<1>15. CASE Demoted
    BY <1>15 DEF Demoted, Blame
<1>16. CASE UNCHANGED vars
    BY <1>16 DEF vars
<1> QED
    BY <1>1, <1>2, <1>3, <1>4, <1>5, <1>6, <1>7, <1>8, <1>9, <1>10, <1>11, <1>12, <1>13, <1>14, <1>15, <1>16
       DEF Next, Step, Done

\* A statement is sent only when "next" reaches it for the first time.
LEMMA SentAtMostOnceKept == Inv /\ [Next]_vars => SentAtMostOnce'
<1> SUFFICES ASSUME Inv, [Next]_vars PROVE SentAtMostOnce'
    OBVIOUS
<1> USE SizeAssumption, NoneAssumption
    DEF Inv, TypeOK, HolderIsUnanswered, SentInOrder, SentAtMostOnce, Statements, Opening,
        session, history
<1>1. ASSUME NEW o \in Ops, NEW k \in {"read", "write"}, Start(o, k) PROVE SentAtMostOnce'
    BY <1>1 DEF Start
<1>2. CASE ProbeFinds
    BY <1>2 DEF ProbeFinds, Ready
<1>3. CASE ProbeFails
    BY <1>3 DEF ProbeFails, Close
<1>4. CASE Connect
    BY <1>4 DEF Connect
<1>5. CASE ConnectFails
    BY <1>5 DEF ConnectFails, Finish, Blame
<1>6. CASE ReprobeFails
    BY <1>6 DEF ReprobeFails, Finish, Close
<1>7. CASE Begin
    BY <1>7 DEF Begin, Finish, Close
<1>8. CASE StatementReturns
    BY <1>8 DEF StatementReturns, Finish, Send, Executes
<1>9. CASE StatementRaises
    BY <1>9 DEF StatementRaises, Finish, Send, Blame, Executes
<1>10. CASE StatementLost
    BY <1>10 DEF StatementLost, Finish, Send, Close, Refused
<1>11. CASE Commit
    BY <1>11 DEF Commit, Finish
<1>12. CASE CommitLost
    BY <1>12 DEF CommitLost, Close, Blame
<1>13. CASE Rollback
    BY <1>13 DEF Rollback, Finish
<1>14. CASE SessionLost
    BY <1>14 DEF SessionLost, Blame
<1>15. CASE Demoted
    BY <1>15 DEF Demoted, Blame
<1>16. CASE UNCHANGED vars
    BY <1>16 DEF vars
<1> QED
    BY <1>1, <1>2, <1>3, <1>4, <1>5, <1>6, <1>7, <1>8, <1>9, <1>10, <1>11, <1>12, <1>13, <1>14, <1>15, <1>16
       DEF Next, Step, Done

\* A connection is made from "connect", which is not entered twice.
LEMMA ConnectsAtMostOnceKept == Inv /\ [Next]_vars => ConnectsAtMostOnce'
<1> SUFFICES ASSUME Inv, [Next]_vars PROVE ConnectsAtMostOnce'
    OBVIOUS
<1> USE SizeAssumption, NoneAssumption
    DEF Inv, TypeOK, HolderIsUnanswered, SentInOrder, ConnectsAtMostOnce, Statements, Opening,
        session, history
<1>1. ASSUME NEW o \in Ops, NEW k \in {"read", "write"}, Start(o, k) PROVE ConnectsAtMostOnce'
    BY <1>1 DEF Start
<1>2. CASE ProbeFinds
    BY <1>2 DEF ProbeFinds, Ready
<1>3. CASE ProbeFails
    BY <1>3 DEF ProbeFails, Close
<1>4. CASE Connect
    BY <1>4 DEF Connect
<1>5. CASE ConnectFails
    BY <1>5 DEF ConnectFails, Finish, Blame
<1>6. CASE ReprobeFails
    BY <1>6 DEF ReprobeFails, Finish, Close
<1>7. CASE Begin
    BY <1>7 DEF Begin, Finish, Close
<1>8. CASE StatementReturns
    BY <1>8 DEF StatementReturns, Finish, Send, Executes
<1>9. CASE StatementRaises
    BY <1>9 DEF StatementRaises, Finish, Send, Blame, Executes
<1>10. CASE StatementLost
    BY <1>10 DEF StatementLost, Finish, Send, Close, Refused
<1>11. CASE Commit
    BY <1>11 DEF Commit, Finish
<1>12. CASE CommitLost
    BY <1>12 DEF CommitLost, Close, Blame
<1>13. CASE Rollback
    BY <1>13 DEF Rollback, Finish
<1>14. CASE SessionLost
    BY <1>14 DEF SessionLost, Blame
<1>15. CASE Demoted
    BY <1>15 DEF Demoted, Blame
<1>16. CASE UNCHANGED vars
    BY <1>16 DEF vars
<1> QED
    BY <1>1, <1>2, <1>3, <1>4, <1>5, <1>6, <1>7, <1>8, <1>9, <1>10, <1>11, <1>12, <1>13, <1>14, <1>15, <1>16
       DEF Next, Step, Done

\* "ok" is said by a read, or by the step that commits.
LEMMA OkIsDurableKept == Inv /\ [Next]_vars => OkIsDurable'
<1> SUFFICES ASSUME Inv, [Next]_vars PROVE OkIsDurable'
    OBVIOUS
<1> USE SizeAssumption, NoneAssumption
    DEF Inv, TypeOK, HolderIsUnanswered, SentInOrder, OkIsDurable, Statements, Opening,
        session, history
<1>1. ASSUME NEW o \in Ops, NEW k \in {"read", "write"}, Start(o, k) PROVE OkIsDurable'
    BY <1>1 DEF Start
<1>2. CASE ProbeFinds
    BY <1>2 DEF ProbeFinds, Ready
<1>3. CASE ProbeFails
    BY <1>3 DEF ProbeFails, Close
<1>4. CASE Connect
    BY <1>4 DEF Connect
<1>5. CASE ConnectFails
    BY <1>5 DEF ConnectFails, Finish, Blame
<1>6. CASE ReprobeFails
    BY <1>6 DEF ReprobeFails, Finish, Close
<1>7. CASE Begin
    BY <1>7 DEF Begin, Finish, Close
<1>8. CASE StatementReturns
    BY <1>8 DEF StatementReturns, Finish, Send, Executes
<1>9. CASE StatementRaises
    BY <1>9 DEF StatementRaises, Finish, Send, Blame, Executes
<1>10. CASE StatementLost
    BY <1>10 DEF StatementLost, Finish, Send, Close, Refused
<1>11. CASE Commit
    BY <1>11 DEF Commit, Finish
<1>12. CASE CommitLost
    BY <1>12 DEF CommitLost, Close, Blame
<1>13. CASE Rollback
    BY <1>13 DEF Rollback, Finish
<1>14. CASE SessionLost
    BY <1>14 DEF SessionLost, Blame
<1>15. CASE Demoted
    BY <1>15 DEF Demoted, Blame
<1>16. CASE UNCHANGED vars
    BY <1>16 DEF vars
<1> QED
    BY <1>1, <1>2, <1>3, <1>4, <1>5, <1>6, <1>7, <1>8, <1>9, <1>10, <1>11, <1>12, <1>13, <1>14, <1>15, <1>16
       DEF Next, Step, Done

\* Every step that fails an operation finds it blamed.
LEMMA ErrorsHaveCauseKept == Inv /\ [Next]_vars => ErrorsHaveCause'
<1> SUFFICES ASSUME Inv, [Next]_vars PROVE ErrorsHaveCause'
    OBVIOUS
<1> USE SizeAssumption, NoneAssumption
    DEF Inv, TypeOK, HolderIsUnanswered, FailureIsBlamed, ErrorsHaveCause, Statements,
        session, history
<1>1. ASSUME NEW o \in Ops, NEW k \in {"read", "write"}, Start(o, k) PROVE ErrorsHaveCause'
    BY <1>1 DEF Start
<1>2. CASE ProbeFinds
    BY <1>2 DEF ProbeFinds, Ready
<1>3. CASE ProbeFails
    BY <1>3 DEF ProbeFails, Close
<1>4. CASE Connect
    BY <1>4 DEF Connect
<1>5. CASE ConnectFails
    BY <1>5 DEF ConnectFails, Finish, Blame
<1>6. CASE ReprobeFails
    BY <1>6 DEF ReprobeFails, Finish, Close
<1>7. CASE Begin
    BY <1>7 DEF Begin, Finish, Close
<1>8. CASE StatementReturns
    BY <1>8 DEF StatementReturns, Finish, Send, Executes
<1>9. CASE StatementRaises
    BY <1>9 DEF StatementRaises, Finish, Send, Blame, Executes
<1>10. CASE StatementLost
    BY <1>10 DEF StatementLost, Finish, Send, Close, Refused
<1>11. CASE Commit
    BY <1>11 DEF Commit, Finish
<1>12. CASE CommitLost
    BY <1>12 DEF CommitLost, Close, Blame
<1>13. CASE Rollback
    BY <1>13 DEF Rollback, Finish
<1>14. CASE SessionLost
    BY <1>14 DEF SessionLost, Blame
<1>15. CASE Demoted
    BY <1>15 DEF Demoted, Blame
<1>16. CASE UNCHANGED vars
    BY <1>16 DEF vars
<1> QED
    BY <1>1, <1>2, <1>3, <1>4, <1>5, <1>6, <1>7, <1>8, <1>9, <1>10, <1>11, <1>12, <1>13, <1>14, <1>15, <1>16
       DEF Next, Step, Done

----------------------------------------------------------------------------
LEMMA InitInv == Init => Inv
<1> SUFFICES ASSUME Init PROVE Inv
    OBVIOUS
<1>1. TypeOK
    <2>1. 1 \in Statements /\ 0 \in 0 .. MaxFaults
        BY SizeAssumption DEF Statements
    <2>2. [k \in Statements |-> 0] \in [Statements -> Nat]
        OBVIOUS
    <2>3. sent \in [Ops -> [Statements -> Nat]]
        BY <2>2 DEF Init
    <2> QED
        BY <2>1, <2>3 DEF Init, TypeOK
<1>2. HolderIsUnanswered /\ TransactionIsCurrent /\ FailureIsBlamed
    BY DEF Init, HolderIsUnanswered, TransactionIsCurrent, FailureIsBlamed
<1>3. UnstartedIsClean /\ SentInOrder
    BY DEF Init, UnstartedIsClean, SentInOrder, Opening
<1>4. SentAtMostOnce /\ ConnectsAtMostOnce /\ OkIsDurable /\ ErrorsHaveCause
    BY DEF Init, SentAtMostOnce, ConnectsAtMostOnce, OkIsDurable, ErrorsHaveCause
<1> QED
    BY <1>1, <1>2, <1>3, <1>4 DEF Inv

LEMMA InvKept == Inv /\ [Next]_vars => Inv'
BY TypeOKKept, HolderIsUnansweredKept, UnstartedIsCleanKept, SentInOrderKept,
   TransactionIsCurrentKept, FailureIsBlamedKept, SentAtMostOnceKept, ConnectsAtMostOnceKept,
   OkIsDurableKept, ErrorsHaveCauseKept DEF Inv

\* What the session, the transaction and the operation owe each other, for
\* any number of operations, statements and faults.
THEOREM InvHolds == Spec => []Inv
<1>1. Init => Inv
    BY InitInv
<1>2. Inv /\ [Next]_vars => Inv'
    BY InvKept
<1> QED
    BY <1>1, <1>2, PTL DEF Spec

\* Every variable of the session keeps its type.
THEOREM SessionTypes == Spec => []TypeOK
<1>1. Inv => TypeOK
    BY DEF Inv
<1> QED
    BY <1>1, InvHolds, PTL

\* No statement of the application is ever sent twice, however often its
\* session was lost (store.py:815).
THEOREM NothingIsReplayed == Spec => []SentAtMostOnce
<1>1. Inv => SentAtMostOnce
    BY DEF Inv
<1> QED
    BY <1>1, InvHolds, PTL

\* An operation connects at most once (store.py:813).
THEOREM ReplacedOnce == Spec => []ConnectsAtMostOnce
<1>1. Inv => ConnectsAtMostOnce
    BY DEF Inv
<1> QED
    BY <1>1, InvHolds, PTL

\* A caller told "ok" of a write can rely on all of it being committed, also
\* where acknowledgements are lost (store.py:838).
THEOREM AcknowledgedIsDurable == Spec => []OkIsDurable
<1>1. Inv => OkIsDurable
    BY DEF Inv
<1> QED
    BY <1>1, InvHolds, PTL

\* A session lost while idle costs no caller an error (store.py:810).
THEOREM FailuresHaveCause == Spec => []ErrorsHaveCause
<1>1. Inv => ErrorsHaveCause
    BY DEF Inv
<1> QED
    BY <1>1, InvHolds, PTL

\* Whatever fails inside atomic (store.py:859-876), the operation's
\* transaction is over when the next one gets the lock.
THEOREM TransactionsEnd == Spec => []NoTransactionLeft
<1>1. Inv => NoTransactionLeft
    BY DEF Inv, TransactionIsCurrent, NoTransactionLeft
<1> QED
    BY <1>1, InvHolds, PTL

\* No statement goes to a session that its own operation has not found to be
\* a writable primary (store.py:814).
THEOREM ChecksComeFirst == Spec => SentOnlyIfChecked
<1>1. Inv /\ [Next]_vars => [SendsOnlyIfChecked]_vars
    <2> SUFFICES ASSUME Inv, [Next]_vars PROVE sent' # sent => checked = cur
        BY DEF SendsOnlyIfChecked
    <2>1. CASE pc = "statement"
        BY <2>1 DEF Inv, SentInOrder
    <2>2. CASE pc # "statement"
        <3>1. sent' = sent
            BY <2>2 DEF Next, Step, Start, ProbeFinds, ProbeFails, Connect, ConnectFails,
                        ReprobeFails, Begin, StatementReturns, StatementRaises, StatementLost,
                        Commit, CommitLost, Rollback, SessionLost, Demoted, Done, vars, history
        <3> QED
            BY <3>1
    <2> QED
        BY <2>1, <2>2
<1> QED
    BY <1>1, InvHolds, PTL DEF Spec, SentOnlyIfChecked

=============================================================================
