-------------------------- MODULE MCStateTransfer --------------------------
(* A table with text keys beside the audit log; from SQLite to PostgreSQL. *)
EXTENDS StateTransfer

OneKeyed == <<"tickets">>
SqliteToPostgres == [s \in Stores |-> IF s = "source" THEN "sqlite" ELSE "postgres"]
Writes == [c \in BOOLEAN |-> IF c THEN 3 ELSE 2]
Runs == [c \in BOOLEAN |-> IF c THEN 6 ELSE 3]
============================================================================
