-------------------------- MODULE MCPgTransactions --------------------------
(***************************************************************************)
(* Values for the runs of PgTransactions.                                  *)
(***************************************************************************)
EXTENDS PgTransactions, TLC

Symmetry ==
    Permutations(Processes) \cup Permutations(TicketIds)
        \cup Permutations(ChallengeIds) \cup Permutations(SessionIds)

=============================================================================
