--------------------------- MODULE MCDeviceLogin ---------------------------
(***************************************************************************)
(* Values for the runs of DeviceLogin.  Ids and workers are                *)
(* interchangeable: none is named by the specification.                    *)
(***************************************************************************)
EXTENDS DeviceLogin, TLC

Symmetry ==
    Permutations(TicketIds) \cup Permutations(ChallengeIds)
        \cup Permutations(SessionIds) \cup Permutations(Requests)

\* Sound where every wallet, or none, is in AllowedWallets.
WalletSymmetry == Symmetry \cup Permutations(Wallets)

============================================================================
