SPECIFICATION Spec
CONSTANTS
    TicketIds = {t1, t2, t3}
    ChallengeIds = {c1}
    SessionIds = {s1}
    Wallets = {w1}
    Requests = {r1, r2}
    None = None
    AllowedWallets = {w1}
    WalletPolicy = "allowlist"
    Backend = "sqlite"
    Res = 2
    TicketTTL = 3
    ChallengeTTL = 2
    SessionTTL = 3
    MaxPendingTickets = 2
    MaxTime = 4
SYMMETRY Symmetry
INVARIANTS
    PendingCap
PROPERTIES
    ImplementsAuthority
