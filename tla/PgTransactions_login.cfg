SPECIFICATION SafetySpec
CONSTANTS
    Processes = {p1, p2}
    TicketIds = {t1}
    ChallengeIds = {c1, c2}
    SessionIds = {s1, s2}
    Wallets = {1}
    None = None
    Capacity = Capacity
    AllowedWallets = {1}
    WalletPolicy = "allowlist"
    TicketTTL = 3
    ChallengeTTL = 2
    SessionTTL = 1
    MaxPendingTickets = 1
    PurgeBatch = 2
    MaxTime = 3
SYMMETRY Symmetry
INVARIANTS
    GrantsLast
    LiveChallengeIsCurrent
    NoWaitCycle
PROPERTIES
    GrantsUseCurrentState
    DecisionsInTime
