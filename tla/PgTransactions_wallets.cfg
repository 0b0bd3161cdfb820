SPECIFICATION SafetySpec
CONSTANTS
    Processes = {p1, p2, p3}
    TicketIds = {}
    ChallengeIds = {}
    SessionIds = {}
    Wallets = {1, 2}
    None = None
    Capacity = Capacity
    AllowedWallets = {1, 2}
    WalletPolicy = "allowlist"
    TicketTTL = 1
    ChallengeTTL = 1
    SessionTTL = 1
    MaxPendingTickets = 1
    PurgeBatch = 1
    MaxTime = 1
SYMMETRY Symmetry
INVARIANTS
    NoWaitCycle
PROPERTIES
    WalletsKept
