SPECIFICATION Spec
CONSTANTS
    Processes = {p1, p2}
    TicketIds = {t1, t2}
    ChallengeIds = {c1}
    SessionIds = {s1}
    Wallets = {1}
    None = None
    Capacity = Capacity
    AllowedWallets = {}
    WalletPolicy = "open"
    TicketTTL = 1
    ChallengeTTL = 1
    SessionTTL = 1
    MaxPendingTickets = 1
    PurgeBatch = 1
    MaxTime = 1
INVARIANTS
    PendingCap
PROPERTIES
    OperationsEnd
