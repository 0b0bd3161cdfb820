SPECIFICATION Spec
CONSTANTS
    TicketIds = {t1}
    ChallengeIds = {c1, c2}
    SessionIds = {s1, s2}
    Wallets = {w1, w2}
    Requests = {r1, r2}
    None = None
    AllowedWallets = {w1, w2}
    WalletPolicy = "allowlist"
    Backend = "memory"
    Res = 1
    TicketTTL = 2
    ChallengeTTL = 1
    SessionTTL = 1
    MaxPendingTickets = 1
    MaxTime = 2
SYMMETRY WalletSymmetry
INVARIANTS
    TypeOK
    OneGrantPerTicket
    GrantsAgree
    LiveChallengeIsCurrent
    ToldIsGranted
PROPERTIES
    GrantsUseCurrentState
    
    ChallengesKept
    ImplementsAuthority
