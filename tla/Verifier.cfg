SPECIFICATION Spec
CONSTANTS
    w1 = w1
    w2 = w2
    np = np
    Wallets = {w1, w2}
    NoPoint = np
    Bytes <- TwoBytes
    Networks = {" MainNet", "testnet", "devnet"}
    Modes = {"native", "demo", "disabled", "unknown"}
    MaxChallenges = 2
    MaxSignatures = 1
CHECK_DEADLOCK FALSE
INVARIANTS
    SignerOwnsAddress
    OwnerIsAccepted
