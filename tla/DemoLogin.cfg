SPECIFICATION Spec
CONSTANTS
    None = None
    MaxTickets = 2
    MaxCalls = 2
    MaxActs = 1
    MaxFaults = 1
CHECK_DEADLOCK FALSE
INVARIANTS
    EverythingHeld
PROPERTIES
    Settles
    DecisionReachesPage
