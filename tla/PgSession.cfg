SPECIFICATION Spec
CONSTANTS
    Ops = {o1, o2, o3}
    N = 2
    None = None
    MaxFaults = 3
INVARIANTS
    SentAtMostOnce ConnectsAtMostOnce OkIsDurable NoTransactionLeft ErrorsHaveCause
PROPERTIES
    SentOnlyIfChecked
    
