SPECIFICATION Spec
CONSTANTS
    Tools = {t1, t2}
    None = None
    Keyed <- OneKeyed
    Backend <- SqliteToPostgres
    MaxWrites <- Writes
    MaxRuns <- Runs
CHECK_DEADLOCK FALSE
INVARIANTS
    AcceptedServed
PROPERTIES
    ImportIsWhole
    RollbackLosesOnlyLate
