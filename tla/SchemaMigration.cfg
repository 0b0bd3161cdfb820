SPECIFICATION Spec
CONSTANTS
    Processes = {p1, p2, p3}
    Requests = {"create", "purge", "replace", "finalize", "logout", "health", "import", "rollback"}
    MaxCrashes = 1
    MaxRequests = 2
CHECK_DEADLOCK FALSE
INVARIANTS
    ServesWholeSchema
PROPERTIES
    StartsFinish
