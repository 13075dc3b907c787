\* A commit whose meta fsync fails, then another write transaction.
SPECIFICATION Spec
CONSTANTS
    Readers = {r1}
    MaxPage = 4
    MaxAttempts = 3
    MaxCrashes = 0
    CHUNK = 2
    Faults = {"io"}
INVARIANT RecoverySafe
