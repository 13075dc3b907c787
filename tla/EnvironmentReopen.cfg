\* A kill between the meta write and its fsync, a reopen, then a write.
SPECIFICATION Spec
CONSTANTS
    Readers = {r1}
    MaxPage = 4
    MaxAttempts = 3
    MaxCrashes = 1
    CHUNK = 2
    Faults = {"kill"}
INVARIANT RecoverySafe
