\* Power failures only, no I/O error and no kill: no condition is needed.
SPECIFICATION Spec
CONSTANTS
    Readers = {r1}
    MaxPage = 4
    MaxAttempts = 3
    MaxCrashes = 2
    CHUNK = 2
    Faults = {"power"}
INVARIANTS RecoverySafe
