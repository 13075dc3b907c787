\* Kills, power failures and I/O errors against the commit protocol.
SPECIFICATION Spec
CONSTANTS
    Readers = {}
    MaxPage = 4
    MaxAttempts = 3
    MaxCrashes = 2
    CHUNK = 2
    Faults = {"io", "kill", "power"}
INVARIANTS RecoveryIntact AckedDurable
CHECK_DEADLOCK FALSE
