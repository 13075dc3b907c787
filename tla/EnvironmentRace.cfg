\* begin_read's clone and register against writers that begin in between.
SPECIFICATION Spec
CONSTANTS
    Readers = {r1}
    MaxPage = 4
    MaxAttempts = 3
    MaxCrashes = 0
    CHUNK = 2
    Faults = {}
INVARIANT SnapshotIntact
