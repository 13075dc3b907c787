\* Two readers against three write transactions; no failures.
SPECIFICATION Spec
CONSTANTS
    Readers = {r1, r2}
    MaxPage = 4
    MaxAttempts = 3
    MaxCrashes = 0
    CHUNK = 2
    Faults = {}
SYMMETRY Symmetry
INVARIANTS TypeOK TimelySnapshotIntact PageAccounting
PROPERTY CommittedPagesImmutable
