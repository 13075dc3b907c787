\* Puts and deletes of small, large and overflowing values beside a reader.
SPECIFICATION Spec
CONSTANTS
    SPLIT_THRESHOLD = 12
    INLINE_VALUE_LIMIT = 4
    OVERFLOW_CHUNK = 3
    FREE_CHUNK = 3
    KEY_SIZE = 1
    POINTER_SIZE = 2
    REFERENCE_SIZE = 4
    PAGE_SIZE = 15
    Readers = {r1}
    Keys = {1, 2, 3, 4, 5}
    Values <- FlatValues
    Seeds <- FlatSeeds
    MaxTxns = 2
    MaxOps = 3
INVARIANTS ReadsAgree NodesFitPage
PROPERTY ImplementsKVStore
