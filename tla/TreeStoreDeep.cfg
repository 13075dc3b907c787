\* Deletes and overwrites in a tree of three levels, in one transaction or more.
SPECIFICATION Spec
CONSTANTS
    SPLIT_THRESHOLD = 12
    INLINE_VALUE_LIMIT = 4
    OVERFLOW_CHUNK = 3
    FREE_CHUNK = 3
    KEY_SIZE = 1
    POINTER_SIZE = 2
    REFERENCE_SIZE = 4
    PAGE_SIZE = 15
    Readers = {}
    Keys = {1, 2, 3, 4, 5, 6}
    Values <- DeepValues
    Seeds <- DeepSeeds
    MaxTxns = 2
    MaxOps = 3
INVARIANTS TreeOrdered PagesOwnedOnce
PROPERTY ImplementsKVStore
CHECK_DEADLOCK FALSE
