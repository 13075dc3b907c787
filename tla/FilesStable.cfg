\* Every opening defines its files in the same order.
SPECIFICATION Spec
CONSTANTS
    BYTE = 2
    ID_BYTES = 2
    Names = {"A", "B"}
    Keys <- ByteKeys
    Values = {1, 2}
    Limits = {1, 3}
    Definitions <- Fixed
    MaxOpenings = 2
PROPERTY ImplementsFileSet
