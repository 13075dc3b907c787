\* A program goes on after a SYNCPOINT whose commit failed.
SPECIFICATION GatewaySpec
CONSTANTS
    BYTE = 2
    ID_BYTES = 1
    P = P
    Q = Q
    Missing = Missing
    Threads = {t1}
    Files <- FileList
    Programs = {P, Q}
    Requests <- AnyRequest
    Enter <- AnyEnter
    Issue <- AnyIssue
    Learn <- AnyLearn
    MAX_LINK_DEPTH = 2
    Levels = {0, 2}
    MaxCalls = 1
    MaxCommands = 3
    MaxErrors = 1
    MaxRestarts = 0
    MaxHints = 1
INVARIANT TxnPresent
CHECK_DEADLOCK FALSE
