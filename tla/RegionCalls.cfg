\* Two threads that call a region or, in other behaviours, link_external.
SPECIFICATION GatewaySpec
CONSTANTS
    BYTE = 2
    ID_BYTES = 1
    P = P
    Q = Q
    Missing = Missing
    Threads = {t1, t2}
    Files <- FileList
    Programs = {P, Q}
    Requests <- AnyRequest
    Enter <- AnyEnter
    Issue <- AnyIssue
    Learn <- AnyLearn
    MAX_LINK_DEPTH = 2
    Levels = {0, 2}
    MaxCalls = 1
    MaxCommands = 3
    MaxErrors = 1
    MaxRestarts = 0
    MaxHints = 1
INVARIANTS TypeOK LockOwned DepthBounded AnswerComplete
PROPERTIES ImplementsUnits EveryCallReturns
CHECK_DEADLOCK FALSE
