\* Two callers of the bank's transactions; the process may die.
SPECIFICATION Spec
CONSTANTS
    BYTE = 4
    ID_BYTES = 1
    Threads = {t1, t2}
    Files <- BankFiles
    Programs <- BankPrograms
    Requests <- BankRequests
    Enter <- BankEnter
    Issue <- BankIssue
    Learn <- BankLearn
    MAX_LINK_DEPTH = 64
    MaxCalls = 2
    MaxCommands = 24
    MaxErrors = 0
    MaxRestarts = 1
    MaxHints = 2
SYMMETRY ThreadSymmetry
INVARIANTS BalancesSound TransfersAudited
PROPERTIES StatementTrue TrailTrue
CHECK_DEADLOCK FALSE
