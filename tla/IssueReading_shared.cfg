SPECIFICATION FairSpec
CONSTANTS
    Tasks = {a}
    Others = {f, g}
    Concurrency = 2
    MaxRetries = 3
    PageSize = 2
    MaxPages = 3
    Embedded = 1
    MaxThread = 4
    Listed = 3
    MaxAttachments = 2
    MaxBytes = 2
    Budget = 3
    Bodies = {1, 3}
INVARIANTS
    TypeOK
    PermitsKept
    ThreadReadWhole
    BudgetKept
PROPERTIES
    IssueIsRead
CHECK_DEADLOCK FALSE
