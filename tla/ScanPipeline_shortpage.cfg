SPECIFICATION Spec
CONSTANTS
    NumIssues = 4
    PageSize = 2
    ServerLimit = 1
    MaxIssues = 0
    Concurrency = 1
    MayCancel = FALSE
INVARIANTS
    ReportedCoverage
CHECK_DEADLOCK FALSE
