SPECIFICATION FairSpec
CONSTANTS
    NumIssues = 5
    PageSize = 3
    ServerLimit = 3
    MaxIssues = 4
    Concurrency = 1
    MayCancel = TRUE
INVARIANTS
    TypeOK
    DeliveredInOrder
    Backpressure
    CountersAgree
    ReportedCoverage
PROPERTIES
    CancelStopsIntake
    KeepsContract
    TerminatesUndisturbed
CHECK_DEADLOCK FALSE
