SPECIFICATION FairSpec
CONSTANTS
    NumIssues = 4
    PageSize = 4
    ServerLimit = 4
    MaxIssues = 0
    Concurrency = 1
    MayCancel = TRUE
PROPERTIES
    Terminates
CHECK_DEADLOCK FALSE
