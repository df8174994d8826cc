SPECIFICATION Spec
CONSTANTS
    Issues = {a, b}
    Queries = {q}
    Overlap = 2
    Minute = 2
    JiraLag = 0
    MaxIssues = 0
    ReadsMayGap = FALSE
    MaxScan = 4
    MaxClock = 8
    NoFile = NoFile
    Torn = Torn
INVARIANTS
    WindowCovers
CHECK_DEADLOCK FALSE
