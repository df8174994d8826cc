SPECIFICATION Spec
CONSTANTS
    Issues = {a, b}
    Queries = {q, r}
    Overlap = 2
    Minute = 2
    JiraLag = 1
    MaxIssues = 0
    ReadsMayGap = FALSE
    MaxScan = 1
    MaxClock = 5
    NoFile = NoFile
    Torn = Torn
SYMMETRY Symmetry
INVARIANTS
    TypeOK
    WindowCovers
    NarrowedAsGoodAsFull
CHECK_DEADLOCK FALSE
