SPECIFICATION Spec
CONSTANTS
    Secrets = {s1}
    Issues = {a, b}
    NoRow = NoRow
    Fields = {f}
    Scanners = {p, q}
    Serializable = FALSE
    ReadsMayFail = FALSE
    MaxClock = 7
SYMMETRY Symmetry
INVARIANTS
    ClosedIffStamped
PROPERTIES
    HistoryKept
    OutOfScopeUntouched
CHECK_DEADLOCK FALSE
