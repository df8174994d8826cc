SPECIFICATION Spec
CONSTANTS
    Secrets = {s1}
    Issues = {a}
    NoRow = NoRow
    Fields = {f}
    Scanners = {p}
    Serializable = TRUE
    ReadsMayFail = TRUE
    MaxClock = 5
PROPERTIES
    ClosedOnlyWhenAbsent
CHECK_DEADLOCK FALSE
