SPECIFICATION Spec
CONSTANTS
    Secrets = {s1}
    Issues = {a, b}
    NoRow = NoRow
    Fields = {f, g}
    Scanners = {p}
    Serializable = TRUE
    ReadsMayFail = FALSE
    MaxClock = 7
SYMMETRY Symmetry
INVARIANTS
    TypeOK
PROPERTIES
    NewMeansNoRowBefore
    ClosedOnlyWhenAbsent
    ClosingAnnouncedOnce
    KeepsLedger
CHECK_DEADLOCK FALSE
