SPECIFICATION Spec
CONSTANTS
    Issues = {a, b}
    Unset = Unset
    Leak <- MCLeak
    Kept <- MCKept
    TopFindings <- MCTopFindings
    Configs <- MCConfigs
    ServerLimit <- MCServerLimit
SYMMETRY Symmetry
INVARIANTS
    TypeOK
    ZeroMeansServed
    StoreCostsHistoryOnly
    AuditedMeansServed
    SkippedWasReported
    ClosingsShown
    NoFalseAllClear
    AlertsFollowReports
CHECK_DEADLOCK FALSE
