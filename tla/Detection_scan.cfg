SPECIFICATION FairSpec
CONSTANTS
    Cells <- MCCells
    Lower <- MCLower
    Class <- MCClass
    Radius = 2
    Entropy <- MCEntropy
    EntropyBoost = 1
    ContextWords <- MCContextWords
    Dictionary <- MCDictionary
    Slots <- MCSlots
    Accepts <- MCAccepts
    Unset = Unset
    Blank = Blank
    ProjectOf <- MCProjectOf
    Marker = Marker
    SegmentTexts <- MCSegmentTexts
    Proximity = 3
    MaxMatches = 4
    MaxHits = 2
    MaxScan = 14
    UserCaptures <- MCUserCaptures
    PasswordCaptures <- MCPasswordCaptures
    LinkCaptures <- MCLinkCaptures
    FieldPairs <- MCFieldPairs
    MaxText = 15
    CommentKeys = {"comment"}
    AttachmentKeys = {"attachment"}
    DescriptionKeys = {"description"}
    Issues = {"a", "b"}
    NoIssue = "none"
    Contents <- MCContents
    BuiltinRules <- MCBuiltinRules
    UserRules <- MCUserRules
    Files <- MCFiles
    Floors = {"low", "medium"}
    Caps = {3, 20}
    SnippetRadius = 2
    MaxScans = 2
INVARIANTS
    TypeOK
    NothingMissed
    PairsExact
    RuleValuesMasked
    VerdictsHonoured
    SameFindingsEveryScan
PROPERTIES
    MergeKeepsAll
    EveryScanEnds
CHECK_DEADLOCK FALSE
