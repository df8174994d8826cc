SPECIFICATION Spec
CONSTANTS
    Cells <- MCCells
    Lower <- MCLower
    Class <- MCClass
    Radius = 2
    Entropy <- MCEntropy
    EntropyBoost = 1
    ContextWords <- MCContextWords
    Dictionary <- MCDictionary
    Slots <- MCSlots
    Accepts <- MCAccepts
    Unset = Unset
    Blank = Blank
    ProjectOf <- MCProjectOf
    Marker = Marker
    SegmentTexts <- MCSegmentTexts
    Proximity = 3
    MaxMatches = 4
    MaxHits = 2
    MaxScan = 14
    UserCaptures <- MCUserCaptures
    PasswordCaptures <- MCPasswordCaptures
    LinkCaptures <- MCLinkCaptures
    FieldPairs <- MCFieldPairs
    MaxText = 15
    CommentKeys = {"comment"}
    AttachmentKeys = {"attachment"}
    DescriptionKeys = {"description"}
    Issues = {"a", "b"}
    NoIssue = "none"
    Contents <- MCContents
    BuiltinRules <- MCBuiltinRules
    UserRules <- MCUserRules
    Files <- MCNoFile
    Floors = {"medium"}
    Caps = {20}
    SnippetRadius = 2
    MaxScans = 2
INVARIANT SameIdEveryScan
CHECK_DEADLOCK FALSE
