SPECIFICATION ReadersSpec
CONSTANTS
    e1 = e1
    e2 = e2
    e3 = e3
    e4 = e4
    s1 = s1
    s2 = s2
    Null = Null
    Blank = Blank
    NoRow = NoRow
    Decisions <- OneTitle
    Keys = {}
    MaxInstant = 5
    CaptureId <- NoCapture
    ValidFroms <- None
    MinedBatches <- None
    Ids = {e1, e2, e3, e4}
    ExternalIds = {e2, e3, e4}
    Scopes = {s1, s2}
    Clock = {0}
    MaxChain = 3
    ImportBatches <- LinkedImports
    Retirements <- Closing
    Limits = {1, 2}
    Weight <- OneHeavy
    MaxPageWeight = 2
    HistoricalCap = 3
INVARIANTS
    PagesFollowTheChain
    ListingFollowsTheChain
PROPERTIES
    CompleteHistoryIsWhole
    PagingEnds
