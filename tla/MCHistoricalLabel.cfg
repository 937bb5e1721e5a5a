SPECIFICATION ReadersSpec
CONSTANTS
    e1 = e1
    e2 = e2
    e3 = e3
    e4 = e4
    s1 = s1
    s2 = s2
    Null = Null
    Blank = Blank
    NoRow = NoRow
    Decisions <- OneTitle
    Keys = {}
    MaxInstant = 5
    CaptureId <- NoCapture
    ValidFroms <- None
    MinedBatches <- None
    Ids = {e1, e2, e3}
    ExternalIds = {e1, e2, e3}
    Scopes = {s1}
    Clock = {0}
    MaxChain = 4
    ImportBatches <- None
    Retirements <- None
    Limits = {1}
    Weight <- Light
    MaxPageWeight = 2
    HistoricalCap = 2
INVARIANTS
    LabelOfMissingSuccessorIsTrue
