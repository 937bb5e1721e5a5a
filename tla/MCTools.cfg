SPECIFICATION ToolsSpec
CONSTANTS
    p1 = p1
    p2 = p2
    p3 = p3
    s1 = s1
    s2 = s2
    h = h
    x = x
    y = y
    Null = Null
    Blank = Blank
    NoRow = NoRow
    NoLink = NoLink
    NoCall = NoCall
    NoPlan = NoPlan
    Ids = {1, 2, 3, 4}
    ExternalIds = {1, 2}
    Scopes = {s1, s2}
    Decisions <- TwoDecisions
    Keys = {}
    MaxInstant = 2
    Clock = {1}
    MaxChain = 3
    CaptureId <- CapturedB
    ValidFroms <- None
    ImportBatches <- OneImport
    MinedBatches <- MinedCommit
    Retirements <- LaterEnd
    Commits = {h}
    Subjects = {x, y}
    Precedes <- Before
    PageLimit = 1
    Given <- ZeroAndNearOne
    Clients = {p1, p2, p3}
    Programs <- ManyPrograms
    InitialTables <- SmallTables
CHECK_DEADLOCK FALSE
INVARIANTS
    ToolsTypeOK
    LinkAnswerHolds
    FeedbackIsLogged
    CommitListingIsComplete
PROPERTIES
    WritesAreSerial
    LinkIsAuthorised
    SearchAnswersAreCurrent
    CallsEnd
