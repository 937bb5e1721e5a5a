SPECIFICATION Spec
CONSTANTS
    e1 = e1
    e2 = e2
    e3 = e3
    c1 = c1
    c2 = c2
    m1 = m1
    s1 = s1
    s2 = s2
    k1 = k1
    Null = Null
    Blank = Blank
    NoRow = NoRow
    Ids = {e1, e2, c1, c2, m1}
    ExternalIds = {e1}
    Scopes = {s1, s2}
    Decisions <- ScopeDecisions
    Keys = {}
    MaxInstant = 2
    Clock = {0}
    MaxChain = 3
    CaptureId <- TwoCaptures
    ValidFroms <- OneStart
    ImportBatches <- PlainImports
    MinedBatches <- MinedCommit
    Retirements <- OneRetirement
INVARIANTS
    SupersessionStaysInScope
    CapturedRecordsResolve
