SPECIFICATION Spec
CONSTANTS
    e1 = e1
    e2 = e2
    e3 = e3
    c1 = c1
    c2 = c2
    m1 = m1
    s1 = s1
    s2 = s2
    k1 = k1
    Null = Null
    Blank = Blank
    NoRow = NoRow
    Ids = {e1, e2, e3}
    ExternalIds = {e1, e2, e3}
    Scopes = {s1}
    Decisions <- TwoDecisions
    Keys = {k1}
    MaxInstant = 2
    Clock = {0, 1}
    MaxChain = 3
    CaptureId <- NoCapture
    ValidFroms <- RetryStarts
    ImportBatches <- None
    MinedBatches <- None
    Retirements <- None
INVARIANTS
    ReplayIsIdempotent
