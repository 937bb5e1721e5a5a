SPECIFICATION Spec
CONSTANTS
    e1 = e1
    e2 = e2
    e3 = e3
    c1 = c1
    c2 = c2
    m1 = m1
    s1 = s1
    s2 = s2
    k1 = k1
    Null = Null
    Blank = Blank
    NoRow = NoRow
    Ids = {e1, e2, e3, m1}
    ExternalIds = {e1, e3}
    Scopes = {s1, s2}
    Decisions <- OneTitle
    Keys = {}
    MaxInstant = 2
    MaxChain = 3
    CaptureId <- NoCapture
    MinedBatches <- None
    Clock = {0, 1}
    ValidFroms <- None
    ImportBatches <- DamagedImports
    Retirements <- OneRetirement
INVARIANTS
    ScopedReadIsBlindElsewhere
    SearchAgreesWithExactRead
PROPERTIES
    ChainsOnlyGrow
    LifecycleWriteOnce
    OnlyImportsCloseCycles
    RetiredRecordIsReadable
