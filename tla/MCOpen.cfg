SPECIFICATION Spec
CONSTANTS
    p = p
    q = q
    r = r
    left = left
    right = right
    r1 = r1
    r2 = r2
    Null = Null
    Absent = Absent
    NoRecord = NoRecord
    Torn = Torn
    Openers = {p, q, r}
    Setups = {q}
    Identities = {left, right}
    Asked <- ThreeCallers
    Records = {r1, r2}
    InitialStores <- ManyStores
    MaxRestarts = 1
CHECK_DEADLOCK FALSE
INVARIANTS
    OpenTypeOK
    MigrationIsWhole
PROPERTIES
    BindsOnce
    OpensEnd
    BoundStoreOpens
