SPECIFICATION Spec
CONSTANTS
    p = p
    q = q
    r = r
    left = left
    right = right
    r1 = r1
    r2 = r2
    Null = Null
    Absent = Absent
    NoRecord = NoRecord
    Torn = Torn
    Openers = {p, q}
    Setups = {}
    Identities = {left, right}
    Asked <- TwoProviders
    Records = {r1, r2}
    InitialStores <- NewPath
    MaxRestarts = 0
CHECK_DEADLOCK FALSE
INVARIANTS
    FirstTouchConverges
