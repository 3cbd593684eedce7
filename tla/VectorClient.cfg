SPECIFICATION FairSpec
CONSTANTS
    Requests = {r1, r2, r3}
    MaxAttempts = 2
    PointIds = {p1}
    Contents = {c1, c2}
    IndexCount = 2
    IndexFaults = FALSE
    None = None
INVARIANTS
    TypeOK
    PointsHaveIndexes
PROPERTIES
    ImplementsPointStore
