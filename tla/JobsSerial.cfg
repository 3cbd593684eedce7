SPECIFICATION Spec
CONSTANTS
    Requests = {r1}
    MaxJobs = 3
    Sources = {s1, s2}
    Texts = {t1, t2}
    None = None
    UniqueIndex = FALSE
    QdrantEnabled = TRUE
    Faults = {"gemini", "qdrant"}
    Crashes = FALSE
    Ops <- AllOps
SYMMETRY Symmetry
INVARIANTS
    TypeOK
    ActiveJobHasItsVector
    InactiveJobHasNoPoint
