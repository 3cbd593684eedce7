SPECIFICATION Spec
CONSTANTS
    Requests = {r1, r2}
    MaxJobs = 2
    Sources = {s1, s2}
    Texts = {t1}
    None = None
    UniqueIndex = TRUE
    QdrantEnabled = TRUE
    Faults = {"mongo", "qdrant_delete", "qdrant_late"}
    Crashes = TRUE
    Ops <- AllOps
SYMMETRY Symmetry
PROPERTIES
    NoLostUpdate
