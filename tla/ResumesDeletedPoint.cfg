SPECIFICATION Spec
CONSTANTS
    Requests = {r1, r2}
    MaxUploads = 2
    UploadLimit = 2
    Unlimited = FALSE
    EditLimit = 1
    Values = {a}
    Blank = Blank
    None = None
    EmbeddingText <- MCEmbeddingText
    SkillsOf <- MCSkillsOf
    UniqueIndex = TRUE
    QdrantEnabled = TRUE
    Faults = {}
    Crashes = FALSE
    Ops <- AllOps
INVARIANTS
    DeletedResumeHasNoPoint
