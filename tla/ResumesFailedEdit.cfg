SPECIFICATION Spec
CONSTANTS
    Requests = {r1}
    MaxUploads = 1
    UploadLimit = 2
    Unlimited = FALSE
    EditLimit = 1
    Values = {a}
    Blank = Blank
    None = None
    EmbeddingText <- MCEmbeddingText
    SkillsOf <- MCSkillsOf
    UniqueIndex = TRUE
    QdrantEnabled = TRUE
    Faults = {"gemini"}
    Crashes = FALSE
    Ops <- AllOps
PROPERTIES
    FailedProfileIsEditable
