SPECIFICATION FairSpec
CONSTANTS
    Requests = {r1, r2}
    MaxUploads = 2
    UploadLimit = 2
    Unlimited = FALSE
    EditLimit = 1
    Values = {a}
    Blank = Blank
    None = None
    EmbeddingText <- MCEmbeddingText
    SkillsOf <- MCSkillsOf
    UniqueIndex = TRUE
    QdrantEnabled = FALSE
    Faults = {"gemini"}
    Crashes = FALSE
    Ops = {"upload", "quota", "delete", "confirm"}
INVARIANTS
    NoStuckProcessing
    FileMissingOnlyDuringRemoval
PROPERTIES
    EveryRequestEnds
    ExtractionSettles
