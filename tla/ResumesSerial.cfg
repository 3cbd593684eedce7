SPECIFICATION Spec
CONSTANTS
    Requests = {r1}
    MaxUploads = 3
    UploadLimit = 2
    Unlimited = FALSE
    EditLimit = 2
    Values = {a, b}
    Blank = Blank
    None = None
    EmbeddingText <- MCEmbeddingText
    SkillsOf <- MCSkillsOf
    UniqueIndex = TRUE
    QdrantEnabled = TRUE
    Faults <- AllFaults
    Crashes = TRUE
    Ops <- AllOps
SYMMETRY ValueSymmetry
INVARIANTS
    TypeOK
    ProfileHasResume
    PointHasConfirmedProfile
    UploadCountWithinLimit
    VectorCurrentOrFlagged
    SkillsMirrorProfile
    CountCoversResume
    EditsWithinLimit
    FailedUploadCanBeReplaced
PROPERTIES
    EveryEditIsCounted
    ResetOnlyWithoutSuccessfulUpload
    FailedIsNotConfirmed
    ImplementsLifecycle
