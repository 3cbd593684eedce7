SPECIFICATION FairSpec
CONSTANTS
    Requests = {r1, r2}
    MaxAttempts = 2
    TTL = 2
    Latency = 1
    MaxTexts = 2
    UniqueIndex = FALSE
    None = None
INVARIANTS
    TypeOK
PROPERTIES
    PromptStaleForTTL
    OperatorTextKept
    EveryExtractionEnds
