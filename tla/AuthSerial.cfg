SPECIFICATION Spec
CONSTANTS
    Requests = {r1}
    MaxLinks = 2
    MaxTokens = 3
    MaxIds = 5
    None = None
    Faults <- AllFaults
    Crashes = TRUE
    Ops <- AllOps
INVARIANTS
    TypeOK
    IndexCoversLive
    OneUsableLink
    OneTokenPerSession
    ResetRevokesAll
