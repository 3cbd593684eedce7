SPECIFICATION Spec
CONSTANTS
    Requests = {r1, r2}
    MaxLinks = 2
    MaxTokens = 2
    MaxIds = 4
    None = None
    Faults = {}
    Crashes = FALSE
    Ops = {"register", "forgot", "consume", "login", "refresh"}
INVARIANTS
    ResetRevokesAll
