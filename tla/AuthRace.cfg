SPECIFICATION BSpec
CONSTANTS
    Requests = {r1, r2}
    MaxLinks = 2
    MaxTokens = 3
    MaxIds = 4
    None = None
    Faults = {}
    Crashes = FALSE
    Ops <- AllOps
SYMMETRY RequestSymmetry
INVARIANTS
    SessionsNeedVerifiedAccount
    CookieIsLive
    LogoutEndsSession
PROPERTIES
    AccountKeepsItsData
