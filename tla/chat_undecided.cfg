SPECIFICATION Spec
CONSTANTS
    home = home
    away = away
    Chunks = {c1}
    Communities = {home, away}
    HomeOf <- AllAtHome
    TopK = 1
    CandidateK = 1
    RrfK = 60
    MaxCalls = 1
    Refs = {}
    MaxResults = 1
    Deployments <- Anywhere
    Kinds = {"chat"}
    Meanwhile = TRUE
    MaxFailures = 0
    MaxOutages = 1
    MaxLostAcks = 0
INVARIANT EveryChatIsDecided
