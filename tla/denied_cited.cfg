SPECIFICATION Spec
CONSTANTS
    home = home
    away = away
    Chunks = {c1}
    Communities = {home}
    HomeOf <- AllAtHome
    TopK = 1
    CandidateK = 1
    RrfK = 60
    MaxCalls = 2
    Refs = {}
    MaxResults = 1
    Deployments <- OnPostgres
    Kinds = {"ask", "sources"}
    Meanwhile = FALSE
    MaxFailures = 0
    MaxOutages = 0
    MaxLostAcks = 0
INVARIANT SourcesWereAnswered
