SPECIFICATION Spec
CONSTANTS
    home = home
    away = away
    Chunks = {c1}
    Communities = {home, away}
    HomeOf <- AllAtHome
    TopK = 1
    CandidateK = 1
    RrfK = 60
    MaxCalls = 2
    Refs = {}
    MaxResults = 1
    Deployments <- NoKnowledge
    Kinds = {"ask", "sources"}
    Meanwhile = TRUE
    MaxFailures = 1
    MaxOutages = 1
    MaxLostAcks = 0
INVARIANTS TypeOK RepliesAreGrounded RepliesAreTraced ErasedLeavesNoHits UntracedIsExplained SourcesAreLatest
