SPECIFICATION FairSpec
CONSTANTS
    home = home
    away = away
    Chunks = {c1, c2}
    Communities = {home}
    HomeOf <- AllAtHome
    TopK = 1
    CandidateK = 2
    RrfK = 60
    MaxCalls = 1
    Refs = {r1}
    MaxResults = 1
    Deployments <- Anywhere
    Kinds = {"chat"}
    Meanwhile = FALSE
    MaxFailures = 1
    MaxOutages = 1
    MaxLostAcks = 0
INVARIANTS RepliesAreGrounded RepliesAreTraced NoBetterChunkLeftOut ChatsAreAccounted RoutesAreHonest
PROPERTY EveryCallEnds
