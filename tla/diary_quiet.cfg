SPECIFICATION FairSpec
CONSTANTS
    MaxRuns = 4
    MaxUpdates = 3
    Messages = {m1}
    NoUpdate = NoUpdate
    MaxFailures = 0
    MaxOutages = 2
    MaxLostAcks = 1
    Operators = {w1, w2}
    MaxInFlight = 1
    MaxErasures = 0
    Patient = TRUE
    SameSecond = FALSE
INVARIANTS AtRestShowsIntent ReplaySameResult
PROPERTIES EveryUpdateAnswered EmbeddingCatchesUp KeepsPromise
