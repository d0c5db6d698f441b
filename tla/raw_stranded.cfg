SPECIFICATION Spec
CONSTANTS
    MaxRuns = 2
    MaxUpdates = 1
    Messages = {m1}
    NoUpdate = NoUpdate
    MaxFailures = 1
    MaxOutages = 0
    MaxLostAcks = 0
    Operators = {w1}
    MaxInFlight = 1
    MaxErasures = 0
    Patient = TRUE
    SameSecond = FALSE
INVARIANT RawBecomesNote
