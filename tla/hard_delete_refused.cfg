SPECIFICATION Spec
CONSTANTS
    MaxRuns = 1
    MaxUpdates = 1
    Messages = {m1}
    NoUpdate = NoUpdate
    MaxFailures = 0
    MaxOutages = 1
    MaxLostAcks = 0
    Operators = {w1}
    MaxInFlight = 1
    MaxErasures = 1
    Patient = TRUE
    SameSecond = FALSE
INVARIANT HardDeleteNeverRefused
