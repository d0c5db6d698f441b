SPECIFICATION Spec
CONSTANTS
    MaxRuns = 2
    MaxUpdates = 2
    Messages = {m1}
    NoUpdate = NoUpdate
    MaxFailures = 0
    MaxOutages = 1
    MaxLostAcks = 0
    Operators = {w1}
    MaxInFlight = 1
    MaxErasures = 0
    Patient = TRUE
    SameSecond = FALSE
PROPERTY RetiredNeverEmbedded
