SPECIFICATION Spec
CONSTANTS
    MaxRuns = 2
    MaxUpdates = 2
    Messages = {m1}
    NoUpdate = NoUpdate
    MaxFailures = 0
    MaxOutages = 0
    MaxLostAcks = 0
    Operators = {w1}
    MaxInFlight = 2
    MaxErasures = 0
    Patient = FALSE
    SameSecond = FALSE
INVARIANT DeleteIsEffective
