SPECIFICATION Spec
CONSTANTS
    MaxRuns = 5
    MaxUpdates = 3
    Messages = {m1, m2}
    NoUpdate = NoUpdate
    MaxFailures = 2
    MaxOutages = 1
    MaxLostAcks = 1
    Operators = {w1}
    MaxInFlight = 1
    MaxErasures = 0
    Patient = TRUE
    SameSecond = TRUE
SYMMETRY Interchangeable
INVARIANTS RetrievableIsCurrent ExtraRevisionsBounded StrandedBounded OnlyFaultsAbandon
