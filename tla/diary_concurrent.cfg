SPECIFICATION Spec
CONSTANTS
    MaxRuns = 3
    MaxUpdates = 2
    Messages = {m1}
    NoUpdate = NoUpdate
    MaxFailures = 1
    MaxOutages = 1
    MaxLostAcks = 0
    Operators = {w1}
    MaxInFlight = 2
    MaxErasures = 1
    Patient = FALSE
    SameSecond = TRUE
INVARIANTS TypeOK ReadyHasRecord OneNotePerMessageState NeverZeroActive ErasedStaysErased ConfirmedIsStored
PROPERTIES EmbeddingOnlyAdvances ImplementsCorpus
