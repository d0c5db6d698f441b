SPECIFICATION Representative
CONSTANTS
    Callers = {1, 2}
    Updates = {e1, e2, u1, u2}
    Earlier = {e1, e2}
    Snapshotted = {e1}
    ShortText = 7
    LongText = 24
    u1 = u1
    u2 = u2
    Contents <- AnyContents
    EarlierContents <- EarlierTexts
    DefaultLimit = 1
    MaxLimit = 2
    HeaderLength = 6
    Cap = 20
    Separator = 1
    MaxAttempts = 2
    Timeout = 1
    BackoffBase = 1
    BackoffCap = 2
    RetryAfters = {5}
    MaxFailures = 1
    MaxOutages = 1
    MaxLostAcks = 1
INVARIANTS TypeOK ListingsAreWhole AuthorsAreKept DraftsAreTheNewest CallsAreBounded
PROPERTY EveryUpdateAnswered
