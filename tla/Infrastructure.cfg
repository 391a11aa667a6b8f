SPECIFICATION MCSpec
CONSTANTS
    Callers = {c1, c2, c3}
    FailureThreshold = 3
    MaxChanges = 5
    Rate = 3
    Interval = 4
    MaxTime = 9
    MaxRequests = 2
    QueueSize = 1
    Texts <- MCTexts
    Requests <- MCRequests
    Workers = {w1, w2}
    None = None
    Torn = Torn
    MaxReviews = 2
    MaxStarts = 2
CHECK_DEADLOCK FALSE
INVARIANTS
    Sound
    CountersFormPath
    LimiterSound
    RefusesOnlyAfterAdmission
    IntakeSound
    AcceptedIsAuthorised
    StoreSound
    StoredInOrder
PROPERTIES
    ClosesThroughHalfOpen
    OpenIsTried
    StoreNeverGoesBack
