SPECIFICATION FairSpec
CONSTANTS
    Workers = {w1, w2}
    Webhooks = {r1, r2}
    Probes = {p1}
    Free = Free
CHECK_DEADLOCK FALSE
INVARIANTS
    Sound
    HealthTellsTruth
PROPERTIES
    NoneAcceptedAfterStop
    StopTerminates
