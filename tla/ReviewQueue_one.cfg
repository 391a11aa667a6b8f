SPECIFICATION FairSpec
CONSTANTS
    j1 = j1
    j2 = j2
    j3 = j3
    p1 = p1
    p2 = p2
    Jobs = {j1, j2, j3}
    NoJob = NoJob
    Workers = {w1}
    PRs = {p1, p2}
    PrOf <- MCPrOf
    Manual = {}
    QueueSize = 1
    MaxRetries = 1
    FailureThreshold = 3
CHECK_DEADLOCK FALSE
INVARIANT
    FailedWasReviewed
PROPERTIES
    AcceptedSettles
    WaitGroupDrains
