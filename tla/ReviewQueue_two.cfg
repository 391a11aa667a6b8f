SPECIFICATION Spec
CONSTANTS
    j1 = j1
    j2 = j2
    j3 = j3
    p1 = p1
    p2 = p2
    Jobs = {j1, j2}
    NoJob = NoJob
    Workers = {w1, w2}
    PRs = {p1, p2}
    PrOf <- MCPrOf
    Manual = {j1}
    QueueSize = 1
    MaxRetries = 2
    FailureThreshold = 2
SYMMETRY WorkerSymmetry
CHECK_DEADLOCK FALSE
INVARIANTS
    Sound
    ReviewsBounded
    ReactionsTellFate
    NoPhantomProcessing
PROPERTIES
    FullIsReal
    ImplementsReviewJobs
    ImplementsCircuitBreaker
