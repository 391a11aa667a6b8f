SPECIFICATION FairSpec
CONSTANTS
    Jobs = {j1, j2}
    Manual = {j1}
    MaxRetries = 1
    MaxFaults = 2
INVARIANTS
    Sound
    EmojisExplained
    FailureIsTold
    RetriesAreTimeouts
PROPERTY
    ImplementsSpecs
    JobSettles
