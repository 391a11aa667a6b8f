SPECIFICATION StoreSpec
CONSTANTS
    Workers = {w1, w2}
    None = None
    Torn = Torn
    MaxReviews = 2
    MaxStarts = 2
SYMMETRY Symmetry
CHECK_DEADLOCK FALSE
INVARIANT
    SurvivesRestart
