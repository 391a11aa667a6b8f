SPECIFICATION Spec
CONSTANTS
    Workers = {w1, w2}
    PRs = {p1, p2}
    NoPR = NoPR
    MaxReviews = 3
    MaxPushes = 1
SYMMETRY Symmetry
CHECK_DEADLOCK FALSE
INVARIANTS
    Sound
    ReviewsPreparedTree
    NothingLeftBehind
PROPERTY
    TreeStableUnderReview
