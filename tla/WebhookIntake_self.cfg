SPECIFICATION IntakeSpec
CONSTANTS
    MaxRequests = 2
    QueueSize = 1
    Texts <- MCTexts
    Requests <- MCRequests
CHECK_DEADLOCK FALSE
INVARIANT
    NoReviewOfOwnComments
