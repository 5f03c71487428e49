CONSTANTS
    TopKinds <- MCTopKinds
    ConvKinds <- MCConvKinds
    Vals <- MCNegVals
    Unread = Unread
    NoScore = NoScore
    Raised = Raised

SPECIFICATION Spec

INVARIANT ScoreIsPercentage

CHECK_DEADLOCK FALSE
