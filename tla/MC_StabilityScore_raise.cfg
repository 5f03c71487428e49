CONSTANTS
    TopKinds <- MCBadTopKinds
    ConvKinds <- MCBadConvKinds
    Vals <- MCSmallVals
    Unread = Unread
    NoScore = NoScore
    Raised = Raised

SPECIFICATION Spec

INVARIANT ScoreNeverRaises

CHECK_DEADLOCK FALSE
