CONSTANTS
    TopKinds <- MCTopKinds
    ConvKinds <- MCConvKinds
    Vals <- MCVals
    Unread = Unread
    NoScore = NoScore
    Raised = Raised

SPECIFICATION Spec

INVARIANTS
    ScoreMatchesContract

\* One read per document: the function returns and the model ends there.
CHECK_DEADLOCK FALSE
