CONSTANTS
    NumRounds <- MCNumRounds
    MaxRounds <- MCMaxRounds
    MaxRuns <- MCMaxRuns
    Target <- MCTarget
    Scores <- MCScores
    Sizes <- MCSizes
    Tails <- MCTails
    RecoveryEnabled = TRUE
    NoScore = NoScore

SPECIFICATION Spec

INVARIANTS
    TypeOK
    StopReasonJustified
    HistoryReflectsAcceptedRounds

\* A run really stops: the process exits and, after MaxRuns launches, is
\* not started again.
CHECK_DEADLOCK FALSE
