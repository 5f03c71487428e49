CONSTANTS
    NumRounds <- MCRestartNumRounds
    MaxRounds <- MCRestartMaxRounds
    MaxRuns <- MCMaxRunsRestart
    Target <- MCTarget
    Scores <- MCScores
    Sizes <- MCSizes
    Tails <- MCTails
    RecoveryEnabled = TRUE
    NoScore = NoScore

SPECIFICATION Spec

INVARIANTS
    StopReasonJustified
    HistoryReflectsAcceptedRounds
    ShutdownMasksNothing

\* A run really stops: the process exits and, after MaxRuns launches, is
\* not started again.
CHECK_DEADLOCK FALSE
