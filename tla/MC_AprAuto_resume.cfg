\* Two launches: a truncated artifact left in round_N.md by one run is
\* met by the resume point of the next.
CONSTANTS
    NumRounds <- MCNumRounds
    MaxRounds <- MCMaxRounds
    MaxRuns <- MCMaxRunsRestart
    Target <- MCTarget
    Scores <- MCScores
    Sizes <- MCSizes
    Tails <- MCTails
    RecoveryEnabled = TRUE
    NoScore = NoScore

SPECIFICATION Spec

INVARIANT ResumeRedoesIncompleteRound

CHECK_DEADLOCK FALSE
