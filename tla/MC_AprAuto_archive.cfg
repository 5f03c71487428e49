\* Two launches: a round that exhausted its truncation budget in one run is
\* truncated again in the next, which renames it to the same names.
CONSTANTS
    NumRounds <- MCNumRounds
    MaxRounds <- MCMaxRounds
    MaxRuns <- MCMaxRunsRestart
    Target <- MCTarget
    Scores <- MCScores
    Sizes <- MCSizes
    Tails <- MCTails
    RecoveryEnabled = TRUE
    NoScore = NoScore

SPECIFICATION Spec

INVARIANT ArchiveNeverOverwritten

CHECK_DEADLOCK FALSE
