---------------------------- MODULE MC_AprAuto ----------------------------
(***************************************************************************)
(* Small instances of AprAuto for TLC.  The main one: three round slots,  *)
(* runs of at most two rounds, one launch, one score on each side of the  *)
(* target, two artifact sizes (300 is below 30% of the average once 1200  *)
(* is in the history, so the rolling-average check fires) and two tails   *)
(* (one that fires no heuristic, one that always does).                   *)
(***************************************************************************)
EXTENDS AprAuto

MCNumRounds == 3
MCMaxRounds == 2
MCMaxRuns == 1
MCMaxRunsRestart == 2
MCTarget == 75
MCScores == {50, 90}
MCSizes == {300, 1200}
MCTails == {"ok", "novowel"}

(* The restart instance: two slots, one round per run, two launches, so a *)
(* second run resumes from what the first left on disk.                   *)
MCRestartNumRounds == 2
MCRestartMaxRounds == 1
=============================================================================
