------------------------- MODULE AprAutoStopProofs -------------------------
(***************************************************************************)
(* Proof that every stop reason Orchestrator.run records is backed by     *)
(* the run's results (StopReasonJustified), for every value of the        *)
(* constants.                                                              *)
(*                                                                         *)
(* The property speaks of Streak, the results after the last accepted     *)
(* one, through a CHOOSE and a Cardinality.  The proof works with the     *)
(* counter the code keeps instead: consecutive_failures (cf) is exactly   *)
(* the number of results since the last accepted one, so that streak is  *)
(* the interval of the last cf indices.                                   *)
(***************************************************************************)
EXTENDS AprAutoProofs, FiniteSetTheorems

USE NumRoundsAssumption, MaxRoundsAssumption, MaxRunsAssumption,
    ScoreAssumption, SizesAssumption, TailsAssumption, RecoveryAssumption
USE DEF FailedResult

(* Index of the last accepted result (0 when none), as cf tells it. *)
StreakFrom == Len(results) - cf

(* The last cf results. *)
StreakIdx == StreakFrom + 1 .. Len(results)

(***************************************************************************)
(* What the loop knows when it stops, for each reason.                    *)
(***************************************************************************)
StopFacts ==
    /\ stop = "consecutive_failures" => cf = MAX_CONSECUTIVE_FAILURES
    /\ stop = "truncated_output" =>
           /\ cf = MAX_TRUNCATION_RETRIES
           /\ \A i \in StreakIdx : results[i].trunc
    /\ stop = "converged" =>
           /\ results # << >>
           /\ results[Len(results)].ok
           /\ results[Len(results)].rnd = round
           /\ results[Len(results)].conv # NoScore
           /\ results[Len(results)].conv >= Target
    /\ stop \in {"none", "max_rounds_reached"} =>
           round = End /\ completed = MaxRounds
    /\ stop = "shutdown" => shutting
    /\ stop # "completed"

(***************************************************************************)
(* The inductive invariant.  Besides the type invariant it says:          *)
(*  - cf counts the results since the last accepted one, none of which    *)
(*    is accepted, and all of which are attempts of the current round     *)
(*    (the round number only moves on with an acceptance);               *)
(*  - no attempt of a later round has been counted yet;                  *)
(*  - in the loop, cf is below the cap, no reason is set and one round   *)
(*    was completed per round number passed;                              *)
(*  - the truncation attempts of the current round are no more than cf  *)
(*    (plus the one being recovered), and when they are as many, every   *)
(*    failure of the streak was a truncation: this is what makes the     *)
(*    truncated_output stop come after exactly three truncations;         *)
(*  - once the loop is left, StopFacts.                                   *)
(***************************************************************************)
StopInv ==
    /\ TypeInv
    /\ cf <= Len(results)
    /\ StreakFrom = 0 \/ results[StreakFrom].ok
    /\ \A i \in StreakIdx : ~results[i].ok /\ results[i].rnd = round
    /\ \A r \in Rounds : r > round => attempts[r] = 0
    /\ pc = "start" =>
           /\ cf = 0 /\ results = << >> /\ stop = "none" /\ completed = 0
           /\ \A r \in Rounds : attempts[r] = 0
    /\ pc \in InLoop =>
           /\ cf < MAX_CONSECUTIVE_FAILURES
           /\ stop = "none"
           /\ start <= round /\ round <= End
           /\ completed = round - start
    /\ pc \in {"top", "exec", "verify"} /\ round \in Rounds =>
           /\ attempts[round] <= cf
           /\ attempts[round] = cf => \A i \in StreakIdx : results[i].trunc
    /\ pc = "recover" =>
           /\ attempts[round] <= cf + 1
           /\ attempts[round] = cf + 1 => \A i \in StreakIdx : results[i].trunc
    /\ pc \in {"finish", "done"} => StopFacts

-----------------------------------------------------------------------------
(* Lemmas on the streak. *)

(* When cf tells where the last acceptance is, the Streak of the property *)
(* is the interval of the last cf indices, and it has cf elements.        *)
LEMMA StreakIsInterval ==
    ASSUME results \in Seq(ResultRec), cf \in Nat, cf <= Len(results),
           StreakFrom = 0 \/ results[StreakFrom].ok,
           \A i \in StreakIdx : ~results[i].ok
    PROVE  Streak = StreakIdx /\ Cardinality(Streak) = cf
<1> DEFINE S == {0} \cup {i \in DOMAIN results : results[i].ok}
<1>1. StreakFrom \in S
  BY DEF StreakFrom
<1>2. \A x \in S : x <= StreakFrom
  BY DEF StreakFrom, StreakIdx
<1>3. \A m \in S : (\A x \in S : x <= m) => m = StreakFrom
  BY <1>1, <1>2 DEF StreakFrom
<1>4. LastAccepted = StreakFrom
  BY <1>1, <1>2, <1>3 DEF LastAccepted, MaxOf
<1>5. Streak = StreakIdx
  BY <1>4 DEF Streak, StreakIdx, StreakFrom
<1>6. Cardinality(StreakIdx) = cf
  BY FS_Interval DEF StreakIdx, StreakFrom
<1>. QED
  BY <1>5, <1>6

(* A failed attempt extends the streak by one result of this round. *)
LEMMA AppendFailed ==
    ASSUME results \in Seq(ResultRec), cf \in Nat, cf <= Len(results),
           NEW rec, ~rec.ok,
           results' = Append(results, rec), cf' = cf + 1
    PROVE  /\ cf' <= Len(results')
           /\ StreakFrom' = StreakFrom
           /\ StreakIdx' = StreakIdx \cup {Len(results) + 1}
           /\ Len(results) + 1 \notin StreakIdx
           /\ results'[Len(results) + 1] = rec
           /\ \A i \in StreakIdx : results'[i] = results[i]
           /\ StreakFrom > 0 => results'[StreakFrom] = results[StreakFrom]
BY AppendProperties DEF StreakFrom, StreakIdx

(* An accepted round ends the streak. *)
LEMMA AppendAccepted ==
    ASSUME results \in Seq(ResultRec), NEW rec, rec.ok,
           results' = Append(results, rec), cf' = 0
    PROVE  /\ cf' <= Len(results')
           /\ StreakFrom' = Len(results) + 1
           /\ results'[StreakFrom'].ok
           /\ StreakIdx' = {}
BY AppendProperties DEF StreakFrom, StreakIdx

-----------------------------------------------------------------------------
(* StopInv is inductive: one lemma per action. *)

LEMMA InitStopInv == Init => StopInv
<1> SUFFICES ASSUME Init PROVE StopInv
  OBVIOUS
<1>1. TypeInv
  BY InitTypeInv
<1>2. cf = 0 /\ results = << >> /\ pc = "start" /\ stop = "none"
      /\ completed = 0 /\ attempts = [r \in Rounds |-> 0]
  BY DEF Init
<1>3. StreakFrom = 0 /\ StreakIdx = {}
  BY <1>2 DEF StreakFrom, StreakIdx
<1>. QED
  BY <1>1, <1>2, <1>3 DEF StopInv, InLoop

(* A fresh process starts with an empty streak and no attempts. *)
LEMMA FreshProcessStop ==
    ASSUME NEW pcv, FreshProcess(pcv)
    PROVE  /\ cf' = 0 /\ results' = << >> /\ stop' = "none"
           /\ completed' = 0 /\ pc' = pcv
           /\ \A r \in Rounds : attempts'[r] = 0
           /\ StreakFrom' = 0 /\ StreakIdx' = {}
BY DEF FreshProcess, StreakFrom, StreakIdx

LEMMA LaunchStopInv ==
    ASSUME StopInv, Launch PROVE StopInv'
<1>1. TypeInv'
  BY LaunchTypeInv DEF StopInv
<1>2. FreshProcess("start")
  BY DEF Launch
<1>. QED
  BY <1>1, <1>2, FreshProcessStop DEF StopInv, InLoop

LEMMA CrashStopInv ==
    ASSUME StopInv, Crash PROVE StopInv'
<1>1. TypeInv'
  BY CrashTypeInv DEF StopInv
<1>2. FreshProcess("down")
  BY DEF Crash
<1>. QED
  BY <1>1, <1>2, FreshProcessStop DEF StopInv, InLoop

LEMMA HandleSignalStopInv ==
    ASSUME StopInv, HandleSignal PROVE StopInv'
<1>1. TypeInv'
  BY HandleSignalTypeInv DEF StopInv
<1>. QED
  BY <1>1 DEF StopInv, HandleSignal, StopFacts, StreakFrom, StreakIdx, End

LEMMA StutterStopInv ==
    ASSUME StopInv, UNCHANGED vars PROVE StopInv'
<1>1. TypeInv'
  BY StutterTypeInv DEF StopInv
<1>. QED
  BY <1>1 DEF StopInv, vars, proc, disk, StopFacts, StreakFrom, StreakIdx, End

LEMMA PreflightStopInv ==
    ASSUME StopInv, Preflight PROVE StopInv'
<1>1. TypeInv'
  BY PreflightTypeInv DEF StopInv
<1>2. /\ cf = 0 /\ results = << >> /\ stop = "none" /\ completed = 0
      /\ \A r \in Rounds : attempts[r] = 0
  BY DEF StopInv, Preflight
<1>3. UNCHANGED <<cf, results, completed, attempts, shutting>>
  BY DEF Preflight
<1>4. StreakFrom' = 0 /\ StreakIdx' = {}
  BY <1>2, <1>3 DEF StreakFrom, StreakIdx
<1>5. CASE pc' = "done" /\ stop' = "preflight_failed"
  BY <1>1, <1>2, <1>3, <1>4, <1>5 DEF StopInv, StopFacts, InLoop
<1>6. CASE /\ start' = DetectLastRound(art) + 1
           /\ round' = DetectLastRound(art) + 1
           /\ pc' = "top" /\ stop' = stop
  <2>1. DetectLastRound(art) \in 0..NumRounds
    BY DetectLastRoundType
  <2>2. start' <= round' /\ round' <= End' /\ completed' = round' - start'
    BY <1>2, <1>3, <1>6, <2>1 DEF End, StopInv, TypeInv, TypeOK
  <2>. QED
    BY <1>1, <1>2, <1>3, <1>4, <1>6, <2>2
       DEF StopInv, InLoop, MAX_CONSECUTIVE_FAILURES
<1>. QED
  BY <1>5, <1>6 DEF Preflight

LEMMA LoopTopStopInv ==
    ASSUME StopInv, LoopTop PROVE StopInv'
<1>1. TypeInv'
  BY LoopTopTypeInv DEF StopInv
<1>2. UNCHANGED <<start, round, cf, attempts, results, completed, shutting>>
  BY DEF LoopTop
<1>3. UNCHANGED <<StreakFrom, StreakIdx, End>>
  BY <1>2 DEF StreakFrom, StreakIdx, End
<1>4. /\ cf < MAX_CONSECUTIVE_FAILURES /\ stop = "none"
      /\ start <= round /\ round <= End /\ completed = round - start
  BY DEF StopInv, LoopTop, InLoop
<1>5. CASE round >= End /\ pc' = "finish" /\ stop' = stop
  BY <1>1, <1>2, <1>3, <1>4, <1>5 DEF StopInv, StopFacts, InLoop, End,
                                       TypeInv, TypeOK
<1>6. CASE round < End /\ shutting /\ stop' = "shutdown" /\ pc' = "finish"
  BY <1>1, <1>2, <1>3, <1>6 DEF StopInv, StopFacts, InLoop
<1>7. CASE round < End /\ pc' = "exec" /\ stop' = stop
  <2>1. pc = "top"
    BY DEF LoopTop
  <2>. QED
    BY <1>1, <1>2, <1>3, <1>4, <1>7, <2>1 DEF StopInv, InLoop
<1>. QED
  BY <1>5, <1>6, <1>7 DEF LoopTop

LEMMA FinishStopInv ==
    ASSUME StopInv, Finish PROVE StopInv'
<1>1. TypeInv'
  BY FinishTypeInv DEF StopInv
<1>2. UNCHANGED <<start, round, cf, attempts, results, completed, shutting>>
  BY DEF Finish
<1>3. UNCHANGED <<StreakFrom, StreakIdx, End>>
  BY <1>2 DEF StreakFrom, StreakIdx, End
<1>4. StopFacts
  BY DEF StopInv, Finish
<1>5. stop' = FinalReason /\ pc' = "done"
  BY DEF Finish
<1>6. StopFacts'
  <2>1. CASE stop = "none"
    <3>1. round = End /\ completed = MaxRounds
      BY <1>4, <2>1 DEF StopFacts
    <3>2. stop' = "max_rounds_reached"
      BY <1>5, <2>1, <3>1 DEF FinalReason, StopInv, TypeInv, TypeOK, End
    <3>. QED
      BY <1>2, <1>3, <3>1, <3>2 DEF StopFacts
  <2>2. CASE stop # "none"
    <3>1. stop' = stop
      BY <1>5, <2>2 DEF FinalReason
    <3>. QED
      BY <1>2, <1>3, <1>4, <3>1 DEF StopFacts
  <2>. QED
    BY <2>1, <2>2
<1>. QED
  BY <1>1, <1>2, <1>3, <1>5, <1>6 DEF StopInv, InLoop

(* The accept path: the streak ends, and the loop either stops with      *)
(* converged on this round's result or moves to the next round number,   *)
(* of which nothing has been attempted yet.                               *)
LEMMA AcceptRoundStop ==
    ASSUME StopInv, TypeInv', pc \in {"verify", "recover"}, AcceptRound,
           UNCHANGED <<start, attempts, shutting>>
    PROVE  StopInv'
<1>1. results \in Seq(ResultRec) /\ round \in Rounds /\ round < End
      /\ cf < MAX_CONSECUTIVE_FAILURES /\ stop = "none"
      /\ start <= round /\ completed = round - start
      /\ completed \in Nat /\ start \in Nat
  BY RoundIsSlot DEF StopInv, TypeInv, TypeOK, InLoop
<1>2. PICK conv \in Scores \cup {NoScore} :
        /\ results' = Append(results, [rnd |-> round, ok |-> TRUE,
                                       trunc |-> FALSE, conv |-> conv])
        /\ IF conv # NoScore /\ conv >= Target
           THEN stop' = "converged" /\ pc' = "finish" /\ UNCHANGED round
           ELSE round' = round + 1 /\ pc' = "top" /\ UNCHANGED stop
  BY DEF AcceptRound
<1>3. cf' = 0 /\ completed' = completed + 1
  BY DEF AcceptRound
<1>4. /\ cf' <= Len(results')
      /\ StreakFrom' = Len(results) + 1
      /\ results'[StreakFrom'].ok
      /\ StreakIdx' = {}
  BY <1>1, <1>2, <1>3, AppendAccepted
<1>5. CASE conv # NoScore /\ conv >= Target
  <2>1. stop' = "converged" /\ pc' = "finish" /\ round' = round
    BY <1>2, <1>5
  <2>2. /\ results' # << >>
        /\ results'[Len(results')] = [rnd |-> round, ok |-> TRUE,
                                      trunc |-> FALSE, conv |-> conv]
    BY <1>1, <1>2, AppendProperties
  <2>3. StopFacts'
    BY <1>5, <2>1, <2>2 DEF StopFacts
  <2>4. \A r \in Rounds : r > round' => attempts'[r] = 0
    BY <2>1 DEF StopInv
  <2>. QED
    BY <1>4, <2>1, <2>3, <2>4 DEF StopInv, InLoop
<1>6. CASE ~(conv # NoScore /\ conv >= Target)
  <2>1. round' = round + 1 /\ pc' = "top" /\ stop' = "none"
    BY <1>1, <1>2, <1>6
  <2>2. /\ start' <= round' /\ round' <= End'
        /\ completed' = round' - start'
    BY <1>1, <1>3, <2>1 DEF End, Rounds
  <2>3. \A r \in Rounds : r > round' => attempts'[r] = 0
    BY <2>1, <1>1 DEF StopInv, TypeInv, TypeOK, Rounds
  <2>4. round' \in Rounds => attempts'[round'] = 0
    BY <1>1, <2>1 DEF StopInv, TypeInv, TypeOK
  <2>. QED
    BY <1>3, <1>4, <2>1, <2>2, <2>3, <2>4
       DEF StopInv, InLoop, MAX_CONSECUTIVE_FAILURES
<1>. QED
  BY <1>5, <1>6

LEMMA RunRoundStopInv ==
    ASSUME StopInv, RunRound PROVE StopInv'
<1>1. TypeInv'
  BY RunRoundTypeInv DEF StopInv
<1>2. pc = "exec" /\ round \in Rounds
      /\ UNCHANGED <<start, round, attempts, completed, shutting>>
  BY RoundIsSlot DEF RunRound, StopInv
<1>3. /\ results \in Seq(ResultRec) /\ cf \in Nat /\ cf <= Len(results)
      /\ cf < MAX_CONSECUTIVE_FAILURES /\ stop = "none"
      /\ attempts[round] <= cf
  BY <1>2 DEF StopInv, TypeInv, TypeOK, InLoop
<1>4. CASE pc' = "verify" /\ UNCHANGED <<cf, failed, results, stop>>
  <2>1. UNCHANGED <<StreakFrom, StreakIdx, End>>
    BY <1>2, <1>4 DEF StreakFrom, StreakIdx, End
  <2>. QED
    BY <1>1, <1>2, <1>4, <2>1 DEF StopInv, InLoop
<1>5. CASE ExecFailure
  <2>1. /\ cf' <= Len(results')
        /\ StreakFrom' = StreakFrom
        /\ StreakIdx' = StreakIdx \cup {Len(results) + 1}
        /\ results'[Len(results) + 1] = FailedResult(FALSE)
        /\ \A i \in StreakIdx : results'[i] = results[i]
        /\ StreakFrom > 0 => results'[StreakFrom] = results[StreakFrom]
    <3>1. results' = Append(results, FailedResult(FALSE)) /\ cf' = cf + 1
      BY <1>5 DEF ExecFailure
    <3>2. FailedResult(FALSE) \in ResultRec
      BY <1>2 DEF FailedResult, ResultRec
    <3>3. /\ Len(results') = Len(results) + 1
          /\ results'[Len(results) + 1] = FailedResult(FALSE)
          /\ \A i \in 1 .. Len(results) : results'[i] = results[i]
      BY <1>3, <3>1, <3>2, AppendProperties
    <3>. QED
      BY <1>3, <3>1, <3>3 DEF StreakFrom, StreakIdx
  <2>2. /\ StreakFrom' = 0 \/ results'[StreakFrom'].ok
        /\ \A i \in StreakIdx' : ~results'[i].ok /\ results'[i].rnd = round'
    <3>1. StreakFrom' = 0 \/ results'[StreakFrom'].ok
      BY <1>3, <2>1 DEF StopInv, StreakFrom
    <3>2. \A i \in StreakIdx : ~results'[i].ok /\ results'[i].rnd = round
      BY <2>1 DEF StopInv
    <3>3. ~results'[Len(results) + 1].ok
          /\ results'[Len(results) + 1].rnd = round
      BY <2>1
    <3>. QED
      BY <1>2, <2>1, <3>1, <3>2, <3>3
  <2>3. CASE cf' >= MAX_CONSECUTIVE_FAILURES
    <3>1. stop' = "consecutive_failures" /\ pc' = "finish"
          /\ cf' = MAX_CONSECUTIVE_FAILURES
      BY <1>3, <1>5, <2>3 DEF ExecFailure, MAX_CONSECUTIVE_FAILURES
    <3>2. StopFacts'
      BY <3>1 DEF StopFacts
    <3>. QED
      BY <1>1, <1>2, <2>1, <2>2, <3>1, <3>2 DEF StopInv, InLoop
  <2>4. CASE ~(cf' >= MAX_CONSECUTIVE_FAILURES)
    <3>1. pc' = "top" /\ stop' = "none" /\ cf' = cf + 1
      BY <1>3, <1>5, <2>4 DEF ExecFailure
    <3>2. attempts'[round'] <= cf' /\ attempts'[round'] # cf'
      BY <1>2, <1>3, <3>1 DEF StopInv, TypeInv, TypeOK
    <3>. QED
      BY <1>1, <1>2, <1>3, <2>1, <2>2, <2>4, <3>1, <3>2
         DEF StopInv, InLoop, End, MAX_CONSECUTIVE_FAILURES
  <2>. QED
    BY <2>3, <2>4
<1>. QED
  BY <1>4, <1>5 DEF RunRound

(* A truncation that stands: checked against the retry budget first.     *)
LEMMA TruncationFailureStop ==
    ASSUME StopInv, TypeInv', pc = "recover", TruncationFailure,
           UNCHANGED <<start, attempts, completed, shutting>>
    PROVE  StopInv'
<1>1. /\ results \in Seq(ResultRec) /\ cf \in Nat /\ cf <= Len(results)
      /\ round \in Rounds /\ attempts[round] \in Nat
      /\ cf < MAX_CONSECUTIVE_FAILURES /\ stop = "none"
      /\ attempts[round] <= cf + 1
      /\ attempts[round] = cf + 1 => \A i \in StreakIdx : results[i].trunc
  BY RoundIsSlot DEF StopInv, TypeInv, TypeOK, InLoop
<1>2. round' = round /\ cf' = cf + 1
      /\ results' = Append(results, FailedResult(TRUE))
  BY DEF TruncationFailure
<1>3. /\ cf' <= Len(results')
      /\ StreakFrom' = StreakFrom
      /\ StreakIdx' = StreakIdx \cup {Len(results) + 1}
      /\ results'[Len(results) + 1] = FailedResult(TRUE)
      /\ \A i \in StreakIdx : results'[i] = results[i]
      /\ StreakFrom > 0 => results'[StreakFrom] = results[StreakFrom]
  <2>1. FailedResult(TRUE) \in ResultRec
    BY <1>1 DEF FailedResult, ResultRec
  <2>2. /\ Len(results') = Len(results) + 1
        /\ results'[Len(results) + 1] = FailedResult(TRUE)
        /\ \A i \in 1 .. Len(results) : results'[i] = results[i]
    BY <1>1, <1>2, <2>1, AppendProperties
  <2>. QED
    BY <1>1, <1>2, <2>2 DEF StreakFrom, StreakIdx
<1>4. /\ StreakFrom' = 0 \/ results'[StreakFrom'].ok
      /\ \A i \in StreakIdx' : ~results'[i].ok /\ results'[i].rnd = round'
  <2>1. StreakFrom' = 0 \/ results'[StreakFrom'].ok
    BY <1>1, <1>3 DEF StopInv, StreakFrom
  <2>2. \A i \in StreakIdx : ~results'[i].ok /\ results'[i].rnd = round
    BY <1>3 DEF StopInv
  <2>3. ~results'[Len(results) + 1].ok
        /\ results'[Len(results) + 1].rnd = round
    BY <1>3
  <2>. QED
    BY <1>2, <1>3, <2>1, <2>2, <2>3
<1>5. \A r \in Rounds : r > round' => attempts'[r] = 0
  BY <1>2 DEF StopInv
<1>6. (attempts[round] = cf + 1) => \A i \in StreakIdx' : results'[i].trunc
  BY <1>1, <1>3 DEF FailedResult
<1>7. CASE attempts[round] < MAX_TRUNCATION_RETRIES
           /\ cf' >= MAX_CONSECUTIVE_FAILURES
  <2>1. stop' = "consecutive_failures" /\ pc' = "finish"
        /\ cf' = MAX_CONSECUTIVE_FAILURES
    BY <1>1, <1>2, <1>7 DEF TruncationFailure, MAX_CONSECUTIVE_FAILURES,
                            MAX_TRUNCATION_RETRIES
  <2>2. StopFacts'
    BY <2>1 DEF StopFacts
  <2>. QED
    BY <1>3, <1>4, <1>5, <2>1, <2>2 DEF StopInv, InLoop
<1>8. CASE attempts[round] < MAX_TRUNCATION_RETRIES
           /\ ~(cf' >= MAX_CONSECUTIVE_FAILURES)
  <2>1. pc' = "top" /\ stop' = "none"
    BY <1>1, <1>2, <1>8 DEF TruncationFailure, MAX_CONSECUTIVE_FAILURES,
                            MAX_TRUNCATION_RETRIES
  <2>2. attempts'[round'] <= cf'
    BY <1>1, <1>2
  <2>3. attempts'[round'] = cf' => \A i \in StreakIdx' : results'[i].trunc
    BY <1>1, <1>2, <1>6
  <2>4. /\ cf' < MAX_CONSECUTIVE_FAILURES
        /\ start' <= round' /\ round' <= End'
        /\ completed' = round' - start'
    BY <1>1, <1>2, <1>8 DEF StopInv, InLoop, End, MAX_CONSECUTIVE_FAILURES
  <2>. QED
    BY <1>3, <1>4, <1>5, <2>1, <2>2, <2>3, <2>4 DEF StopInv, InLoop
<1>9. CASE ~(attempts[round] < MAX_TRUNCATION_RETRIES)
  <2>1. stop' = "truncated_output" /\ pc' = "finish"
    BY <1>9 DEF TruncationFailure
  <2>2. attempts[round] = cf + 1 /\ cf' = MAX_TRUNCATION_RETRIES
    BY <1>1, <1>2, <1>9 DEF MAX_TRUNCATION_RETRIES, MAX_CONSECUTIVE_FAILURES
  <2>3. StopFacts'
    BY <1>6, <2>1, <2>2 DEF StopFacts
  <2>. QED
    BY <1>3, <1>4, <1>5, <2>1, <2>3 DEF StopInv, InLoop
<1>. QED
  BY <1>7, <1>8, <1>9


LEMMA VerifyOutputStopInv ==
    ASSUME StopInv, VerifyOutput PROVE StopInv'
<1> DEFINE c == art[round]
<1>1. TypeInv'
  BY VerifyOutputTypeInv DEF StopInv
<1>2. pc = "verify" /\ round \in Rounds
      /\ UNCHANGED <<start, shutting>>
  BY RoundIsSlot DEF VerifyOutput, StopInv
<1>3. CASE /\ ~IsTruncated(c, history)
           /\ history' = SizeAfterCheck(c, FALSE)
           /\ AcceptRound
           /\ UNCHANGED <<art, archive, attempts, failed>>
  BY <1>1, <1>2, <1>3, AcceptRoundStop
<1>4. CASE /\ IsTruncated(c, history)
           /\ attempts' = [attempts EXCEPT ![round] = @ + 1]
           /\ history' = SizeAfterCheck(c, TRUE)
           /\ pc' = "recover"
           /\ UNCHANGED <<cf, results, completed, failed, stop, round>>
  <2>0. /\ attempts' = [attempts EXCEPT ![round] = @ + 1]
        /\ pc' = "recover"
        /\ UNCHANGED <<cf, results, completed, stop, round>>
    BY <1>4
  <2>1. /\ attempts \in [Rounds -> Nat] /\ cf \in Nat
        /\ attempts[round] <= cf
        /\ attempts[round] = cf => \A i \in StreakIdx : results[i].trunc
    BY <1>2 DEF StopInv, TypeInv, TypeOK
  <2>2. /\ attempts'[round] = attempts[round] + 1
        /\ \A r \in Rounds : r # round => attempts'[r] = attempts[r]
    BY <1>2, <2>0, <2>1
  <2>3. UNCHANGED <<StreakFrom, StreakIdx, End>>
    BY <1>2, <2>0 DEF StreakFrom, StreakIdx, End
  <2>4. \A r \in Rounds : r > round' => attempts'[r] = 0
    BY <1>2, <2>0, <2>2 DEF StopInv, Rounds
  <2>5. /\ attempts'[round'] <= cf' + 1
        /\ attempts'[round'] = cf' + 1 =>
               \A i \in StreakIdx' : results'[i].trunc
    <3>1. attempts'[round'] <= cf' + 1
      BY <1>2, <2>0, <2>1, <2>2
    <3>2. attempts'[round'] = cf' + 1 => \A i \in StreakIdx : results[i].trunc
      BY <1>2, <2>0, <2>1, <2>2
    <3>. QED
      BY <2>0, <2>3, <3>1, <3>2
  <2>. QED
    BY <1>1, <1>2, <2>0, <2>3, <2>4, <2>5 DEF StopInv, InLoop
<1>. QED
  BY <1>3, <1>4 DEF VerifyOutput

LEMMA CdpRecoveryStopInv ==
    ASSUME StopInv, CdpRecovery PROVE StopInv'
<1>1. TypeInv'
  BY CdpRecoveryTypeInv DEF StopInv
<1>2. pc = "recover" /\ UNCHANGED <<start, attempts, shutting>>
  BY DEF CdpRecovery
<1>3. CASE TruncationFailure /\ UNCHANGED <<art, history, completed>>
  BY <1>1, <1>2, <1>3, TruncationFailureStop
<1>4. CASE /\ RecoveryEnabled
           /\ \E rc \in RecoveredText :
                /\ art' = [art EXCEPT ![round] = rc]
                /\ \/ /\ ~IsTruncated(rc, history)
                      /\ RecordSize(rc)
                      /\ AcceptRound
                      /\ UNCHANGED failed
                   \/ /\ IsTruncated(rc, history)
                      /\ TruncationFailure
                      /\ UNCHANGED <<history, completed>>
  <2>1. PICK rc \in RecoveredText :
             \/ AcceptRound
             \/ TruncationFailure /\ UNCHANGED completed
    BY <1>4
  <2>2. CASE AcceptRound
    BY <1>1, <1>2, <2>2, AcceptRoundStop
  <2>3. CASE TruncationFailure /\ UNCHANGED completed
    BY <1>1, <1>2, <2>3, TruncationFailureStop
  <2>. QED
    BY <2>1, <2>2, <2>3
<1>. QED
  BY <1>3, <1>4 DEF CdpRecovery

LEMMA NextStopInv == StopInv /\ [Next]_vars => StopInv'
<1> SUFFICES ASSUME StopInv, [Next]_vars PROVE StopInv'
  OBVIOUS
<1>1. CASE Preflight     BY <1>1, PreflightStopInv
<1>2. CASE LoopTop       BY <1>2, LoopTopStopInv
<1>3. CASE RunRound      BY <1>3, RunRoundStopInv
<1>4. CASE VerifyOutput  BY <1>4, VerifyOutputStopInv
<1>5. CASE CdpRecovery   BY <1>5, CdpRecoveryStopInv
<1>6. CASE Finish        BY <1>6, FinishStopInv
<1>7. CASE Launch        BY <1>7, LaunchStopInv
<1>8. CASE Crash         BY <1>8, CrashStopInv
<1>9. CASE HandleSignal  BY <1>9, HandleSignalStopInv
<1>10. CASE UNCHANGED vars  BY <1>10, StutterStopInv
<1>. QED
  BY <1>1, <1>2, <1>3, <1>4, <1>5, <1>6, <1>7, <1>8, <1>9, <1>10
     DEF Next, ProcessStep

-----------------------------------------------------------------------------
(* StopInv holds in every reachable state of the orchestrator. *)
THEOREM StopInvariant == Spec => []StopInv
<1>1. Init => StopInv
  BY InitStopInv
<1>2. StopInv /\ [Next]_vars => StopInv'
  BY NextStopInv
<1>. QED
  BY <1>1, <1>2, PTL DEF Spec

(* The stop facts, said of the streak the property names. *)
LEMMA StopInvJustified == StopInv => StopReasonJustified
<1> SUFFICES ASSUME StopInv PROVE StopReasonJustified
  OBVIOUS
<1>1. Streak = StreakIdx /\ Cardinality(Streak) = cf
  <2>1. /\ results \in Seq(ResultRec) /\ cf \in Nat /\ cf <= Len(results)
        /\ StreakFrom = 0 \/ results[StreakFrom].ok
        /\ \A i \in StreakIdx : ~results[i].ok
    BY DEF StopInv, TypeInv, TypeOK
  <2>. QED
    BY <2>1, StreakIsInterval
<1>2. ASSUME pc \in {"finish", "done"} PROVE StopFacts
  BY <1>2 DEF StopInv
<1>. QED
  BY <1>1, <1>2 DEF StopReasonJustified, StopFacts, StopInv,
                    MAX_CONSECUTIVE_FAILURES, MAX_TRUNCATION_RETRIES

(***************************************************************************)
(* Every stop reason Orchestrator.run records is backed by the run's      *)
(* results (the property the runs check on small instances), for every   *)
(* number of rounds, launches, scores and sizes: consecutive_failures     *)
(* after exactly three failures since the last accepted round,           *)
(* truncated_output after exactly three truncations of the current round *)
(* number, converged on this round's accepted score, max_rounds_reached  *)
(* at the round bound, shutdown only after a signal, never "completed".  *)
(***************************************************************************)
THEOREM StopReasonsJustified == Spec => []StopReasonJustified
<1>1. StopInv => StopReasonJustified
  BY StopInvJustified
<1>. QED
  BY StopInvariant, <1>1, PTL

-----------------------------------------------------------------------------
(***************************************************************************)
(* An interrupt never masks another stop reason (ShutdownMasksNothing).   *)
(* The loop reads the flag at its head, and there the last result never  *)
(* converged (a convergence leaves the loop at once), cf is below its    *)
(* cap and the bound is not reached.  ShutInv carries these facts from    *)
(* the loop head to the end of the process.                              *)
(***************************************************************************)
Converged(rec) == rec.ok /\ rec.conv # NoScore /\ rec.conv >= Target

LastNotConverged == results # << >> => ~Converged(results[Len(results)])

ShutInv ==
    /\ pc \in InLoop => LastNotConverged
    /\ stop = "shutdown" =>
           /\ round < End
           /\ cf < MAX_CONSECUTIVE_FAILURES
           /\ LastNotConverged

(* Appending a result that did not converge. *)
LEMMA AppendNotConverged ==
    ASSUME results \in Seq(ResultRec), NEW rec, ~Converged(rec),
           results' = Append(results, rec)
    PROVE  LastNotConverged'
BY AppendProperties DEF LastNotConverged

LEMMA InitShutInv == Init => ShutInv
BY DEF Init, ShutInv, InLoop

(* A step that keeps pc, round, cf, results, stop and start. *)
LEMMA ShutFrame ==
    ASSUME ShutInv, UNCHANGED <<pc, round, cf, results, stop, start>>
    PROVE  ShutInv'
BY DEF ShutInv, LastNotConverged, End

(* A fresh process has no results and no reason. *)
LEMMA ShutFresh ==
    ASSUME NEW pcv, FreshProcess(pcv) PROVE ShutInv'
BY DEF FreshProcess, ShutInv, LastNotConverged

LEMMA PreflightShut ==
    ASSUME StopInv, Preflight PROVE ShutInv'
<1>1. results = << >> /\ UNCHANGED results
  BY DEF StopInv, Preflight
<1>2. stop' # "shutdown"
  BY DEF StopInv, Preflight
<1>. QED
  BY <1>1, <1>2 DEF ShutInv, LastNotConverged

LEMMA LoopTopShut ==
    ASSUME StopInv, ShutInv, LoopTop PROVE ShutInv'
<1>1. /\ UNCHANGED <<start, round, cf, results>>
      /\ LastNotConverged /\ cf < MAX_CONSECUTIVE_FAILURES /\ stop = "none"
  BY DEF LoopTop, ShutInv, StopInv, InLoop
<1>2. LastNotConverged'
  BY <1>1 DEF LastNotConverged
<1>3. stop' = "shutdown" => round' < End'
  BY <1>1 DEF LoopTop, End
<1>. QED
  BY <1>1, <1>2, <1>3 DEF ShutInv

(* A failed attempt of either kind. *)
LEMMA FailShut ==
    ASSUME StopInv, NEW t \in BOOLEAN,
           results' = Append(results, FailedResult(t)),
           stop' # "shutdown"
    PROVE  ShutInv'
<1>1. results \in Seq(ResultRec)
  BY DEF StopInv, TypeInv, TypeOK
<1>. QED
  BY <1>1, AppendNotConverged DEF ShutInv, Converged

(* The accept path: a convergence leaves the loop with its own reason.  *)
LEMMA AcceptShut ==
    ASSUME StopInv, pc \in {"verify", "recover"}, AcceptRound
    PROVE  ShutInv'
<1>1. results \in Seq(ResultRec) /\ stop = "none"
  BY DEF StopInv, TypeInv, TypeOK, InLoop
<1>2. PICK conv \in Scores \cup {NoScore} :
        /\ results' = Append(results, [rnd |-> round, ok |-> TRUE,
                                       trunc |-> FALSE, conv |-> conv])
        /\ IF conv # NoScore /\ conv >= Target
           THEN stop' = "converged" /\ pc' = "finish" /\ UNCHANGED round
           ELSE round' = round + 1 /\ pc' = "top" /\ UNCHANGED stop
  BY DEF AcceptRound
<1>3. CASE conv # NoScore /\ conv >= Target
  BY <1>2, <1>3 DEF ShutInv, InLoop
<1>4. CASE ~(conv # NoScore /\ conv >= Target)
  <2>1. LastNotConverged'
    BY <1>1, <1>2, <1>4, AppendNotConverged DEF Converged
  <2>. QED
    BY <1>1, <1>2, <1>4, <2>1 DEF ShutInv
<1>. QED
  BY <1>3, <1>4

LEMMA RunRoundShut ==
    ASSUME StopInv, ShutInv, RunRound PROVE ShutInv'
<1>1. pc = "exec" /\ stop = "none" /\ UNCHANGED <<start, round>>
  BY DEF RunRound, StopInv, InLoop
<1>2. CASE pc' = "verify" /\ UNCHANGED <<cf, failed, results, stop>>
  BY <1>1, <1>2 DEF ShutInv, LastNotConverged, InLoop
<1>3. CASE ExecFailure
  BY <1>1, <1>3, FailShut DEF ExecFailure
<1>. QED
  BY <1>2, <1>3 DEF RunRound

LEMMA VerifyOutputShut ==
    ASSUME StopInv, ShutInv, VerifyOutput PROVE ShutInv'
<1>1. pc = "verify" /\ stop = "none"
  BY DEF VerifyOutput, StopInv, InLoop
<1>2. CASE AcceptRound
  BY <1>1, <1>2, AcceptShut
<1>3. CASE pc' = "recover" /\ UNCHANGED <<results, stop, round>>
  BY <1>1, <1>3 DEF ShutInv, LastNotConverged, InLoop
<1>. QED
  BY <1>2, <1>3 DEF VerifyOutput

LEMMA CdpRecoveryShut ==
    ASSUME StopInv, CdpRecovery PROVE ShutInv'
<1>1. pc = "recover"
  BY DEF CdpRecovery
<1>2. CASE TruncationFailure
  <2>1. stop' # "shutdown"
    BY <1>1, <1>2 DEF TruncationFailure, StopInv, InLoop
  <2>. QED
    BY <1>2, <2>1, FailShut DEF TruncationFailure
<1>3. CASE AcceptRound
  BY <1>1, <1>3, AcceptShut
<1>. QED
  BY <1>2, <1>3 DEF CdpRecovery

(* Finish keeps a shutdown reason and sets no new one. *)
LEMMA FinishShut ==
    ASSUME ShutInv, Finish PROVE ShutInv'
<1>1. UNCHANGED <<start, round, cf, results>> /\ pc' = "done"
  BY DEF Finish
<1>2. stop' = "shutdown" => stop = "shutdown"
  BY DEF Finish, FinalReason
<1>. QED
  BY <1>1, <1>2 DEF ShutInv, LastNotConverged, End, InLoop

LEMMA NextShutInv == StopInv /\ ShutInv /\ [Next]_vars => ShutInv'
<1> SUFFICES ASSUME StopInv, ShutInv, [Next]_vars PROVE ShutInv'
  OBVIOUS
<1>1. CASE Preflight     BY <1>1, PreflightShut
<1>2. CASE LoopTop       BY <1>2, LoopTopShut
<1>3. CASE RunRound      BY <1>3, RunRoundShut
<1>4. CASE VerifyOutput  BY <1>4, VerifyOutputShut
<1>5. CASE CdpRecovery   BY <1>5, CdpRecoveryShut
<1>6. CASE Finish        BY <1>6, FinishShut
<1>7. CASE Launch        BY <1>7, ShutFresh DEF Launch
<1>8. CASE Crash         BY <1>8, ShutFresh DEF Crash
<1>9. CASE HandleSignal  BY <1>9, ShutFrame DEF HandleSignal
<1>10. CASE UNCHANGED vars  BY <1>10, ShutFrame DEF vars, proc
<1>. QED
  BY <1>1, <1>2, <1>3, <1>4, <1>5, <1>6, <1>7, <1>8, <1>9, <1>10
     DEF Next, ProcessStep

(* With StopInv, cf is the size of the streak (StreakIsInterval). *)
LEMMA ShutInvIsProperty ==
    ASSUME StopInv, ShutInv PROVE ShutdownMasksNothing
<1>1. Cardinality(Streak) = cf
  BY StreakIsInterval DEF StopInv, TypeInv, TypeOK
<1>. QED
  BY <1>1 DEF ShutInv, LastNotConverged, Converged, ShutdownMasksNothing

(* An interrupt never masks another stop reason: whenever the recorded  *)
(* reason is shutdown, the round bound was not reached, the failure      *)
(* streak is below its cap and the last result did not converge, for    *)
(* every value of the constants and across kills and relaunches.         *)
THEOREM ShutdownNeverMasks == Spec => []ShutdownMasksNothing
<1>1. Init => StopInv /\ ShutInv
  BY InitStopInv, InitShutInv
<1>2. StopInv /\ ShutInv /\ [Next]_vars => (StopInv /\ ShutInv)'
  BY NextStopInv, NextShutInv
<1>3. StopInv /\ ShutInv => ShutdownMasksNothing
  BY ShutInvIsProperty
<1>. QED
  BY <1>1, <1>2, <1>3, PTL DEF Spec

=============================================================================
