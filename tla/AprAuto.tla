------------------------------ MODULE AprAuto ------------------------------
(***************************************************************************)
(* The round orchestration loop of apr_auto.py (class Orchestrator, method *)
(* run) together with the parts of the system it drives:                  *)
(*                                                                         *)
(*  - the artifact store: one round_N.md file per round number, modelled  *)
(*    by its size and by the feature of its last lines that the           *)
(*    truncation heuristics look at, and the round_N.truncated.K.md files *)
(*    a truncated artifact is renamed to;                                  *)
(*  - the round executor (apr run N --wait), the recovery provider (CDP   *)
(*    over ssh) and the convergence oracle (apr backfill + apr stats),    *)
(*    which are external black boxes: every outcome their wrappers can    *)
(*    return is a nondeterministic choice;                                 *)
(*  - the persisted status.json and last_run.json snapshots;              *)
(*  - the process itself: SIGINT/SIGTERM setting the shutdown flag at any *)
(*    moment, a kill at any moment, and a relaunch that resumes from the  *)
(*    artifact store.                                                      *)
(*                                                                         *)
(* One action per stretch of code between two points where a crash or a  *)
(* signal makes a difference to what is on disk.                           *)
(***************************************************************************)
EXTENDS Integers, Sequences, FiniteSets

CONSTANTS
    NumRounds,       \* round numbers 1..NumRounds have an artifact slot
    MaxRounds,       \* config.max_rounds (--max-rounds)
    MaxRuns,         \* how many times the process is launched (model bound)
    Target,          \* config.convergence_target, a percentage
    Scores,          \* normalised stability scores the oracle may report
    Sizes,           \* character counts an artifact may have
    Tails,           \* what the end of an artifact looks like (see IsTruncated)
    RecoveryEnabled, \* config.cdp_recovery_enabled (--no-cdp-recovery)
    NoScore          \* None from read_stability_score: convergence unknown

ASSUME NumRoundsAssumption == NumRounds \in Nat
ASSUME MaxRoundsAssumption == MaxRounds \in Nat /\ MaxRounds <= NumRounds
ASSUME MaxRunsAssumption == MaxRuns \in Nat \ {0}
ASSUME ScoreAssumption == Scores \subseteq Int /\ Target \in Int /\ NoScore \notin Int
ASSUME SizesAssumption == Sizes \subseteq Nat \ {0}
ASSUME TailsAssumption ==
    Tails \subseteq {"ok", "fewlines", "fence", "novowel", "heading"}
ASSUME RecoveryAssumption == RecoveryEnabled \in BOOLEAN

(* Module-level constants of apr_auto.py. *)
MAX_CONSECUTIVE_FAILURES == 3
MAX_TRUNCATION_RETRIES == 3
MIN_OUTPUT_CHARS == 200
HEADING_BODY_CHARS == 1000   \* the "chars < 1000" of the heading heuristic

Rounds == 1..NumRounds

(***************************************************************************)
(* An artifact as the truncation heuristics see it: its character count   *)
(* and the one feature of its end that fires a content heuristic          *)
(* ("fewlines": fewer than MIN_OUTPUT_LINES newlines; "fence": ends in    *)
(* exactly two backticks; "novowel": last token is a vowel-free fragment; *)
(* "heading": last line is a heading; "ok": none of these).               *)
(***************************************************************************)
Content == [chars : Sizes, tail : Tails]
NoFile == [chars |-> 0, tail |-> "nofile"]
FileState == Content \cup {NoFile}

StopReasons == {"none", "preflight_failed", "shutdown", "consecutive_failures",
                "truncated_output", "converged", "max_rounds_reached",
                "completed"}

ResultRec == [rnd : Rounds, ok : BOOLEAN, trunc : BOOLEAN,
              conv : Scores \cup {NoScore}]

(* Program counter of the process; "down" is killed, "done" has exited. *)
PCs == {"start", "top", "exec", "verify", "recover", "finish", "done", "down"}
Running == PCs \ {"done", "down"}
InLoop == {"top", "exec", "verify", "recover"}

VARIABLES
    \* --- on disk, survives the process ---
    art,        \* round_N.md for each round number
    archive,    \* how many artifacts were renamed to round_N.truncated.K.md
    status,     \* status.json
    lastRun,    \* last_run.json
    runs,       \* launches so far
    \* --- the process's memory ---
    pc,
    start,      \* start (first round of this run)
    round,      \* round_num
    cf,         \* consecutive_failures
    attempts,   \* self._truncation_attempts
    history,    \* self._output_sizes
    results,    \* self.summary.results
    completed,  \* self.summary.rounds_completed
    failed,     \* self.summary.rounds_failed
    shutting,   \* self._shutting_down
    stop        \* self.summary.stopped_reason

disk == <<art, archive, status, lastRun, runs>>
proc == <<pc, start, round, cf, attempts, history, results, completed,
          failed, shutting, stop>>
vars == <<disk, proc>>

ArchiveNames == Rounds \X (1..MAX_TRUNCATION_RETRIES)

(* The loop bound: end = start + config.max_rounds. *)
End == start + MaxRounds

(* Per run at most MAX_CONSECUTIVE_FAILURES attempts of each round number; *)
(* a guard on the executor, never reached by the code as written.          *)
ResultsCap == MAX_CONSECUTIVE_FAILURES * MaxRounds

-----------------------------------------------------------------------------
(* Helpers on numbers and sequences. *)

MaxOf(S) == CHOOSE m \in S : \A x \in S : x <= m

SeqSum(s) == LET f[i \in 0..Len(s)] == IF i = 0 THEN 0 ELSE f[i - 1] + s[i]
             IN f[Len(s)]

-----------------------------------------------------------------------------
(***************************************************************************)
(* check_output_truncation: first the missing-file, size and line floors, *)
(* then the content heuristics, then the rolling-average check            *)
(* chars < avg * 0.3, compared exactly as chars * 10 * n < 3 * sum.       *)
(***************************************************************************)
ContentTruncated(c) ==
    \/ c = NoFile
    \/ c.chars < MIN_OUTPUT_CHARS
    \/ c.tail \in {"fewlines", "fence", "novowel"}
    \/ c.tail = "heading" /\ c.chars < HEADING_BODY_CHARS

IsTruncated(c, sizes) ==
    \/ ContentTruncated(c)
    \/ /\ sizes # << >>
       /\ c.chars > 0
       /\ c.chars * 10 * Len(sizes) < 3 * SeqSum(sizes)

(* detect_last_round: the highest round number whose file is non-empty, *)
(* 0 when there is none (the maximum always exists: Rounds is finite).   *)
NonEmptyFile(a, r) == a[r] # NoFile /\ a[r].chars > 0

IsLastRound(a, m) ==
    /\ m = 0 \/ NonEmptyFile(a, m)
    /\ \A r \in Rounds : r > m => ~NonEmptyFile(a, r)

DetectLastRound(a) ==
    IF \E m \in 0..NumRounds : IsLastRound(a, m)
    THEN CHOOSE m \in 0..NumRounds : IsLastRound(a, m)
    ELSE 0

(* _seed_output_sizes: sizes of the files of rounds max(1, up_to-4)..up_to. *)
SeedPart(a, n) ==
    IF n \in Rounds /\ NonEmptyFile(a, n)
    THEN << a[n].chars >> ELSE << >>

Seed(a, upTo) ==
    SeedPart(a, upTo - 4) \o SeedPart(a, upTo - 3) \o SeedPart(a, upTo - 2)
        \o SeedPart(a, upTo - 1) \o SeedPart(a, upTo)

(* atomic_write_json swallows OSError: the file keeps its old contents. *)
AtomicWrite(file, payload) == file' \in {payload, file}

SummaryRec(reason) ==
    [reason |-> reason, completed |-> completed, failed |-> failed]

-----------------------------------------------------------------------------
Init ==
    /\ art = [r \in Rounds |-> NoFile]
    /\ archive = [n \in ArchiveNames |-> 0]
    /\ status = [round |-> 0, completed |-> 0, state |-> "none"]
    /\ lastRun = [reason |-> "none", completed |-> 0, failed |-> 0]
    /\ runs = 1
    /\ pc = "start"
    /\ start = 1
    /\ round = 1
    /\ cf = 0
    /\ attempts = [r \in Rounds |-> 0]
    /\ history = << >>
    /\ results = << >>
    /\ completed = 0
    /\ failed = 0
    /\ shutting = FALSE
    /\ stop = "none"

-----------------------------------------------------------------------------
(***************************************************************************)
(* The process and its environment.                                       *)
(***************************************************************************)

(* The operator relaunches apr_auto.py after it exited or was killed:      *)
(* Orchestrator.__init__ builds a fresh summary, size history and          *)
(* truncation-attempt map.  The round slots the run may use must exist.    *)
(* The memory of a process that has just started (or has gone). *)
FreshProcess(pcv) ==
    /\ pc' = pcv
    /\ start' = 1
    /\ round' = 1
    /\ cf' = 0
    /\ attempts' = [r \in Rounds |-> 0]
    /\ history' = << >>
    /\ results' = << >>
    /\ completed' = 0
    /\ failed' = 0
    /\ shutting' = FALSE
    /\ stop' = "none"

Launch ==
    /\ pc \in {"done", "down"}
    /\ runs < MaxRuns
    /\ DetectLastRound(art) + MaxRounds <= NumRounds
    /\ runs' = runs + 1
    /\ FreshProcess("start")
    /\ UNCHANGED <<art, archive, status, lastRun>>

(* SIGKILL, a power loss or an unhandled exception: memory is lost. *)
Crash ==
    /\ pc \in Running
    /\ FreshProcess("down")
    /\ UNCHANGED disk

(* _handle_signal: SIGINT or SIGTERM sets the flag, whatever runs. *)
HandleSignal ==
    /\ pc \in Running
    /\ ~shutting
    /\ shutting' = TRUE
    /\ UNCHANGED <<disk, pc, start, round, cf, attempts, history, results,
                   completed, failed, stop>>

-----------------------------------------------------------------------------
(* Mutant: end computed from round 1 instead of from the resume point. *)
PreflightFixedEnd ==
    /\ pc = "start"
    /\ \/ /\ stop' = "preflight_failed"
          /\ AtomicWrite(lastRun, SummaryRec("preflight_failed"))
          /\ pc' = "done"
          /\ UNCHANGED <<start, round, history>>
       \/ LET last == DetectLastRound(art) IN
          /\ start' = 1
          /\ round' = last + 1
          /\ history' = IF last > 0 THEN Seed(art, last) ELSE history
          /\ pc' = "top"
          /\ UNCHANGED <<stop, lastRun>>
    /\ UNCHANGED <<art, archive, status, runs, cf, attempts, results,
                   completed, failed, shutting>>

(***************************************************************************)
(* run(), up to the loop: preflight, then the resume point.  A failed     *)
(* preflight saves the summary and exits; otherwise start is one past the *)
(* last non-empty round file and the size history is seeded from it.      *)
(***************************************************************************)
Preflight ==
    /\ pc = "start"
    /\ \/ /\ stop' = "preflight_failed"
          /\ AtomicWrite(lastRun, SummaryRec("preflight_failed"))
          /\ pc' = "done"
          /\ UNCHANGED <<start, round, history>>
       \/ LET last == DetectLastRound(art) IN
          /\ start' = last + 1
          /\ round' = last + 1
          /\ history' = IF last > 0 THEN Seed(art, last) ELSE history
          /\ pc' = "top"
          /\ UNCHANGED <<stop, lastRun>>
    /\ UNCHANGED <<art, archive, status, runs, cf, attempts, results,
                   completed, failed, shutting>>

(* Mutant: the shutdown flag read before the loop bound. *)
LoopTopShutdownFirst ==
    /\ pc = "top"
    /\ \/ /\ shutting
          /\ stop' = "shutdown"
          /\ pc' = "finish"
          /\ UNCHANGED status
       \/ /\ ~shutting
          /\ round >= End
          /\ pc' = "finish"
          /\ UNCHANGED <<status, stop>>
       \/ /\ round < End
          /\ ~shutting
          /\ AtomicWrite(status, [round |-> round, completed |-> completed,
                                  state |-> "running"])
          /\ pc' = "exec"
          /\ UNCHANGED stop
    /\ UNCHANGED <<art, archive, lastRun, runs, start, round, cf, attempts,
                   history, results, completed, failed, shutting>>

(* The head of the while loop: the bound, the shutdown flag, then the     *)
(* "running" status snapshot.                                              *)
LoopTop ==
    /\ pc = "top"
    /\ \/ /\ round >= End
          /\ pc' = "finish"
          /\ UNCHANGED <<status, stop>>
       \/ /\ round < End
          /\ shutting
          /\ stop' = "shutdown"
          /\ pc' = "finish"
          /\ UNCHANGED status
       \/ /\ round < End
          /\ ~shutting
          /\ AtomicWrite(status, [round |-> round, completed |-> completed,
                                  state |-> "running"])
          /\ pc' = "exec"
          /\ UNCHANGED stop
    /\ UNCHANGED <<art, archive, lastRun, runs, start, round, cf, attempts,
                   history, results, completed, failed, shutting>>

(* The bookkeeping of a failed attempt of either kind. *)
FailedResult(trunc) ==
    [rnd |-> round, ok |-> FALSE, trunc |-> trunc, conv |-> NoScore]

(***************************************************************************)
(* run_apr_round, and the failure branch after it.  apr is a black box:   *)
(* whatever it exits with, it may have left any file behind (a timeout    *)
(* kills it mid-write).  A failure retries the same round number unless   *)
(* the consecutive-failure cap is reached.                                 *)
(***************************************************************************)
(* Mutant: the consecutive-failure cap compared with > (stops after 4). *)
ExecFailureLateCap ==
    /\ cf' = cf + 1
    /\ failed' = failed + 1
    /\ results' = Append(results, FailedResult(FALSE))
    /\ IF cf' > MAX_CONSECUTIVE_FAILURES
       THEN stop' = "consecutive_failures" /\ pc' = "finish"
       ELSE pc' = "top" /\ UNCHANGED stop

(* Mutant: a misspelt stop reason. *)
ExecFailureTypo ==
    /\ cf' = cf + 1
    /\ failed' = failed + 1
    /\ results' = Append(results, FailedResult(FALSE))
    /\ IF cf' >= MAX_CONSECUTIVE_FAILURES
       THEN stop' = "consecutive_failure" /\ pc' = "finish"
       ELSE pc' = "top" /\ UNCHANGED stop

(* Mutant: failures retried with no cap. *)
ExecFailureNoCap ==
    /\ cf' = cf + 1
    /\ failed' = failed + 1
    /\ results' = Append(results, FailedResult(FALSE))
    /\ pc' = "top"
    /\ UNCHANGED stop

ExecFailure ==
    /\ cf' = cf + 1
    /\ failed' = failed + 1
    /\ results' = Append(results, FailedResult(FALSE))
    /\ IF cf' >= MAX_CONSECUTIVE_FAILURES
       THEN stop' = "consecutive_failures" /\ pc' = "finish"
       ELSE pc' = "top" /\ UNCHANGED stop

RunRound ==
    /\ pc = "exec"
    /\ Len(results) < ResultsCap
    /\ \E c \in FileState : art' = [art EXCEPT ![round] = c]
    /\ \/ /\ pc' = "verify"
          /\ UNCHANGED <<cf, failed, results, stop>>
       \/ ExecFailure
    /\ UNCHANGED <<archive, status, lastRun, runs, start, round, attempts,
                   history, completed, shutting>>

(***************************************************************************)
(* The success path shared by a first-pass and a recovered artifact: the  *)
(* counters, backfill + stability score, integrate and commit (best       *)
(* effort, they change nothing the loop reads), the result, and the       *)
(* convergence check that either stops or advances the round number.     *)
(***************************************************************************)
AcceptRound ==
    /\ cf' = 0
    /\ completed' = completed + 1
    /\ \E conv \in Scores \cup {NoScore} :
          /\ results' = Append(results, [rnd |-> round, ok |-> TRUE,
                                         trunc |-> FALSE, conv |-> conv])
          /\ IF conv # NoScore /\ conv >= Target
             THEN /\ stop' = "converged"
                  /\ pc' = "finish"
                  /\ UNCHANGED round
             ELSE /\ round' = round + 1
                  /\ pc' = "top"
                  /\ UNCHANGED stop

(* Mutant: a truncated round is skipped instead of retried. *)
TruncationFailureSkip ==
    /\ cf' = cf + 1
    /\ failed' = failed + 1
    /\ results' = Append(results, FailedResult(TRUE))
    /\ \/ /\ attempts[round] < MAX_TRUNCATION_RETRIES
          /\ IF cf' >= MAX_CONSECUTIVE_FAILURES
             THEN stop' = "consecutive_failures" /\ pc' = "finish" /\ UNCHANGED round
             ELSE pc' = "top" /\ UNCHANGED stop /\ round' = round + 1
       \/ /\ attempts[round] >= MAX_TRUNCATION_RETRIES
          /\ stop' = "truncated_output"
          /\ pc' = "finish"
          /\ UNCHANGED round

(* A truncation that stands: the result, then the retry budget of this   *)
(* round number is checked before the consecutive-failure cap.           *)
TruncationFailure ==
    /\ cf' = cf + 1
    /\ failed' = failed + 1
    /\ results' = Append(results, FailedResult(TRUE))
    /\ \/ /\ attempts[round] < MAX_TRUNCATION_RETRIES
          /\ IF cf' >= MAX_CONSECUTIVE_FAILURES
             THEN stop' = "consecutive_failures" /\ pc' = "finish"
             ELSE pc' = "top" /\ UNCHANGED stop
       \/ /\ attempts[round] >= MAX_TRUNCATION_RETRIES
          /\ stop' = "truncated_output"
          /\ pc' = "finish"
    /\ UNCHANGED round

(* Mutant: the first-pass size is recorded whether or not truncated. *)
SizeAfterCheckAlways(c, truncated) ==
    IF c.chars > 0 THEN Append(history, c.chars) ELSE history

(* The rolling history after the first-pass check of artifact c. *)
SizeAfterCheck(c, truncated) ==
    IF c.chars > 0 /\ ~truncated THEN Append(history, c.chars) ELSE history

(* The size a recovered artifact adds once it passes the re-check. *)
RecordSize(c) == history' = Append(history, c.chars)

(***************************************************************************)
(* Verify output: read round_N.md and run check_output_truncation against *)
(* the history.  A complete artifact is accepted.  A truncated one counts *)
(* an attempt for this round number and is renamed to                     *)
(* round_N.truncated.<attempts>.md (a failing rename is only logged).     *)
(***************************************************************************)
VerifyOutput ==
    /\ pc = "verify"
    /\ LET c == art[round] IN
       \/ /\ ~IsTruncated(c, history)
          /\ history' = SizeAfterCheck(c, FALSE)
          /\ AcceptRound
          /\ UNCHANGED <<art, archive, attempts, failed>>
       \/ /\ IsTruncated(c, history)
          /\ attempts' = [attempts EXCEPT ![round] = @ + 1]
          /\ \/ /\ c # NoFile
                /\ art' = [art EXCEPT ![round] = NoFile]
                /\ archive' = [archive EXCEPT ![<<round, attempts'[round]>>] = @ + 1]
             \/ UNCHANGED <<art, archive>>
          /\ history' = SizeAfterCheck(c, TRUE)
          /\ pc' = "recover"
          /\ UNCHANGED <<cf, results, completed, failed, stop, round>>
    /\ UNCHANGED <<status, lastRun, runs, start, shutting>>

(***************************************************************************)
(* attempt_cdp_recovery, then the write of what it returned and the       *)
(* re-check.  It returns None when disabled, on timeout, ssh error,       *)
(* non-zero exit or output shorter than MIN_OUTPUT_CHARS; writing the     *)
(* text may fail too.  Recovered text that passes the re-check is         *)
(* accepted; otherwise the truncation stands.                             *)
(***************************************************************************)
RecoveredText == {c \in Content : c.chars >= MIN_OUTPUT_CHARS}

CdpRecovery ==
    /\ pc = "recover"
    /\ \/ /\ TruncationFailure
          /\ UNCHANGED <<art, history, completed>>
       \/ /\ RecoveryEnabled
          /\ \E rc \in RecoveredText :
                /\ art' = [art EXCEPT ![round] = rc]
                /\ \/ /\ ~IsTruncated(rc, history)
                      /\ RecordSize(rc)
                      /\ AcceptRound
                      /\ UNCHANGED failed
                   \/ /\ IsTruncated(rc, history)
                      /\ TruncationFailure
                      /\ UNCHANGED <<history, completed>>
    /\ UNCHANGED <<archive, status, lastRun, runs, start, attempts, shutting>>

(***************************************************************************)
(* After the loop: max_rounds_reached if the bound ended it, completed if *)
(* nothing set a reason, then last_run.json and the final status.json.   *)
(***************************************************************************)
FinalReason ==
    IF round >= End /\ stop = "none" THEN "max_rounds_reached"
    ELSE IF stop = "none" THEN "completed" ELSE stop

Finish ==
    /\ pc = "finish"
    /\ stop' = FinalReason
    /\ AtomicWrite(lastRun, SummaryRec(FinalReason))
    /\ AtomicWrite(status, [round |-> round, completed |-> completed,
                            state |-> FinalReason])
    /\ pc' = "done"
    /\ UNCHANGED <<art, archive, runs, start, round, cf, attempts, history,
                   results, completed, failed, shutting>>

-----------------------------------------------------------------------------
ProcessStep ==
    \/ Preflight
    \/ LoopTop
    \/ RunRound
    \/ VerifyOutput
    \/ CdpRecovery
    \/ Finish

Next == ProcessStep \/ Launch \/ Crash \/ HandleSignal

(***************************************************************************)
(* The process is single-threaded and every subprocess call it makes has  *)
(* a timeout, so unless it is killed it keeps taking steps: weak fairness *)
(* of its own steps.  Launches, kills and signals come from outside and   *)
(* are not fair.                                                           *)
(***************************************************************************)
Spec == Init /\ [][Next]_vars /\ WF_vars(ProcessStep)

-----------------------------------------------------------------------------
(***************************************************************************)
(* Properties.                                                            *)
(***************************************************************************)

TypeOK ==
    /\ art \in [Rounds -> FileState]
    /\ archive \in [ArchiveNames -> Nat]
    /\ status \in [round : Nat, completed : Nat, state : StopReasons \cup {"running"}]
    /\ lastRun \in [reason : StopReasons, completed : Nat, failed : Nat]
    /\ runs \in 1..MaxRuns
    /\ pc \in PCs
    /\ start \in Nat \ {0}
    /\ round \in Nat \ {0}
    /\ cf \in Nat
    /\ attempts \in [Rounds -> Nat]
    /\ history \in Seq(Nat)
    /\ results \in Seq(ResultRec)
    /\ completed \in Nat
    /\ failed \in Nat
    /\ shutting \in BOOLEAN
    /\ stop \in StopReasons

(* The failures since the last accepted round of this run. *)
LastAccepted == MaxOf({0} \cup {i \in DOMAIN results : results[i].ok})
Streak == {i \in DOMAIN results : i > LastAccepted}

(***************************************************************************)
(* Every stop reason the loop records is backed by the run's results:     *)
(* consecutive_failures by exactly MAX_CONSECUTIVE_FAILURES failed        *)
(* attempts since the last accepted round (never fewer, never more);      *)
(* truncated_output by exactly MAX_TRUNCATION_RETRIES truncation failures *)
(* of the current round and nothing else since the last acceptance;       *)
(* converged by an accepted round of this number whose known score meets  *)
(* the target; max_rounds_reached by config.max_rounds accepted rounds;   *)
(* shutdown by a received signal.  This is about the order of the cap     *)
(* checks in the failure and truncation branches of Orchestrator.run.     *)
(***************************************************************************)
StopReasonJustified ==
    pc \in {"finish", "done"} =>
        /\ stop = "consecutive_failures" =>
               Cardinality(Streak) = MAX_CONSECUTIVE_FAILURES
        /\ stop = "truncated_output" =>
               /\ Cardinality(Streak) = MAX_TRUNCATION_RETRIES
               /\ \A i \in Streak : results[i].trunc /\ results[i].rnd = round
        /\ stop = "converged" =>
               /\ results # << >>
               /\ LET last == results[Len(results)] IN
                     /\ last.ok /\ last.rnd = round
                     /\ last.conv # NoScore /\ last.conv >= Target
        /\ stop = "max_rounds_reached" =>
               round = End /\ completed = MaxRounds
        /\ stop = "shutdown" => shutting
        /\ stop # "completed"

(***************************************************************************)
(* An interrupt never masks another stop reason.  _handle_signal only     *)
(* sets a flag; the loop reads it at its head, after the bound, so a      *)
(* signal that arrives during a round that hits a cap, converges or uses  *)
(* up the last round leaves that round's reason in place (spec 4.6 and    *)
(* "Concurrency model": sampled at the top of each round).  When the      *)
(* recorded reason is shutdown, the bound is not reached, the failure     *)
(* streak is below its cap and the last result did not converge.          *)
(***************************************************************************)
ShutdownMasksNothing ==
    stop = "shutdown" =>
        /\ round < End
        /\ Cardinality(Streak) < MAX_CONSECUTIVE_FAILURES
        /\ results # << >> =>
               LET last == results[Len(results)] IN
               ~(last.ok /\ last.conv # NoScore /\ last.conv >= Target)

(***************************************************************************)
(* The rolling size history is the seed read from the files before this   *)
(* run's first round, followed by the size of every round this run        *)
(* accepted, in order, and of what is in its file: a recovered artifact   *)
(* adds the recovered size, a truncated one adds nothing.  About the two  *)
(* appends to self._output_sizes in Orchestrator.run.                     *)
(***************************************************************************)
AcceptedCount == round - start + (IF stop = "converged" THEN 1 ELSE 0)

HistoryReflectsAcceptedRounds ==
    pc \in InLoop \cup {"finish"} =>
        history = (IF start > 1 THEN Seed(art, start - 1) ELSE << >>)
                  \o [i \in 1..AcceptedCount |-> art[start + i - 1].chars]

(***************************************************************************)
(* Within a run the round number changes only by one, and only in a step  *)
(* that records an accepted result: a failed or truncated attempt retries *)
(* the same round number (spec section 8).                                *)
(***************************************************************************)
RoundAdvancesOnlyOnAcceptance ==
    [][ (pc \in InLoop /\ pc' # "down" /\ round' # round) =>
            /\ round' = round + 1
            /\ Len(results') = Len(results) + 1
            /\ results'[Len(results')].ok ]_vars

(***************************************************************************)
(* Every run that is not killed stops: the retry caps and the round cap   *)
(* bound the loop ("never silently looping forever").                     *)
(***************************************************************************)
RunTerminates == (pc = "start") ~> (pc \in {"done", "down"})

(***************************************************************************)
(* Spec section 4.6, idempotence/resume: a restarted process re-attempts  *)
(* the round that was in flight if its artifact is incomplete; only a     *)
(* complete artifact is trusted as final.  So when a run reaches its      *)
(* first loop head after resuming, the round before it holds an artifact  *)
(* the truncation heuristics accept.  About detect_last_round, which      *)
(* takes any non-empty round_N.md as done.                                *)
(***************************************************************************)
ResumeRedoesIncompleteRound ==
    (pc = "top" /\ round = start /\ start > 1) =>
        ~ContentTruncated(art[start - 1])

(***************************************************************************)
(* Spec section 4.1: a suspect artifact is renamed aside "so a retry does *)
(* not silently overwrite evidence": no archive name ever receives two    *)
(* artifacts.  About the round_N.truncated.<attempts>.md name, whose      *)
(* counter lives in the process.                                          *)
(***************************************************************************)
ArchiveNeverOverwritten == \A n \in ArchiveNames : archive[n] <= 1

(***************************************************************************)
(* Spec sections 4.6 and 8: the run stops with consecutive_failures after *)
(* N non-truncation failures in a row, so none of the failures since the *)
(* last accepted round was a truncation.  About the consecutive_failures  *)
(* counter, which the truncation branch of Orchestrator.run increments    *)
(* and checks as well.                                                     *)
(***************************************************************************)
ConsecutiveFailuresAreExecFailures ==
    (pc \in {"finish", "done"} /\ stop = "consecutive_failures") =>
        \A i \in Streak : ~results[i].trunc

=============================================================================
