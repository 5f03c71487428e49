# Formal model of `apr_auto.py`

This directory holds TLA+ models of the round orchestrator in
`src/apr_auto.py`, the TLC configurations that check them, and TLAPS proofs
about them. `spec.md` at the top of the repository is the design the code is
compared with.

## The system

`apr_auto.py` is a single-threaded Python process that drives an external
tool, `apr run N --wait`, until the tool's stability score reaches a target.
Its parts, and how they interact:

- **Orchestrator** (`Orchestrator.run`): runs preflight, then finds the
  resume point and loops over round numbers. Each iteration does these
  steps in order:
  1. checks the loop bound and the shutdown flag;
  2. writes `status.json` ("running");
  3. runs the round;
  4. verifies the artifact;
  5. on truncation, renames it aside and tries CDP recovery;
  6. either counts a failure (retrying the same round number under two
     caps) or accepts the round (backfill, score, integrate, commit, result,
     convergence check).

  After the loop it picks the stop reason and writes `last_run.json` and
  `status.json`.
- **Truncation Detector** (`check_output_truncation`): classifies
  `round_N.md` as truncated or complete. It looks at:
  - whether the file is missing;
  - the size and line floors;
  - the tail heuristics (code fence, vowel-free last token, trailing
    heading);
  - the size relative to 30% of the average of the rolling size history.
- **Artifact store**: `round_N.md` per round, plus the
  `round_N.truncated.K.md` backups. `detect_last_round` and
  `_seed_output_sizes` read it when the process starts.
- **Round executor** (`run_apr_round`), **recovery provider**
  (`attempt_cdp_recovery`, ssh + CDP) and **convergence oracle**
  (`run_backfill`, `read_stability_score`): external black boxes behind
  timeouts.
- **State and summary recorder** (`write_status`, `_save_summary`,
  `atomic_write_json`): snapshots for outside monitors, never read back.
- **Signals** (`_handle_signal`): SIGINT/SIGTERM only set a flag. The loop
  reads the flag at its head.

The process can be killed at any moment and relaunched. The only state that
survives is the artifact store and the two JSON snapshots.

## Modules

| module | models |
|---|---|
| `AprAuto.tla` | the orchestrator with all the parts above, the process's death and relaunch, and the properties |
| `MC_AprAuto.tla` | the constants of the TLC instances |
| `AprAutoProofs.tla` | TLAPS proofs: type correctness and the round-advance action property, for every value of the constants |
| `AprAutoStopProofs.tla` | TLAPS proofs: the inductive invariant `StopInv`, `StopReasonJustified` and `ShutdownMasksNothing`, for every value of the constants |
| `AprAutoHistoryProofs.tla` | TLAPS proofs: the inductive invariant `HistInv`, `HistoryReflectsAcceptedRounds`, and lemmas on the seed and the accepted sizes |
| `StabilityScore.tla` | `read_stability_score` and `_extract_stability_score`, with the spec §4.5 contract as a reference definition |
| `MC_StabilityScore.tla` | the candidate values and document kinds of the TLC instances |
| `AtomicSnapshot.tla` | the abstract snapshot file that spec §5 and §8 promise for `status.json` and `last_run.json` |
| `AtomicWrite.tla` | `atomic_write_json` step by step, with an OSError, a kill or a power loss at each step, and the refinement mapping to `AtomicSnapshot` |
| `AtomicWriteProofs.tla` | TLAPS proofs: the inductive invariant of `AtomicWrite`, complete files, and the refinement |

### AprAuto: state

- **On disk**, surviving the process:
  - `art[r]`: the content of `round_r.md`;
  - `archive[<<r, k>>]`: how many artifacts were renamed to
    `round_r.truncated.k.md`;
  - `status`: `status.json`;
  - `lastRun`: `last_run.json`;
  - `runs`: launches so far.
- **Process memory**, reset by `FreshProcess` exactly as
  `Orchestrator.__init__` builds it:
  - `pc`: the point reached in `run`;
  - `start`, `round`: the locals `start` and `round_num`;
  - `cf`: `consecutive_failures`;
  - `attempts`: `_truncation_attempts`;
  - `history`: `_output_sizes`;
  - `results`, `completed`, `failed`, `stop`: the fields of `RunSummary`;
  - `shutting`: `_shutting_down`.

An artifact is abstracted to `[chars, tail]`: its character count, and the
one feature of its end that a content heuristic looks at. `NoFile` stands
for a missing file. `IsTruncated` is `check_output_truncation` in the code's
order. The relative-size check uses exact integers,
`chars * 10 * n < 3 * sum`, in place of the float `avg * 0.3`.

### AprAuto: actions

Each action is one stretch of `run` between two points where a crash or a
signal makes a difference:

- `Preflight`: lines 1113-1150. Preflight failure, then the resume point
  and the seed of the size history.
- `LoopTop`: lines 1163-1179. The loop bound, the shutdown flag, and the
  running status.
- `RunRound`: `run_apr_round`. Any file may be left behind, then success or
  `ExecFailure` (lines 1186-1206).
- `VerifyOutput`: lines 1207-1240. Accept, or count an attempt and rename
  the file aside. A failed rename is only logged.
- `CdpRecovery`: lines 1242-1311. None, or the recovered text is written
  and re-checked. This ends in `AcceptRound` or `TruncationFailure`.
- `Finish`: lines 1381-1404.

`AcceptRound` covers lines 1313-1379: backfill and score are one
nondeterministic score or `NoScore`, and integrate and commit change
nothing the loop reads.

The environment has three actions:
- `HandleSignal`: at any point of a running process.
- `Crash`: memory lost, disk kept.
- `Launch`: a new process, at most `MaxRuns`.

In `AprAuto`, the operator `AtomicWrite` lets a snapshot write keep the old
file, because `atomic_write_json` swallows `OSError`. The `AtomicWrite`
module below refines this step.

### StabilityScore

The document `apr stats` exports is chosen in `Init`, together with the
subprocess outcome (timeout, non-zero exit, bad JSON, ok). `ReadStabilityScore`
is the one step. It returns `None` on every subprocess failure and otherwise
calls `ExtractStabilityScore`. That operator is the `for` loop of
`_extract_stability_score`, written as the recursive function `scan` over the
five candidates in the code's key order:
- an unparsable value (`float()` raises) is skipped;
- a value `<= 1.0` is scaled by 100;
- a value `<= 100.0` is returned as it is;
- a larger value is skipped.

A non-object document or a truthy non-object `convergence` is `Raised`,
because `.get` raises `AttributeError`. Values are records `[t, n]`: the
kind of the JSON value, and its number in hundredths. Scores are in
hundredths of a percent, so both branches stay integers.

`ContractScore` is the reference. It is written without the loop: the
normalised candidate with the least index among those that are numeric and
in 0..100.

### AtomicWrite and AtomicSnapshot

`AtomicWrite` has one action per step of `atomic_write_json`:
- `Mkdir`: outside the try, so an OSError makes `wpc = "raised"`;
- `CreateTmp`;
- `DumpJson`: json.dump and flush;
- `FsyncTmp`;
- `ReplaceTmp`;
- `FsyncDir`.

Each step inside the try may end in `Abort`, the swallowed `OSError`. That
leaves the temporary file behind (`leaked`), because of `delete=False`.
`Call` is `write_status` or `_save_summary` starting a write.

A file is `[ver, data, synced]`: which call wrote it, whether it is complete,
and whether its data was fsynced. `pathVis` is what readers see.
`pathDur` is what a power loss keeps when a rename is still pending.

The environment has three actions:
- `Kill`: the process dies, and the files stay as they are.
- `Writeback`: the kernel makes a pending rename durable by itself.
- `PowerLoss`: a pending rename may be undone, and an unsynced file loses
  its data.

`AtomicSnapshot` is the promise, in three variables: the payload a reader
sees, the last acknowledged payload, and the number of calls. Its actions:
- `Publish`: the call in flight becomes visible;
- `Ack`: the visible payload becomes durable;
- `Lose`: a power loss goes back to a payload no older than the
  acknowledged one;
- `Call`.

The refinement mapping `shownBar` maps an incomplete file to `-1`, which
the abstract spec never reaches. So the refinement also says that no reader
sees a partial file.

## Runs

| run | cfg | checks | shows |
|---|---|---|---|
| main | `MC_AprAuto.cfg` | `TypeOK`, `StopReasonJustified`, `HistoryReflectsAcceptedRounds` | within a run, every stop reason is backed by the recorded results (for example `consecutive_failures` by exactly 3 failures since the last acceptance, `truncated_output` by exactly 3 truncations of the current round); the size history is the seed plus the size of each accepted round, in order, whichever of first pass or recovery accepted it |
| steps | `MC_AprAuto_steps.cfg` | `RoundAdvancesOnlyOnAcceptance`, `RunTerminates` | a failed, timed-out or truncated attempt retries the same round number; every run that is not killed exits |
| restart | `MC_AprAuto_restart.cfg` | `StopReasonJustified`, `HistoryReflectsAcceptedRounds`, `ShutdownMasksNothing` | the invariants of main across a kill or exit and a relaunch that resumes from the files of the first run, with a seeded history; and an interrupt never masks another stop reason: when the reason is `shutdown`, the round bound is not reached, the failure streak is below its cap and the last result did not converge, because the flag is read at the loop head after the bound (a signal during a round that then hits a cap leaves the cap's reason) |
| resume | `MC_AprAuto_resume.cfg` | `ResumeRedoesIncompleteRound` (expected violation) | a relaunch skips a round whose file is truncated |
| archive | `MC_AprAuto_archive.cfg` | `ArchiveNeverOverwritten` (expected violation) | a relaunch renames onto an earlier backup |
| cf | `MC_AprAuto_cf.cfg` | `ConsecutiveFailuresAreExecFailures` (expected violation) | two truncations and an exec failure in a row stop the run as `consecutive_failures` |
| score | `MC_StabilityScore.cfg` | `ScoreMatchesContract` | on every document of the instance, the score is the one the §4.5 contract gives: key order, skipping, the 1.0 and 100.0 boundaries (800,800 states) |
| score_raise | `MC_StabilityScore_raise.cfg` | `ScoreNeverRaises` (expected violation) | a list, a number or a scalar `convergence` raises `AttributeError` |
| score_range | `MC_StabilityScore_range.cfg` | `ScoreIsPercentage` (expected violation) | a negative value is returned as a negative percentage |
| atomic | `MC_AtomicWrite.cfg` | `ReaderSeesCompleteFile`, `ImplementsAtomicSnapshot` | over 3 calls, with every failure, kill and power loss, readers only see complete payloads, and `atomic_write_json` implements `AtomicSnapshot` |
| atomic_raise | `MC_AtomicWrite_raise.cfg` | `WriteNeverRaises` (expected violation) | an OSError from the `mkdir` before the try escapes |

Each property of a passing run has a mutant in `PROJECT.json`: a plausible
bug in the mapped code, written as an operator next to it, that TLC finds.
The mutants are:
- a `>` for `>=` in the failure cap;
- a misspelt stop reason;
- the size recorded for a truncated artifact;
- a truncated round skipped instead of retried;
- failures retried with no cap;
- the loop end computed from round 1 instead of the resume point;
- `< 1.0` for `<= 1.0` in the fraction test;
- `os.replace` before the fsync of the temporary file;
- a call that returns as done without fsyncing the directory.

### Findings

1. **Resume trusts truncated files** (`detect_last_round`, line 324).
   Any non-empty `round_N.md` counts as a completed round. Spec §4.6 says
   an incomplete artifact is re-attempted on restart. The model has three ways
   a truncated file is left behind:
   - a kill between `apr run` and verification;
   - an exec failure that left a partial file;
   - `truncated_output` stopping with still-truncated recovered text
     written to `round_N.md`.

   The next launch starts one round later.
2. **Backups are overwritten across runs** (line 1234). The backup name
   uses the per-process attempt counter, which restarts at 1. A relaunch
   renames a new truncated artifact onto `round_N.truncated.1.md`, against
   spec §4.1 ("so a retry does not silently overwrite evidence").

3. **Truncations count as consecutive failures** (line 1280). The
   truncation branch increments `consecutive_failures` and stops with that
   reason at line 1295. Spec §8 reserves `consecutive_failures` for N
   non-truncation failures in a row.
4. **The score read can raise** (line 330). `data.get` / `conv.get` raise
   `AttributeError` on a JSON array or number, or on a truthy non-object
   `convergence`. Nothing catches it, so the orchestrator dies after the
   round was counted. Spec §4.5 says `read_score` never raises.
5. **Negative scores** (line 345). A negative value takes the `val <= 1.0`
   branch and comes back as a negative percentage, where spec §4.5 says
   out-of-range values give `None`.
6. **Persistence can crash the orchestrator** (line 942). The `mkdir` of
   `atomic_write_json` is before its `try`, so its OSError escapes, against
   spec §7 ("never crashes the orchestrator").

### Bounds

- **main**:
  - 3 round slots, runs of 2 rounds, 1 launch;
  - scores {50, 90} around target 75;
  - sizes {300, 1200} with tails {ok, novowel}.

  With these, the relative-size check fires: 300 is below 30% of 1200. Each
  content heuristic fires through "novowel", which stands for all the
  always-truncated tails. Recovery is on. These bounds reach both caps
  (3 consecutive failures, 3 truncations of one round), convergence, the
  round bound and a shutdown. There are about 1.4M distinct states.
- **restart**: 2 slots, 1 round per run, 2 launches. A second run meets
  every state the first can leave on disk. Two launches with two rounds
  each exceed the TLC budget.
- **score**: candidate values null, a non-numeric string, an object, and the
  numbers 0, 0.82, 1.0, 91.0, 100.0, 150.0, plus the string "0.82". These
  are both sides of each boundary, plus every kind of skip. Every
  combination over the five fields is checked, for both a falsy and an
  object `convergence`. JSON booleans are kept out, because spec §4.5 does
  not say whether they count as numeric (see the hazards).
- **atomic**: three calls, so that a power loss can go back over a call
  whose directory fsync failed to one that succeeded. The parent directory
  may exist or not at start.
- **ResultsCap**: a model bound on the executor. It is
  `MAX_CONSECUTIVE_FAILURES * MaxRounds` results per run, which the code
  never exceeds.

### Fairness

Weak fairness applies to the process's own steps only. The process is
single-threaded, and every subprocess call has a timeout (spec "Concurrency
model"), so a process that is not killed keeps stepping. Kills, relaunches
and signals come from outside and get no fairness. Deadlock is not checked,
because the process really exits and, after `MaxRuns` launches, is not
restarted.

## Proofs

`AprAutoProofs.tla` proves two theorems for every value of the constants
that satisfies the module's assumptions:

- `TypeCorrect == Spec => []TypeOK`;
- `RoundAdvances == Spec => RoundAdvancesOnlyOnAcceptance`: the action
  property of the steps run. Under `TypeInv`, every step from a loop point
  that changes the round number is an `AcceptRound` reached through
  `VerifyOutput` or `CdpRecovery`. That step appends one accepted result
  and adds one to the round number. Every other action leaves the round
  unchanged, starts outside the loop, or is a crash.

`TypeOK` is not inductive on its own. A result records the round number,
which must be a round slot, so the proof uses the invariant `TypeInv`. It
strengthens `TypeOK` with three facts:
- at start, the resume point leaves room for `max_rounds` rounds (the
  launch guard);
- in the loop, `start + MaxRounds <= NumRounds + 1`;
- while an attempt is in flight, `round < end`.

TLC checked `TypeInv` as an invariant of the main instance before the
proof. The proof has:
- one lemma per action;
- lemmas on the helpers (`DetectLastRound` is in range, the seed is a
  sequence of naturals, sizes are naturals, a fresh process is typed);
- the temporal step `BY PTL DEF Spec`.

`AtomicWriteProofs.tla` proves, for every `MaxWrites`:
- `TypeCorrect`;
- `CompleteFile == Spec => []ReaderSeesCompleteFile`;
- `Refinement == Spec => ImplementsAtomicSnapshot`.

These rest on the inductive invariant `IInv`, which TLC checked before the
proof. It says:
- the visible file and the durable file are both complete and fsynced;
- `acked <= pathDur.ver <= pathVis.ver <= ver`;
- the temporary file carries the payload of the call in flight, is full
  from `fsync` on, and is fsynced before `replace`;
- before the rename the visible payload is older than the call's, and
  after it they are equal.

`ReaderSeesCompleteFile` alone is not inductive. A power loss keeps
`pathDur`, so the invariant must also say that the durable file is
complete, and the rename must only ever publish a fsynced file.

The refinement proof follows the usual pattern:
- initial states map to `AtomicSnapshot!Init`;
- `Call` is `Call`;
- `ReplaceTmp` is `Publish`;
- a successful `FsyncDir` is `Ack`;
- `PowerLoss` is `Lose`;
- every other step is a stutter.

`AprAutoStopProofs.tla` proves
`StopReasonsJustified == Spec => []StopReasonJustified`, and with it
`StopInvariant == Spec => []StopInv`.

The property speaks of `Streak`, the results after the last accepted one,
through a `CHOOSE` maximum and a `Cardinality`. That is not inductive, and
provers handle it badly. `StopInv` works with the counter the code keeps
instead. It says:
- `consecutive_failures` (`cf`) is at most the number of results;
- the result just before the last `cf` results is accepted (or there is
  none);
- each of the last `cf` results failed and is an attempt of the current
  round, because the round only moves on with an acceptance;
- no attempt of a later round has been counted yet;
- in the loop, `cf` is below the cap, no stop reason is set, and
  `round - start` rounds were completed;
- the truncation attempts of the current round are at most `cf` (plus
  the one being recovered). When they are equal, every failure of the
  streak was a truncation.

The last fact is what makes `truncated_output` come after exactly three
truncations of one round number. It is needed because the per-round
attempt counter and `cf` are two separate counters in the code. Once the
loop is left, `StopInv` carries the facts each stop reason needs.

The lemma `StreakIsInterval` then shows that `Streak` is the interval of
the last `cf` indices, with `cf` elements (`FS_Interval`). That turns
`StopInv` into the property.

The proof has:
- one lemma per action;
- two shared lemmas for the accept path and for a truncation that stands.

TLC checked `StopInv` as an invariant of the main instance (1,379,101
states) and of the restart instance (1,500,709 states) before the proof.

The same module proves
`ShutdownNeverMasks == Spec => []ShutdownMasksNothing`. The inductive
invariant is `StopInv /\ ShutInv`. `ShutInv` says:
- in the loop, the last result did not converge, because a convergence
  leaves the loop at once;
- once the reason is `shutdown`: the bound was not reached, `cf` is below
  its cap, and the last result did not converge.

`LoopTop` sets `shutdown` only after the bound test, and then the first fact
and `StopInv` give the rest. `Finish` keeps the reason and every other action
appends a result that did not converge or sets another reason.
`StreakIsInterval` turns `cf` into the size of the streak.

`AprAutoHistoryProofs.tla` proves
`HistoryReflectsAccepted == Spec => []HistoryReflectsAcceptedRounds`. Its
inductive invariant `HistInv` is `StopInv` with two additions:
- a process before preflight has an empty history;
- the property, restated with `SeedFrom(a, s)` (the seed read before
  round `s`) and `AcceptedSizes(a, s, n)` (the sizes of `n` rounds from
  `s` on).

The argument:
- A run only writes the file of its current round, so the seed and the
  accepted sizes keep their values (`SeedFrame`, `KeepHistory`).
- An acceptance appends the size of the current round's file and counts
  one more accepted round, whether the run converges or moves on
  (`AcceptOne`, `ExtendHistory`, `AcceptStep`).
- `Seed` is five fixed `SeedPart`s, not a recursion, so no induction is
  needed.

TLC checked `HistInv` on both instances before the proof.

The following stay with TLC only:
- **Liveness** (`RunTerminates`): TLAPS cannot reason about fairness and
  ENABLED here.
- **`ScoreMatchesContract`** (`StabilityScore.tla`): the scan of the
  document is a `LET RECURSIVE` operator. tlapm cannot prove anything in a
  module that reaches a RECURSIVE declaration. Relating that scan to the
  contract for every document would also be an induction over data, which
  the installed provers cannot instantiate.
- **The violation runs**: they show counterexamples, which TLC finds and
  a proof cannot.

## Not modelled

- integrate, commit and notify: they only log and set result booleans;
- configuration, CLI and workflow resolution;
- logging;
- the manual `--start-round` override and `--dry-run`;
- the composition of `AtomicWrite` into `AprAuto`: `AprAuto` keeps the
  one-step abstraction of a write, which `AtomicSnapshot` justifies
  without the power loss (a kill leaves the old or the new complete file);
- `ScoreMatchesContract` over booleans and over documents with more
  than the instance's values: TLC only checks the instance;
- the leftover `*.tmp` files: they are counted (`leaked`), but no spec
  statement bounds them.

## Plan

1. An abstract orchestrator (round/stop-reason level), with `AprAuto` shown
   to refine it.
2. A refinement proof for that abstract orchestrator.
3. Seeding in bytes versus characters.
