------------------------ MODULE AprAutoHistoryProofs ------------------------
(***************************************************************************)
(* Proof that the rolling size history self._output_sizes is always the   *)
(* seed read from the round files before the run's first round, followed  *)
(* by the size of every round the run accepted, as the files hold them    *)
(* now (HistoryReflectsAcceptedRounds), for every value of the constants. *)
(*                                                                         *)
(* The argument: a run only ever writes the file of its current round     *)
(* number, and the round number only moves on with an acceptance, so the *)
(* files the seed and the accepted sizes were read from are never touched *)
(* again while the run lasts.  It rests on StopInv for where the round    *)
(* number stands (start <= round, and round - start rounds accepted).     *)
(***************************************************************************)
EXTENDS AprAutoStopProofs, SequenceTheorems

USE NumRoundsAssumption, MaxRoundsAssumption, MaxRunsAssumption,
    ScoreAssumption, SizesAssumption, TailsAssumption, RecoveryAssumption
USE DEF FailedResult

(* The sizes the history starts from when the run starts at round s, and *)
(* the sizes of n rounds accepted from s on, as the files a hold them.     *)
SeedFrom(a, s) == IF s > 1 THEN Seed(a, s - 1) ELSE << >>
AcceptedSizes(a, s, n) == [i \in 1..n |-> a[s + i - 1].chars]

-----------------------------------------------------------------------------
(* Lemmas on the operators the history is built from. *)

(* The seed only reads the files of the rounds before the start. *)
LEMMA SeedFrame ==
    ASSUME NEW a, NEW b, NEW s \in Nat,
           \A k \in Rounds : k < s => b[k] = a[k]
    PROVE  SeedFrom(b, s) = SeedFrom(a, s)
<1>1. \A k \in Int : k < s => SeedPart(b, k) = SeedPart(a, k)
  BY DEF SeedPart, NonEmptyFile
<1>. QED
  BY <1>1 DEF SeedFrom, Seed

(* The size of what a round file holds, 0 for no file. *)
LEMMA FileChars ==
    ASSUME NEW f \in FileState PROVE f.chars \in Nat
<1>1. CASE f \in Content
  BY <1>1, SizesAssumption DEF Content
<1>2. CASE f = NoFile
  BY <1>2 DEF NoFile
<1>. QED
  BY <1>1, <1>2 DEF FileState

LEMMA SeedFromType ==
    ASSUME NEW a \in [Rounds -> FileState], NEW s \in Nat
    PROVE  SeedFrom(a, s) \in Seq(Nat)
BY SeedType DEF SeedFrom

LEMMA AcceptedType ==
    ASSUME NEW a \in [Rounds -> FileState], NEW s \in Nat \ {0}, NEW n \in Nat,
           s + n - 1 <= NumRounds
    PROVE  AcceptedSizes(a, s, n) \in Seq(Nat)
<1>1. \A i \in 1..n : s + i - 1 \in Rounds
  BY DEF Rounds
<1>2. \A i \in 1..n : a[s + i - 1].chars \in Nat
  <2> TAKE i \in 1..n
  <2>1. a[s + i - 1] \in FileState
    BY <1>1
  <2>. QED
    BY <2>1, FileChars
<1>. QED
  BY <1>2 DEF AcceptedSizes

(* Appending to the second part of a concatenation appends to the whole. *)
LEMMA AppendAfterConcat ==
    ASSUME NEW S, NEW u \in Seq(S), NEW v \in Seq(S), NEW y \in S
    PROVE  u \o Append(v, y) = Append(u \o v, y)
<1>1. << y >> \in Seq(S)
  OBVIOUS
<1>2. Append(v, y) = v \o << y >> /\ Append(u \o v, y) = (u \o v) \o << y >>
  BY AppendIsConcat, ConcatProperties
<1>3. (u \o v) \o << y >> = u \o (v \o << y >>)
  BY <1>1, ConcatAssociative
<1>. QED
  BY <1>2, <1>3

(* Accepting the round at s + n appends the size of its file. *)
LEMMA AcceptOne ==
    ASSUME NEW a \in [Rounds -> FileState], NEW s \in Nat \ {0}, NEW n \in Nat,
           s + n \in Rounds
    PROVE  SeedFrom(a, s) \o AcceptedSizes(a, s, n + 1)
             = Append(SeedFrom(a, s) \o AcceptedSizes(a, s, n), a[s + n].chars)
<1> DEFINE A == SeedFrom(a, s)
           B == AcceptedSizes(a, s, n)
           x == a[s + n].chars
<1>1. A \in Seq(Nat) /\ B \in Seq(Nat) /\ x \in Nat
  <2>1. A \in Seq(Nat)
    BY SeedFromType
  <2>2. B \in Seq(Nat)
    BY AcceptedType DEF Rounds
  <2>3. a[s + n] \in FileState
    OBVIOUS
  <2>. QED
    BY <2>1, <2>2, <2>3, FileChars
<1>2. AcceptedSizes(a, s, n + 1) = Append(B, x)
  BY <1>1 DEF AcceptedSizes
<1> HIDE DEF A, B, x
<1>3. A \o Append(B, x) = Append(A \o B, x)
  BY <1>1, AppendAfterConcat
<1>. QED
  BY <1>2, <1>3, Zenon DEF A, B, x

(***************************************************************************)
(* The inductive invariant: StopInv, a process that has not yet passed    *)
(* preflight has an empty history, and the property, said with the        *)
(* operators above.                                                        *)
(***************************************************************************)
HistOK ==
    pc \in InLoop \cup {"finish"} =>
        history = SeedFrom(art, start) \o AcceptedSizes(art, start, AcceptedCount)

HistInv ==
    /\ StopInv
    /\ pc = "start" => history = << >>
    /\ HistOK

(* What each step must re-establish besides StopInv. *)
HistPart == (pc = "start" => history = << >>) /\ HistOK

LEMMA HistOKIsProperty == HistOK <=> HistoryReflectsAcceptedRounds
BY DEF HistOK, HistoryReflectsAcceptedRounds, SeedFrom, AcceptedSizes

-----------------------------------------------------------------------------
(* Lemmas on the history in the loop. *)

(* In the loop, round - start rounds have been accepted. *)
LEMMA LoopHistory ==
    ASSUME HistInv, pc \in InLoop
    PROVE  /\ start \in Nat \ {0} /\ round \in Nat \ {0} /\ start <= round
           /\ art \in [Rounds -> FileState]
           /\ history = SeedFrom(art, start)
                          \o AcceptedSizes(art, start, round - start)
<1>1. /\ start \in Nat \ {0} /\ round \in Nat \ {0} /\ start <= round
      /\ art \in [Rounds -> FileState] /\ stop = "none"
  BY DEF HistInv, StopInv, TypeInv, TypeOK
<1>2. AcceptedCount = round - start
  BY <1>1 DEF AcceptedCount
<1>. QED
  BY <1>1, <1>2 DEF HistInv, HistOK

(* A step that writes only the file of the current round leaves the seed *)
(* and the accepted sizes as they were.                                   *)
LEMMA KeepHistory ==
    ASSUME HistInv, pc \in {"exec", "verify", "recover"},
           \A k \in Rounds : k # round => art'[k] = art[k]
    PROVE  history = SeedFrom(art', start) \o AcceptedSizes(art', start, round - start)
<1>1. /\ start \in Nat \ {0} /\ round \in Nat \ {0} /\ start <= round
      /\ art \in [Rounds -> FileState]
      /\ history = SeedFrom(art, start)
                     \o AcceptedSizes(art, start, round - start)
  BY LoopHistory DEF InLoop
<1>2. round \in Rounds
  BY RoundIsSlot DEF HistInv, StopInv
<1>3. SeedFrom(art', start) = SeedFrom(art, start)
  <2>1. \A k \in Rounds : k < start => art'[k] = art[k]
    BY <1>1, <1>2 DEF Rounds
  <2>. QED
    BY <1>1, <2>1, SeedFrame
<1>4. AcceptedSizes(art', start, round - start)
        = AcceptedSizes(art, start, round - start)
  <2> DEFINE n == round - start
  <2>1. \A i \in 1..n : art'[start + i - 1] = art[start + i - 1]
    BY <1>1, <1>2 DEF Rounds
  <2>2. n \in Nat /\ start \in Nat
    BY <1>1
  <2>. QED
    BY <2>1, <2>2 DEF AcceptedSizes
<1>. QED
  BY <1>1, <1>3, <1>4

(* An acceptance appends the size of the current round's file. *)
LEMMA ExtendHistory ==
    ASSUME HistInv, pc \in {"verify", "recover"},
           art' \in [Rounds -> FileState],
           \A k \in Rounds : k # round => art'[k] = art[k]
    PROVE  Append(history, art'[round].chars)
             = SeedFrom(art', start) \o AcceptedSizes(art', start, round - start + 1)
<1>1. /\ start \in Nat \ {0} /\ round \in Nat \ {0} /\ start <= round
  BY LoopHistory DEF InLoop
<1>2. round \in Rounds
  BY RoundIsSlot DEF HistInv, StopInv
<1> DEFINE n == round - start
<1>3. history = SeedFrom(art', start) \o AcceptedSizes(art', start, n)
  BY KeepHistory
<1>4. n \in Nat /\ start + n = round /\ n + 1 = round - start + 1
  BY <1>1
<1>5. SeedFrom(art', start) \o AcceptedSizes(art', start, n + 1)
        = Append(SeedFrom(art', start) \o AcceptedSizes(art', start, n),
                 art'[start + n].chars)
  BY <1>1, <1>2, <1>4, AcceptOne
<1>. QED
  BY <1>3, <1>4, <1>5


(* A failed or truncated attempt: the history stays, the round number    *)
(* stays, and at most the current round's file changes.                   *)
LEMMA KeepStep ==
    ASSUME HistInv, pc \in {"exec", "verify", "recover"},
           \A k \in Rounds : k # round => art'[k] = art[k],
           history' = history, start' = start, round' = round,
           stop' # "converged"
    PROVE  HistOK'
<1>1. history = SeedFrom(art', start) \o AcceptedSizes(art', start, round - start)
  BY KeepHistory
<1>2. AcceptedCount' = round - start
  <2>1. round \in Nat /\ start \in Nat
    BY DEF HistInv, StopInv, TypeInv, TypeOK
  <2>. QED
    BY <2>1 DEF AcceptedCount
<1>. QED
  BY <1>1, <1>2 DEF HistOK

(* An accepted round: the size of its file is appended, and the count of *)
(* accepted rounds goes up by one, whether the run converged or moves on. *)
LEMMA AcceptStep ==
    ASSUME HistInv, pc \in {"verify", "recover"},
           art' \in [Rounds -> FileState],
           \A k \in Rounds : k # round => art'[k] = art[k],
           history' = Append(history, art'[round].chars),
           start' = start, AcceptRound
    PROVE  HistOK'
<1>1. history' = SeedFrom(art', start)
                   \o AcceptedSizes(art', start, round - start + 1)
  BY ExtendHistory
<1>2. /\ start \in Nat \ {0} /\ round \in Nat \ {0}
      /\ stop = "none"
  BY DEF HistInv, StopInv, TypeInv, TypeOK, InLoop
<1>3. AcceptedCount' = round - start + 1
  <2>1. PICK conv \in Scores \cup {NoScore} :
          IF conv # NoScore /\ conv >= Target
          THEN stop' = "converged" /\ pc' = "finish" /\ round' = round
          ELSE round' = round + 1 /\ pc' = "top" /\ stop' = stop
    BY DEF AcceptRound
  <2>2. CASE conv # NoScore /\ conv >= Target
    BY <1>2, <2>1, <2>2 DEF AcceptedCount
  <2>3. CASE ~(conv # NoScore /\ conv >= Target)
    BY <1>2, <2>1, <2>3 DEF AcceptedCount
  <2>. QED
    BY <2>2, <2>3
<1>. QED
  BY <1>1, <1>3 DEF HistOK


-----------------------------------------------------------------------------
(* HistInv is inductive: one lemma per action. *)

LEMMA InitHistInv == Init => HistInv
<1> SUFFICES ASSUME Init PROVE HistInv
  OBVIOUS
<1>1. StopInv
  BY InitStopInv
<1>. QED
  BY <1>1 DEF Init, HistInv, HistOK, InLoop

(* A fresh process, launched or killed, has an empty history. *)
LEMMA FreshHist ==
    ASSUME Launch \/ Crash PROVE HistPart'
BY DEF Launch, Crash, FreshProcess, HistPart, HistOK, InLoop

LEMMA UnchangedHist ==
    ASSUME HistInv, HandleSignal \/ UNCHANGED vars PROVE HistPart'
<1>1. UNCHANGED <<pc, history, art, start, round, stop>>
  BY DEF HandleSignal, vars, disk, proc
<1>. QED
  BY <1>1 DEF HistInv, HistPart, HistOK, AcceptedCount

(* Preflight seeds the history from the last round file and starts past *)
(* it, with no round accepted yet.                                        *)
LEMMA PreflightHist ==
    ASSUME HistInv, Preflight PROVE HistPart'
<1>1. /\ pc = "start" /\ history = << >> /\ stop = "none"
      /\ art' = art /\ art \in [Rounds -> FileState]
  BY DEF HistInv, StopInv, TypeInv, TypeOK, Preflight
<1>2. CASE pc' = "done"
  BY <1>2 DEF HistPart, HistOK, InLoop
<1>3. CASE /\ start' = DetectLastRound(art) + 1
           /\ round' = DetectLastRound(art) + 1
           /\ history' = IF DetectLastRound(art) > 0
                         THEN Seed(art, DetectLastRound(art)) ELSE history
           /\ pc' = "top" /\ stop' = stop
  <2> DEFINE last == DetectLastRound(art)
  <2>1. last \in 0..NumRounds
    BY DetectLastRoundType
  <2>2. AcceptedCount' = 0
    BY <1>1, <1>3, <2>1 DEF AcceptedCount
  <2>3. AcceptedSizes(art, last + 1, 0) = << >>
    BY DEF AcceptedSizes
  <2>4. history' = SeedFrom(art, last + 1)
    BY <1>1, <1>3, <2>1 DEF SeedFrom
  <2>5. SeedFrom(art, last + 1) \in Seq(Nat)
    BY <1>1, <2>1, SeedFromType
  <2>6. history' = SeedFrom(art, last + 1) \o AcceptedSizes(art, last + 1, 0)
    BY <2>3, <2>4, <2>5, ConcatEmptySeq
  <2>. QED
    BY <1>1, <1>3, <2>2, <2>6 DEF HistPart, HistOK
<1>. QED
  BY <1>2, <1>3 DEF Preflight


LEMMA LoopTopHist ==
    ASSUME HistInv, LoopTop PROVE HistPart'
<1>2. /\ pc = "top" /\ stop = "none"
      /\ round \in Nat /\ start \in Nat
  BY DEF LoopTop, HistInv, StopInv, TypeInv, TypeOK, InLoop
<1>1. /\ UNCHANGED <<art, start, round, history>>
      /\ pc' \in {"finish", "exec"} /\ stop' # "converged"
  BY <1>2 DEF LoopTop
<1>3. AcceptedCount' = AcceptedCount
  BY <1>1, <1>2 DEF AcceptedCount
<1>. QED
  BY <1>1, <1>2, <1>3 DEF HistInv, HistPart, HistOK, InLoop

LEMMA FinishHist ==
    ASSUME Finish PROVE HistPart'
BY DEF Finish, HistPart, HistOK, InLoop

(* The files other than the current round's are left alone. *)
LEMMA OtherFiles ==
    ASSUME HistInv, NEW c, art' = [art EXCEPT ![round] = c]
    PROVE  \A k \in Rounds : k # round => art'[k] = art[k]
BY DEF HistInv, StopInv, TypeInv, TypeOK

LEMMA RunRoundHist ==
    ASSUME HistInv, RunRound PROVE HistPart'
<1>1. PICK c \in FileState : art' = [art EXCEPT ![round] = c]
  BY DEF RunRound
<1>2. \A k \in Rounds : k # round => art'[k] = art[k]
  BY <1>1, OtherFiles
<1>3. /\ pc = "exec" /\ pc' \in {"verify", "finish", "top"}
      /\ UNCHANGED <<history, start, round>> /\ stop' # "converged"
  <2>1. pc = "exec" /\ stop = "none"
    BY DEF RunRound, HistInv, StopInv, InLoop
  <2>. QED
    BY <2>1 DEF RunRound, ExecFailure
<1>. QED
  BY <1>2, <1>3, KeepStep DEF HistPart

LEMMA VerifyOutputHist ==
    ASSUME HistInv, VerifyOutput PROVE HistPart'
<1> DEFINE c == art[round]
<1>1. /\ pc = "verify" /\ round \in Rounds
      /\ art \in [Rounds -> FileState] /\ start' = start
  BY RoundIsSlot DEF VerifyOutput, HistInv, StopInv, TypeInv, TypeOK
<1>2. CASE /\ ~IsTruncated(c, history)
           /\ history' = SizeAfterCheck(c, FALSE)
           /\ AcceptRound
           /\ UNCHANGED <<art, archive, attempts, failed>>
  <2>1. c.chars \in Nat /\ ~(c.chars < MIN_OUTPUT_CHARS)
    BY <1>1, <1>2, FileChars DEF IsTruncated, ContentTruncated
  <2>2. history' = Append(history, art'[round].chars)
    BY <1>2, <2>1 DEF SizeAfterCheck, MIN_OUTPUT_CHARS
  <2>3. pc' \in {"top", "finish"}
    BY <1>2 DEF AcceptRound
  <2>. QED
    BY <1>1, <1>2, <2>2, <2>3, AcceptStep DEF HistPart
<1>3. CASE /\ IsTruncated(c, history)
           /\ \/ art' = [art EXCEPT ![round] = NoFile]
              \/ UNCHANGED art
           /\ history' = SizeAfterCheck(c, TRUE)
           /\ pc' = "recover"
           /\ UNCHANGED <<stop, round>>
  <2>1. \A k \in Rounds : k # round => art'[k] = art[k]
    BY <1>3, OtherFiles
  <2>2. history' = history /\ stop' # "converged"
    BY <1>1, <1>3 DEF SizeAfterCheck, HistInv, StopInv, InLoop
  <2>. QED
    BY <1>1, <1>3, <2>1, <2>2, KeepStep DEF HistPart
<1>. QED
  BY <1>2, <1>3 DEF VerifyOutput

LEMMA CdpRecoveryHist ==
    ASSUME HistInv, CdpRecovery PROVE HistPart'
<1>1. /\ pc = "recover" /\ start' = start /\ stop = "none"
      /\ art \in [Rounds -> FileState] /\ round \in Rounds
  BY RoundIsSlot DEF CdpRecovery, HistInv, StopInv, TypeInv, TypeOK, InLoop
<1>2. ASSUME TruncationFailure PROVE pc' # "start" /\ stop' # "converged"
                                     /\ round' = round
  BY <1>1, <1>2 DEF TruncationFailure
<1>3. CASE TruncationFailure /\ UNCHANGED <<art, history, completed>>
  BY <1>1, <1>2, <1>3, KeepStep DEF HistPart
<1>4. CASE /\ RecoveryEnabled
           /\ \E rc \in RecoveredText :
                /\ art' = [art EXCEPT ![round] = rc]
                /\ \/ /\ ~IsTruncated(rc, history)
                      /\ RecordSize(rc)
                      /\ AcceptRound
                      /\ UNCHANGED failed
                   \/ /\ IsTruncated(rc, history)
                      /\ TruncationFailure
                      /\ UNCHANGED <<history, completed>>
  <2>1. PICK rc \in RecoveredText :
             /\ art' = [art EXCEPT ![round] = rc]
             /\ \/ RecordSize(rc) /\ AcceptRound
                \/ TruncationFailure /\ UNCHANGED history
    BY <1>4
  <2>2. \A k \in Rounds : k # round => art'[k] = art[k]
    BY <2>1, OtherFiles
  <2>3. art' \in [Rounds -> FileState] /\ art'[round] = rc
    BY <1>1, <2>1 DEF RecoveredText, FileState
  <2>4. CASE RecordSize(rc) /\ AcceptRound
    <3>1. history' = Append(history, art'[round].chars)
      BY <2>3, <2>4 DEF RecordSize
    <3>2. pc' \in {"top", "finish"}
      BY <2>4 DEF AcceptRound
    <3>. QED
      BY <1>1, <2>2, <2>3, <3>1, <3>2, <2>4, AcceptStep DEF HistPart
  <2>5. CASE TruncationFailure /\ UNCHANGED history
    BY <1>1, <1>2, <2>2, <2>5, KeepStep DEF HistPart
  <2>. QED
    BY <2>1, <2>4, <2>5
<1>. QED
  BY <1>3, <1>4 DEF CdpRecovery


LEMMA NextHistInv == HistInv /\ [Next]_vars => HistInv'
<1> SUFFICES ASSUME HistInv, [Next]_vars PROVE HistInv'
  OBVIOUS
<1>1. StopInv'
  BY NextStopInv DEF HistInv
<1>2. HistPart'
  <2>1. CASE Preflight     BY <2>1, PreflightHist
  <2>2. CASE LoopTop       BY <2>2, LoopTopHist
  <2>3. CASE RunRound      BY <2>3, RunRoundHist
  <2>4. CASE VerifyOutput  BY <2>4, VerifyOutputHist
  <2>5. CASE CdpRecovery   BY <2>5, CdpRecoveryHist
  <2>6. CASE Finish        BY <2>6, FinishHist
  <2>7. CASE Launch \/ Crash  BY <2>7, FreshHist
  <2>8. CASE HandleSignal \/ UNCHANGED vars  BY <2>8, UnchangedHist
  <2>. QED
    BY <2>1, <2>2, <2>3, <2>4, <2>5, <2>6, <2>7, <2>8 DEF Next, ProcessStep
<1>. QED
  BY <1>1, <1>2 DEF HistInv, HistPart

-----------------------------------------------------------------------------
(* HistInv holds in every reachable state of the orchestrator. *)
THEOREM HistoryInvariant == Spec => []HistInv
<1>1. Init => HistInv
  BY InitHistInv
<1>2. HistInv /\ [Next]_vars => HistInv'
  BY NextHistInv
<1>. QED
  BY <1>1, <1>2, PTL DEF Spec

(***************************************************************************)
(* The rolling size history Orchestrator.run keeps in self._output_sizes  *)
(* (the property the runs check on small instances), for every number of *)
(* rounds, launches and sizes: in the loop and when it is left, it is the *)
(* seed _seed_output_sizes read before the start round, then the size of *)
(* each round the run accepted, in order, as its file holds it now.  So  *)
(* the rolling-average check never compares against a truncated artifact  *)
(* and never misses an accepted one.                                      *)
(***************************************************************************)
THEOREM HistoryReflectsAccepted == Spec => []HistoryReflectsAcceptedRounds
<1>1. HistInv => HistoryReflectsAcceptedRounds
  BY HistOKIsProperty DEF HistInv
<1>. QED
  BY HistoryInvariant, <1>1, PTL

=============================================================================
