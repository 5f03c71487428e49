--------------------------- MODULE AprAutoProofs ---------------------------
(***************************************************************************)
(* Proofs about the orchestration loop of AprAuto, for every value of the *)
(* constants that satisfies the module's assumptions.                     *)
(***************************************************************************)
EXTENDS AprAuto, TLAPS, SequenceTheorems

USE NumRoundsAssumption, MaxRoundsAssumption, MaxRunsAssumption,
    ScoreAssumption, SizesAssumption, TailsAssumption, RecoveryAssumption

-----------------------------------------------------------------------------
(* Lemmas about the helpers the actions are built from. *)

(* detect_last_round returns a round number or 0. *)
LEMMA DetectLastRoundType ==
    ASSUME NEW a
    PROVE  DetectLastRound(a) \in 0..NumRounds
BY DEF DetectLastRound

(* With no round file on disk the resume point is round 1. *)
LEMMA DetectLastRoundEmpty ==
    DetectLastRound([r \in Rounds |-> NoFile]) = 0
<1> DEFINE a == [r \in Rounds |-> NoFile]
<1>1. \A r \in Rounds : ~NonEmptyFile(a, r)
  BY DEF NonEmptyFile
<1>2. IsLastRound(a, 0)
  BY <1>1 DEF IsLastRound
<1>3. \A m \in 0..NumRounds : IsLastRound(a, m) => m = 0
  BY <1>1 DEF IsLastRound, Rounds
<1>. QED
  BY <1>2, <1>3 DEF DetectLastRound

(* The seeded rolling history is a sequence of sizes. *)
LEMMA SeedType ==
    ASSUME NEW a \in [Rounds -> FileState], NEW n \in Int
    PROVE  Seed(a, n) \in Seq(Nat)
<1>1. \A k \in Int : SeedPart(a, k) \in Seq(Nat)
  <2> TAKE k \in Int
  <2>1. CASE k \in Rounds /\ NonEmptyFile(a, k)
    <3>1. a[k] \in Content
      BY <2>1 DEF NonEmptyFile, FileState
    <3>2. a[k].chars \in Nat
      BY <3>1 DEF Content
    <3>. QED
      BY <2>1, <3>2 DEF SeedPart
  <2>2. CASE ~(k \in Rounds /\ NonEmptyFile(a, k))
    BY <2>2 DEF SeedPart
  <2>. QED
    BY <2>1, <2>2
<1>. QED
  BY <1>1, ConcatProperties DEF Seed

-----------------------------------------------------------------------------
(***************************************************************************)
(* Type correctness.  TypeOK alone is not inductive: a result records the *)
(* round number, which must be a round slot, and that rests on the        *)
(* resume point leaving room for config.max_rounds rounds (the launch     *)
(* guard), on start keeping that room through the run, and on the loop   *)
(* bound being checked before every attempt.                              *)
(***************************************************************************)
TypeInv ==
    /\ TypeOK
    /\ pc = "start" => DetectLastRound(art) + MaxRounds <= NumRounds
    /\ pc \in InLoop \cup {"finish"} => start + MaxRounds <= NumRounds + 1
    /\ pc \in {"exec", "verify", "recover"} => round < End

LEMMA InitTypeInv == Init => TypeInv
<1> SUFFICES ASSUME Init PROVE TypeInv
  OBVIOUS
<1>1. TypeOK
  <2>1. art \in [Rounds -> FileState]
    BY DEF Init, FileState
  <2>2. archive \in [ArchiveNames -> Nat]
    BY DEF Init
  <2>3. /\ status \in [round : Nat, completed : Nat,
                       state : StopReasons \cup {"running"}]
        /\ lastRun \in [reason : StopReasons, completed : Nat, failed : Nat]
    BY DEF Init, StopReasons
  <2>4. /\ runs \in 1..MaxRuns
        /\ pc \in PCs
        /\ start \in Nat \ {0}
        /\ round \in Nat \ {0}
        /\ cf \in Nat
        /\ attempts \in [Rounds -> Nat]
    BY DEF Init, PCs
  <2>5. /\ history \in Seq(Nat)
        /\ results \in Seq(ResultRec)
        /\ completed \in Nat
        /\ failed \in Nat
        /\ shutting \in BOOLEAN
        /\ stop \in StopReasons
    BY EmptySeq DEF Init, StopReasons
  <2>. QED
    BY <2>1, <2>2, <2>3, <2>4, <2>5 DEF TypeOK
<1>2. DetectLastRound(art) = 0
  BY DetectLastRoundEmpty DEF Init
<1>. QED
  BY <1>1, <1>2 DEF Init, TypeInv

(* While an attempt is in flight its round number is a round slot. *)
LEMMA RoundIsSlot ==
    ASSUME TypeInv, pc \in {"exec", "verify", "recover"}
    PROVE  round \in Rounds
BY DEF TypeInv, TypeOK, End, Rounds, InLoop

(* The results the loop appends are well-typed. *)
LEMMA FailedResultType ==
    ASSUME TypeInv, pc \in {"exec", "verify", "recover"}, NEW t \in BOOLEAN
    PROVE  Append(results, FailedResult(t)) \in Seq(ResultRec)
<1>1. FailedResult(t) \in ResultRec
  BY RoundIsSlot DEF FailedResult, ResultRec
<1>. QED
  BY <1>1, AppendProperties DEF TypeInv, TypeOK

LEMMA AcceptRoundType ==
    ASSUME TypeInv, pc \in {"verify", "recover"}, AcceptRound
    PROVE  /\ results' \in Seq(ResultRec)
           /\ cf' \in Nat /\ completed' \in Nat
           /\ round' \in Nat \ {0}
           /\ stop' \in StopReasons
           /\ pc' \in {"top", "finish"}
<1>1. PICK conv \in Scores \cup {NoScore} :
        /\ results' = Append(results, [rnd |-> round, ok |-> TRUE,
                                       trunc |-> FALSE, conv |-> conv])
        /\ IF conv # NoScore /\ conv >= Target
           THEN stop' = "converged" /\ pc' = "finish" /\ UNCHANGED round
           ELSE round' = round + 1 /\ pc' = "top" /\ UNCHANGED stop
  BY DEF AcceptRound
<1>2. [rnd |-> round, ok |-> TRUE, trunc |-> FALSE, conv |-> conv] \in ResultRec
  BY RoundIsSlot DEF ResultRec
<1>3. results' \in Seq(ResultRec)
  BY <1>1, <1>2, AppendProperties DEF TypeInv, TypeOK
<1>4. cf' \in Nat /\ completed' \in Nat
  BY DEF AcceptRound, TypeInv, TypeOK
<1>5. CASE conv # NoScore /\ conv >= Target
  BY <1>1, <1>3, <1>4, <1>5 DEF TypeInv, TypeOK, StopReasons
<1>6. CASE ~(conv # NoScore /\ conv >= Target)
  BY <1>1, <1>3, <1>4, <1>6 DEF TypeInv, TypeOK
<1>. QED
  BY <1>5, <1>6

LEMMA TruncationFailureType ==
    ASSUME TypeInv, pc = "recover", TruncationFailure
    PROVE  /\ results' \in Seq(ResultRec)
           /\ cf' \in Nat /\ failed' \in Nat
           /\ round' = round
           /\ stop' \in StopReasons
           /\ pc' \in {"top", "finish"}
<1>1. results' \in Seq(ResultRec)
  BY FailedResultType DEF TruncationFailure
<1>2. cf' \in Nat /\ failed' \in Nat /\ round' = round
  BY DEF TruncationFailure, TypeInv, TypeOK
<1>3. attempts[round] \in Nat
  BY RoundIsSlot DEF TypeInv, TypeOK
<1>4. stop' \in StopReasons /\ pc' \in {"top", "finish"}
  <2>1. CASE attempts[round] < MAX_TRUNCATION_RETRIES
             /\ cf + 1 >= MAX_CONSECUTIVE_FAILURES
    BY <2>1, <1>3 DEF TruncationFailure, StopReasons, TypeInv, TypeOK,
                      MAX_TRUNCATION_RETRIES, MAX_CONSECUTIVE_FAILURES
  <2>2. CASE attempts[round] < MAX_TRUNCATION_RETRIES
             /\ ~(cf + 1 >= MAX_CONSECUTIVE_FAILURES)
    BY <2>2, <1>3 DEF TruncationFailure, TypeInv, TypeOK,
                      MAX_TRUNCATION_RETRIES, MAX_CONSECUTIVE_FAILURES
  <2>3. CASE ~(attempts[round] < MAX_TRUNCATION_RETRIES)
    BY <2>3, <1>3 DEF TruncationFailure, StopReasons, MAX_TRUNCATION_RETRIES
  <2>. QED
    BY <2>1, <2>2, <2>3
<1>. QED
  BY <1>1, <1>2, <1>4

(* The memory of a fresh process is well-typed. *)
LEMMA FreshProcessType ==
    ASSUME NEW pcv \in PCs, FreshProcess(pcv)
    PROVE  /\ pc' \in PCs /\ start' \in Nat \ {0} /\ round' \in Nat \ {0}
           /\ cf' \in Nat /\ attempts' \in [Rounds -> Nat]
           /\ history' \in Seq(Nat) /\ results' \in Seq(ResultRec)
           /\ completed' \in Nat /\ failed' \in Nat
           /\ shutting' \in BOOLEAN /\ stop' \in StopReasons
           /\ pc' = pcv
<1>1. history' \in Seq(Nat) /\ results' \in Seq(ResultRec)
  BY EmptySeq DEF FreshProcess
<1>2. attempts' \in [Rounds -> Nat]
  BY DEF FreshProcess
<1>3. stop' \in StopReasons
  BY DEF FreshProcess, StopReasons
<1>4. pc' = pcv /\ pc' \in PCs
  BY DEF FreshProcess
<1>5. start' \in Nat \ {0} /\ round' \in Nat \ {0}
  BY DEF FreshProcess
<1>6. cf' \in Nat /\ completed' \in Nat /\ failed' \in Nat
  BY DEF FreshProcess
<1>7. shutting' \in BOOLEAN
  BY DEF FreshProcess
<1>. QED
  BY <1>1, <1>2, <1>3, <1>4, <1>5, <1>6, <1>7

LEMMA LaunchTypeInv ==
    ASSUME TypeInv, Launch PROVE TypeInv'
<1>1. FreshProcess("start") /\ "start" \in PCs
  BY DEF Launch, PCs
<1>2. runs' \in 1..MaxRuns
  BY DEF Launch, TypeInv, TypeOK
<1>3. DetectLastRound(art') + MaxRounds <= NumRounds
  BY DEF Launch
<1>. QED
  BY <1>1, <1>2, <1>3, FreshProcessType DEF Launch, TypeInv, TypeOK, InLoop

LEMMA CrashTypeInv ==
    ASSUME TypeInv, Crash PROVE TypeInv'
<1>1. FreshProcess("down") /\ "down" \in PCs
  BY DEF Crash, PCs
<1>. QED
  BY <1>1, FreshProcessType DEF Crash, disk, TypeInv, TypeOK, InLoop

LEMMA HandleSignalTypeInv ==
    ASSUME TypeInv, HandleSignal PROVE TypeInv'
BY DEF HandleSignal, disk, TypeInv, TypeOK, End

LEMMA StutterTypeInv ==
    ASSUME TypeInv, UNCHANGED vars PROVE TypeInv'
BY DEF vars, disk, proc, TypeInv, TypeOK, End

LEMMA PreflightTypeInv ==
    ASSUME TypeInv, Preflight PROVE TypeInv'
<1>1. CASE /\ stop' = "preflight_failed"
           /\ AtomicWrite(lastRun, SummaryRec("preflight_failed"))
           /\ pc' = "done"
           /\ UNCHANGED <<start, round, history>>
  <2>1. lastRun' \in [reason : StopReasons, completed : Nat, failed : Nat]
    BY <1>1 DEF AtomicWrite, SummaryRec, StopReasons, TypeInv, TypeOK
  <2>. QED
    BY <1>1, <2>1 DEF Preflight, TypeInv, TypeOK, StopReasons, PCs, InLoop
<1>2. CASE /\ start' = DetectLastRound(art) + 1
           /\ round' = DetectLastRound(art) + 1
           /\ history' = IF DetectLastRound(art) > 0
                          THEN Seed(art, DetectLastRound(art)) ELSE history
           /\ pc' = "top"
           /\ UNCHANGED <<stop, lastRun>>
  <2> DEFINE last == DetectLastRound(art)
  <2>1. last \in 0..NumRounds
    BY DetectLastRoundType
  <2>2. history' \in Seq(Nat)
    <3>0. art \in [Rounds -> FileState] /\ last \in Int
      BY <2>1 DEF TypeInv, TypeOK
    <3>1. Seed(art, last) \in Seq(Nat)
      BY <3>0, SeedType
    <3>. QED
      BY <1>2, <3>1 DEF TypeInv, TypeOK
  <2>3. start' + MaxRounds <= NumRounds + 1
    BY <1>2, <2>1 DEF Preflight, TypeInv
  <2>. QED
    BY <1>2, <2>1, <2>2, <2>3 DEF Preflight, TypeInv, TypeOK, PCs, InLoop
<1>. QED
  BY <1>1, <1>2 DEF Preflight, DetectLastRound

LEMMA LoopTopTypeInv ==
    ASSUME TypeInv, LoopTop PROVE TypeInv'
<1>1. status' \in [round : Nat, completed : Nat,
                   state : StopReasons \cup {"running"}]
  BY DEF LoopTop, AtomicWrite, TypeInv, TypeOK
<1>2. stop' \in StopReasons
  BY DEF LoopTop, StopReasons, TypeInv, TypeOK
<1>3. pc' \in {"finish", "exec"} /\ (pc' = "exec" => round < End)
  BY DEF LoopTop
<1>. QED
  BY <1>1, <1>2, <1>3 DEF LoopTop, TypeInv, TypeOK, PCs, InLoop, End

LEMMA RunRoundTypeInv ==
    ASSUME TypeInv, RunRound PROVE TypeInv'
<1>1. round \in Rounds
  BY RoundIsSlot DEF RunRound
<1>2. art' \in [Rounds -> FileState]
  BY <1>1 DEF RunRound, TypeInv, TypeOK
<1>3. CASE pc' = "verify" /\ UNCHANGED <<cf, failed, results, stop>>
  BY <1>2, <1>3 DEF RunRound, TypeInv, TypeOK, PCs, InLoop, End
<1>4. CASE ExecFailure
  <2>1. results' \in Seq(ResultRec)
    BY <1>4, FailedResultType DEF RunRound, ExecFailure
  <2>2. /\ cf' \in Nat /\ failed' \in Nat
        /\ stop' \in StopReasons /\ pc' \in {"top", "finish"}
    BY <1>4 DEF ExecFailure, TypeInv, TypeOK, StopReasons
  <2>. QED
    BY <1>2, <2>1, <2>2 DEF RunRound, TypeInv, TypeOK, PCs, InLoop, End
<1>. QED
  BY <1>3, <1>4 DEF RunRound

LEMMA FinishTypeInv ==
    ASSUME TypeInv, Finish PROVE TypeInv'
<1>1. FinalReason \in StopReasons
  BY DEF FinalReason, TypeInv, TypeOK, StopReasons
<1>2. lastRun' \in [reason : StopReasons, completed : Nat, failed : Nat]
  BY <1>1 DEF Finish, AtomicWrite, SummaryRec, TypeInv, TypeOK
<1>3. status' \in [round : Nat, completed : Nat,
                   state : StopReasons \cup {"running"}]
  BY <1>1 DEF Finish, AtomicWrite, TypeInv, TypeOK
<1>. QED
  BY <1>1, <1>2, <1>3 DEF Finish, TypeInv, TypeOK, PCs, InLoop

(* An artifact's size is a natural number. *)
LEMMA FileSizeType ==
    ASSUME NEW c \in FileState PROVE c.chars \in Nat
<1>1. CASE c \in Content
  BY <1>1 DEF Content
<1>2. CASE c = NoFile
  BY <1>2 DEF NoFile
<1>. QED
  BY <1>1, <1>2 DEF FileState

LEMMA VerifyOutputTypeInv ==
    ASSUME TypeInv, VerifyOutput PROVE TypeInv'
<1> DEFINE c == art[round]
<1>1. round \in Rounds /\ c \in FileState
  BY RoundIsSlot DEF VerifyOutput, TypeInv, TypeOK
<1>2. c.chars \in Nat
  BY <1>1, FileSizeType
<1>3. CASE /\ ~IsTruncated(c, history)
           /\ history' = SizeAfterCheck(c, FALSE)
           /\ AcceptRound
           /\ UNCHANGED <<art, archive, attempts, failed>>
  <2>1. history' \in Seq(Nat)
    BY <1>2, <1>3, AppendProperties DEF SizeAfterCheck, TypeInv, TypeOK
  <2>2. /\ results' \in Seq(ResultRec)
        /\ cf' \in Nat /\ completed' \in Nat
        /\ round' \in Nat \ {0}
        /\ stop' \in StopReasons
        /\ pc' \in {"top", "finish"}
    BY <1>3, AcceptRoundType DEF VerifyOutput
  <2>. QED
    BY <1>3, <2>1, <2>2 DEF VerifyOutput, TypeInv, TypeOK, PCs, InLoop
<1>4. CASE /\ IsTruncated(c, history)
           /\ attempts' = [attempts EXCEPT ![round] = @ + 1]
           /\ \/ /\ c # NoFile
                 /\ art' = [art EXCEPT ![round] = NoFile]
                 /\ archive' = [archive EXCEPT ![<<round, attempts'[round]>>] = @ + 1]
              \/ UNCHANGED <<art, archive>>
           /\ history' = SizeAfterCheck(c, TRUE)
           /\ pc' = "recover"
           /\ UNCHANGED <<cf, results, completed, failed, stop, round>>
  <2>1. attempts' \in [Rounds -> Nat]
    BY <1>1, <1>4 DEF TypeInv, TypeOK
  <2>2. art' \in [Rounds -> FileState] /\ archive' \in [ArchiveNames -> Nat]
    <3>1. CASE UNCHANGED <<art, archive>>
      BY <3>1 DEF TypeInv, TypeOK
    <3>2. CASE /\ art' = [art EXCEPT ![round] = NoFile]
               /\ archive' = [archive EXCEPT ![<<round, attempts'[round]>>] = @ + 1]
      <4>1. art' \in [Rounds -> FileState]
        BY <1>1, <3>2 DEF TypeInv, TypeOK, FileState
      <4>2. archive' \in [ArchiveNames -> Nat]
        <5>1. archive \in [ArchiveNames -> Nat]
          BY DEF TypeInv, TypeOK
        <5>2. DOMAIN archive' = ArchiveNames
          BY <3>2, <5>1
        <5>3. \A n \in ArchiveNames : archive'[n] \in Nat
          BY <3>2, <5>1
        <5>. QED
          BY <3>2, <5>1, <5>2, <5>3, Zenon
      <4>. QED
        BY <4>1, <4>2
    <3>. QED
      BY <1>4, <3>1, <3>2
  <2>3. history' = history
    BY <1>4 DEF SizeAfterCheck
  <2>. QED
    BY <1>4, <2>1, <2>2, <2>3 DEF VerifyOutput, TypeInv, TypeOK, PCs, InLoop, End
<1>. QED
  BY <1>3, <1>4 DEF VerifyOutput

LEMMA CdpRecoveryTypeInv ==
    ASSUME TypeInv, CdpRecovery PROVE TypeInv'
<1>1. round \in Rounds
  BY RoundIsSlot DEF CdpRecovery
<1>2. CASE TruncationFailure /\ UNCHANGED <<art, history, completed>>
  <2>1. /\ results' \in Seq(ResultRec)
        /\ cf' \in Nat /\ failed' \in Nat
        /\ round' = round
        /\ stop' \in StopReasons
        /\ pc' \in {"top", "finish"}
    BY <1>2, TruncationFailureType DEF CdpRecovery
  <2>. QED
    BY <1>2, <2>1 DEF CdpRecovery, TypeInv, TypeOK, PCs, InLoop
<1>3. CASE /\ RecoveryEnabled
           /\ \E rc \in RecoveredText :
                 /\ art' = [art EXCEPT ![round] = rc]
                 /\ \/ /\ ~IsTruncated(rc, history)
                       /\ RecordSize(rc)
                       /\ AcceptRound
                       /\ UNCHANGED failed
                    \/ /\ IsTruncated(rc, history)
                       /\ TruncationFailure
                       /\ UNCHANGED <<history, completed>>
  <2>1. PICK rc \in RecoveredText :
                 /\ art' = [art EXCEPT ![round] = rc]
                 /\ \/ /\ ~IsTruncated(rc, history)
                       /\ RecordSize(rc)
                       /\ AcceptRound
                       /\ UNCHANGED failed
                    \/ /\ IsTruncated(rc, history)
                       /\ TruncationFailure
                       /\ UNCHANGED <<history, completed>>
    BY <1>3
  <2>2. rc \in FileState /\ rc.chars \in Nat
    BY <2>1, FileSizeType DEF RecoveredText, FileState
  <2>3. art' \in [Rounds -> FileState]
    BY <1>1, <2>1, <2>2 DEF TypeInv, TypeOK
  <2>4. CASE /\ ~IsTruncated(rc, history)
             /\ RecordSize(rc)
             /\ AcceptRound
             /\ UNCHANGED failed
    <3>1. history' \in Seq(Nat)
      BY <2>2, <2>4, AppendProperties DEF RecordSize, TypeInv, TypeOK
    <3>2. /\ results' \in Seq(ResultRec)
          /\ cf' \in Nat /\ completed' \in Nat
          /\ round' \in Nat \ {0}
          /\ stop' \in StopReasons
          /\ pc' \in {"top", "finish"}
      BY <2>4, AcceptRoundType DEF CdpRecovery
    <3>. QED
      BY <2>3, <2>4, <3>1, <3>2 DEF CdpRecovery, TypeInv, TypeOK, PCs, InLoop
  <2>5. CASE /\ IsTruncated(rc, history)
             /\ TruncationFailure
             /\ UNCHANGED <<history, completed>>
    <3>1. /\ results' \in Seq(ResultRec)
          /\ cf' \in Nat /\ failed' \in Nat
          /\ round' = round
          /\ stop' \in StopReasons
          /\ pc' \in {"top", "finish"}
      BY <2>5, TruncationFailureType DEF CdpRecovery
    <3>. QED
      BY <2>3, <2>5, <3>1 DEF CdpRecovery, TypeInv, TypeOK, PCs, InLoop
  <2>. QED
    BY <2>1, <2>4, <2>5
<1>. QED
  BY <1>2, <1>3 DEF CdpRecovery

LEMMA NextTypeInv == TypeInv /\ [Next]_vars => TypeInv'
<1> SUFFICES ASSUME TypeInv, [Next]_vars PROVE TypeInv'
  OBVIOUS
<1>1. CASE Preflight     BY <1>1, PreflightTypeInv
<1>2. CASE LoopTop       BY <1>2, LoopTopTypeInv
<1>3. CASE RunRound      BY <1>3, RunRoundTypeInv
<1>4. CASE VerifyOutput  BY <1>4, VerifyOutputTypeInv
<1>5. CASE CdpRecovery   BY <1>5, CdpRecoveryTypeInv
<1>6. CASE Finish        BY <1>6, FinishTypeInv
<1>7. CASE Launch        BY <1>7, LaunchTypeInv
<1>8. CASE Crash         BY <1>8, CrashTypeInv
<1>9. CASE HandleSignal  BY <1>9, HandleSignalTypeInv
<1>10. CASE UNCHANGED vars  BY <1>10, StutterTypeInv
<1>. QED
  BY <1>1, <1>2, <1>3, <1>4, <1>5, <1>6, <1>7, <1>8, <1>9, <1>10
     DEF Next, ProcessStep

(***************************************************************************)
(* Type correctness of the orchestration loop: in every reachable state   *)
(* of Orchestrator.run and its relaunches, every variable has its type;   *)
(* in particular every result the loop records names an existing round    *)
(* slot (the loop bound start + max_rounds and the resume point keep      *)
(* round_num within the artifact store).                                   *)
(***************************************************************************)
THEOREM TypeCorrect == Spec => []TypeOK
<1>1. Init => TypeInv
  BY InitTypeInv
<1>2. TypeInv /\ [Next]_vars => TypeInv'
  BY NextTypeInv
<1>3. TypeInv => TypeOK
  BY DEF TypeInv
<1>. QED
  BY <1>1, <1>2, <1>3, PTL DEF Spec

-----------------------------------------------------------------------------
(* The step predicate of RoundAdvancesOnlyOnAcceptance. *)
RoundStep ==
    (pc \in InLoop /\ pc' # "down" /\ round' # round) =>
        /\ round' = round + 1
        /\ Len(results') = Len(results) + 1
        /\ results'[Len(results')].ok

(* An accepted round appends an accepted result, and moves on by one     *)
(* unless it converged.                                                  *)
LEMMA AcceptRoundStep ==
    ASSUME TypeInv, AcceptRound
    PROVE  /\ round' \in {round, round + 1}
           /\ Len(results') = Len(results) + 1
           /\ results'[Len(results')].ok
<1>1. results \in Seq(ResultRec)
  BY DEF TypeInv, TypeOK
<1>2. PICK conv \in Scores \cup {NoScore} :
        /\ results' = Append(results, [rnd |-> round, ok |-> TRUE,
                                       trunc |-> FALSE, conv |-> conv])
        /\ IF conv # NoScore /\ conv >= Target
           THEN stop' = "converged" /\ pc' = "finish" /\ UNCHANGED round
           ELSE round' = round + 1 /\ pc' = "top" /\ UNCHANGED stop
  BY DEF AcceptRound
<1>3. round' \in {round, round + 1}
  BY <1>2
<1>. QED
  BY <1>1, <1>2, <1>3, AppendProperties

LEMMA NextRoundStep ==
    TypeInv /\ [Next]_vars => RoundStep
<1> SUFFICES ASSUME TypeInv, [Next]_vars,
                    pc \in InLoop, pc' # "down", round' # round
             PROVE  /\ round' = round + 1
                    /\ Len(results') = Len(results) + 1
                    /\ results'[Len(results')].ok
  BY DEF RoundStep
<1>1. CASE VerifyOutput
  <2>1. AcceptRound
    BY <1>1 DEF VerifyOutput
  <2>. QED
    BY <2>1, AcceptRoundStep
<1>2. CASE CdpRecovery
  <2>1. CASE TruncationFailure
    BY <2>1 DEF TruncationFailure
  <2>2. CASE ~TruncationFailure
    <3>1. AcceptRound
      BY <1>2, <2>2 DEF CdpRecovery
    <3>. QED
      BY <3>1, AcceptRoundStep
  <2>. QED
    BY <2>1, <2>2
<1>3. CASE Preflight \/ Launch \/ Finish
  BY <1>3 DEF Preflight, Launch, Finish, InLoop
<1>4. CASE Crash
  BY <1>4 DEF Crash, FreshProcess
<1>5. CASE LoopTop \/ RunRound \/ HandleSignal \/ UNCHANGED vars
  BY <1>5 DEF LoopTop, RunRound, HandleSignal, vars, proc
<1>. QED
  BY <1>1, <1>2, <1>3, <1>4, <1>5 DEF Next, ProcessStep

(***************************************************************************)
(* Within a run the round number changes only by one and only in a step   *)
(* that records an accepted result: the continue statements of the       *)
(* failure and truncation branches of Orchestrator.run retry the same    *)
(* round_num, for every value of the constants.                            *)
(***************************************************************************)
THEOREM RoundAdvances == Spec => RoundAdvancesOnlyOnAcceptance
<1>1. TypeInv /\ [Next]_vars => [RoundStep]_vars
  BY NextRoundStep
<1>2. Init => TypeInv
  BY InitTypeInv
<1>3. TypeInv /\ [Next]_vars => TypeInv'
  BY NextTypeInv
<1>. QED
  BY <1>1, <1>2, <1>3, PTL DEF Spec, RoundAdvancesOnlyOnAcceptance, RoundStep

=============================================================================
