------------------------- MODULE AtomicWriteProofs -------------------------
(***************************************************************************)
(* Proofs, for every MaxWrites, that atomic_write_json keeps the file at  *)
(* path complete across OSErrors, kills and power losses, and that it     *)
(* implements the abstract snapshot of AtomicSnapshot.                    *)
(***************************************************************************)
EXTENDS AtomicWrite, TLAPS

(* The steps of a call that hold the temporary file open. *)
TmpOpen == {"dump", "fsync", "replace"}

(***************************************************************************)
(* The inductive invariant.  Both the visible and the durable file are    *)
(* complete and fsynced, so a power loss, whichever of the two it keeps, *)
(* leaves a complete file; the durable file is no older than the last    *)
(* acknowledged call and no newer than the visible one; and the          *)
(* temporary file carries the payload of the call in flight, full from   *)
(* fsync on and fsynced before os.replace, which is why the rename only  *)
(* ever publishes a complete, durable, newer payload.                    *)
(***************************************************************************)
IInv ==
    /\ TypeOK
    /\ pathVis.data = "full" /\ pathVis.synced
    /\ pathDur.data = "full" /\ pathDur.synced
    /\ acked <= pathDur.ver /\ pathDur.ver <= pathVis.ver
    /\ pathVis.ver <= ver
    /\ wpc \in TmpOpen => tmp.ver = ver
    /\ wpc \in {"fsync", "replace"} => tmp.data = "full"
    /\ wpc = "replace" => tmp.synced
    /\ wpc \in {"mkdir", "create"} \cup TmpOpen => pathVis.ver < ver
    /\ wpc = "dirsync" => pathVis.ver = ver

(* A file whose data was fsynced survives a power loss as it is. *)
LEMMA DurableSynced ==
    ASSUME NEW f \in Files, f.synced
    PROVE  Durable(f) = f
BY DEF Durable

(* The missing file is a file of the model. *)
LEMMA NoFileType == NoFile \in Files
BY MaxWritesAssumption DEF NoFile, Files, Datas

(* Init establishes the invariant. *)
LEMMA InitIInv == Init => IInv
<1> SUFFICES ASSUME Init PROVE IInv
  OBVIOUS
<1>1. TypeOK
  BY NoFileType, MaxWritesAssumption DEF Init, TypeOK, WPCs
<1>2. pathVis = NoFile /\ pathDur = NoFile /\ ver = 0 /\ acked = 0
      /\ wpc = "idle"
  BY DEF Init
<1>. QED
  BY <1>1, <1>2 DEF IInv, NoFile, TmpOpen

(* Every step of the writer or of the environment preserves it. *)
LEMMA NextIInv == IInv /\ [Next]_vars => IInv'
<1> SUFFICES ASSUME IInv, [Next]_vars PROVE IInv'
  OBVIOUS
<1> USE MaxWritesAssumption DEF IInv, TypeOK, Files, Datas, WPCs, TmpOpen
<1>1. CASE Call
  BY <1>1 DEF Call
<1>2. CASE Mkdir
  BY <1>2 DEF Mkdir
<1>3. CASE CreateTmp
  <2>1. UNCHANGED <<ver, pathVis, pathDur, acked, dirExists>>
    BY <1>3 DEF CreateTmp
  <2>2. CASE Abort(FALSE)
    BY <2>1, <2>2, NoFileType DEF Abort
  <2>3. CASE tmp' = [ver |-> ver, data |-> "empty", synced |-> FALSE]
             /\ wpc' = "dump" /\ UNCHANGED leaked
    BY <1>3, <2>1, <2>3 DEF CreateTmp
  <2>. QED
    BY <1>3, <2>2, <2>3 DEF CreateTmp
<1>4. CASE DumpJson
  <2>1. UNCHANGED <<ver, pathVis, pathDur, acked, dirExists>>
    BY <1>4 DEF DumpJson
  <2>2. CASE Abort(TRUE)
    BY <2>1, <2>2, NoFileType DEF Abort
  <2>3. CASE tmp' = [tmp EXCEPT !.data = "full"]
             /\ wpc' = "fsync" /\ UNCHANGED leaked
    BY <1>4, <2>1, <2>3 DEF DumpJson
  <2>. QED
    BY <1>4, <2>2, <2>3 DEF DumpJson
<1>5. CASE FsyncTmp
  <2>1. UNCHANGED <<ver, pathVis, pathDur, acked, dirExists>>
    BY <1>5 DEF FsyncTmp
  <2>2. CASE Abort(TRUE)
    BY <2>1, <2>2, NoFileType DEF Abort
  <2>3. CASE tmp' = [tmp EXCEPT !.synced = TRUE]
             /\ wpc' = "replace" /\ UNCHANGED leaked
    BY <1>5, <2>1, <2>3 DEF FsyncTmp
  <2>. QED
    BY <1>5, <2>2, <2>3 DEF FsyncTmp
<1>6. CASE ReplaceTmp
  <2>1. UNCHANGED <<ver, pathDur, acked, dirExists>>
    BY <1>6 DEF ReplaceTmp
  <2>2. CASE Abort(TRUE) /\ UNCHANGED pathVis
    BY <2>1, <2>2, NoFileType DEF Abort
  <2>3. CASE pathVis' = tmp /\ tmp' = NoFile /\ wpc' = "dirsync"
             /\ UNCHANGED leaked
    BY <1>6, <2>1, <2>3, NoFileType DEF ReplaceTmp
  <2>. QED
    BY <1>6, <2>2, <2>3 DEF ReplaceTmp
<1>7. CASE FsyncDir
  BY <1>7 DEF FsyncDir
<1>8. CASE Kill
  BY <1>8 DEF Kill, NoFile
<1>9. CASE Writeback
  BY <1>9 DEF Writeback
<1>10. CASE PowerLoss
  <2>1. PICK f \in {pathDur, pathVis} :
          pathVis' = Durable(f) /\ pathDur' = Durable(f)
    BY <1>10 DEF PowerLoss
  <2>2. f \in Files /\ f.synced /\ f.data = "full"
        /\ acked <= f.ver /\ f.ver <= ver
    BY <2>1
  <2>3. pathVis' = f /\ pathDur' = f
    BY <2>1, <2>2, DurableSynced
  <2>4. wpc' = "idle" /\ tmp' = NoFile /\ UNCHANGED <<ver, acked, dirExists>>
        /\ leaked' \in Nat
    BY <1>10 DEF PowerLoss
  <2>. QED
    BY <2>2, <2>3, <2>4 DEF NoFile
<1>11. CASE UNCHANGED vars
  BY <1>11 DEF vars
<1>. QED
  BY <1>1, <1>2, <1>3, <1>4, <1>5, <1>6, <1>7, <1>8, <1>9, <1>10, <1>11
     DEF Next

(* IInv holds in every reachable state. *)
THEOREM Invariant == Spec => []IInv
BY InitIInv, NextIInv, PTL DEF Spec

(***************************************************************************)
(* Every state atomic_write_json and its environment reach is typed.     *)
(***************************************************************************)
THEOREM TypeCorrect == Spec => []TypeOK
BY Invariant, PTL DEF IInv

(***************************************************************************)
(* Spec section 8, for every number of calls: after any OSError, kill or *)
(* power loss the file at path is complete, thanks to the fsync of the   *)
(* temporary file before os.replace.                                     *)
(***************************************************************************)
THEOREM CompleteFile == Spec => []ReaderSeesCompleteFile
BY Invariant, PTL DEF IInv, ReaderSeesCompleteFile

(***************************************************************************)
(* atomic_write_json implements AtomicSnapshot under the mapping shownBar: *)
(* os.replace publishes the call's payload, a successful fsync of the    *)
(* directory acknowledges it, a power loss goes back no further than the *)
(* acknowledged payload, and every other step is a stutter.              *)
(***************************************************************************)
THEOREM Refinement == Spec => ImplementsAtomicSnapshot
<1>1. Init => Snapshot!Init
  BY DEF Init, Snapshot!Init, shownBar, NoFile
<1>2. IInv /\ [Next]_vars => [Snapshot!Next]_Snapshot!vars
  <2> SUFFICES ASSUME IInv, [Next]_vars
               PROVE  [Snapshot!Next]_Snapshot!vars
    OBVIOUS
  <2> USE MaxWritesAssumption DEF IInv, TypeOK, Files, Datas, WPCs, TmpOpen
  <2>1. CASE Call
    BY <2>1 DEF Call, Snapshot!Next, Snapshot!Call, shownBar
  <2>2. CASE Mkdir \/ CreateTmp \/ DumpJson \/ FsyncTmp \/ Kill \/ Writeback
    BY <2>2 DEF Mkdir, CreateTmp, DumpJson, FsyncTmp, Kill, Writeback,
                Abort, Snapshot!vars, shownBar
  <2>3. CASE ReplaceTmp
    BY <2>3 DEF ReplaceTmp, Abort, Snapshot!Next, Snapshot!Publish,
                Snapshot!vars, shownBar
  <2>4. CASE FsyncDir
    BY <2>4 DEF FsyncDir, Snapshot!Next, Snapshot!Ack, Snapshot!vars,
                shownBar
  <2>5. CASE PowerLoss
    <3>1. PICK f \in {pathDur, pathVis} :
            pathVis' = Durable(f) /\ pathDur' = Durable(f)
      BY <2>5 DEF PowerLoss
    <3>2. pathVis' = f
      BY <3>1, DurableSynced
    <3>3. UNCHANGED <<ver, acked>>
      BY <2>5 DEF PowerLoss
    <3>. QED
      BY <3>1, <3>2, <3>3 DEF Snapshot!Next, Snapshot!Lose, shownBar
  <2>6. CASE UNCHANGED vars
    BY <2>6 DEF vars, Snapshot!vars, shownBar
  <2>. QED
    BY <2>1, <2>2, <2>3, <2>4, <2>5, <2>6 DEF Next
<1>. QED
  BY <1>1, <1>2, Invariant, PTL
     DEF Spec, ImplementsAtomicSnapshot, Snapshot!Spec

=============================================================================
