---------------------------- MODULE AtomicWrite ----------------------------
(***************************************************************************)
(* atomic_write_json, the writer of status.json and last_run.json, step  *)
(* by step: mkdir of the parent (outside the try), NamedTemporaryFile    *)
(* (delete=False), json.dump + flush, fsync, os.replace, and the fsync   *)
(* of the directory.  Each step inside the try may raise OSError, which  *)
(* ends the call silently; the process may be killed between any two     *)
(* steps; the machine may lose power, which drops what was not fsynced:  *)
(* the data of an unsynced file and a rename the directory fsync did not *)
(* make durable (the kernel may also write that rename back by itself).  *)
(*                                                                         *)
(* A file is its payload number (which call wrote it), how much of the   *)
(* payload it holds and whether its data was fsynced.                     *)
(***************************************************************************)
EXTENDS Integers

CONSTANTS
    MaxWrites    \* calls of atomic_write_json in one behaviour (model bound)

ASSUME MaxWritesAssumption == MaxWrites \in Nat \ {0}

Datas == {"empty", "full"}
Files == [ver : 0..MaxWrites, data : Datas, synced : BOOLEAN]
NoFile == [ver |-> 0, data |-> "full", synced |-> TRUE]

(* Where the writing process is: between calls, before a step, or dead   *)
(* of an exception that escaped the call.                                 *)
WPCs == {"idle", "mkdir", "create", "dump", "fsync", "replace", "dirsync",
         "raised"}

VARIABLES
    wpc,        \* the writer
    ver,        \* calls started; the payload of the call in flight
    tmp,        \* the call's NamedTemporaryFile, or NoFile before/after it
    leaked,     \* *.tmp files left in the directory
    pathVis,    \* the file at path as readers see it
    pathDur,    \* the file at path after a power loss, if no rename pends
    acked,      \* the payload of the last call that fsynced the directory
    dirExists   \* the parent directory exists

vars == <<wpc, ver, tmp, leaked, pathVis, pathDur, acked, dirExists>>

Init ==
    /\ wpc = "idle"
    /\ ver = 0
    /\ tmp = NoFile
    /\ leaked = 0
    /\ pathVis = NoFile
    /\ pathDur = NoFile
    /\ acked = 0
    /\ dirExists \in BOOLEAN

(* An OSError inside the try: return, leaving the temporary file (if    *)
(* one was created: delete=False) in the directory.                      *)
Abort(created) ==
    /\ wpc' = "idle"
    /\ tmp' = NoFile
    /\ leaked' = IF created THEN leaked + 1 ELSE leaked

-----------------------------------------------------------------------------
(* A caller (write_status or _save_summary) starts a write. *)
Call ==
    /\ wpc = "idle"
    /\ ver < MaxWrites
    /\ ver' = ver + 1
    /\ wpc' = "mkdir"
    /\ UNCHANGED <<tmp, leaked, pathVis, pathDur, acked, dirExists>>

(* path.parent.mkdir(parents=True, exist_ok=True), outside the try: an   *)
(* OSError there escapes to the caller.                                  *)
Mkdir ==
    /\ wpc = "mkdir"
    /\ \/ wpc' = "create" /\ dirExists' = TRUE
       \/ ~dirExists /\ wpc' = "raised" /\ UNCHANGED dirExists
    /\ UNCHANGED <<ver, tmp, leaked, pathVis, pathDur, acked>>

CreateTmp ==
    /\ wpc = "create"
    /\ \/ /\ tmp' = [ver |-> ver, data |-> "empty", synced |-> FALSE]
          /\ wpc' = "dump"
          /\ UNCHANGED leaked
       \/ Abort(FALSE)
    /\ UNCHANGED <<ver, pathVis, pathDur, acked, dirExists>>

(* json.dump and flush; an OSError (ENOSPC) leaves a short tmp file. *)
DumpJson ==
    /\ wpc = "dump"
    /\ \/ /\ tmp' = [tmp EXCEPT !.data = "full"]
          /\ wpc' = "fsync"
          /\ UNCHANGED leaked
       \/ Abort(TRUE)
    /\ UNCHANGED <<ver, pathVis, pathDur, acked, dirExists>>

FsyncTmp ==
    /\ wpc = "fsync"
    /\ \/ /\ tmp' = [tmp EXCEPT !.synced = TRUE]
          /\ wpc' = "replace"
          /\ UNCHANGED leaked
       \/ Abort(TRUE)
    /\ UNCHANGED <<ver, pathVis, pathDur, acked, dirExists>>

(* Mutant: the temporary file replaces path before its fsync. *)
ReplaceUnsynced ==
    /\ wpc \in {"fsync", "replace"}
    /\ \/ /\ pathVis' = tmp
          /\ tmp' = NoFile
          /\ wpc' = "dirsync"
          /\ UNCHANGED leaked
       \/ Abort(TRUE) /\ UNCHANGED pathVis
    /\ UNCHANGED <<ver, pathDur, acked, dirExists>>

(* os.replace(tmp_path, path): atomic for readers, durable only once the *)
(* directory is fsynced.                                                  *)
ReplaceTmp ==
    /\ wpc = "replace"
    /\ \/ /\ pathVis' = tmp
          /\ tmp' = NoFile
          /\ wpc' = "dirsync"
          /\ UNCHANGED leaked
       \/ Abort(TRUE) /\ UNCHANGED pathVis
    /\ UNCHANGED <<ver, pathDur, acked, dirExists>>

(* Mutant: the call returns as done without fsyncing the directory. *)
FsyncDirSkipped ==
    /\ wpc = "dirsync"
    /\ wpc' = "idle"
    /\ acked' = ver
    /\ UNCHANGED <<ver, tmp, leaked, pathVis, pathDur, dirExists>>

(* os.open of the directory, os.fsync, os.close: the rename is durable; *)
(* an OSError here returns with the rename still pending.                *)
FsyncDir ==
    /\ wpc = "dirsync"
    /\ wpc' = "idle"
    /\ \/ pathDur' = pathVis /\ acked' = ver
       \/ UNCHANGED <<pathDur, acked>>
    /\ UNCHANGED <<ver, tmp, leaked, pathVis, dirExists>>

-----------------------------------------------------------------------------
(* The environment. *)

(* The process is killed: its temporary file stays behind; a relaunched *)
(* process writes again from scratch.                                    *)
Kill ==
    /\ wpc # "idle"
    /\ wpc' = "idle"
    /\ tmp' = NoFile
    /\ leaked' = IF tmp # NoFile THEN leaked + 1 ELSE leaked
    /\ UNCHANGED <<ver, pathVis, pathDur, acked, dirExists>>

(* The kernel writes a pending rename back by itself. *)
Writeback ==
    /\ pathDur # pathVis
    /\ pathDur' = pathVis
    /\ UNCHANGED <<wpc, ver, tmp, leaked, pathVis, acked, dirExists>>

(* After a power loss a file keeps only what was fsynced. *)
Durable(f) == IF f.synced THEN f ELSE [f EXCEPT !.data = "empty"]

(* Power loss: the process dies, a pending rename may be undone, and the *)
(* data of unsynced files is gone.                                       *)
PowerLoss ==
    /\ \E f \in {pathDur, pathVis} :
          /\ pathVis' = Durable(f)
          /\ pathDur' = Durable(f)
    /\ wpc' = "idle"
    /\ tmp' = NoFile
    /\ leaked' = IF tmp # NoFile THEN leaked + 1 ELSE leaked
    /\ UNCHANGED <<ver, acked, dirExists>>

Next ==
    \/ Call \/ Mkdir \/ CreateTmp \/ DumpJson \/ FsyncTmp \/ ReplaceTmp
    \/ FsyncDir \/ Kill \/ Writeback \/ PowerLoss

Spec == Init /\ [][Next]_vars

-----------------------------------------------------------------------------
TypeOK ==
    /\ wpc \in WPCs
    /\ ver \in 0..MaxWrites
    /\ tmp \in Files
    /\ leaked \in Nat
    /\ pathVis \in Files /\ pathDur \in Files
    /\ acked \in 0..MaxWrites
    /\ dirExists \in BOOLEAN

(***************************************************************************)
(* Spec section 8: status and summary files are complete JSON after any  *)
(* process termination or power loss, never partial or empty.  About the *)
(* fsync of the temporary file before os.replace in atomic_write_json.   *)
(***************************************************************************)
ReaderSeesCompleteFile == pathVis.data = "full"

(***************************************************************************)
(* atomic_write_json implements AtomicSnapshot: what a reader sees is    *)
(* the payload of a write, each write publishes its own payload or       *)
(* nothing, and a power loss goes back no further than the last write    *)
(* whose directory fsync succeeded.  A partial or empty file maps to no  *)
(* payload at all (-1).                                                   *)
(***************************************************************************)
shownBar == IF pathVis.data = "full" THEN pathVis.ver ELSE -1

Snapshot == INSTANCE AtomicSnapshot WITH shown <- shownBar, calls <- ver

ImplementsAtomicSnapshot == Snapshot!Spec

(***************************************************************************)
(* Spec section 7: best-effort persistence never crashes the             *)
(* orchestrator, so no exception leaves atomic_write_json.  About the    *)
(* mkdir of the parent directory, which sits before the try.             *)
(***************************************************************************)
WriteNeverRaises == wpc # "raised"

=============================================================================
