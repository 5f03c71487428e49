--------------------------- MODULE AtomicSnapshot ---------------------------
(***************************************************************************)
(* What spec sections 5 and 8 promise of status.json and last_run.json:   *)
(* a reader only ever sees the complete payload of some write (or no     *)
(* file); a write either replaces the snapshot with its payload or       *)
(* leaves it; a power loss goes back at most to the last write that was  *)
(* acknowledged as durable, never further and never to garbage.           *)
(*                                                                         *)
(* Payloads are numbered by the write that produced them; 0 is no file.  *)
(***************************************************************************)
EXTENDS Integers

VARIABLES
    shown,   \* the payload a reader of the file gets now
    acked,   \* the payload of the last write known to be durable
    calls    \* writes started so far

vars == <<shown, acked, calls>>

Init == shown = 0 /\ acked = 0 /\ calls = 0

(* A write starts with the next payload. *)
Call == calls' = calls + 1 /\ UNCHANGED <<shown, acked>>

(* The payload of the write in flight becomes visible at once. *)
Publish == shown < calls /\ shown' = calls /\ UNCHANGED <<acked, calls>>

(* The visible payload is made durable. *)
Ack == acked' = shown /\ UNCHANGED <<shown, calls>>

(* A power loss: the file goes back to a payload no older than acked. *)
Lose == shown' \in acked..shown /\ UNCHANGED <<acked, calls>>

Next == Call \/ Publish \/ Ack \/ Lose

Spec == Init /\ [][Next]_vars

(* The snapshot never goes back past the acknowledged payload. *)
Consistent == 0 <= acked /\ acked <= shown /\ shown <= calls

=============================================================================
