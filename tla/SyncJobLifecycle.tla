-------------------------- MODULE SyncJobLifecycle --------------------------
(***************************************************************************)
(* What the record syncJobs/current promises, each operation in one step:  *)
(* one operation at a time owns the record, a queued operation is claimed  *)
(* once, and the lease gives the record back when its owner never answers. *)
(* SyncJob performs the same operations with two reads and a conditional   *)
(* write each, and is shown to implement this module.                      *)
(***************************************************************************)
EXTENDS Naturals

CONSTANTS
  Op,      \* operation identifiers
  NoOp     \* the identifier of the record that does not exist

VARIABLES
  op,      \* operation of the record
  status,  \* missing, queued, running, succeeded or failed
  force,   \* the operation asked to bypass the per-course policy
  expired  \* the lease of the record has run out

vars == <<op, status, force, expired>>

Active == {"queued", "running"}
Terminal == {"succeeded", "failed"}

Init == op = NoOp /\ status = "missing" /\ force = FALSE /\ expired = FALSE

(* A new operation takes the record only when no operation holds it. *)
Queue(o, f) ==
  /\ status \notin Active \/ expired
  /\ o # op
  /\ op' = o /\ status' = "queued" /\ force' = f /\ expired' = FALSE

Claim ==
  /\ status = "queued"
  /\ status' = "running"
  /\ UNCHANGED <<op, force, expired>>

(* An outcome is recorded for the operation of the record, never another. *)
Settle(s) ==
  /\ status # "missing"
  /\ status' = s
  /\ UNCHANGED <<op, force, expired>>

Expire ==
  /\ status # "missing" /\ ~expired
  /\ expired' = TRUE
  /\ UNCHANGED <<op, status, force>>

Next ==
  \/ \E o \in Op, f \in BOOLEAN : Queue(o, f)
  \/ Claim
  \/ \E s \in Terminal : Settle(s)
  \/ Expire

Spec == Init /\ [][Next]_vars
=============================================================================
