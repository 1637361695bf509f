----------------------------- MODULE SubmitOnce -----------------------------
(***************************************************************************)
(* What the recoverable submission of a task promises to the application    *)
(* that owns its checkpoint, whatever happens to processes, storage calls   *)
(* and HTTP calls in between (README of the SDK: "resume never submits      *)
(* work", "replay explicitly repeats an unacknowledged request", "a          *)
(* checkpoint never proves authorization or completion").                   *)
(*                                                                          *)
(* The state is the durable one only: the checkpoint's phase, what it says  *)
(* of the turn, and the turn Platform opened for the idempotency key.       *)
(* A crash, a lost reply or a failed save is a stuttering step.             *)
(***************************************************************************)
CONSTANTS
    Acceptance,      \* the coordinates Platform can assign to an accepted turn
    NoAcceptance     \* no turn has been opened, or none is known

VARIABLES
    phase,           \* the checkpoint's submission, "absent" before the first save
    known,           \* the turn coordinates the checkpoint holds
    turn             \* the turn Platform opened for the request

vars == <<phase, known, turn>>

Init == phase = "absent" /\ known = NoAcceptance /\ turn = NoAcceptance

(* The request is recorded before anything is sent. *)
Prepare ==
    /\ phase = "absent"
    /\ phase' = "prepared"
    /\ UNCHANGED <<known, turn>>

(* From here on Platform may hold the request, and the checkpoint says so. *)
Attempt ==
    /\ phase = "prepared"
    /\ phase' = "unacknowledged"
    /\ UNCHANGED <<known, turn>>

(* Platform opens the one turn of the request: only after the attempt was   *)
(* recorded, and never a second one.                                        *)
OpenTurn ==
    /\ phase = "unacknowledged"
    /\ turn = NoAcceptance
    /\ turn' \in Acceptance
    /\ UNCHANGED <<phase, known>>

(* The checkpoint learns the acceptance: the true coordinates, once. *)
Learn ==
    /\ phase = "unacknowledged"
    /\ turn # NoAcceptance
    /\ phase' = "accepted"
    /\ known' = turn
    /\ UNCHANGED turn

Next == Prepare \/ Attempt \/ OpenTurn \/ Learn

Spec == Init /\ [][Next]_vars
=============================================================================
