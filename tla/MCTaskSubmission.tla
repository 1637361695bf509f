-------------------------- MODULE MCTaskSubmission --------------------------
(* StoredCheckpoint, and with it TaskSubmission, on small instances for     *)
(* TLC: the fields are numbers of three digits to base 3, and two voices.   *)
EXTENDS StoredCheckpoint
=============================================================================
