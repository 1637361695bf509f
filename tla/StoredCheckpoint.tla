-------------------------- MODULE StoredCheckpoint --------------------------
(***************************************************************************)
(* The submission of a task (TaskSubmission) together with the fields of    *)
(* the checkpoint it stores (CheckpointFields), whose values the submission *)
(* does not look at.                                                        *)
(***************************************************************************)
EXTENDS TaskSubmission, CheckpointFields

ASSUME FieldsAssumption == LimitsFit

(* When a checkpoint is stored, a restart changes none of its fields,       *)
(* whatever they are: resume accepts and means what was written, and a      *)
(* replay repeats the first request to the byte, as its key demands         *)
(* (tasks.py:622, client.py:555).                                           *)
RestartKeepsFields == disk.submission # "absent" => FieldsAreReadBack
=============================================================================
