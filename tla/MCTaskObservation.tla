-------------------------- MODULE MCTaskObservation -------------------------
(* TaskObservation on small instances for TLC. *)
EXTENDS TaskObservation

(* The histories of the runs: own events with another turn's among them. *)
OwnOfFour == {1, 3, 4}
OwnOfTwo == {2}
=============================================================================
