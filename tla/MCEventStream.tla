--------------------------- MODULE MCEventStream ---------------------------
(* Instance of EventStream for TLC. *)
EXTENDS EventStream
=============================================================================
