------------------------ MODULE MCWorkloadFederation ------------------------
(* WorkloadFederation on small instances for TLC. *)
EXTENDS WorkloadFederation
=============================================================================
