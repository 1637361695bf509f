------------------------- MODULE MCExampleRecovery -------------------------
(* Instance of ExampleRecovery for TLC. *)
EXTENDS ExampleRecovery, FiniteSets, TLC

(* One request is sent: bound of this run.  A second can only follow the    *)
(* loss of the first one's file.                                            *)
OneRequest == Cardinality(sent) <= 1

Symmetry == Permutations(Process)
=============================================================================
