--------------------------- MODULE MCTaskOutcome ---------------------------
(* TaskOutcome on small instances for TLC. *)
EXTENDS TaskOutcome, FiniteSets, TLC

(* The turn changes twice during a call: bound of this run. *)
TwoChanges == Cardinality(during) <= 3

(* Tokens are only compared with one another. *)
TokenSymmetry == Permutations(Tokens)
=============================================================================
