-------------------------- MODULE MCRelayRecovery --------------------------
(* Constants for model-checking RelayRecovery. *)
EXTENDS RelayRecovery, TLC

DatabaseSymmetry == Permutations(Databases)
=============================================================================
