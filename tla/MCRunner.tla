------------------------------ MODULE MCRunner ------------------------------
(* Constants for model-checking Runner. *)
EXTENDS Runner

TwoDatabases == {"db1", "db2"}
=============================================================================
