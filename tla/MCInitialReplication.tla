------------------------ MODULE MCInitialReplication -----------------------
(* Constants for model-checking InitialReplication. *)
EXTENDS InitialReplication

Setup(n, m, a, r, c) ==
    [threads |-> n, tables |-> m, alters |-> a, resets |-> r, crashes |-> c]

(* Two tables copied by the process, with a restart_replication request    *)
(* and a crash or with an ALTER; one table copied by two workers, with a   *)
(* crash; and one table that is altered twice.                             *)
CopySetups == {Setup(1, 2, 0, 1, 1), Setup(1, 2, 1, 0, 0), Setup(2, 1, 0, 0, 1),
               Setup(1, 1, 2, 0, 0)}

(* A restart_replication request while two workers copy a table. *)
RestartedSetups == {Setup(2, 1, 0, 1, 0)}
=============================================================================
