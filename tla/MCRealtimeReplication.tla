----------------------- MODULE MCRealtimeReplication -----------------------
(* Constants for model-checking RealtimeReplication. *)
EXTENDS RealtimeReplication

(* An event about row k of table t, and the DDL statements. *)
Row(kind, t, k) == [kind |-> kind, table |-> t, key |-> k, to |-> k]
Rekey(t, k, l) == [kind |-> "rekey", table |-> t, key |-> k, to |-> l]
Ddl(kind, t) == [kind |-> kind, table |-> t, key |-> "k", to |-> t]
Rename(t, u) == [kind |-> "rename", table |-> t, key |-> "k", to |-> u]

RowStatements == {Row(kind, t, k) : kind \in {"insert", "delete"}, t \in Tables, k \in Keys}
Creates == {Ddl("create", t) : t \in Tables}
Truncates == {Ddl("truncate", t) : t \in Tables}
Drops == {Ddl(kind, t) : kind \in {"drop", "drop if exists"}, t \in Tables}
Renames == {Rename("a", "b")}

(* Rows, and every DDL statement that keeps the name of a table. *)
UnrenamedStatements == RowStatements \cup Creates \cup Truncates \cup Drops
AllStatements == UnrenamedStatements \cup Renames \cup {Rekey("a", "k", "l")}
RestartableStatements == RowStatements \cup Creates \cup Truncates

(* Two rows of a table that is dropped and created again, and a row of     *)
(* another one.                                                            *)
ReplicaStatements ==
    {Row("insert", "a", "k"), Row("insert", "a", "l"), Row("delete", "a", "k"),
     Row("insert", "b", "k"), Ddl("drop", "a"), Ddl("create", "a")}
=============================================================================
