--------------------------- MODULE MCBinlogRelay ---------------------------
(* Instances of BinlogRelay for TLC. *)
EXTENDS BinlogRelay

Map(d) == [kind |-> "map", db |-> d, size |-> 0]
Rows(d) == [kind |-> "rows", db |-> d, size |-> 1]
Query(d) == [kind |-> "query", db |-> d, size |-> 1]
Rotate == [kind |-> "rotate", db |-> NoDb, size |-> 0]

(* A statement with two row events, a query, a query of a database that is *)
(* not replicated, and a new binary log file.                              *)
MixedTransactions ==
    {<<Map("a"), Rows("a"), Rows("a")>>, <<Query("a")>>, <<Query("other")>>,
     <<Rotate>>}

(* Statements logged as one query each. *)
QueryTransactions == {<<Query("a")>>}
=============================================================================
