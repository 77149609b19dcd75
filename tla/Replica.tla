------------------------------ MODULE Replica ------------------------------
(***************************************************************************)
(* What realtime replication promises: ClickHouse shows what MySQL held    *)
(* after some prefix of its binary log, and moves forward through those    *)
(* states in uploads.  A table without rows and a missing table look the   *)
(* same, because CREATE TABLE is executed ahead of the rows in the batch.  *)
(***************************************************************************)
EXTENDS Integers, Sequences

CONSTANTS Tables, Keys

VARIABLES
    mysql,     \* mysql[n + 1]: the tables of MySQL after n events
    view,      \* the rows a reader of ClickHouse sees
    applied    \* the number of events the view includes

NoValue == 0

(* The rows of a set of tables c, which maps each existing table to its rows. *)
Rows(c) == [t \in Tables |-> IF t \in DOMAIN c THEN c[t] ELSE [k \in Keys |-> NoValue]]

Init ==
    /\ Len(mysql) = 1
    /\ view = Rows(mysql[1])
    /\ applied = 0

Commit ==
    /\ Len(mysql') = Len(mysql) + 1
    /\ SubSeq(mysql', 1, Len(mysql)) = mysql
    /\ UNCHANGED <<view, applied>>

Upload ==
    \E n \in applied..(Len(mysql) - 1) :
      /\ applied' = n
      /\ view' = Rows(mysql[n + 1])
      /\ UNCHANGED mysql

Spec == Init /\ [][Commit \/ Upload]_<<mysql, view, applied>>

=============================================================================
