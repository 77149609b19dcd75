--------------------------- MODULE MCSchemaChange ---------------------------
(* Constants for model-checking SchemaChange. *)
EXTENDS SchemaChange

TextTypes == [int |-> "Int32", text |-> "String", varchar |-> "String"]
IdKey == <<"id">>
ThreeFields == <<Field("a", "int"), Field("id", "int"), Field("b", "text")>>

Add(c, t, pos) == Clause("add", "column", c, NoName, t, pos)
Drop(c) == Clause("drop", "column", c, NoName, NoName, AtEnd)
Modify(c, t) == Clause("modify", "column", c, NoName, t, AtEnd)
Change(c, d, t) == Clause("change", "column", c, d, t, AtEnd)
Rename(c, d) == Clause("rename", "column", c, d, NoName, AtEnd)
Other(op, what) == Clause(op, what, NoName, NoName, NoName, AtEnd)

OneClause ==
    {<<Add("c", "int", AtFirst)>>, <<Add("c", "int", AtEnd)>>, <<Add("a", "int", "b")>>,
     <<Drop("a")>>, <<Drop("b")>>, <<Modify("a", "text")>>, <<Change("a", "c", "text")>>,
     <<Change("b", "b", "varchar")>>, <<Rename("b", "a")>>, <<Rename("a", "c")>>}
ManyClause ==
    {<<Drop("a"), Rename("b", "a")>>, <<Rename("a", "b"), Rename("b", "a")>>,
     <<Rename("b", "c"), Rename("a", "b")>>, <<Other("algorithm", ""), Drop("a"), Add("a", "text", AtEnd)>>,
     <<Add("c", "int", "a"), Add("d", "int", "c")>>, <<Rename("a", "c"), Modify("a", "text")>>}
Unhandled == {<<Add("c", "int", AtEnd), Other("add", "partition")>>,
              <<Add("c", "point", AtEnd)>>, <<Other("add", "index")>>}

AllClauses == OneClause \cup ManyClause \cup Unhandled
=============================================================================
