---------------------------- MODULE MCRowPipeline ----------------------------
EXTENDS RowPipeline

\* char(36) is mapped to UUID, as in the configurations of the tests.
MCTypesMapping == [f \in {"char(36)"} |-> "UUID"]

\* Summer time ends in New York on 2023-11-05 at 06:00 UTC.
MCRepeatedHours == [zone \in {"UTC", "Asia/Tokyo", "America/New_York"} |->
    IF zone = "America/New_York" THEN 1699164000..1699167599 ELSE {}]

Zone(mysql_timezone, server_timezone, local_timezone, refused) ==
    [mysql_timezone |-> mysql_timezone, server_timezone |-> server_timezone,
     local_timezone |-> local_timezone, refused |-> refused]

LastClock == <<"datetime", 9999, 12, 31, 23, 59, 59, 0>>

\* No zones at all, a time zone in the settings with and without the process
\* in it (the tests have both), and a server and a process of different zones.
MCZones == { Zone("UTC", "UTC", "UTC", {}),
             Zone("America/New_York", "UTC", "UTC", {}),
             Zone("America/New_York", "America/New_York", "America/New_York", {}),
             Zone("Asia/Tokyo", "UTC", "Asia/Tokyo", {LastClock}),
             Zone("UTC", "Asia/Tokyo", "America/New_York", {}) }

MCIsUtf8(b) == \A i \in DOMAIN b : b[i] < 128

Col(type, meta, n, field, unsigned, notnull, members, vals) ==
    [c |-> [type |-> type, meta |-> meta, n |-> n, field |-> field, unsigned |-> unsigned,
            notnull |-> notnull, members |-> members, key |-> FALSE],
     vals |-> vals]

Number(type, n, field, unsigned, ns) ==
    Col(type, <<>>, <<n>>, field, unsigned, FALSE, <<>>, {<<"int", v>> : v \in ns} \union {Null})

\* A column of every type, with values at the edges of its encoding.
Catalogue == {
    Number("TINY", 1, "tinyint", FALSE, {-128, -1, 127}),
    Number("TINY", 1, "tinyint", TRUE, {0, 127, 128, 255}),
    Number("SHORT", 2, "smallint", FALSE, {-32768, -1, 256}),
    Number("SHORT", 2, "smallint", TRUE, {1, 32768, 65535}),
    Number("INT24", 3, "mediumint", FALSE, {-1, 8388607}),
    Number("INT24", 3, "mediumint", TRUE, {65536, 8388608, 16777215}),
    Number("LONG", 4, "int", FALSE, {-65537, 2147483647}),
    Number("LONGLONG", 8, "bigint", FALSE, {-2, 16777216}),
    Col("TINY", <<>>, <<1>>, "tinyint(1)", FALSE, TRUE, <<>>, {<<"int", 0>>, <<"int", 1>>}),
    Col("YEAR", <<>>, <<1>>, "year", FALSE, FALSE, <<>>,
        {<<"year", 0>>, <<"year", 1901>>, <<"year", 2155>>, Null}),
    Col("DOUBLE", <<8>>, <<8>>, "double", FALSE, FALSE, <<>>,
        {<<"float", <<1, 2, 3, 4, 5, 6, 7, 8>>>>, Null}),
    Col("VARCHAR", <<255, 0>>, <<1>>, "varchar", FALSE, FALSE, <<>>,
        {<<"bytes", <<>>>>, <<"bytes", <<65, 66>>>>, Null}),
    Col("VARCHAR", <<0, 1>>, <<2>>, "varchar", FALSE, TRUE, <<>>,
        {<<"bytes", <<>>>>, <<"bytes", <<67>>>>}),
    Col("STRING", <<238, 44>>, <<2>>, "char", FALSE, FALSE, <<>>,   \* 300 bytes
        {<<"bytes", <<68, 69, 70>>>>, Null}),
    Col("STRING", <<254, 144>>, <<1>>, "char(36)", FALSE, FALSE, <<>>,
        {<<"bytes", [i \in 1..36 |-> 48]>>, Null}),
    Col("BLOB", <<2>>, <<2>>, "blob", FALSE, FALSE, <<>>, {<<"bytes", <<0, 255>>>>, Null}),
    Col("BLOB", <<3>>, <<3>>, "text", FALSE, FALSE, <<>>, {<<"bytes", <<71>>>>, Null}),
    Col("STRING", <<254, 3>>, <<1>>, "binary", FALSE, FALSE, <<>>,
        {<<"bytes", <<65, 0, 66>>>>, <<"bytes", <<67, 0, 0>>>>, <<"bytes", <<200, 1, 2>>>>}),
    Col("VARCHAR", <<3, 0>>, <<1>>, "varbinary", FALSE, FALSE, <<>>,
        {<<"bytes", <<65, 0>>>>, <<"bytes", <<255>>>>, Null}),
    Col("JSON", <<4>>, <<4>>, "json", FALSE, FALSE, <<>>,
        {<<"json", <<16, 5, 16, 12>>>>, <<"json", <<11, 4>>>>, <<"json", <<17, 12>>>>,
         <<"json", <<16, 15>>>>, Null}),
    Col("GEOMETRY", <<4>>, <<4>>, "point", FALSE, FALSE, <<>>,
        {<<"bytes", <<0, 0, 0, 0, 1, 1, 0, 0, 0>> \o [i \in 1..16 |-> i]>>, Null}),
    Col("STRING", <<247, 1>>, <<1>>, "enum", FALSE, FALSE, <<"Red", "GREEN">>,
        {<<"enum", 0>>, <<"enum", 1>>, <<"enum", 2>>, Null}),
    Col("STRING", <<247, 2>>, <<2>>, "enum", FALSE, TRUE, <<"a", "b">>, {<<"enum", 2>>}),
    Col("STRING", <<248, 1>>, <<1>>, "set", FALSE, FALSE, <<"z", "y", "x">>,
        {<<"set", 0>>, <<"set", 3>>, <<"set", 5>>, Null}),
    Col("BIT", <<1, 0>>, <<1>>, "bit(1)", FALSE, FALSE, <<>>, {<<"bit", 0>>, <<"bit", 1>>, Null}),
    Col("NEWDECIMAL", <<4, 2>>, <<1, 1>>, "decimal", FALSE, FALSE, <<>>,
        {<<"decimal", FALSE, <<0, 7>>>>, <<"decimal", TRUE, <<99, 50>>>>, Null}),
    Col("NEWDECIMAL", <<13, 0>>, <<2, 4>>, "decimal", FALSE, FALSE, <<>>,
        {<<"decimal", FALSE, <<9999, 999999999>>>>, <<"decimal", TRUE, <<0, 1>>>>}),
    Col("NEWDECIMAL", <<20, 20>>, <<4, 4, 1>>, "decimal", FALSE, FALSE, <<>>,
        {<<"decimal", FALSE, <<0, 999999999, 9>>>>, <<"decimal", TRUE, <<1, 0, 99>>>>}),
    Col("DATE", <<>>, <<3>>, "date", FALSE, TRUE, <<>>,
        {<<"date", 0, 0, 0>>, <<"date", 2024, 2, 29>>, <<"date", 2024, 0, 5>>}),
    Col("DATETIME2", <<0>>, <<0>>, "datetime", FALSE, FALSE, <<>>,
        {<<"datetime", 0, 0, 0, 0, 0, 0, 0>>, LastClock, Null}),
    Col("DATETIME2", <<3>>, <<3>>, "datetime", FALSE, TRUE, <<>>,
        {<<"datetime", 2024, 0, 0, 0, 0, 0, 0>>, <<"datetime", 1970, 1, 1, 0, 0, 1, 987000>>}),
    Col("TIMESTAMP2", <<6>>, <<6>>, "timestamp", FALSE, FALSE, <<>>,
        {<<"timestamp", 0, 0>>, <<"timestamp", 1699165800, 500000>>,
         <<"timestamp", 2147483647, 999999>>, Null}),
    Col("TIME2", <<0>>, <<0>>, "time", FALSE, FALSE, <<>>,
        {<<"time", 1, 3020399, 0>>, <<"time", -1, 3601, 0>>, Null}),
    Col("TIME2", <<2>>, <<2>>, "time", FALSE, TRUE, <<>>,
        {<<"time", 1, 61, 120000>>, <<"time", -1, 1, 100000>>, <<"time", -1, 1, 0>>}) }

Keyed(c) == [c EXCEPT !.key = TRUE, !.notnull = TRUE]

Event(kind, extra, table, present, changed) ==
    [kind |-> kind, extra |-> extra, table |-> table, present |-> present, rows |-> changed]

\* Every column beside every other.
Pairs == UNION {
    { Event("write", "none", <<a.c, b.c>>, <<{1, 2}>>, <<<<<<v, w>>>>>>) : v \in a.vals, w \in b.vals } :
    a \in Catalogue, b \in Catalogue }

Small == [c |-> [type |-> "TINY", meta |-> <<>>, n |-> <<1>>, field |-> "tinyint",
                 unsigned |-> TRUE, notnull |-> FALSE, members |-> <<>>, key |-> FALSE],
          vals |-> {<<"int", 200>>, Null}]

\* Deletes keyed by every column that MySQL takes into a primary key, with
\* full and with minimal images.
Deletes == UNION {
    { Event("delete", "none", <<Small.c, Keyed(a.c)>>, <<p>>, <<<<<<Null, v>>>>, <<<<w, v>>>>>>) :
      v \in a.vals \ {Null}, w \in Small.vals, p \in {{1, 2}, {2}} } :
    a \in {b \in Catalogue : b.c.field \notin {"blob", "text", "json", "point"}} }

\* Updates with every pair of bitmaps, and every kind of extra information.
Updates == UNION {
    { Event("update", "partition", <<Small.c, a.c, Small.c>>, <<p, q>>,
            <<<<<<u, v, u>>, <<v0, w, v0>>>>, <<<<v0, w, u>>, <<u, v, v0>>>>>>) :
      p \in {{1}, {1, 3}, {1, 2, 3}}, q \in SUBSET {1, 2, 3},
      u \in {<<"int", 7>>}, v0 \in Small.vals, v \in a.vals, w \in a.vals } :
    a \in {b \in Catalogue : b.c.field \in {"smallint", "set"}} }

Extras == { Event(k, x, <<Small.c>>, <<{1}>>, <<<<<<v>>>>, <<<<w>>>>>>) :
              k \in {"write", "delete"}, x \in {"v1", "none", "ndb", "partition", "other"},
              v \in Small.vals, w \in Small.vals }

\* Nine columns: the bitmaps take two bytes.
Wide == { Event("write", "none", [i \in 1..9 |-> Small.c], <<p>>,
                <<<<[i \in 1..9 |-> IF i \in s THEN Null ELSE <<"int", 200 + i>>]>>>>) :
          p \in {1..9, 1..8, 2..9, {1, 9}}, s \in {t \in SUBSET (1..9) : Cardinality(t) \in {0, 1, 4, 9}} }

MCEvents == Pairs \union Deletes \union Updates \union Extras \union Wide
==============================================================================
