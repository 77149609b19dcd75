-------------------------- MODULE RowPipelineProofs --------------------------
(***************************************************************************)
(* TLC's integers have 32 bits, so the run of RowPipeline reaches neither  *)
(* an INT UNSIGNED nor a BIGINT UNSIGNED whose highest bit is set.  The    *)
(* first theorems say for every width that the converter undoes the signed *)
(* reading of the decoder.  The others are about whole events: what the    *)
(* two paths bring into ClickHouse of a row that was decoded as            *)
(* RowsDecoded says, and what a DELETE finds of it, for any table, any     *)
(* values, any images and any setting of the time zones.                   *)
(***************************************************************************)
EXTENDS RowPipeline, SequenceTheorems, TLAPS

IntegerFields == {"tinyint", "smallint", "mediumint", "int", "bigint"}

\* The number of values of an integer field.
Cardinal(field) ==
    CASE field = "tinyint" -> 256
      [] field = "smallint" -> 65536
      [] field = "mediumint" -> 16777216
      [] field = "int" -> 65536 * 65536
      [] field = "bigint" -> 65536 * 65536 * 65536 * 65536

\* What the decoder makes of an unsigned number: the two's complement.
SignedReading(n, cardinal) == IF 2 * n >= cardinal THEN n - cardinal ELSE n

\* The branches of convert_record for the other types leave an integer alone.
LEMMA IntegerConversion ==
  ASSUME NEW d, d.field \in IntegerFields \cup {"tinyint(1)"}, d.field \notin DOMAIN types_mapping,
         d.unsigned \in BOOLEAN, NEW n \in Int
  PROVE  convert_value(d, <<"int", n>>) = <<"int", RestoreUnsigned(d, n)>>
  <1> DEFINE v == <<"int", n>>
  <1>1. AsText(d, v) = v
    BY DEF AsText, IntegerFields
  <1>2. ParsePoint(d, v) = v
    BY DEF ParsePoint, IntegerFields
  <1>3. ConvertEnum(d, v) = v
    BY DEF ConvertEnum, IntegerFields
  <1>4. ClampYear(d, v) = v
    BY DEF ClampYear, IntegerFields
  <1>5. v # None
    BY DEF None
  <1>6. convert_type(d) # "UUID"
    BY DEF convert_type, IntegerFields
  <1>7. ConvertPresent(d, v) = <<"int", RestoreUnsigned(d, n)>>
    BY <1>6 DEF ConvertPresent, IntegerFields
  <1> QED
    BY <1>1, <1>2, <1>3, <1>4, <1>5, <1>7 DEF convert_value

\* An unsigned integer of any of the five sizes arrives as MySQL has it: the
\* signed reading of __read_values_name is undone by convert_record.
THEOREM UnsignedArrives ==
  ASSUME NEW d, d.field \in IntegerFields, d.field \notin DOMAIN types_mapping,
         d.unsigned = TRUE, NEW n \in 0..Cardinal(d.field) - 1
  PROVE  convert_value(d, <<"int", SignedReading(n, Cardinal(d.field))>>) = <<"int", n>>
  <1>1. Modulus(d) = Cardinal(d.field)
    BY DEF Modulus, Cardinal, convert_type, IntegerFields
  <1>2. Cardinal(d.field) \in Int
    BY DEF Cardinal, IntegerFields
  <1>3. RestoreUnsigned(d, SignedReading(n, Cardinal(d.field))) = n
    BY <1>1, <1>2 DEF RestoreUnsigned, SignedReading
  <1>4. SignedReading(n, Cardinal(d.field)) \in Int
    BY <1>2 DEF SignedReading
  <1>5. d.unsigned \in BOOLEAN
    OBVIOUS
  <1>6. convert_value(d, <<"int", SignedReading(n, Cardinal(d.field))>>) =
           <<"int", RestoreUnsigned(d, SignedReading(n, Cardinal(d.field)))>>
    BY <1>4, <1>5, IntegerConversion
  <1> QED
    BY <1>3, <1>6

\* A signed integer arrives as MySQL has it, but for MEDIUMINT: a negative one
\* gets 2^24 added, because convert_record asks for the type and not for the
\* sign.
THEOREM SignedArrives ==
  ASSUME NEW d, d.field \in IntegerFields, d.field \notin DOMAIN types_mapping,
         d.unsigned = FALSE, NEW n \in Int
  PROVE  convert_value(d, <<"int", n>>) =
            <<"int", IF d.field = "mediumint" /\ n < 0 THEN n + 16777216 ELSE n>>
  <1>1. Modulus(d) = IF d.field = "mediumint" THEN 16777216 ELSE 0
    BY DEF Modulus, convert_type, IntegerFields
  <1>2. RestoreUnsigned(d, n) = IF d.field = "mediumint" /\ n < 0 THEN n + 16777216 ELSE n
    BY <1>1 DEF RestoreUnsigned
  <1>3. d.unsigned \in BOOLEAN
    OBVIOUS
  <1>4. convert_value(d, <<"int", n>>) = <<"int", RestoreUnsigned(d, n)>>
    BY <1>3, IntegerConversion
  <1> QED
    BY <1>2, <1>4

-----------------------------------------------------------------------------
\* The value the decoder returns and the value mysql.connector returns.

\* An unsigned number that the decoder reads as negative is restored, and
\* every other number is the same on both paths.
LEMMA IntegerAgrees ==
  ASSUME NEW c, NEW v, Stored(c, v), v[1] = "int"
  PROVE  /\ convert_value(c, PythonValue(c, v)) = convert_value(c, Selected(c, v, "UTC"))
         /\ ~MediumintMisread(c, v) => convert_value(c, PythonValue(c, v)) = <<"int", v[2]>>
         /\ \E k \in Int : convert_value(c, PythonValue(c, v)) = <<"int", k>>
         /\ convert_type(c) \notin {"Date32", "DateTime64", "UUID"}
  <1> DEFINE n == v[2]
             size == c.n[1]
             s == AsSigned(n, size)
  <1>1. /\ v = <<"int", n>> /\ n \in Int /\ c.unsigned \in BOOLEAN
        /\ \/ c.field \in IntegerFields /\ size = IntegerBytes[c.field]
           \/ c.field = "tinyint(1)" /\ size = 1 /\ ~c.unsigned
        /\ TopByte(n, size) \in IF c.unsigned THEN 0..255 ELSE -128..127
    BY DEF Stored, Null, IntegerFields, IntegerBytes
  <1>2. PythonValue(c, v) = <<"int", s>> /\ Selected(c, v, "UTC") = <<"int", n>>
    BY <1>1 DEF PythonValue, Selected, Null
  <1>3. c.field \in IntegerFields \cup {"tinyint(1)"} /\ c.field \notin DOMAIN types_mapping
    BY <1>1, EventsAssumption DEF IntegerFields, IntegerBytes, TextFields
  <1>4. /\ c.field = "tinyint" => size = 1
        /\ c.field = "tinyint(1)" => size = 1
        /\ c.field = "smallint" => size = 2
        /\ c.field = "mediumint" => size = 3
        /\ c.field = "int" => size = 4
        /\ c.field = "bigint" => size = 8
    BY <1>1 DEF IntegerBytes, IntegerFields
  <1>5. /\ c.field = "tinyint" => Modulus(c) = IF c.unsigned THEN 256 ELSE 0
        /\ c.field = "smallint" => Modulus(c) = IF c.unsigned THEN 65536 ELSE 0
        /\ c.field = "mediumint" => Modulus(c) = 16777216
        /\ c.field = "int" => Modulus(c) = IF c.unsigned THEN 65536 * 65536 ELSE 0
        /\ c.field = "bigint" =>
              Modulus(c) = IF c.unsigned THEN 65536 * 65536 * 65536 * 65536 ELSE 0
        /\ c.field = "tinyint(1)" => Modulus(c) = 0
        /\ convert_type(c) \notin {"Date32", "DateTime64", "UUID"}
    <2>1. c.field = "tinyint" => convert_type(c) = IF c.unsigned THEN "UInt8" ELSE "Int8"
      BY <1>3 DEF convert_type
    <2>2. c.field = "smallint" => convert_type(c) = IF c.unsigned THEN "UInt16" ELSE "Int16"
      BY <1>3 DEF convert_type
    <2>3. c.field \in {"mediumint", "int"} =>
             convert_type(c) = IF c.unsigned THEN "UInt32" ELSE "Int32"
      BY <1>3 DEF convert_type
    <2>4. c.field = "bigint" => convert_type(c) = IF c.unsigned THEN "UInt64" ELSE "Int64"
      BY <1>3 DEF convert_type
    <2>5. c.field = "tinyint(1)" => convert_type(c) = "Bool"
      BY <1>3 DEF convert_type
    <2> HIDE DEF convert_type
    <2> QED
      BY <1>3, <2>1, <2>2, <2>3, <2>4, <2>5 DEF Modulus, IntegerFields
  <1> HIDE DEF n, size
  <1>6. /\ c.unsigned => n >= 0
        /\ ~c.unsigned => TopByte(n, size) < 128
    <2>1. CASE size = 1
      BY <1>1, <2>1 DEF TopByte
    <2>2. CASE size = 2
      BY <1>1, <2>2 DEF TopByte
    <2>3. CASE size = 3
      BY <1>1, <2>3 DEF TopByte
    <2>4. CASE size = 4
      BY <1>1, <2>4 DEF TopByte
    <2>5. CASE size = 8
      BY <1>1, <2>5 DEF TopByte
    <2> QED
      BY <1>3, <1>4, <2>1, <2>2, <2>3, <2>4, <2>5 DEF IntegerFields
  <1>7. s \in Int /\ (s = n \/ (c.unsigned /\ s < 0 /\ s + Modulus(c) = n))
    <2> DEFINE top == TopByte(n, size)
    <2>1. CASE top < 128
      BY <1>1, <2>1 DEF AsSigned
    <2>2. CASE ~(top < 128)
      <3>1. c.unsigned /\ top \in 0..255
        BY <1>1, <1>6, <2>2
      <3>2. CASE c.field = "tinyint"
        BY <1>1, <1>4, <1>5, <2>2, <3>1, <3>2 DEF AsSigned, TopByte
      <3>3. CASE c.field = "smallint"
        BY <1>1, <1>4, <1>5, <2>2, <3>1, <3>3 DEF AsSigned, TopByte
      <3>4. CASE c.field = "mediumint"
        BY <1>1, <1>4, <1>5, <2>2, <3>1, <3>4 DEF AsSigned, TopByte
      <3>5. CASE c.field = "int"
        BY <1>1, <1>4, <1>5, <2>2, <3>1, <3>5 DEF AsSigned, TopByte
      <3>6. CASE c.field = "bigint"
        BY <1>1, <1>4, <1>5, <2>2, <3>1, <3>6 DEF AsSigned, TopByte
      <3>7. c.field # "tinyint(1)"
        BY <1>1, <3>1 DEF IntegerFields
      <3> QED
        BY <1>3, <3>2, <3>3, <3>4, <3>5, <3>6, <3>7 DEF IntegerFields
    <2> QED
      BY <2>1, <2>2
  <1> HIDE DEF s
  <1>8. /\ convert_value(c, <<"int", s>>) = <<"int", RestoreUnsigned(c, s)>>
        /\ convert_value(c, <<"int", n>>) = <<"int", RestoreUnsigned(c, n)>>
    BY <1>1, <1>3, <1>7, IntegerConversion
  <1>9. RestoreUnsigned(c, s) = RestoreUnsigned(c, n) /\ RestoreUnsigned(c, n) \in Int
    <2>1. Modulus(c) \in Int
      BY <1>1, <1>3, <1>5 DEF IntegerFields
    <2> QED
      BY <1>1, <1>6, <1>7, <2>1 DEF RestoreUnsigned
  <1>10. ~MediumintMisread(c, v) => RestoreUnsigned(c, n) = n
    <2>1. CASE n >= 0
      BY <1>1, <2>1 DEF RestoreUnsigned
    <2>2. CASE n < 0 /\ ~MediumintMisread(c, v)
      <3>1. ~c.unsigned /\ c.field # "mediumint"
        BY <1>1, <1>6, <2>2 DEF MediumintMisread, n
      <3>2. Modulus(c) = 0
        BY <1>3, <1>5, <3>1 DEF IntegerFields
      <3> QED
        BY <1>1, <3>2 DEF RestoreUnsigned
    <2> QED
      BY <1>1, <2>1, <2>2
  <1> QED
    BY <1>2, <1>5, <1>8, <1>9, <1>10 DEF n

\* 1900, which the decoder makes of the year 0, is clamped as the year 0 is.
LEMMA YearAgrees ==
  ASSUME NEW c, NEW v, Stored(c, v), v[1] = "year"
  PROVE  /\ convert_value(c, PythonValue(c, v)) = convert_value(c, Selected(c, v, "UTC"))
         /\ v[2] # 0 => convert_value(c, PythonValue(c, v)) = <<"int", v[2]>>
         /\ \E k \in Int : convert_value(c, PythonValue(c, v)) = <<"int", k>>
         /\ convert_type(c) = "UInt16"
  <1> DEFINE n == v[2]
             s == IF n = 0 THEN 1900 ELSE n
             clamped(k) == IF k < 1901 THEN 1901 ELSE IF k > 2155 THEN 2155 ELSE k
  <1>1. n \in {0} \cup 1901..2155 /\ c.field = "year"
    BY DEF Stored, Null
  <1>2. PythonValue(c, v) = <<"int", s>> /\ Selected(c, v, "UTC") = <<"int", n>>
    BY DEF PythonValue, Selected, Null
  <1>3. convert_type(c) = "UInt16"
    BY <1>1, EventsAssumption DEF convert_type, TextFields
  <1>4. ASSUME NEW k \in Int
        PROVE  convert_value(c, <<"int", k>>) = <<"int", clamped(k)>>
    <2> DEFINE u == <<"int", k>>
    <2>1. AsText(c, u) = u /\ ParsePoint(c, u) = u /\ ConvertEnum(c, u) = u
      BY <1>1 DEF AsText, ParsePoint, ConvertEnum
    <2>2. ClampYear(c, u) = <<"int", clamped(k)>>
      BY <1>1 DEF ClampYear, None
    <2>3. clamped(k) \in Int /\ clamped(k) >= 0
      OBVIOUS
    <2> HIDE DEF clamped, u
    <2>4. <<"int", clamped(k)>> # None
      BY DEF None
    <2>5. ConvertPresent(c, <<"int", clamped(k)>>) = <<"int", clamped(k)>>
      BY <1>1, <1>3, <2>3 DEF ConvertPresent, RestoreUnsigned
    <2> QED
      BY <2>1, <2>2, <2>4, <2>5 DEF convert_value, u
  <1>5. n \in Int /\ s \in Int /\ clamped(s) \in Int /\ clamped(s) = clamped(n) /\ (n # 0 => clamped(s) = n)
    BY <1>1
  <1> HIDE DEF clamped, s, n
  <1> QED
    BY <1>2, <1>3, <1>4, <1>5 DEF n

\* The number of an ENUM value and its text are converted to the same member.
LEMMA EnumAgrees ==
  ASSUME NEW c, NEW v, Stored(c, v), v[1] = "enum"
  PROVE  /\ v[2] # 0 =>
               convert_value(c, PythonValue(c, v)) = convert_value(c, Selected(c, v, "UTC"))
         /\ \E k : convert_value(c, PythonValue(c, v)) \in {<<"int", k>>, <<"str", k>>}
         /\ convert_type(c) = "Enum8"
  <1> DEFINE n == v[2]
             m == c.members[n]
             member == <<"str", <<"lower", m>>>>
  <1>1. n \in {0} \cup DOMAIN c.members /\ c.field = "enum" /\ c.field \notin DOMAIN types_mapping
    <2>1. n \in {0} \cup DOMAIN c.members /\ c.field = "enum"
      BY DEF Stored, Null
    <2> QED
      BY <2>1, EventsAssumption DEF TextFields
  <1>2. /\ PythonValue(c, v) = <<"int", n>>
        /\ n # 0 => Selected(c, v, "UTC") = <<"str", m>>
    <2>1. PythonValue(c, v) = <<"int", n>>
      BY DEF PythonValue, Null
    <2>2. ASSUME n # 0
          PROVE  Selected(c, v, "UTC") = <<"str", m>>
      BY <2>2 DEF Selected, Null
    <2> QED
      BY <2>1, <2>2
  <1>3. n \in DOMAIN c.members => m \in ToSet(c.members)
    BY DEF ToSet
  <1>4. convert_type(c) = "Enum8"
    BY <1>1 DEF convert_type
  <1> HIDE DEF n, m
  <1>5. ASSUME n \in DOMAIN c.members
        PROVE  /\ ConvertEnum(c, ParsePoint(c, AsText(c, <<"int", n>>))) = member
               /\ ConvertEnum(c, ParsePoint(c, AsText(c, <<"str", m>>))) = member
    BY <1>1, <1>3, <1>5 DEF AsText, ParsePoint, ConvertEnum, m
  <1> HIDE DEF member
  <1>6. ASSUME n \in DOMAIN c.members
        PROVE  /\ convert_value(c, <<"int", n>>) = member
               /\ convert_value(c, <<"str", m>>) = member
    <2>1. ClampYear(c, member) = member
      BY <1>1 DEF ClampYear
    <2>2. member # None /\ ConvertPresent(c, member) = member
      BY <1>1, <1>4 DEF ConvertPresent, None, member
    <2> QED
      BY <1>5, <1>6, <2>1, <2>2 DEF convert_value
  <1>7. ASSUME n \notin DOMAIN c.members
        PROVE  convert_value(c, <<"int", n>>) = <<"int", 0>>
    <2> DEFINE u == <<"int", n>>
    <2>1. n = 0
      BY <1>1, <1>7
    <2>2. ClampYear(c, ConvertEnum(c, ParsePoint(c, AsText(c, u)))) = u
      BY <1>1, <1>7 DEF ClampYear, AsText, ParsePoint, ConvertEnum
    <2>3. u # None /\ ConvertPresent(c, u) = <<"int", 0>>
      BY <1>1, <1>4, <2>1 DEF ConvertPresent, None, RestoreUnsigned
    <2> HIDE DEF u
    <2>4. convert_value(c, u) = <<"int", 0>>
      BY <2>2, <2>3 DEF convert_value
    <2> QED
      BY <2>4 DEF u
  <1>8. convert_value(c, PythonValue(c, v)) \in {<<"int", 0>>, member}
    BY <1>2, <1>6, <1>7
  <1>9. n # 0 => convert_value(c, PythonValue(c, v)) = convert_value(c, Selected(c, v, "UTC"))
    BY <1>1, <1>2, <1>6
  <1> QED
    BY <1>4, <1>8, <1>9 DEF n, member

\* The mask of a SET value and the set of its texts choose the same members.
LEMMA SetAgrees ==
  ASSUME NEW c, NEW v, Stored(c, v), v[1] = "set"
  PROVE  /\ convert_value(c, PythonValue(c, v)) = convert_value(c, Selected(c, v, "UTC"))
         /\ \E k : convert_value(c, PythonValue(c, v)) = <<"str", k>>
         /\ convert_type(c) = "String"
  <1> DEFINE n == v[2]
             chosen == Members(c, n)
  <1>1. c.field = "set" /\ c.field \notin DOMAIN types_mapping
    <2>1. c.field = "set"
      BY DEF Stored, Null
    <2> QED
      BY <2>1, EventsAssumption DEF TextFields
  <1>2. PythonValue(c, v) = <<"int", n>> /\ Selected(c, v, "UTC") = <<"set", chosen>>
    BY DEF PythonValue, Selected, Null, Members, Bit
  <1>3. convert_type(c) = "String"
    BY <1>1 DEF convert_type
  <1> HIDE DEF n, chosen
  <1>4. ASSUME NEW u, u \in {<<"int", n>>, <<"set", chosen>>}
        PROVE  convert_value(c, u) = JoinSet(c, u)
    <2>1. ClampYear(c, ConvertEnum(c, ParsePoint(c, AsText(c, u)))) = u
      BY <1>1 DEF AsText, ParsePoint, ConvertEnum, ClampYear
    <2>2. u # None
      BY <1>4 DEF None
    <2>3. ConvertPresent(c, u) = JoinSet(c, u)
      <3> HIDE DEF JoinSet
      <3> QED
        BY <1>1, <1>3 DEF ConvertPresent
    <2> QED
      BY <2>1, <2>2, <2>3 DEF convert_value
  <1>5. JoinSet(c, <<"int", n>>) = JoinSet(c, <<"set", chosen>>)
    BY DEF JoinSet, chosen
  <1>6. \E k : JoinSet(c, <<"int", n>>) = <<"str", k>>
    BY DEF JoinSet
  <1> QED
    BY <1>2, <1>3, <1>4, <1>5, <1>6

\* Text is bytes in the binlog and a string in a SELECT; the converter decodes
\* the bytes of the text types, and a UUID is made of either.
LEMMA BytesAgrees ==
  ASSUME NEW c, NEW v, Stored(c, v), v[1] = "bytes"
  PROVE  /\ BytesWritten(c, v[2]) = v[2] =>
               convert_value(c, PythonValue(c, v)) = convert_value(c, Selected(c, v, "UTC"))
         /\ LET w == convert_value(c, PythonValue(c, v))
            IN  \/ \E k : w = <<"str", k>>
                \/ w[1] = "tuple"
                \/ w = <<"bytes", w[2]>> /\ convert_type(c) = "UUID"
                \/ w = <<"bytes", BytesWritten(c, v[2])>>
                   /\ c.field \in {"blob", "binary", "varbinary", "point"}
         /\ convert_type(c) \in {"Tuple", "String", "UUID"}
  <1> DEFINE b == v[2]
             uuid == <<"bytes", <<"uuid", b>>>>
             text == IF convert_type(c) = "UUID" THEN uuid ELSE <<"str", b>>
             plain == {"blob", "binary", "varbinary", "point"}
  <1>1. /\ v = <<"bytes", b>> /\ v # Null
        /\ c.field \in plain \cup TextFields
        /\ c.field \in DOMAIN types_mapping /\ types_mapping[c.field] = "UUID" => Len(b) = 36
    BY DEF Stored, Null, MappedToUUID
  <1>2. PythonValue(c, v) = <<"bytes", BytesWritten(c, b)>>
    BY <1>1 DEF PythonValue
  <1>3. CASE c.field \in plain
    <2>1. c.field \notin DOMAIN types_mapping
      BY <1>3, EventsAssumption DEF TextFields
    <2>2. convert_type(c) = IF c.field = "point" THEN "Tuple" ELSE "String"
      BY <1>3, <2>1 DEF convert_type
    <2>3. Selected(c, v, "UTC") = <<"bytes", b>>
      BY <1>1, <1>3 DEF Selected
    <2> HIDE DEF b, convert_type
    <2>4. ASSUME NEW x
          PROVE  convert_value(c, <<"bytes", x>>) =
                    IF c.field = "point" THEN Coordinates(x) ELSE <<"bytes", x>>
      <3> DEFINE u == IF c.field = "point" THEN Coordinates(x) ELSE <<"bytes", x>>
      <3>1. ClampYear(c, ConvertEnum(c, ParsePoint(c, AsText(c, <<"bytes", x>>)))) = u
        BY <1>3 DEF AsText, ParsePoint, ConvertEnum, ClampYear, None
      <3>2. u # None /\ u[1] \in {"tuple", "bytes"}
        BY DEF Coordinates, None
      <3> HIDE DEF u
      <3>3. ConvertPresent(c, u) = u
        BY <1>3, <2>2, <3>2 DEF ConvertPresent, TextFields
      <3>4. convert_value(c, <<"bytes", x>>) = u
        BY <3>1, <3>2, <3>3 DEF convert_value
      <3> QED
        BY <3>4 DEF u
    <2>5. c.field = "point" => convert_value(c, PythonValue(c, v))[1] = "tuple"
      BY <1>2, <2>4 DEF Coordinates
    <2> QED
      BY <1>2, <1>3, <2>2, <2>3, <2>4, <2>5 DEF b
  <1>4. CASE c.field \in TextFields
    <2>1. convert_type(c) = IF c.field \in DOMAIN types_mapping
                            THEN types_mapping[c.field] ELSE "String"
      BY <1>4 DEF convert_type, TextFields
    <2>2. convert_type(c) \in {"String", "UUID"} /\ (convert_type(c) = "UUID" => Len(b) = 36)
      BY <1>1, <2>1, EventsAssumption
    <2>3. BytesWritten(c, b) = b /\ Selected(c, v, "UTC") = <<"str", b>>
      BY <1>1, <1>4 DEF Selected, BytesWritten, TextFields
    <2> HIDE DEF b, convert_type
    <2>4. ASSUME NEW u, u \in {<<"bytes", b>>, <<"str", b>>}
          PROVE  convert_value(c, u) = text
      <3>1. ClampYear(c, ConvertEnum(c, ParsePoint(c, AsText(c, u)))) = u
        BY <1>4, <2>4 DEF AsText, ParsePoint, ConvertEnum, ClampYear, TextFields
      <3>2. u # None
        BY <2>4 DEF None
      <3>3. ConvertPresent(c, u) = text
        BY <1>4, <2>2, <2>4 DEF ConvertPresent, TextFields
      <3> QED
        BY <3>1, <3>2, <3>3 DEF convert_value
    <2>5. convert_value(c, PythonValue(c, v)) = text
      BY <1>2, <2>3, <2>4
    <2>6. convert_value(c, Selected(c, v, "UTC")) = text
      BY <2>3, <2>4
    <2>7. text = <<"str", b>> \/ (text = <<"bytes", text[2]>> /\ convert_type(c) = "UUID")
      OBVIOUS
    <2> HIDE DEF text
    <2> QED
      BY <2>2, <2>5, <2>6, <2>7
  <1> QED
    BY <1>1, <1>3, <1>4

\* A JSON document whose scalars and keys the decoder prints as the server
\* does is the text that a SELECT returns.
LEMMA JsonAgrees ==
  ASSUME NEW c, NEW v, Stored(c, v), v[1] = "json"
  PROVE  /\ ToSet(v[2]) \cap {JsonDouble, JsonKeyEscaped, JsonOpaque} = {} =>
               convert_value(c, PythonValue(c, v)) = convert_value(c, Selected(c, v, "UTC"))
         /\ \E k : convert_value(c, PythonValue(c, v)) = <<"str", k>>
         /\ convert_type(c) = "String"
  <1> DEFINE d == v[2]
             printed == [i \in DOMAIN d |-> JsonText(d[i])]
             shown == [i \in DOMAIN d |-> <<"text", d[i]>>]
  <1>1. c.field = "json" /\ c.field \notin DOMAIN types_mapping
    <2>1. c.field = "json"
      BY DEF Stored, Null
    <2> QED
      BY <2>1, EventsAssumption DEF TextFields
  <1>2. PythonValue(c, v) = <<"str", printed>> /\ Selected(c, v, "UTC") = <<"str", shown>>
    BY DEF PythonValue, Selected, Null
  <1>3. convert_type(c) = "String"
    BY <1>1 DEF convert_type
  <1>4. ASSUME NEW x
        PROVE  convert_value(c, <<"str", x>>) = <<"str", x>>
    <2> DEFINE u == <<"str", x>>
    <2>1. ClampYear(c, ConvertEnum(c, ParsePoint(c, AsText(c, u)))) = u
      BY <1>1 DEF AsText, ParsePoint, ConvertEnum, ClampYear
    <2>2. u # None /\ ConvertPresent(c, u) = u
      BY <1>1, <1>3 DEF ConvertPresent, None
    <2> HIDE DEF u
    <2>3. convert_value(c, u) = u
      BY <2>1, <2>2 DEF convert_value
    <2> QED
      BY <2>3 DEF u
  <1>5. ASSUME ToSet(d) \cap {JsonDouble, JsonKeyEscaped, JsonOpaque} = {}
        PROVE  printed = shown
    <2>1. ASSUME NEW i \in DOMAIN d
          PROVE  JsonText(d[i]) = <<"text", d[i]>>
      <3>1. d[i] \notin {JsonDouble, JsonKeyEscaped}
        BY <1>5 DEF ToSet
      <3> QED
        BY <3>1 DEF JsonText
    <2> QED
      BY <2>1
  <1> HIDE DEF printed, shown
  <1> QED
    BY <1>2, <1>3, <1>4, <1>5 DEF d

\* The other values pass the converter as they are, or as text.
LEMMA OthersConverted ==
  ASSUME NEW c, NEW v, Stored(c, v), v[1] \in {"float", "decimal", "bit", "time"}
  PROVE  /\ LET w == convert_value(c, PythonValue(c, v))
            IN  w[1] \in {"float", "decimal"} \/ \E k : w = <<"str", k>>
         /\ convert_type(c) \in {"Float32", "Float64", "Bool", "String"}
  <1> DEFINE w == convert_value(c, PythonValue(c, v))
  <1>1. /\ v[1] = "float" => c.field \in {"float", "double"}
        /\ v[1] = "decimal" => c.field = "decimal"
        /\ v[1] = "bit" => c.field = "bit(1)"
        /\ v[1] = "time" => c.field = "time"
    BY DEF Stored, Null
  <1>2. c.field \notin DOMAIN types_mapping
    BY <1>1, EventsAssumption DEF TextFields
  <1>3. convert_type(c) \in {"Float32", "Float64", "Bool", "String"}
    BY <1>1, <1>2 DEF convert_type
  <1> HIDE DEF convert_type
  <1>4. ASSUME NEW u, u[1] \in {"float", "decimal", "str", "timedelta"}, c.field # "time",
               c.field \in {"float", "double", "decimal", "bit(1)"}, u[1] # "int"
        PROVE  convert_value(c, u) = u
    <2>1. ClampYear(c, ConvertEnum(c, ParsePoint(c, AsText(c, u)))) = u
      BY <1>4 DEF AsText, ParsePoint, ConvertEnum, ClampYear
    <2>2. u # None /\ ConvertPresent(c, u) = u
      BY <1>3, <1>4 DEF ConvertPresent, None, TextFields
    <2> QED
      BY <2>1, <2>2 DEF convert_value
  <1>5. CASE v[1] \in {"float", "decimal"}
    <2>1. PythonValue(c, v) = v
      <3>1. PythonValue(c, v) = Selected(c, v, "UTC")
        BY <1>5 DEF PythonValue, Null
      <3>2. v # Null /\ v[1] \notin {"year", "bit", "enum", "set", "time", "date", "datetime",
                                    "timestamp", "bytes", "json"}
        BY <1>5 DEF Null
      <3>3. Selected(c, v, "UTC") = v
        BY <3>2 DEF Selected
      <3> QED
        BY <3>1, <3>3
    <2> QED
      BY <1>1, <1>3, <1>4, <1>5, <2>1
  <1>6. CASE v[1] = "bit"
    <2>1. PythonValue(c, v) = <<"str", <<v[2]>>>>
      BY <1>6 DEF PythonValue, Null
    <2> QED
      BY <1>1, <1>3, <1>4, <1>6, <2>1
  <1>7. CASE v[1] = "time"
    <2> DEFINE t == PythonValue(c, v)
    <2>1. t # None /\ c.field = "time"
      BY <1>1, <1>7 DEF PythonValue, Selected, Null, None
    <2> HIDE DEF t
    <2>2. ClampYear(c, ConvertEnum(c, ParsePoint(c, AsText(c, t)))) = <<"str", t>>
      BY <2>1 DEF AsText, ParsePoint, ConvertEnum, ClampYear
    <2>3. <<"str", t>> # None /\ ConvertPresent(c, <<"str", t>>) = <<"str", t>>
      BY <1>3, <2>1 DEF ConvertPresent, None
    <2>4. convert_value(c, t) = <<"str", t>>
      BY <2>2, <2>3 DEF convert_value
    <2> QED
      BY <1>3, <2>4 DEF t
  <1> QED
    BY <1>5, <1>6, <1>7

\* Only a TIMESTAMP depends on the time zone of the session, and only a
\* datetime on mysql_timezone.
LEMMA Unzoned ==
  ASSUME NEW z, NEW c, NEW v, v = Null \/ v[1] \notin {"datetime", "timestamp"}
  PROVE  get_records(z, c, v) = Selected(c, v, "UTC")
  <1> DEFINE s == Selected(c, v, SessionZone(z))
  <1>1. s = Selected(c, v, "UTC") /\ s[1] # "datetime"
    BY DEF Selected, Null
  <1> HIDE DEF s
  <1> QED
    BY <1>1 DEF get_records, s

\* What the client writes of a datetime.
LEMMA DatetimeArrives ==
  ASSUME NEW z, NEW c, c.field \in {"datetime", "timestamp"}, NEW clock, NEW zone,
         zone = "naive" => clock \notin z.refused
  PROVE  Arrives(z, c, convert_value(c, <<"datetime", clock, zone>>)) =
            ReadIn(clock, IF zone = "naive" THEN z.local_timezone ELSE zone)
  <1> DEFINE u == <<"datetime", clock, zone>>
  <1>1. c.field \notin DOMAIN types_mapping
    BY EventsAssumption DEF TextFields
  <1>2. convert_type(c) = "DateTime64"
    BY <1>1 DEF convert_type
  <1> HIDE DEF convert_type
  <1>3. ClampYear(c, ConvertEnum(c, ParsePoint(c, AsText(c, u)))) = u
    BY DEF AsText, ParsePoint, ConvertEnum, ClampYear
  <1>4. u # None /\ ConvertPresent(c, u) = u
    BY <1>2 DEF ConvertPresent, None
  <1>5. u[1] = "datetime" /\ u[2] = clock /\ u[3] = zone /\ (u = Naive(u[2]) <=> zone = "naive")
    BY DEF Naive
  <1> HIDE DEF u
  <1>6. convert_value(c, u) = u
    BY <1>3, <1>4 DEF convert_value
  <1>7. InsertValue(z, c, u) = u
    BY <1>5 DEF InsertValue
  <1>8. Arrives(z, c, u) = ReadIn(clock, IF zone = "naive" THEN z.local_timezone ELSE zone)
    BY <1>2, <1>5, <1>7 DEF Arrives
  <1> QED
    BY <1>6, <1>8 DEF u

\* Both paths read a DATETIME in the same zone.
LEMMA DatetimeAgrees ==
  ASSUME NEW z \in Zones, NEW c, NEW v, Stored(c, v), v[1] = "datetime", ~PathsDiffer(z, c, v)
  PROVE  Arrives(z, c, convert_value(c, PythonValue(c, v))) = Copied(z, c, v)
  <1> DEFINE tz == z.mysql_timezone
             zero == 0 \in {v[2], v[3], v[4]}
  <1>1. c.field = "datetime"
    BY DEF Stored, Null
  <1>2. tz # "naive"
    BY ZonesAssumption
  <1>3. \A s : Selected(c, v, s) = IF zero THEN None ELSE Naive(v)
    BY DEF Selected, Null, None
  <1>4. PythonValue(c, v) = Selected(c, v, "UTC")
    BY DEF PythonValue, Null
  <1>5. tz # "UTC" => z.local_timezone = tz /\ v \notin z.refused
    BY DEF PathsDiffer
  <1> HIDE DEF zero
  <1>6. CASE zero \/ tz = "UTC"
    <2>1. get_records(z, c, v) = Selected(c, v, "UTC")
      BY <1>3, <1>6 DEF get_records, None
    <2> QED
      BY <1>4, <2>1 DEF Copied
  <1>7. CASE ~zero /\ tz # "UTC"
    <2>1. get_records(z, c, v) = <<"datetime", v, tz>> /\ PythonValue(c, v) = <<"datetime", v, "naive">>
      BY <1>3, <1>4, <1>7 DEF get_records, Naive
    <2>2. Arrives(z, c, convert_value(c, <<"datetime", v, tz>>)) = ReadIn(v, tz)
      BY <1>1, <1>2, DatetimeArrives
    <2>3. Arrives(z, c, convert_value(c, <<"datetime", v, "naive">>)) = ReadIn(v, tz)
      BY <1>1, <1>5, <1>7, DatetimeArrives
    <2> QED
      BY <2>1, <2>2, <2>3 DEF Copied
  <1> QED
    BY <1>6, <1>7

\* Both paths have the moment of a TIMESTAMP when its clocks are read in the
\* zones they are of.
LEMMA TimestampAgrees ==
  ASSUME NEW z \in Zones, NEW c, NEW v, Stored(c, v), v[1] = "timestamp", ~PathsDiffer(z, c, v)
  PROVE  Arrives(z, c, convert_value(c, PythonValue(c, v))) = Copied(z, c, v)
  <1> DEFINE tz == z.mysql_timezone
             utc == Clock("UTC", v[2], v[3])
             shown == Clock(tz, v[2], v[3])
             moment == <<"moment", "UTC", v[2], v[3]>>
  <1>1. c.field = "timestamp"
    BY DEF Stored, Null
  <1>2. tz # "naive" /\ RepeatedHours["UTC"] = {} /\ utc \notin z.refused
    BY ZonesAssumption DEF Clock
  <1>3. ~TimestampDiffers(z, v[2]) /\ v[2] # 0
    BY DEF PathsDiffer, TimestampDiffers
  <1>4. \A s : Selected(c, v, s) = Naive(Clock(s, v[2], v[3]))
    BY <1>3 DEF Selected, Null
  <1>5. PythonValue(c, v) = <<"datetime", utc, "naive">>
    BY DEF PythonValue, Null, Naive
  <1>6. CASE tz = "UTC"
    <2>1. get_records(z, c, v) = PythonValue(c, v)
      BY <1>3, <1>4, <1>5, <1>6 DEF get_records, SessionZone, TimestampDiffers, Naive
    <2> QED
      BY <2>1 DEF Copied
  <1>7. CASE tz # "UTC"
    <2>1. get_records(z, c, v) = <<"datetime", shown, tz>>
      BY <1>4, <1>7 DEF get_records, SessionZone, Naive
    <2>2. z.local_timezone = "UTC" /\ v[2] \notin RepeatedHours[tz]
      BY <1>3, <1>7 DEF TimestampDiffers
    <2>3. ReadIn(shown, tz) = moment /\ ReadIn(utc, "UTC") = moment
      BY <1>2, <2>2 DEF ReadIn, Clock, FirstMoment
    <2> HIDE DEF utc, shown, moment
    <2>4. Arrives(z, c, convert_value(c, <<"datetime", shown, tz>>)) = ReadIn(shown, tz)
      BY <1>1, <1>2, DatetimeArrives
    <2>5. Arrives(z, c, convert_value(c, <<"datetime", utc, "naive">>)) = ReadIn(utc, "UTC")
      BY <1>1, <1>2, <2>2, DatetimeArrives
    <2> QED
      BY <1>5, <2>1, <2>3, <2>4, <2>5 DEF Copied
  <1> QED
    BY <1>6, <1>7

LEMMA StoredKinds ==
  ASSUME NEW c, NEW v, Stored(c, v)
  PROVE  \/ v = Null
         \/ v[1] \in {"int", "year", "enum", "set", "bytes", "json"}
         \/ v[1] \in {"float", "decimal", "bit", "time"}
         \/ v[1] = "date" /\ c.field = "date"
         \/ v[1] \in {"datetime", "timestamp"}
  BY DEF Stored

\* Both paths bring the same value, where PathsDiffer does not say otherwise.
LEMMA ValueAgrees ==
  ASSUME NEW z \in Zones, NEW c, NEW v, Stored(c, v), ~PathsDiffer(z, c, v)
  PROVE  Arrives(z, c, convert_value(c, PythonValue(c, v))) = Copied(z, c, v)
  <1>1. CASE v # Null /\ v[1] \in {"datetime", "timestamp"}
    BY <1>1, DatetimeAgrees, TimestampAgrees
  <1>2. CASE v = Null \/ v[1] \notin {"datetime", "timestamp"}
    <2>1. get_records(z, c, v) = Selected(c, v, "UTC")
      BY <1>2, Unzoned
    <2>2. convert_value(c, PythonValue(c, v)) = convert_value(c, Selected(c, v, "UTC"))
      <3>1. CASE v = Null
        BY <3>1 DEF PythonValue, Selected, None, Null
      <3>2. CASE v[1] = "enum"
        <4>1. v[2] # 0
          BY <3>2 DEF Stored, PathsDiffer, Null
        <4> QED
          BY <3>2, <4>1, EnumAgrees
      <3>3. CASE v[1] \in {"float", "decimal", "date", "time"}
        <4>1. PythonValue(c, v) = Selected(c, v, "UTC")
          BY <3>3 DEF PythonValue, Null
        <4> QED
          BY <4>1
      <3>4. CASE v[1] \in {"bytes", "json"}
        <4>1. /\ v[1] = "bytes" => BytesWritten(c, v[2]) = v[2]
              /\ v[1] = "json" => ToSet(v[2]) \cap {JsonDouble, JsonKeyEscaped, JsonOpaque} = {}
          BY DEF PathsDiffer
        <4> QED
          BY <3>4, <4>1, BytesAgrees, JsonAgrees
      <3>5. v # Null => v[1] # "bit"
        BY DEF PathsDiffer
      <3> QED
        BY <1>2, <3>1, <3>2, <3>3, <3>4, <3>5, StoredKinds, IntegerAgrees, YearAgrees, SetAgrees
    <2> QED
      BY <2>1, <2>2 DEF Copied
  <1> QED
    BY <1>1, <1>2

\* Numbers and text are inserted as they are.
LEMMA PlainArrives ==
  ASSUME NEW z, NEW c, NEW w, w[1] \notin {"date", "datetime"},
         convert_type(c) \notin {"Date32", "DateTime64"}
  PROVE  Arrives(z, c, w) = w
  BY DEF Arrives, InsertValue

\* A number and a NULL arrive as they are.
LEMMA ValueArrives ==
  ASSUME NEW z, NEW c, NEW v, Stored(c, v)
  PROVE  /\ v[1] \in {"int", "year"} /\ v # <<"year", 0>> /\ ~MediumintMisread(c, v) =>
               Arrives(z, c, convert_value(c, PythonValue(c, v))) = <<"int", v[2]>>
         /\ v = Null /\ Nullable(c) /\ c.field \notin {"time", "json"} =>
               Arrives(z, c, convert_value(c, PythonValue(c, v))) = None
  <1>1. ASSUME v[1] \in {"int", "year"}, v # <<"year", 0>>, ~MediumintMisread(c, v)
        PROVE  Arrives(z, c, convert_value(c, PythonValue(c, v))) = <<"int", v[2]>>
    <2>1. v[1] = "year" => v[2] # 0
      BY <1>1 DEF Stored, Null
    <2>2. convert_value(c, PythonValue(c, v)) = <<"int", v[2]>>
      BY <1>1, <2>1, IntegerAgrees, YearAgrees
    <2>3. convert_type(c) \notin {"Date32", "DateTime64"}
      BY <1>1, IntegerAgrees, YearAgrees
    <2> QED
      BY <2>2, <2>3, PlainArrives
  <1>2. ASSUME v = Null, Nullable(c), c.field \notin {"time", "json"}
        PROVE  Arrives(z, c, convert_value(c, PythonValue(c, v))) = None
    <2>1. PythonValue(c, v) = None
      BY <1>2 DEF PythonValue, Null
    <2>2. c.field # "point"
      BY <1>2, EventsAssumption DEF Nullable, convert_type, TextFields
    <2>3. ClampYear(c, ConvertEnum(c, ParsePoint(c, AsText(c, None)))) = None
      BY <1>2, <2>2 DEF AsText, ParsePoint, ConvertEnum, ClampYear, None
    <2>4. convert_value(c, PythonValue(c, v)) = None
      BY <1>2, <2>1, <2>3 DEF convert_value
    <2>5. InsertValue(z, c, None) = None
      BY <1>2 DEF InsertValue, None
    <2> QED
      BY <2>4, <2>5 DEF Arrives, None
  <1> QED
    BY <1>1, <1>2

\* The DELETE names every key that KeyUnnamed does not except: text, UUIDs and
\* bytes that are text in quotes, numbers without.
LEMMA KeyFound ==
  ASSUME NEW z, NEW c, NEW v, Stored(c, v), v # Null, ~KeyUnnamed(c, v),
         NEW w, w = convert_value(c, PythonValue(c, v))
  PROVE  Finds(format_delete_value(RecordPart(c, w)), Arrives(z, c, w))
  <1>1. v[1] \notin {"date", "datetime", "timestamp"}
    BY DEF KeyUnnamed
  <1>2. /\ \/ w[1] \in {"float", "decimal", "tuple"}
           \/ \E k : w = <<"int", k>>
           \/ \E k : w = <<"str", k>>
           \/ w = <<"bytes", w[2]>> /\ (convert_type(c) = "UUID" \/ IsUtf8(w[2]))
        /\ convert_type(c) \notin {"Date32", "DateTime64"}
    <2>1. CASE v[1] = "int"
      BY <2>1, IntegerAgrees
    <2>2. CASE v[1] = "year"
      BY <2>2, YearAgrees
    <2>3. CASE v[1] = "enum"
      BY <2>3, EnumAgrees
    <2>4. CASE v[1] = "set"
      BY <2>4, SetAgrees
    <2>5. CASE v[1] = "json"
      BY <2>5, JsonAgrees
    <2>6. CASE v[1] \in {"float", "decimal", "bit", "time"}
      BY <2>6, OthersConverted
    <2>7. CASE v[1] = "bytes"
      <3>1. c.field \in {"blob", "binary", "varbinary", "point"} => IsUtf8(BytesWritten(c, v[2]))
        BY <2>7 DEF KeyUnnamed
      <3>2. /\ \/ \E k : w = <<"str", k>>
               \/ w[1] = "tuple"
               \/ w = <<"bytes", w[2]>> /\ convert_type(c) = "UUID"
               \/ w = <<"bytes", BytesWritten(c, v[2])>>
                  /\ c.field \in {"blob", "binary", "varbinary", "point"}
            /\ convert_type(c) \in {"Tuple", "String", "UUID"}
        BY <2>7, BytesAgrees
      <3> QED
        BY <3>1, <3>2
    <2> QED
      BY <1>1, <2>1, <2>2, <2>3, <2>4, <2>5, <2>6, <2>7, StoredKinds
  <1>3. w[1] \notin {"date", "datetime", "none"}
    BY <1>2
  <1>4. Arrives(z, c, w) = w
    BY <1>2, <1>3, PlainArrives
  <1> HIDE DEF convert_type
  <1>5. CASE w = <<"str", w[2]>>
    BY <1>4, <1>5 DEF RecordPart, format_delete_value, Finds
  <1>6. CASE w = <<"bytes", w[2]>> /\ convert_type(c) = "UUID"
    BY <1>4, <1>6 DEF RecordPart, format_delete_value, Finds
  <1>7. CASE w = <<"bytes", w[2]>> /\ convert_type(c) # "UUID" /\ IsUtf8(w[2])
    BY <1>4, <1>7 DEF RecordPart, format_delete_value, Finds
  <1>8. CASE w[1] \in {"int", "float", "decimal", "tuple"}
    <2>1. RecordPart(c, w) = w
      BY <1>8 DEF RecordPart
    <2>2. format_delete_value(w) = <<"plain", w>>
      BY <1>8 DEF format_delete_value
    <2>3. w # None
      BY <1>8 DEF None
    <2> QED
      BY <1>4, <2>1, <2>2, <2>3 DEF Finds
  <1> QED
    BY <1>2, <1>5, <1>6, <1>7, <1>8

-----------------------------------------------------------------------------
\* The shapes of what has been read: the columns follow the table, the values
\* follow the columns, the images of a row follow the bitmaps, and the last
\* image of every row has a value for each column.

IsSeq(s) == \E S : s \in Seq(S)

\* What Convert computes from the rows.
Converted ==
    [r \in DOMAIN rows |->
        LET table == written.table
            vals  == rows[r][Images]
        IN  IF written.kind = "delete"
            THEN RecordId(table, convert_record(table, vals, KeyColumns(table)))
            ELSE convert_record(table, vals, DOMAIN table)]

ShapeInv ==
    /\ written \in Events
    /\ IsSeq(columns) /\ Len(columns) <= Len(written.table)
    /\ stage # "table_map" => Len(columns) = Len(written.table)
    /\ IsSeq(values) /\ IsSeq(images) /\ IsSeq(rows)
    /\ image \in 1..Images /\ Len(images) = image - 1
    /\ \A r \in DOMAIN rows : DOMAIN rows[r][Images] = DOMAIN written.table
    /\ stage = "done" => records = Converted

LEMMA Lengths ==
  ASSUME NEW s, IsSeq(s)
  PROVE  Len(s) \in Nat /\ DOMAIN s = 1..Len(s)
  BY LenProperties DEF IsSeq

LEMMA EmptyIsSeq == IsSeq(<<>>) /\ Len(<<>>) = 0 /\ DOMAIN <<>> = {}
  <1>1. <<>> \in Seq({})
    BY EmptySeq
  <1>2. IsSeq(<<>>)
    BY <1>1 DEF IsSeq
  <1>3. Len(<<>>) = 0
    OBVIOUS
  <1> QED
    BY <1>2, <1>3, Lengths

LEMMA AppendIsSeq ==
  ASSUME NEW s, IsSeq(s), NEW x
  PROVE  /\ IsSeq(Append(s, x))
         /\ Len(Append(s, x)) = Len(s) + 1
         /\ \A i \in 1..Len(s) : Append(s, x)[i] = s[i]
         /\ Append(s, x)[Len(s) + 1] = x
  <1>1. PICK S : s \in Seq(S)
    BY DEF IsSeq
  <1> DEFINE T == S \cup {x}
  <1>2. s \in Seq(T) /\ x \in T
    BY <1>1, SeqMonotonic
  <1> HIDE DEF T
  <1>3. Append(s, x) \in Seq(T)
    BY <1>2, AppendProperties
  <1>4. /\ Len(Append(s, x)) = Len(s) + 1
        /\ \A i \in 1..Len(s) : Append(s, x)[i] = s[i]
        /\ Append(s, x)[Len(s) + 1] = x
    BY <1>2, AppendProperties
  <1>5. IsSeq(Append(s, x))
    BY <1>3 DEF IsSeq
  <1> QED
    BY <1>4, <1>5

LEMMA ShapeInit == Init => ShapeInv
  <1> SUFFICES ASSUME Init PROVE ShapeInv
    OBVIOUS
  <1>1. written \in Events /\ Len(written.table) \in Nat /\ Images \in Nat \ {0}
    BY EventsAssumption DEF Init, Images
  <1>2. /\ columns = <<>> /\ values = <<>> /\ images = <<>> /\ rows = <<>>
        /\ image = 1 /\ stage = "table_map"
    BY DEF Init
  <1> QED
    BY <1>1, <1>2, EmptyIsSeq DEF ShapeInv

LEMMA ShapeNext == ShapeInv /\ [Next]_vars => ShapeInv'
  <1> SUFFICES ASSUME ShapeInv, [Next]_vars PROVE ShapeInv'
    OBVIOUS
  <1>1. /\ Len(written.table) \in Nat /\ DOMAIN written.table = 1..Len(written.table)
        /\ Images \in Nat \ {0}
    BY EventsAssumption DEF ShapeInv, Images
  <1>2. /\ Len(columns) \in Nat /\ Len(values) \in Nat /\ DOMAIN values = 1..Len(values)
        /\ Len(images) \in Nat /\ Len(rows) \in Nat /\ DOMAIN rows = 1..Len(rows)
    BY Lengths DEF ShapeInv
  <1>3. CASE ReadColumnDefinition
    <2> PICK x : columns' = Append(columns, x)
      BY <1>3 DEF ReadColumnDefinition
    <2>1. IsSeq(columns') /\ Len(columns') = Len(columns) + 1
      BY AppendIsSeq DEF ShapeInv
    <2>2. /\ Len(columns) < Len(written.table) /\ stage = "table_map"
          /\ UNCHANGED <<written, values, images, rows, image, stage>>
      BY <1>3 DEF ReadColumnDefinition
    <2> QED
      BY <1>1, <1>2, <2>1, <2>2 DEF ShapeInv, Images
  <1>4. CASE ReadHeader
    <2>1. /\ Len(columns) = Len(written.table) /\ stage' = "image"
          /\ UNCHANGED <<written, columns, values, images, rows, image>>
      BY <1>4 DEF ReadHeader
    <2> QED
      BY <1>1, <1>2, <2>1 DEF ShapeInv, Images
  <1>5. CASE ReadNullBitmap
    <2>1. /\ stage = "image" /\ stage' \in {"raised", "column"} /\ values' = <<>>
          /\ UNCHANGED <<written, columns, images, rows, image>>
      BY <1>5 DEF ReadNullBitmap
    <2> QED
      BY <1>1, <1>2, <2>1, EmptyIsSeq DEF ShapeInv, Images
  <1>6. CASE ReadColumn
    <2> PICK x : values' = Append(values, x)
      BY <1>6 DEF ReadColumn
    <2>1. IsSeq(values')
      BY AppendIsSeq DEF ShapeInv
    <2>2. /\ stage = "column" /\ stage' \in {"raised", "column"}
          /\ UNCHANGED <<written, columns, images, rows, image>>
      BY <1>6 DEF ReadColumn
    <2> QED
      BY <1>1, <1>2, <2>1, <2>2 DEF ShapeInv, Images
  <1>7. CASE EndImage
    <2>1. /\ stage = "column" /\ stage' = "image" /\ Len(values) = Len(columns)
          /\ UNCHANGED <<written, columns, values>>
      BY <1>7 DEF EndImage
    <2>2. DOMAIN values = DOMAIN written.table
      BY <1>1, <1>2, <2>1 DEF ShapeInv
    <2>3. /\ IsSeq(Append(images, values))
          /\ Len(Append(images, values)) = image
          /\ Append(images, values)[image] = values
      BY AppendIsSeq, <1>1, <1>2 DEF ShapeInv
    <2>4. CASE image < Images
      <3>1. image' = image + 1 /\ images' = Append(images, values) /\ rows' = rows
        BY <1>7, <2>4 DEF EndImage
      <3> QED
        BY <1>1, <1>2, <2>1, <2>3, <2>4, <3>1 DEF ShapeInv, Images
    <2>5. CASE ~(image < Images)
      <3> DEFINE row == Append(images, values)
      <3>1. image' = 1 /\ images' = <<>> /\ rows' = Append(rows, row)
        BY <1>7, <2>5 DEF EndImage
      <3>2. image = Images
        BY <1>1, <2>5 DEF ShapeInv
      <3>3. DOMAIN row[Images] = DOMAIN written.table
        BY <2>2, <2>3, <3>2
      <3> HIDE DEF row
      <3>4. /\ IsSeq(rows') /\ Len(rows') = Len(rows) + 1
            /\ \A r \in 1..Len(rows) : rows'[r] = rows[r]
            /\ rows'[Len(rows) + 1] = row
        BY <3>1, AppendIsSeq DEF ShapeInv
      <3>5. DOMAIN rows' = 1..Len(rows) + 1
        BY <3>4, Lengths
      <3>6. \A r \in DOMAIN rows' : DOMAIN rows'[r][Images] = DOMAIN written.table
        BY <1>2, <3>3, <3>4, <3>5 DEF ShapeInv
      <3> QED
        BY <1>1, <1>2, <2>1, <3>1, <3>4, <3>6, EmptyIsSeq DEF ShapeInv, Images
    <2> QED
      BY <2>4, <2>5
  <1>8. CASE Convert
    <2>1. /\ stage = "image" /\ stage' = "done"
          /\ UNCHANGED <<written, columns, values, images, rows, image>>
      BY <1>8 DEF Convert
    <2>2. records' = Converted
      BY <1>8 DEF Convert, Converted
    <2>3. Converted' = Converted
      BY <2>1 DEF Converted, Images
    <2> QED
      BY <1>1, <1>2, <2>1, <2>2, <2>3 DEF ShapeInv, Images
  <1>9. CASE UNCHANGED vars
    BY <1>9 DEF ShapeInv, Images, Converted, vars
  <1> QED
    BY <1>3, <1>4, <1>5, <1>6, <1>7, <1>8, <1>9 DEF Next

\* Reading keeps the shapes: _read_column_data appends one value for each
\* column, and _fetch_one_row one image for each bitmap.
LEMMA ShapesKept == Spec => []ShapeInv
  BY ShapeInit, ShapeNext, PTL DEF Spec

\* The value of a present column of the last image, in a finished event.
LEMMA DecodedValue ==
  ASSUME ShapeInv, RowsDecoded, stage = "done", NEW r \in DOMAIN rows,
         NEW k \in written.present[Images]
  PROVE  LET c == written.table[k]
             v == written.rows[r][Images][k]
         IN  /\ k \in DOMAIN written.table /\ k \in DOMAIN rows[r][Images]
             /\ Stored(c, v)
             /\ rows[r][Images][k] = PythonValue(c, v) \/ TimeMisread(c, v)
  <1>1. /\ DOMAIN written.table = 1..Len(written.table) /\ Images \in Nat \ {0}
        /\ DOMAIN written.rows = 1..Len(written.rows)
    BY EventsAssumption DEF ShapeInv, Images
  <1>2. Images \in 1..Images
    BY <1>1
  <1>3. k \in DOMAIN written.table
    BY <1>2, EventsAssumption DEF ShapeInv, Images
  <1>4. k \in DOMAIN rows[r][Images] /\ k \in DOMAIN columns
    BY <1>1, <1>3, Lengths DEF ShapeInv
  <1>5. r \in DOMAIN written.rows
    BY <1>1, Lengths DEF ShapeInv, RowsDecoded
  <1>6. Stored(written.table[k], written.rows[r][Images][k])
    BY <1>2, <1>5, EventsAssumption DEF ShapeInv, Images
  <1>7. \/ rows[r][Images][k] = PythonValue(written.table[k], written.rows[r][Images][k])
        \/ TimeMisread(written.table[k], written.rows[r][Images][k])
    BY <1>2, <1>4 DEF RowsDecoded
  <1> QED
    BY <1>3, <1>4, <1>6, <1>7

\* What Convert makes of it.
LEMMA ConvertedValue ==
  ASSUME ShapeInv, stage = "done", written.kind # "delete", NEW r \in DOMAIN rows,
         NEW k \in DOMAIN written.table
  PROVE  records[r][k] = convert_value(written.table[k], rows[r][Images][k])
  <1> DEFINE vals == rows[r][Images]
             table == written.table
  <1>1. records = Converted /\ DOMAIN vals = DOMAIN table
    BY DEF ShapeInv
  <1> HIDE DEF vals, table
  <1>2. records[r] = convert_record(table, vals, DOMAIN table)
    BY <1>1 DEF Converted, vals, table
  <1>3. convert_record(table, vals, DOMAIN table)[k] = convert_value(table[k], vals[k])
    BY <1>1 DEF convert_record, table
  <1> QED
    BY <1>2, <1>3 DEF vals, table

LEMMA ConvertedKey ==
  ASSUME ShapeInv, stage = "done", written.kind = "delete", NEW r \in DOMAIN rows,
         NEW k \in KeyColumns(written.table)
  PROVE  records[r][k] =
            RecordPart(written.table[k], convert_value(written.table[k], rows[r][Images][k]))
  <1> DEFINE vals == rows[r][Images]
             table == written.table
  <1>1. records = Converted /\ DOMAIN vals = DOMAIN table
    BY DEF ShapeInv
  <1>2. k \in DOMAIN table
    BY DEF KeyColumns
  <1>3. records[r] = RecordId(table, convert_record(table, vals, KeyColumns(table)))
    BY <1>1 DEF Converted
  <1> HIDE DEF vals, table
  <1>4. records[r][k] = RecordPart(table[k], convert_record(table, vals, KeyColumns(table))[k])
    BY <1>3 DEF RecordId, table
  <1>5. convert_record(table, vals, KeyColumns(table))[k] = convert_value(table[k], vals[k])
    BY <1>1, <1>2 DEF convert_record, table
  <1> QED
    BY <1>4, <1>5 DEF vals, table

\* The binlog and the initial copy bring the same values into ClickHouse, for
\* any table, any images, any stored values and any setting of time zones, if
\* the decoder reads the rows as RowsDecoded says: convert_record makes up for
\* the signed reading of integers, the numbers of ENUM and SET values and the
\* bytes of a text.
THEOREM PathsAlwaysAgree == Spec /\ []RowsDecoded => []PathsAgree
  <1>1. ShapeInv /\ RowsDecoded => PathsAgree
    <2> SUFFICES ASSUME ShapeInv, RowsDecoded, stage = "done", written.kind # "delete",
                        NEW z \in Zones, NEW r \in DOMAIN rows, NEW k \in written.present[Images]
                 PROVE  LET c == written.table[k]
                            v == written.rows[r][Images][k]
                        IN  Arrives(z, c, records[r][k]) = Copied(z, c, v) \/ PathsDiffer(z, c, v)
      BY DEF PathsAgree
    <2> DEFINE c == written.table[k]
               v == written.rows[r][Images][k]
    <2>1. /\ k \in DOMAIN written.table /\ Stored(c, v)
          /\ rows[r][Images][k] = PythonValue(c, v) \/ TimeMisread(c, v)
      BY DecodedValue
    <2>2. records[r][k] = convert_value(c, rows[r][Images][k])
      BY <2>1, ConvertedValue
    <2> HIDE DEF c, v
    <2>3. ASSUME ~PathsDiffer(z, c, v)
          PROVE  Arrives(z, c, records[r][k]) = Copied(z, c, v)
      <3>1. rows[r][Images][k] = PythonValue(c, v)
        BY <2>1, <2>3 DEF PathsDiffer
      <3>2. Arrives(z, c, convert_value(c, PythonValue(c, v))) = Copied(z, c, v)
        BY <2>1, <2>3, ValueAgrees
      <3> QED
        BY <2>2, <3>1, <3>2
    <2> QED
      BY <2>3 DEF c, v
  <1> QED
    BY <1>1, ShapesKept, PTL

\* A number, a NULL and a year that MySQL holds arrive in ClickHouse as they
\* are, signed or unsigned and of any size, if the decoder reads the rows as
\* RowsDecoded says.
THEOREM NumbersAlwaysArrive == Spec /\ []RowsDecoded => []NumbersArrive
  <1>1. ShapeInv /\ RowsDecoded => NumbersArrive
    <2> SUFFICES ASSUME ShapeInv, RowsDecoded, stage = "done", written.kind # "delete",
                        NEW z \in Zones, NEW r \in DOMAIN rows, NEW k \in written.present[Images]
                 PROVE  LET c == written.table[k]
                            v == written.rows[r][Images][k]
                        IN  /\ v[1] \in {"int", "year"} /\ v # <<"year", 0>> /\ ~MediumintMisread(c, v) =>
                                  Arrives(z, c, records[r][k]) = <<"int", v[2]>>
                            /\ v = Null /\ Nullable(c) /\ c.field \notin {"time", "json"} =>
                                  Arrives(z, c, records[r][k]) = None
      BY DEF NumbersArrive
    <2> DEFINE c == written.table[k]
               v == written.rows[r][Images][k]
    <2>1. /\ k \in DOMAIN written.table /\ Stored(c, v)
          /\ rows[r][Images][k] = PythonValue(c, v) \/ TimeMisread(c, v)
      BY DecodedValue
    <2>2. records[r][k] = convert_value(c, rows[r][Images][k])
      BY <2>1, ConvertedValue
    <2> HIDE DEF c, v
    <2>3. v[1] \in {"int", "year"} \/ v = Null => rows[r][Images][k] = PythonValue(c, v)
      BY <2>1 DEF TimeMisread, Null
    <2>4. /\ v[1] \in {"int", "year"} /\ v # <<"year", 0>> /\ ~MediumintMisread(c, v) =>
                Arrives(z, c, records[r][k]) = <<"int", v[2]>>
          /\ v = Null /\ Nullable(c) /\ c.field \notin {"time", "json"} =>
                Arrives(z, c, records[r][k]) = None
      BY <2>1, <2>2, <2>3, ValueArrives
    <2> QED
      BY <2>4 DEF c, v
  <1> QED
    BY <1>1, ShapesKept, PTL

\* The DELETE of a row finds every part of its key where the binlog and the
\* initial copy put it, for a primary key of any columns that KeyUnnamed does
\* not except, if the decoder reads the rows as RowsDecoded says.
THEOREM KeysAlwaysErased == Spec /\ []RowsDecoded => []KeysErased
  <1>1. ShapeInv /\ RowsDecoded => KeysErased
    <2> SUFFICES ASSUME ShapeInv, RowsDecoded, stage = "done", written.kind = "delete",
                        NEW z \in Zones, NEW r \in DOMAIN rows, NEW k \in KeyColumns(written.table)
                 PROVE  LET c == written.table[k]
                            v == written.rows[r][1][k]
                            literal == format_delete_value(records[r][k])
                        IN  \/ KeyUnnamed(c, v) \/ TimeMisread(c, v)
                            \/ /\ Finds(literal, Arrives(z, c, convert_value(c, PythonValue(c, v))))
                               /\ Finds(literal, Copied(z, c, v)) \/ PathsDiffer(z, c, v)
      BY DEF KeysErased
    <2> DEFINE c == written.table[k]
               v == written.rows[r][1][k]
               w == convert_value(c, PythonValue(c, v))
               literal == format_delete_value(records[r][k])
    <2>1. /\ Images = 1 /\ written.table[k].key /\ k \in DOMAIN written.table
          /\ k \in written.present[Images]
      BY EventsAssumption DEF ShapeInv, Images, KeyColumns
    <2>2. Stored(c, v) /\ (rows[r][Images][k] = PythonValue(c, v) \/ TimeMisread(c, v))
      BY <2>1, DecodedValue
    <2>3. v # Null
      <3>1. DOMAIN written.rows = 1..Len(written.rows) /\ Len(written.rows) = Len(rows)
        BY EventsAssumption DEF ShapeInv, RowsDecoded
      <3>2. r \in DOMAIN written.rows
        BY <3>1, Lengths DEF ShapeInv
      <3> QED
        BY <2>1, <3>2, EventsAssumption DEF ShapeInv
    <2>4. records[r][k] = RecordPart(c, convert_value(c, rows[r][Images][k]))
      BY ConvertedKey
    <2> HIDE DEF c, v, w
    <2>5. ASSUME ~KeyUnnamed(c, v), ~TimeMisread(c, v)
          PROVE  /\ Finds(literal, Arrives(z, c, w))
                 /\ Finds(literal, Copied(z, c, v)) \/ PathsDiffer(z, c, v)
      <3>1. records[r][k] = RecordPart(c, w)
        BY <2>2, <2>4, <2>5 DEF w
      <3>2. Finds(literal, Arrives(z, c, w))
        <4>1. w = convert_value(c, PythonValue(c, v))
          BY DEF w
        <4>2. Finds(format_delete_value(RecordPart(c, w)), Arrives(z, c, w))
          BY <2>2, <2>3, <2>5, <4>1, KeyFound
        <4> QED
          BY <3>1, <4>2
      <3>3. ~PathsDiffer(z, c, v) => Arrives(z, c, w) = Copied(z, c, v)
        BY <2>2, ValueAgrees DEF w
      <3> QED
        BY <3>2, <3>3
    <2> QED
      BY <2>5 DEF c, v, w
  <1> QED
    BY <1>1, ShapesKept, PTL
=============================================================================
