----------------------------- MODULE RowPipeline -----------------------------
(***************************************************************************)
(* A row change on its way from the bytes of a MySQL rows event to the     *)
(* values sent to ClickHouse: TableMapEvent and Column give the columns,   *)
(* RowsEvent reads the row images out of the packet one column at a time,  *)
(* convert_stream_event_to_log_event keeps the image that matters and      *)
(* MysqlToClickhouseConverter.convert_record converts it.  The initial     *)
(* copy sends the same rows through the same converter, but reads them     *)
(* with MySQLApi.get_records; both paths write the same ClickHouse table,  *)
(* and a DELETE there has to name the rows they wrote.                     *)
(*                                                                         *)
(* Bytes are numbers in 0..255.  A value is a tuple that starts with the   *)
(* name of its (Python or MySQL) type, because the converter asks for it.  *)
(* The stream never enables the optional table metadata (binlogstream.py,  *)
(* l.258 and 316), so every integer is read as signed, SET values are bit  *)
(* masks and text is bytes; the converter has to make up for that.         *)
(***************************************************************************)
EXTENDS MySQLRows

CONSTANTS
    Events,         \* the rows events MySQL may write, see MCRowPipeline
    types_mapping,  \* config.types_mapping, a function from declared types
    Zones,          \* the settings of time zones, see ZonesAssumption
    IsUtf8(_)       \* bytes.decode("utf-8") accepts the bytes

None == <<"none">>

\* The byte with the sign of an integer of so many bytes.
TopByte(n, size) ==
    CASE size = 1 -> n
      [] size = 2 -> n \div 256
      [] size = 3 -> n \div 65536
      [] size = 4 -> (n \div 65536) \div 256
      [] size = 8 -> (((n \div 65536) \div 65536) \div 65536) \div 256

IntegerBytes == [tinyint |-> 1, smallint |-> 2, mediumint |-> 3, int |-> 4, bigint |-> 8]

TextFields == {"char", "char(36)", "varchar", "text"}

MappedToUUID(c) == c.field \in DOMAIN types_mapping /\ types_mapping[c.field] = "UUID"

\* What MySQL stores in a column, as far as the converter tells it apart: an
\* integer in the range of its type (SHOW CREATE TABLE has no display width
\* for unsigned types, so a tinyint(1) is signed), the number of a member of
\* an ENUM, text of a declared type, a whole UUID where one is mapped.
Stored(c, v) ==
    \/ v = Null
    \/ /\ v[1] = "int" /\ v = <<"int", v[2]>> /\ v[2] \in Int /\ c.unsigned \in BOOLEAN
       /\ \/ c.field \in DOMAIN IntegerBytes /\ c.n[1] = IntegerBytes[c.field]
          \/ c.field = "tinyint(1)" /\ c.n[1] = 1 /\ ~c.unsigned
       /\ TopByte(v[2], c.n[1]) \in IF c.unsigned THEN 0..255 ELSE -128..127
    \/ v[1] = "year" /\ v = <<"year", v[2]>> /\ c.field = "year" /\ v[2] \in {0} \cup 1901..2155
    \/ v[1] = "enum" /\ v = <<"enum", v[2]>> /\ c.field = "enum" /\ v[2] \in {0} \cup DOMAIN c.members
    \/ v[1] = "set" /\ c.field = "set" /\ v[2] \in Nat
    \/ /\ v[1] = "bytes" /\ v = <<"bytes", v[2]>>
       /\ c.field \in {"blob", "binary", "varbinary", "point"} \cup TextFields
       /\ MappedToUUID(c) => Len(v[2]) = 36
    \/ v[1] = "json" /\ v = <<"json", v[2]>> /\ c.field = "json" /\ v[2] # <<>>
       /\ \A i \in DOMAIN v[2] : v[2][i] \in JsonDocument
    \/ v[1] \in {"decimal", "date", "datetime", "timestamp", "time"} /\ c.field = v[1]
    \/ v[1] = "float" /\ c.field \in {"float", "double"}
    \/ v[1] = "bit" /\ c.field = "bit(1)"

\* The images of an event hold stored values; those of a delete have the
\* primary key, which is never NULL.  types_mapping maps text to text or to UUID.
ASSUME EventsAssumption ==
    /\ \A e \in Events :
          /\ Len(e.table) \in Nat /\ DOMAIN e.table = 1..Len(e.table)
          /\ Len(e.present) \in Nat \ {0}
          /\ DOMAIN e.rows = 1..Len(e.rows)
          /\ \A i \in 1..Len(e.present) : e.present[i] \subseteq DOMAIN e.table
          /\ \A r \in DOMAIN e.rows : \A i \in 1..Len(e.present) : \A k \in e.present[i] :
               k \in DOMAIN e.rows[r][i] /\ Stored(e.table[k], e.rows[r][i][k])
          /\ e.kind = "delete" =>
               /\ Len(e.present) = 1
               /\ \A k \in DOMAIN e.table : e.table[k].key =>
                     k \in e.present[1] /\ \A r \in DOMAIN e.rows : e.rows[r][1][k] # Null
    /\ DOMAIN types_mapping \subseteq TextFields
    /\ \A f \in DOMAIN types_mapping : types_mapping[f] \in {"String", "UUID"}

\* config.mysql_timezone; the zones of the MySQL server and of the process
\* (datetime.timestamp() takes a naive datetime for local time); the clocks of
\* no zone for which timestamp() raises, at the ends of the calendar.
ASSUME ZonesAssumption ==
    /\ \A z \in Zones : {z.mysql_timezone, z.server_timezone, z.local_timezone}
                             \subseteq DOMAIN RepeatedHours
    /\ \A z \in Zones : \A clock \in z.refused : clock[1] = "datetime"
    /\ "UTC" \in DOMAIN RepeatedHours /\ RepeatedHours["UTC"] = {}
    /\ {"datetime", "naive"} \cap DOMAIN RepeatedHours = {}

ChecksumLength == 4

VARIABLES
    written,      \* the event, as MySQL wrote it
    packet,       \* the bytes of the rows event, checksum included
    read_bytes,   \* packet.read_bytes
    metadata,     \* the unread column metadata of the table map event
    columns,      \* table_map[table_id].columns, as far as they are read
    bitmaps,      \* columns_present_bitmap(2), one for each image of a row
    image,        \* the image of the row that is read
    null_bitmap, null_bitmap_index,
    values,       \* the values of the image read so far
    images,       \* the images of the row read so far
    rows,         \* event.rows
    records,      \* the records handed to ClickHouse, or the keys to erase
    stage

vars == <<written, packet, read_bytes, metadata, columns, bitmaps, image, null_bitmap,
          null_bitmap_index, values, images, rows, records, stage>>

(***************************************************************************)
(* Reading numbers out of bytes                                            *)
(***************************************************************************)
Accumulate(base, first, digits) == FoldLeft(LAMBDA a, b : base * a + b, first, digits)

\* struct ">b", ">h", ">i", read_int24_be: big endian, two's complement.
read_int_be(b) ==
    Accumulate(256, IF b[1] >= 128 THEN b[1] - 256 ELSE b[1], Tail(b))

\* struct "<b", "<h", "<i", "<q", read_int24: little endian, two's complement.
read_int(b) == read_int_be(Reverse(b))

\* read_uint8/16/24: little endian, unsigned.
read_uint(b) == Accumulate(256, 0, Reverse(b))

Bit(n, position) == (n \div 2^position) % 2

BitGet(bitmap, position) == Bit(bitmap[position \div 8 + 1], position % 8)

BitCount(bitmap) == Cardinality({p \in 0..8 * Len(bitmap) - 1 : BitGet(bitmap, p) = 1})

Bits(b) == [i \in 1..8 * Len(b) |-> Bit(b[(i - 1) \div 8 + 1], 7 - ((i - 1) % 8))]

read_binary_slice(bits, start, size) == Accumulate(2, 0, SubSeq(bits, start + 1, start + size))

\* A signed number of 24 bits, as bits.
Bits24(n) == [i \in 1..24 |-> Bit(n, 24 - i)]

\* packet.read: past the end there is nothing, see Raises.
Bytes(p, from, n) == [i \in 1..n |-> IF from + i <= Len(p) THEN p[from + i] ELSE 0]

(***************************************************************************)
(* The columns of the table map event                                      *)
(***************************************************************************)
\* The number of bytes of metadata that Column reads for a type.
MetadataSize(type) ==
    CASE type \in {"VARCHAR", "STRING", "NEWDECIMAL", "BIT"} -> 2
      [] type \in {"FLOAT", "DOUBLE", "TIMESTAMP2", "DATETIME2", "TIME2", "BLOB",
                   "GEOMETRY", "JSON"} -> 1
      [] OTHER -> 0

\* ENUM and SET hide behind the type STRING: the first byte is the real type.
RealType(b) == IF b = 247 THEN "ENUM" ELSE IF b = 248 THEN "SET" ELSE "STRING"

read_string_metadata(m) ==
    IF RealType(m[1]) # "STRING"
    THEN [type |-> RealType(m[1]), size |-> m[2]]
    ELSE [type |-> "STRING",
          max_length |-> 256 * (3 - ((m[1] \div 16) % 4)) + m[2]]

Column(type, m) ==
    CASE type = "STRING" -> read_string_metadata(m)
      [] type = "VARCHAR" -> [type |-> type, max_length |-> m[1] + 256 * m[2]]
      [] type = "NEWDECIMAL" -> [type |-> type, precision |-> m[1], decimals |-> m[2]]
      [] type = "BIT" -> [type |-> type, bits |-> 8 * m[2] + m[1]]
      [] type \in {"TIMESTAMP2", "DATETIME2", "TIME2"} -> [type |-> type, fsp |-> m[1]]
      [] type \in {"BLOB", "GEOMETRY", "JSON"} -> [type |-> type, length_size |-> m[1]]
      [] OTHER -> [type |-> type]

(***************************************************************************)
(* The values of a row: a reader returns the value and the bytes it took   *)
(***************************************************************************)
Got(value, size) == [value |-> value, size |-> size]

FspSize(fsp) == (fsp + 1) \div 2

\* int(n / 10): towards zero.
Tenth(n) == IF n < 0 THEN -((-n) \div 10) ELSE n \div 10

read_fsp(c, p, at) ==
    IF FspSize(c.fsp) = 0 THEN 0
    ELSE LET n == read_int_be(Bytes(p, at, FspSize(c.fsp)))
         IN  (IF c.fsp % 2 = 1 THEN Tenth(n) ELSE n) * 10^(6 - c.fsp)

\* A duration, with its sign kept apart (timedelta normalises the fraction).
Duration(sign, seconds, micros) ==
    IF micros < 0 THEN <<"timedelta", sign, seconds - 1, micros + 1000000>>
                  ELSE <<"timedelta", sign, seconds, micros>>

read_time2(c, p) ==
    LET data == read_int_be(Bytes(p, 0, 3))
        sign == IF read_binary_slice(Bits24(data), 0, 1) = 1 THEN 1 ELSE -1
        bits == Bits24(IF sign = 1 THEN data ELSE -data)
    IN  Got(Duration(sign,
                     3600 * read_binary_slice(bits, 2, 10) + 60 * read_binary_slice(bits, 12, 6)
                        + read_binary_slice(bits, 18, 6),
                     read_fsp(c, p, 3)),
            3 + FspSize(c.fsp))

\* datetime.datetime and datetime.date take no year, month or day 0.
ValidDate(y, m, d) == y > 0 /\ m \in 1..12 /\ d \in 1..31

read_date(p) ==
    LET t == read_uint(Bytes(p, 0, 3))
        y == t \div 512
        m == (t \div 32) % 16
        d == t % 32
    IN  Got(IF ValidDate(y, m, d) THEN <<"date", y, m, d>> ELSE None, 3)

\* The fraction is read even when datetime.datetime refuses the date.
read_datetime2(c, p) ==
    LET bits  == Bits(Bytes(p, 0, 5))
        ym    == read_binary_slice(bits, 1, 17)
        day   == read_binary_slice(bits, 18, 5)
        valid == ValidDate(ym \div 13, ym % 13, day)
    IN  Got(IF valid
            THEN Naive(<<"datetime", ym \div 13, ym % 13, day, read_binary_slice(bits, 23, 5),
                         read_binary_slice(bits, 28, 6), read_binary_slice(bits, 34, 6),
                         read_fsp(c, p, 5)>>)
            ELSE None,
            5 + FspSize(c.fsp))

\* datetime.utcfromtimestamp: the clock of UTC.
read_timestamp2(c, p) ==
    Got(Naive(Clock("UTC", read_int_be(Bytes(p, 0, 4)), read_fsp(c, p, 4))), 4 + FspSize(c.fsp))

\* The groups of digits of a DECIMAL: nine digits in four bytes, and fewer at
\* both ends in as many bytes as compressed_bytes says.
compressed_bytes(digits) ==
    CASE digits = 0 -> 0 [] digits \in {1, 2} -> 1 [] digits \in {3, 4} -> 2
      [] digits \in {5, 6} -> 3 [] OTHER -> 4

GroupSizes(precision, decimals) ==
    LET integral == precision - decimals
        full(n)  == [i \in 1..n \div 9 |-> 4]
        rest(n)  == IF n % 9 = 0 THEN <<>> ELSE <<compressed_bytes(n % 9)>>
    IN  rest(integral) \o full(integral) \o full(decimals) \o rest(decimals)

PrefixSum(sizes, n) == Accumulate(1, 0, SubSeq(sizes, 1, n))

\* The sign is the high bit of the first byte, which is flipped and put back
\* (unread); a negative number has every group complemented (mask = -1).
read_new_decimal(c, p) ==
    LET sizes == GroupSizes(c.precision, c.decimals)
        size  == PrefixSum(sizes, Len(sizes))
        flip  == [Bytes(p, 0, size) EXCEPT ![1] = (@ + 128) % 256]
        neg   == flip[1] >= 128
        group(i) == read_int_be(Bytes(flip, PrefixSum(sizes, i - 1), sizes[i]))
    IN  Got(<<"decimal", neg,
              [i \in 1..Len(sizes) |-> IF neg THEN -group(i) - 1 ELSE group(i)]>>,
            size)

\* The characters of a BIT(n), most significant first; the first byte is the
\* short one.
read_bit(c, p) ==
    LET size == (c.bits + 7) \div 8
        bits == Bits(Bytes(p, 0, size))
    IN  Got(<<"str", SubSeq(bits, 8 * size - c.bits + 1, 8 * size)>>, size)

read_length_coded_pascal_string(size, p) ==
    LET length == read_uint(Bytes(p, 0, size))
    IN  Got(<<"bytes", Bytes(p, size, length)>>, size + length)

\* parse_scalar prints a double with std::to_string (six decimals) and get_key
\* prints a key as it is; everything else comes out as the server prints it.
JsonText(token) ==
    CASE token = JsonDouble -> <<"to_string", token>>
      [] token = JsonKeyEscaped -> <<"unescaped", token>>
      [] OTHER -> <<"text", token>>

\* parse_mysql_json throws "invalid scalar type", which nothing catches.
Thrown == <<"thrown">>

read_binary_json(size, p) ==
    LET s == read_length_coded_pascal_string(size, p)
        data == s.value[2]
    IN  CASE data = <<>> -> Got(None, s.size)
          [] ToSet(data) \ (JsonDocument \ {JsonOpaque}) # {} -> Got(Thrown, s.size)
          [] OTHER -> Got(<<"str", [i \in DOMAIN data |-> JsonText(data[i])]>>, s.size)

StringSize(max_length) == IF max_length > 255 THEN 2 ELSE 1

IntegerSize == [TINY |-> 1, SHORT |-> 2, INT24 |-> 3, LONG |-> 4, LONGLONG |-> 8]

read_values_name(c, p) ==
    CASE c.type \in DOMAIN IntegerSize ->
           Got(<<"int", read_int(Bytes(p, 0, IntegerSize[c.type]))>>, IntegerSize[c.type])
      [] c.type = "FLOAT" -> Got(<<"float", Bytes(p, 0, 4)>>, 4)
      [] c.type = "DOUBLE" -> Got(<<"float", Bytes(p, 0, 8)>>, 8)
      [] c.type \in {"VARCHAR", "STRING"} ->
           read_length_coded_pascal_string(StringSize(c.max_length), p)
      [] c.type \in {"BLOB", "GEOMETRY"} -> read_length_coded_pascal_string(c.length_size, p)
      [] c.type = "JSON" -> read_binary_json(c.length_size, p)
      [] c.type = "NEWDECIMAL" -> read_new_decimal(c, p)
      [] c.type = "DATE" -> read_date(p)
      [] c.type = "DATETIME2" -> read_datetime2(c, p)
      [] c.type = "TIME2" -> read_time2(c, p)
      [] c.type = "TIMESTAMP2" -> read_timestamp2(c, p)
      [] c.type = "YEAR" -> Got(<<"int", read_uint(Bytes(p, 0, 1)) + 1900>>, 1)
      [] c.type \in {"ENUM", "SET"} -> Got(<<"int", read_uint(Bytes(p, 0, c.size))>>, c.size)
      [] c.type = "BIT" -> read_bit(c, p)

(***************************************************************************)
(* The schema side: the converter knows a column by its declaration        *)
(***************************************************************************)
\* convert_type: the ClickHouse type of a declared type.  The DateTime64 of a
\* timestamp names mysql_timezone, which changes how it is shown.
convert_type(d) ==
    IF d.field \in DOMAIN types_mapping THEN types_mapping[d.field] ELSE
    CASE d.field \in {"tinyint(1)", "bit(1)"} -> "Bool"
      [] d.field = "tinyint" -> IF d.unsigned THEN "UInt8" ELSE "Int8"
      [] d.field = "smallint" -> IF d.unsigned THEN "UInt16" ELSE "Int16"
      [] d.field \in {"mediumint", "int"} -> IF d.unsigned THEN "UInt32" ELSE "Int32"
      [] d.field = "bigint" -> IF d.unsigned THEN "UInt64" ELSE "Int64"
      [] d.field = "year" -> "UInt16"
      [] d.field \in {"double", "decimal"} -> "Float64"
      [] d.field = "float" -> "Float32"
      [] d.field = "date" -> "Date32"
      [] d.field \in {"datetime", "timestamp"} -> "DateTime64"
      [] d.field = "enum" -> "Enum8"
      [] d.field = "point" -> "Tuple"
      [] OTHER -> "String"     \* time, char, varchar, text, blob, (var)binary, json, set

\* convert_field_type: a Tuple cannot be Nullable.
Nullable(d) == ~d.notnull /\ convert_type(d) # "Tuple"

\* __get_default_value_for_type_python, for the types convert_type gives.
Epoch == Naive(<<"datetime", 1970, 1, 1, 0, 0, 0, 0>>)

DefaultValue(d) ==
    LET t == convert_type(d) IN
    CASE t \in {"Float32", "Float64"} -> <<"float", <<>>>>
      [] t = "Bool" -> <<"bool", FALSE>>
      [] t = "Date32" -> <<"date", 1970, 1, 1>>
      [] t = "DateTime64" -> Epoch
      [] t = "Enum8" -> <<"str", <<"lower", d.members[1]>>>>
      [] t = "UUID" -> <<"str", <<"uuid", <<>>>>>>
      [] t = "String" -> <<"str", <<>>>>
      [] OTHER -> <<"int", 0>>

(***************************************************************************)
(* convert_record, one value at a time                                     *)
(***************************************************************************)
\* str(value) and json.dumps(value) are applied to NULL as well.
AsText(d, v) ==
    CASE d.field = "time" -> <<"str", v>>
      [] d.field = "json" /\ v[1] # "str" -> <<"str", <<"json", v>>>>
      [] OTHER -> v

\* parse_mysql_point: 25 bytes with the SRID, or 21 without; the coordinates
\* come last.
Coordinates(b) ==
    <<"tuple", SubSeq(b, Len(b) - 15, Len(b) - 8), SubSeq(b, Len(b) - 7, Len(b))>>

ParsePoint(d, v) ==
    IF d.field # "point" THEN v
    ELSE IF v = None THEN <<"tuple", <<0>>, <<0>>>> ELSE Coordinates(v[2])

\* EnumConverter.convert_mysql_to_clickhouse_enum.  What is not a member is
\* returned unchanged.
ConvertEnum(d, v) ==
    CASE d.field = "enum" /\ v[1] = "int" /\ v[2] \in DOMAIN d.members ->
           <<"str", <<"lower", d.members[v[2]]>>>>
      [] d.field = "enum" /\ v[1] = "str" /\ v[2] \in ToSet(d.members) ->
           <<"str", <<"lower", v[2]>>>>
      [] OTHER -> v

\* Mutant: the last year is left out.
ClampYearShort(d, v) ==
    IF d.field = "year" /\ v # None
    THEN <<"int", IF v[2] < 1901 THEN 1901 ELSE IF v[2] > 2154 THEN 2154 ELSE v[2]>>
    ELSE v

ClampYear(d, v) ==
    IF d.field = "year" /\ v # None
    THEN <<"int", IF v[2] < 1901 THEN 1901 ELSE IF v[2] > 2155 THEN 2155 ELSE v[2]>>
    ELSE v

\* What convert_record adds to a negative number; 0: nothing.
Modulus(d) ==
    LET t == convert_type(d) IN
    CASE t = "UInt8" -> 256
      [] t = "UInt16" -> 65536
      [] d.field = "mediumint" -> 16777216
      [] t = "UInt32" /\ d.field # "mediumint" -> 65536 * 65536
      [] t = "UInt64" -> 65536 * 65536 * 65536 * 65536
      [] OTHER -> 0

\* Mutant: the numbers of 16 bits are taken for numbers of 8.
RestoreUnsignedShort(d, n) ==
    IF n >= 0 THEN n ELSE IF convert_type(d) = "UInt16" THEN n + 256 ELSE n + Modulus(d)

RestoreUnsigned(d, n) == IF n >= 0 THEN n ELSE n + Modulus(d)

Members(d, bit_mask) ==
    {d.members[i] : i \in {j \in DOMAIN d.members : Bit(bit_mask, j - 1) = 1}}

JoinSet(d, v) ==
    LET chosen == IF v[1] = "int" THEN Members(d, v[2]) ELSE v[2]
    IN  <<"str", SelectSeq(d.members, LAMBDA m : m \in chosen)>>

\* The branch for values other than None.
ConvertPresent(d, v) ==
    IF convert_type(d) = "UUID" /\ Len(v[2]) = 36 THEN <<"bytes", <<"uuid", v[2]>>>> ELSE
    CASE v[1] = "int" /\ d.field # "set" -> <<"int", RestoreUnsigned(d, v[2])>>
      [] v[1] = "bytes" /\ d.field \in TextFields
         /\ convert_type(d) = "String" -> <<"str", v[2]>>
      [] d.field = "set" -> JoinSet(d, v)
      [] OTHER -> v

convert_value(d, v) ==
    LET w == ClampYear(d, ConvertEnum(d, ParsePoint(d, AsText(d, v)))) IN
    IF w # None THEN ConvertPresent(d, w)
    ELSE IF Nullable(d) THEN None ELSE DefaultValue(d)

\* convert_record with only_primary leaves the other columns as they are.
convert_record(table, record, only) ==
    [i \in DOMAIN record |-> IF i \in only THEN convert_value(table[i], record[i]) ELSE record[i]]

\* primary_key_ids
KeyColumns(table) == {i \in DOMAIN table : table[i].key}

\* _get_record_id: the bytes of a UUID become a uuid.UUID.
RecordPart(d, v) ==
    IF v[1] = "bytes" /\ convert_type(d) = "UUID" THEN <<"uuid", v[2]>> ELSE v

RecordId(table, record) == [k \in KeyColumns(table) |-> RecordPart(table[k], record[k])]

(***************************************************************************)
(* MySQLApi.get_records, ClickhouseApi.insert and ClickhouseApi.erase      *)
(***************************************************************************)
\* reconnect_if_required sets the time zone of the session, but not to UTC.
SessionZone(z) == IF z.mysql_timezone # "UTC" THEN z.mysql_timezone ELSE z.server_timezone

\* Every datetime is taken for one of mysql_timezone, a DATETIME as well.
get_records(z, c, v) ==
    LET selected == Selected(c, v, SessionZone(z))
    IN  IF z.mysql_timezone # "UTC" /\ selected[1] = "datetime"
        THEN <<"datetime", selected[2], z.mysql_timezone>> ELSE selected

\* insert makes a datetime of a date, and 1970 of a datetime that has no
\* timestamp or of what is no datetime in a column that needs one.
InsertValue(z, d, v) ==
    LET e == IF v[1] = "date" THEN Naive(<<"datetime", v[2], v[3], v[4], 0, 0, 0, 0>>) ELSE v
    IN  IF \/ e[1] = "datetime" /\ e = Naive(e[2]) /\ e[2] \in z.refused
           \/ e[1] # "datetime" /\ convert_type(d) \in {"DateTime64", "Date32"} /\ ~Nullable(d)
        THEN Epoch ELSE e

\* A clock that is read in a zone: the moment, if it is a clock of that zone.
ReadIn(clock, zone) ==
    IF clock[1] = zone THEN <<"moment", "UTC", clock[2], clock[3]>> ELSE <<"reading", clock, zone>>

\* What the ClickHouse client writes: for a datetime, its timestamp().
Arrives(z, d, v) ==
    LET e == InsertValue(z, d, v)
    IN  IF e[1] = "datetime" /\ convert_type(d) = "DateTime64"
        THEN ReadIn(e[2], IF e = Naive(e[2]) THEN z.local_timezone ELSE e[3]) ELSE e

\* Mutant: a UUID is not quoted.
UnquotedDeleteValue(v) ==
    CASE v[1] = "str" \/ (v[1] = "bytes" /\ IsUtf8(v[2])) -> <<"quoted", v[2]>>
      [] v[1] = "bytes" /\ ~IsUtf8(v[2]) -> <<"refused">>
      [] OTHER -> <<"plain", v>>

\* _format_delete_value: what a part of a key becomes in the DELETE.  Unquoted,
\* 2024-02-29 is the number 1993, and no clock follows it.
format_delete_value(v) ==
    CASE v[1] \in {"str", "uuid"} \/ (v[1] = "bytes" /\ IsUtf8(v[2])) -> <<"quoted", v[2]>>
      [] v[1] = "bytes" /\ ~IsUtf8(v[2]) -> <<"refused">>     \* decode raises
      [] v[1] = "date" -> <<"plain", <<"int", v[2] - v[3] - v[4]>>>>
      [] v[1] = "datetime" -> <<"refused">>                   \* by ClickHouse
      [] OTHER -> <<"plain", v>>

\* ClickHouse finds a stored value by what stands in the DELETE.
Finds(literal, stored) ==
    \/ literal[1] = "quoted" /\ stored \in {<<"str", literal[2]>>, <<"bytes", literal[2]>>}
    \/ literal[1] = "plain" /\ literal[2] # None /\ stored = literal[2]

(***************************************************************************)
(* Reading an event                                                        *)
(***************************************************************************)
Images == Len(written.present)

event_size == Len(packet) - ChecksumLength

Rest == SubSeq(packet, read_bytes + 1, Len(packet))

Raises(size) == read_bytes + size > Len(packet)

Init ==
    /\ written \in Events
    /\ packet = EncodeEvent(written) \o [i \in 1..ChecksumLength |-> 1]
    /\ read_bytes = 0
    /\ metadata = FlattenSeq([i \in DOMAIN written.table |-> written.table[i].meta])
    /\ columns = <<>> /\ bitmaps = <<>>
    /\ image = 1 /\ null_bitmap = <<>> /\ null_bitmap_index = 0
    /\ values = <<>> /\ images = <<>> /\ rows = <<>> /\ records = <<>>
    /\ stage = "table_map"

\* TableMapEvent: the metadata of the columns, one column after the other.
ReadColumnDefinition ==
    /\ stage = "table_map"
    /\ Len(columns) < Len(written.table)
    /\ LET type == written.table[Len(columns) + 1].type
       IN  /\ columns' = Append(columns, Column(type, SubSeq(metadata, 1, MetadataSize(type))))
           /\ metadata' = SubSeq(metadata, MetadataSize(type) + 1, Len(metadata))
    /\ UNCHANGED <<written, packet, read_bytes, bitmaps, image, null_bitmap, null_bitmap_index,
                   values, images, rows, records, stage>>

\* The flags and the extra information of a version 2 event.
ExtraDataSize ==
    LET length == read_uint(Bytes(Rest, 2, 2))
        type == Rest[5]
    IN  CASE written.extra = "v1" -> 2
          [] written.extra # "v1" /\ length <= 2 -> 4
          [] written.extra # "v1" /\ length > 2 /\ type = 0 -> 5 + Rest[6]
          [] written.extra # "v1" /\ length > 2 /\ type = 1 -> IF written.kind = "update" THEN 9 ELSE 7
          [] OTHER -> 4 + length - 2

\* RowsEvent.__init__, then the bitmaps of the Write, Delete or Update event.
ReadHeader ==
    /\ stage = "table_map"
    /\ Len(columns) = Len(written.table)
    /\ LET size == (Rest[ExtraDataSize + 1] + 7) \div 8
       IN  /\ bitmaps' = [i \in 1..Images |-> Bytes(Rest, ExtraDataSize + 1 + (i - 1) * size, size)]
           /\ read_bytes' = read_bytes + ExtraDataSize + 1 + Images * size
    /\ stage' = "image"
    /\ UNCHANGED <<written, packet, metadata, columns, image, null_bitmap, null_bitmap_index,
                   values, images, rows, records>>

\* _read_column_data begins: the NULL bitmap has a bit for each present column.
ReadNullBitmap ==
    /\ stage = "image"
    /\ image = 1 => read_bytes < event_size
    /\ LET size == (BitCount(bitmaps[image]) + 7) \div 8
       IN  /\ null_bitmap' = Bytes(Rest, 0, size)
           /\ read_bytes' = read_bytes + size
           /\ stage' = IF Raises(size) THEN "raised" ELSE "column"
    /\ null_bitmap_index' = 0
    /\ values' = <<>>
    /\ UNCHANGED <<written, packet, metadata, columns, bitmaps, image, images, rows, records>>

IsPresent(i) == BitGet(bitmaps[image], i - 1) = 1

\* Mutant: the NULL bits are counted over all columns.
NextNullIndexAll(i) == null_bitmap_index + 1

NextNullIndex(i) == IF IsPresent(i) THEN null_bitmap_index + 1 ELSE null_bitmap_index

ReadColumn ==
    /\ stage = "column"
    /\ Len(values) < Len(columns)
    /\ LET i == Len(values) + 1
           is_null == IsPresent(i) /\ BitGet(null_bitmap, null_bitmap_index) = 1
           got == IF ~IsPresent(i) \/ is_null THEN Got(None, 0)
                  ELSE read_values_name(columns[i], Rest)
       IN  /\ values' = Append(values, got.value)
           /\ read_bytes' = read_bytes + got.size
           /\ stage' = IF Raises(got.size) \/ got.value = Thrown THEN "raised" ELSE "column"
           /\ null_bitmap_index' = NextNullIndex(i)
    /\ UNCHANGED <<written, packet, metadata, columns, bitmaps, image, null_bitmap, images,
                   rows, records>>

\* _fetch_one_row and the loop of _fetch_rows.
EndImage ==
    /\ stage = "column"
    /\ Len(values) = Len(columns)
    /\ IF image < Images
       THEN /\ image' = image + 1
            /\ images' = Append(images, values)
            /\ rows' = rows
       ELSE /\ image' = 1
            /\ images' = <<>>
            /\ rows' = Append(rows, Append(images, values))
    /\ stage' = "image"
    /\ UNCHANGED <<written, packet, read_bytes, metadata, columns, bitmaps, null_bitmap,
                   null_bitmap_index, values, records>>

\* convert_stream_event_to_log_event keeps the last image of each row;
\* handle_insert_event converts it whole, handle_erase_event only its key.
Convert ==
    /\ stage = "image"
    /\ image = 1 /\ read_bytes >= event_size
    /\ records' = [r \in DOMAIN rows |->
                      LET table == written.table
                          vals  == rows[r][Images]
                      IN  IF written.kind = "delete"
                          THEN RecordId(table, convert_record(table, vals, KeyColumns(table)))
                          ELSE convert_record(table, vals, DOMAIN table)]
    /\ stage' = "done"
    /\ UNCHANGED <<written, packet, read_bytes, metadata, columns, bitmaps, image, null_bitmap,
                   null_bitmap_index, values, images, rows>>

Next == ReadColumnDefinition \/ ReadHeader \/ ReadNullBitmap \/ ReadColumn \/ EndImage \/ Convert

Spec == Init /\ [][Next]_vars

(***************************************************************************)
(* Properties                                                              *)
(***************************************************************************)
\* A negative TIME with a fraction: __read_time2 takes the complement of the
\* whole seconds alone, and -1.10 becomes -1.90.
TimeMisread(c, v) == v[1] = "time" /\ v[2] = -1 /\ v[4] > 0

\* The two's complement reading of an unsigned number.
AsSigned(n, size) ==
    IF TopByte(n, size) < 128 THEN n
    ELSE CASE size = 1 -> n - 256
           [] size = 2 -> n - 65536
           [] size = 3 -> n - 16777216
           [] size = 4 -> n - 65536 * 65536
           [] size = 8 -> n - 65536 * 65536 * 65536 * 65536

\* The Python value that stands for a MySQL value when nothing is known of
\* the column but its type.
PythonValue(c, v) ==
    CASE v = Null -> None
      [] v[1] = "int" -> <<"int", AsSigned(v[2], c.n[1])>>
      [] v[1] \in {"enum", "set"} -> <<"int", v[2]>>
      [] v[1] = "year" -> <<"int", IF v[2] = 0 THEN 1900 ELSE v[2]>>
      [] v[1] = "bit" -> <<"str", <<v[2]>>>>
      [] v[1] = "bytes" -> <<"bytes", BytesWritten(c, v[2])>>
      [] v[1] = "json" -> <<"str", [i \in DOMAIN v[2] |-> JsonText(v[2][i])]>>
      [] v[1] = "timestamp" -> Naive(Clock("UTC", v[2], v[3]))
      [] OTHER -> Selected(c, v, "UTC")

\* A JSON document with a date, a time or a DECIMAL stops the decoder.
JsonThrows(v) == v[1] = "json" /\ JsonOpaque \in ToSet(v[2])

\* Every row comes out of the packet as MySQL put it in, whatever columns are
\* absent or NULL and whatever their neighbours are: _read_column_data takes
\* the NULL bits and the bytes of a value from where they belong, and an absent
\* column reads as None.  The loop of _fetch_rows ends exactly at the end of
\* the event, with all its rows: the decoder neither runs into the checksum nor
\* leaves bytes behind, and it raises at no value but a JSON document with an
\* opaque scalar.
RowsDecoded ==
    /\ \A r \in DOMAIN rows, i \in 1..Images : \A k \in DOMAIN columns :
          LET c == written.table[k]
              v == written.rows[r][i][k]
          IN  \/ rows[r][i][k] = IF k \in written.present[i] THEN PythonValue(c, v) ELSE None
              \/ TimeMisread(c, v)
    /\ stage = "raised" =>
          values # <<>> /\ JsonThrows(written.rows[Len(rows) + 1][image][Len(values)])
    /\ stage \in {"image", "column"} => read_bytes <= event_size
    /\ stage = "done" => /\ read_bytes = event_size
                         /\ Len(rows) = Len(written.rows)
                         /\ metadata = <<>>

\* What the initial copy brings into ClickHouse for the same value.
Copied(z, c, v) == Arrives(z, c, convert_value(c, get_records(z, c, v)))

\* The two paths have the same moment for a TIMESTAMP only if the binlog's
\* clock of UTC and the session's clock are read in the zones they are of; in
\* the repeated hour get_records takes the first of two moments.
TimestampDiffers(z, t) ==
    \/ t = 0
    \/ IF z.mysql_timezone = "UTC" THEN z.server_timezone # "UTC"
       ELSE z.local_timezone # "UTC" \/ t \in RepeatedHours[z.mysql_timezone]

\* Where the two paths differ.  A TIME is misread; the ENUM value '' is the
\* index 0 in the binlog, a BIT a string of digits; BINARY loses its last
\* zeros; JSON doubles and some keys are printed differently.  With a
\* mysql_timezone a DATETIME is right on both paths only in the local zone,
\* and a TIMESTAMP only if the local zone is UTC.
PathsDiffer(z, c, v) ==
    \/ TimeMisread(c, v)
    \/ v = <<"enum", 0>>
    \/ v[1] = "bit"
    \/ v[1] = "bytes" /\ BytesWritten(c, v[2]) # v[2]
    \/ v[1] = "json" /\ ToSet(v[2]) \cap {JsonDouble, JsonKeyEscaped, JsonOpaque} # {}
    \/ v[1] = "timestamp" /\ TimestampDiffers(z, v[2])
    \/ /\ v[1] = "datetime" /\ z.mysql_timezone # "UTC"
       /\ z.local_timezone # z.mysql_timezone \/ v \in z.refused

\* The binlog and the initial copy bring the same value of a present column
\* into ClickHouse: a row that is copied and later updated does not change in
\* the columns the update left alone (convert_record makes up for the signed
\* reading of integers, the numbers of ENUM and SET values and the bytes),
\* but for the values PathsDiffer names.
PathsAgree ==
    stage = "done" /\ written.kind # "delete" =>
        \A z \in Zones, r \in DOMAIN rows : \A k \in written.present[Images] :
            LET c == written.table[k]
                v == written.rows[r][Images][k]
            IN  Arrives(z, c, records[r][k]) = Copied(z, c, v) \/ PathsDiffer(z, c, v)

\* Keys that the DELETE does not name: dates and times, and bytes that are not
\* text.
KeyUnnamed(c, v) ==
    \/ v[1] \in {"date", "datetime", "timestamp"}
    \/ v[1] = "bytes" /\ c.field \in {"blob", "binary", "varbinary", "point"}
       /\ ~IsUtf8(BytesWritten(c, v[2]))

\* The DELETE that erase sends for a key finds, in every key column, the value
\* that the binlog and the initial copy brought into ClickHouse: only_primary
\* converts the key columns, the image of a delete always has them, and
\* _format_delete_value writes them as ClickHouse reads them, but for KeyUnnamed.
KeysErased ==
    stage = "done" /\ written.kind = "delete" =>
        \A z \in Zones, r \in DOMAIN rows, k \in KeyColumns(written.table) :
            LET c == written.table[k]
                v == written.rows[r][1][k]
                literal == format_delete_value(records[r][k])
            IN  \/ KeyUnnamed(c, v) \/ TimeMisread(c, v)
                \/ /\ Finds(literal, Arrives(z, c, convert_value(c, PythonValue(c, v))))
                   /\ Finds(literal, Copied(z, c, v)) \/ PathsDiffer(z, c, v)

\* Signed MEDIUMINT: convert_record takes every negative one for unsigned.
MediumintMisread(c, v) == c.field = "mediumint" /\ ~c.unsigned /\ v[1] = "int" /\ v[2] < 0

\* A number, a NULL or a year arrives in ClickHouse as it is in MySQL, for the
\* signed and the unsigned integers of every size; but not a negative signed
\* MEDIUMINT, the year 0, or the NULL of a TIME ("None") or JSON ("null").
NumbersArrive ==
    stage = "done" /\ written.kind # "delete" =>
        \A z \in Zones, r \in DOMAIN rows : \A k \in written.present[Images] :
            LET c == written.table[k]
                v == written.rows[r][Images][k]
            IN  /\ v[1] \in {"int", "year"} /\ v # <<"year", 0>> /\ ~MediumintMisread(c, v) =>
                      Arrives(z, c, records[r][k]) = <<"int", v[2]>>
                /\ v = Null /\ Nullable(c) /\ c.field \notin {"time", "json"} =>
                      Arrives(z, c, records[r][k]) = None
==============================================================================
