------------------------------ MODULE MySQLRows ------------------------------
(***************************************************************************)
(* The MySQL side of the row pipeline, none of it code of this repository: *)
(* how the server lays out a rows event, and what mysql.connector returns  *)
(* for the same value in a SELECT.  The decoder and the converter of       *)
(* RowPipeline are checked against it.                                     *)
(*                                                                         *)
(* A column is declared by a record with the type code and the metadata    *)
(* bytes of the table map event (type, meta), the size of its encoding     *)
(* (n), and what the CREATE TABLE said of it (field, unsigned, notnull,    *)
(* members of an ENUM or SET, key).                                        *)
(***************************************************************************)
EXTENDS Integers, Sequences, FiniteSets, SequencesExt

CONSTANT
    RepeatedHours   \* for each time zone, the moments whose clock it has shown before

Null == <<"null">>

\* The byte of weight 256^k of a number in two's complement.
ByteOf(v, k) ==
    LET shifted[i \in 0..k] == IF i = 0 THEN v ELSE shifted[i - 1] \div 256
    IN  shifted[k] % 256

LittleEndian(v, size) == [i \in 1..size |-> ByteOf(v, i - 1)]

BigEndian(v, size) == [i \in 1..size |-> ByteOf(v, size - i)]

\* Numbers of the given widths in bits, packed into bytes.
BitsOf(v, width) == [i \in 1..width |-> (v \div 2^(width - i)) % 2]

PackBits(bits) ==
    [i \in 1..Len(bits) \div 8 |->
        FoldLeft(LAMBDA a, b : 2 * a + b, 0, SubSeq(bits, 8 * i - 7, 8 * i))]

\* A bitmap with one bit for each element of a sequence of Booleans.
Bitmap(flags) ==
    [i \in 1..(Len(flags) + 7) \div 8 |->
        FoldLeft(LAMBDA a, b : 2 * a + b, 0,
                 [j \in 1..8 |-> LET k == 8 * i + 1 - j
                                 IN  IF k <= Len(flags) THEN (IF flags[k] THEN 1 ELSE 0) ELSE 0])]

\* Fractions of seconds: two digits a byte.
Fraction(micros, fsp) == LET k == (fsp + 1) \div 2 IN BigEndian(micros \div 10^(6 - 2 * k), k)

EncodeDatetime(v, fsp) ==
    PackBits(<<1>> \o BitsOf(13 * v[2] + v[3], 17) \o BitsOf(v[4], 5) \o BitsOf(v[5], 5)
                   \o BitsOf(v[6], 6) \o BitsOf(v[7], 6)) \o Fraction(v[8], fsp)

\* <<"time", sign, seconds, micros>>: a negative time is the two's complement
\* of the whole, fraction included.
EncodeTime(v, fsp) ==
    LET packed == 4096 * (v[3] \div 3600) + 64 * ((v[3] \div 60) % 60) + (v[3] % 60)
    IN  IF v[2] = 1 THEN BigEndian(2^23 + packed, 3) \o Fraction(v[4], fsp)
        ELSE BigEndian(2^23 - packed - (IF v[4] > 0 THEN 1 ELSE 0), 3) \o Fraction(-v[4], fsp)

\* <<"decimal", negative, groups>>, sizes: the bytes of each group.
EncodeDecimal(v, sizes) ==
    LET b == FlattenSeq([i \in DOMAIN sizes |->
                            BigEndian(IF v[2] THEN -v[3][i] - 1 ELSE v[3][i], sizes[i])])
    IN  [b EXCEPT ![1] = (@ + 128) % 256]

\* BINARY(n) is written without the zeros at its end; a SELECT puts them back.
Stripped(b) == SubSeq(b, 1, Max({0} \cup {i \in DOMAIN b : b[i] # 0}))

BytesWritten(c, b) == IF c.field = "binary" THEN Stripped(b) ELSE b

\* <<"json", doc>>: the scalars and the keys of a document, in their order; the
\* brackets and separators come out the same wherever it is printed.  A scalar
\* is the number of its JSONB type, and stands for the bytes of its value; keys
\* have no type: 16 is one, 17 one with a character that JSON escapes.
JsonDouble == 11
JsonOpaque == 15      \* a date, a time, a DECIMAL
JsonKeyEscaped == 17
JsonDocument == 4..12 \cup {JsonOpaque, 16, JsonKeyEscaped}

Encode(c, v) ==
    CASE v[1] \in {"int", "enum", "set"} -> LittleEndian(v[2], c.n[1])
      [] v[1] = "year" -> <<IF v[2] = 0 THEN 0 ELSE v[2] - 1900>>
      [] v[1] = "bytes" -> LET b == BytesWritten(c, v[2]) IN LittleEndian(Len(b), c.n[1]) \o b
      [] v[1] = "json" -> LittleEndian(Len(v[2]), c.n[1]) \o v[2]
      [] v[1] = "float" -> v[2]
      [] v[1] = "bit" -> BigEndian(v[2], c.n[1])
      [] v[1] = "decimal" -> EncodeDecimal(v, c.n)
      [] v[1] = "date" -> LittleEndian(512 * v[2] + 32 * v[3] + v[4], 3)
      [] v[1] = "datetime" -> EncodeDatetime(v, c.n[1])
      [] v[1] = "timestamp" -> BigEndian(v[2], 4) \o Fraction(v[3], c.n[1])
      [] v[1] = "time" -> EncodeTime(v, c.n[1])

\* A row image: the NULL bits of the columns that are present, then the values.
EncodeImage(table, present, row) ==
    LET shown == SelectSeq([i \in DOMAIN table |-> i], LAMBDA i : i \in present)
    IN  Bitmap([k \in DOMAIN shown |-> row[shown[k]] = Null])
        \o FlattenSeq([k \in DOMAIN shown |->
               IF row[shown[k]] = Null THEN <<>> ELSE Encode(table[shown[k]], row[shown[k]])])

\* The extra row information of a version 2 event (none: only its length).
ExtraInfo(extra, kind) ==
    CASE extra = "v1" -> <<>>
      [] extra = "none" -> <<2, 0>>
      [] extra = "ndb" -> <<6, 0, 0, 3, 0, 9>>
      [] extra = "partition" -> IF kind = "update" THEN <<7, 0, 1, 1, 0, 2, 0>> ELSE <<5, 0, 1, 1, 0>>
      [] extra = "other" -> <<5, 0, 2, 7, 7>>

EncodeEvent(e) ==
    <<0, 0>> \o ExtraInfo(e.extra, e.kind) \o <<Len(e.table)>>
    \o FlattenSeq([i \in DOMAIN e.present |->
                      Bitmap([c \in DOMAIN e.table |-> c \in e.present[i]])])
    \o FlattenSeq([r \in DOMAIN e.rows |->
           FlattenSeq([i \in DOMAIN e.present |->
                          EncodeImage(e.table, e.present[i], e.rows[r][i])])])

(***************************************************************************)
(* Clocks.  The clock of a moment in a time zone is named by the zone and  *)
(* the first moment that shows it: when daylight saving time ends, an hour *)
(* is shown twice.  A DATETIME is a clock of no zone.  A Python datetime   *)
(* is <<"datetime", clock, zone>>, or "naive" for the zone.                *)
(***************************************************************************)
FirstMoment(zone, t) == IF t \in RepeatedHours[zone] THEN t - 3600 ELSE t

Clock(zone, t, micros) == <<zone, FirstMoment(zone, t), micros>>

Naive(clock) == <<"datetime", clock, "naive">>

\* What mysql.connector returns for the value, in a session with a time zone.
Selected(c, v, time_zone) ==
    CASE v = Null -> <<"none">>
      [] v[1] \in {"year", "bit"} -> <<"int", v[2]>>
      [] v[1] = "enum" -> <<"str", IF v[2] = 0 THEN "" ELSE c.members[v[2]]>>
      [] v[1] = "set" -> <<"set", {c.members[i] : i \in {j \in DOMAIN c.members :
                                        (v[2] \div 2^(j - 1)) % 2 = 1}}>>
      [] v[1] = "time" -> <<"timedelta", v[2], v[3], v[4]>>
      [] v[1] \in {"date", "datetime"} /\ 0 \in {v[2], v[3], v[4]} -> <<"none">>
      [] v[1] = "timestamp" /\ v[2] = 0 -> <<"none">>
      [] v[1] = "datetime" /\ 0 \notin {v[2], v[3], v[4]} -> Naive(v)
      [] v[1] = "timestamp" /\ v[2] # 0 -> Naive(Clock(time_zone, v[2], v[3]))
      [] v[1] = "bytes" /\ c.field \notin {"blob", "binary", "varbinary", "point"} -> <<"str", v[2]>>
      [] v[1] = "json" -> <<"str", [i \in DOMAIN v[2] |-> <<"text", v[2][i]>>]>>
      [] OTHER -> v
==============================================================================
