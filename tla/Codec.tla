-------------------------------- MODULE Codec --------------------------------
(***************************************************************************)
(* The value codec of the driver (sdk/utils/serilizer.go, null.go, time.go, *)
(* sdk/types/point.go) and of the names of types (sdk/structs/property.go): *)
(* a property is declared to the server and its type read back, or the      *)
(* application brings the type itself; then a value of it is, perhaps from  *)
(* a text, turned into bytes, kept by the server, and read back.            *)
(*                                                                          *)
(* A Go value is a record of its dynamic type and a sequence: one number    *)
(* for integers, floats (their bits) and instants, the bytes of a string,   *)
(* the fields of a time, the elements of a list.  A byte has Base values,   *)
(* an int32 Short bytes and an int64 Long bytes.                            *)
(***************************************************************************)
EXTENDS Integers, Sequences

CONSTANTS
  Base, Short, Long,  \* 256, 4 and 8 in the code
  Clock,              \* bits of hour, minute, second, microsecond: <<5, 6, 6, 24>> in the code
  Unit,               \* of a coordinate: what the six decimals of a text resolve
  Second,             \* milliseconds in a second
  Local,              \* time.Local, in seconds from UTC
  Inputs,             \* what applications write: records of a column, and a value or a text with its request
  Limit               \* the years that fit in the field of 17 bits: 10081 in the code

ASSUME CodecAssumption ==
  /\ Base \in Nat \ {0, 1} /\ Short \in Nat \ {0} /\ Long \in Nat \ {0}
  /\ Unit \in Nat \ {0} /\ Second \in Nat \ {0} /\ Limit \in Nat /\ Local \in Int
  /\ Clock \in [1 .. 4 -> Nat]

VARIABLES input, stage,
          name,    \* the type's name, as the server keeps it
          column,  \* the property's type, subtype and decimal extra, as the driver has them
          value, wire, back
vars == <<input, stage, name, column, value, wire, back>>

Go(type, v) == [go |-> type, v |-> v]
nil == Go("nil", <<>>)
error == Go("error", <<>>)
panic == Go("panic", <<>>)
-----------------------------------------------------------------------------
(* Names of types *)

\* PropertyMap and PropertyReverseMap; a type that they lack has the name "".
Named == {"STRING", "INT32", "INT64", "UINT32", "UINT64", "FLOAT", "DOUBLE", "DATETIME",
          "TIMESTAMP", "TEXT", "BLOB", "POINT", "DECIMAL", "NULL_", "BOOL"}
GetStringByPropertyType(t) == IF t \in Named THEN t ELSE ""
GetPropertyTypeByString(n) == IF n \in Named THEN n ELSE "UNSET"

\* "int32", "int32[]", "set(int32)", "decimal(5,2)": the form and its parts; an
\* error, and a decimal without its extra, which panics, have none.
Name(form, of, extra) == [form |-> form, of |-> of, extra |-> extra]
NoName == Name("", "", <<>>)
GetStringType(c) ==
  CASE c.type = "LIST" -> IF c.sub \in {"", "DECIMAL"} THEN NoName
                          ELSE Name("list", GetStringByPropertyType(c.sub), <<>>)
    [] c.type = "SET" -> IF c.sub = "" THEN NoName ELSE Name("set", GetStringByPropertyType(c.sub), <<>>)
    [] c.type = "DECIMAL" -> IF c.extra = <<>> THEN NoName ELSE Name("decimal", "DECIMAL", c.extra)
    [] OTHER -> Name("plain", GetStringByPropertyType(c.type), <<>>)

\* On the new Property of AsProperties; "set()" is no set.
SetTypeByString(n) ==
  CASE n.form = "list" -> [type |-> "LIST", sub |-> GetPropertyTypeByString(n.of), extra |-> <<>>]
    [] n.form = "set" /\ n.of # "" -> [type |-> "SET", sub |-> GetPropertyTypeByString(n.of), extra |-> <<>>]
    [] n.form = "decimal" -> [type |-> "DECIMAL", sub |-> "", extra |-> n.extra]
    [] OTHER -> [type |-> GetPropertyTypeByString(n.of), sub |-> "", extra |-> <<>>]
-----------------------------------------------------------------------------
(* Bytes *)

Powers(b) == LET power[k \in Nat] == IF k = 0 THEN 1 ELSE b * power[k - 1] IN power
Power(b, k) == Powers(b)[k]
Size(k) == Power(Base, k)
Digits(n, k) == [i \in 1 .. k |-> ((n % Size(k)) \div Power(Base, k - i)) % Base]
Number(b) ==
  LET sum[i \in 0 .. Len(b)] == IF i = 0 THEN 0 ELSE sum[i - 1] * Base + b[i]
  IN  sum[Len(b)]
Signed(n, k) == IF 2 * n >= Size(k) THEN n - Size(k) ELSE n

\* readBytes: too few bytes leave the 0 of the variable.
Read(b, k) == IF Len(b) < k THEN 0 ELSE Number(SubSeq(b, 1, k))

\* ConvertInterfaceToBytes.  An int is written as an int32.
Ints == [int |-> Short, int32 |-> Short, uint32 |-> Short, float32 |-> Short,
         int64 |-> Long, uint64 |-> Long, float64 |-> Long]
ConvertInterfaceToBytes(x) ==
  IF x.go \in DOMAIN Ints THEN Go("bytes", Digits(x.v[1], Ints[x.go]))
  ELSE IF x.go \in {"string", "bytes"} THEN Go("bytes", x.v)
  ELSE error
-----------------------------------------------------------------------------
(* Null *)

\* ListData and SetData, marshalled: IsNull, then the bytes of the elements; the
\* message whose fields all have their defaults is no bytes at all.
NullData == << <<1>> >>
Data(elements) == IF elements = <<>> THEN <<>> ELSE << <<0>> >> \o elements
Ones(k) == [i \in 1 .. k |-> Base - 1]
MaxSigned(k) == Digits(Size(k) \div 2 - 1, k)

\* Mutant: the unsigned integers have the null of the signed ones.
GetNullBytes_Signed(t) ==
  CASE t \in {"INT32", "UINT32"} -> <<MaxSigned(Short)>>
    [] t \in {"INT64", "UINT64"} -> <<MaxSigned(Long)>>
    [] t \in {"TIMESTAMP", "FLOAT"} -> <<Ones(Short)>>
    [] t \in {"DOUBLE", "DATETIME"} -> <<Ones(Long)>>
    [] t \in {"STRING", "TEXT"} -> << <<0>> >>
    [] t = "POINT" -> <<Ones(2 * Long)>>
    [] t \in {"LIST", "MAP"} -> <<NullData>>
    [] t = "BOOL" -> << <<2>> >>
    [] OTHER -> <<>>
\* nullBytes, as a sequence that is empty for the types the table lacks.
GetNullBytes(t) ==
  CASE t = "INT32" -> <<MaxSigned(Short)>>
    [] t = "INT64" -> <<MaxSigned(Long)>>
    [] t \in {"UINT32", "TIMESTAMP", "FLOAT"} -> <<Ones(Short)>>
    [] t \in {"UINT64", "DOUBLE", "DATETIME"} -> <<Ones(Long)>>
    [] t \in {"STRING", "TEXT"} -> << <<0>> >>
    [] t = "POINT" -> <<Ones(2 * Long)>>
    [] t \in {"LIST", "MAP"} -> <<NullData>>
    [] t = "BOOL" -> << <<2>> >>
    [] OTHER -> <<>>

\* Mutant: no bytes at all are null.
IsNull_Empty(t, b) == b = <<>>
IsNull(t, b) == t = "NULL_" \/ GetNullBytes(t) = <<b>>
-----------------------------------------------------------------------------
(* Dates and points *)

\* TimeToUint64, TimeToUltipaTime: the fields <<year, month, day, hour, minute,
\* second, microsecond>>, of which the last four have the widths of Clock.
Bits(i) == Power(2, Clock[i])
TimeToUint64(f) ==
  (((((f[1] * 13 + f[2]) * 32 + f[3]) * Bits(1) + f[4]) * Bits(2) + f[5]) * Bits(3) + f[6]) * Bits(4) + f[7]

\* Uint64ToTime: years below 100 are of the 20th or the 21st century.
Century(y) == IF y > 70 /\ y < 100 THEN y + 1900 ELSE IF y < 70 THEN y + 2000 ELSE y
Uint64ToTime(n) ==
  LET second == n \div Bits(4)
      minute == second \div Bits(3)
      hour == minute \div Bits(2)
      day == hour \div Bits(1)
      ym == day \div 32
  IN  <<Century(ym \div 13), ym % 13, day % 32, hour % Bits(1), minute % Bits(2),
        second % Bits(3), n % Bits(4)>>

\* NewUltipaTimeFromString with a layout of a two-digit year.
ExpandYear(y) == IF y >= 70 /\ y < 100 THEN y + 1900 ELSE IF y < 70 THEN y + 2000 ELSE y

\* A coordinate as "%f" writes it, and PointFromStr reads it.
Format(c) == ((2 * c + Unit) \div (2 * Unit)) * Unit
-----------------------------------------------------------------------------
(* Writing *)

\* serializeDecimal: the decimal text of a number.  Only that texts tell numbers
\* apart matters here.
DecimalText(n) == IF n < 0 THEN <<-1, -n>> ELSE <<1, n>>

True == <<3>>   \* "1", SERVER_BOOL_TRUE_VALUE
False == <<4>>  \* "0", SERVER_BOOL_FALSE_VALUE

\* ConvertInterfaceToBytesSafe for all types but LIST and SET, which have no
\* subtypes where they are elements themselves.  A string for a DATETIME or a
\* TIMESTAMP is a text, which Parse reads; Undated keeps it out of here.
EncodeAtom(x, t) ==
  IF t = "MAP" THEN error
  ELSE IF x = nil THEN Go("bytes", IF GetNullBytes(t) = <<>> THEN <<>> ELSE GetNullBytes(t)[1])
  ELSE IF t \in {"LIST", "SET"} THEN error
  ELSE IF t = "POINT" /\ x.go \in {"point", "string"}
    THEN IF Len(x.v) = 2 THEN Go("bytes", <<Format(x.v[1]), Format(x.v[2])>>) ELSE error
  ELSE IF t = "DECIMAL"
    THEN IF x.go \in DOMAIN Ints THEN Go("bytes", DecimalText(x.v[1]))
         ELSE IF x.go = "string" THEN Go("bytes", x.v) ELSE error
  ELSE IF t = "DATETIME" /\ x.go = "time" THEN Go("bytes", Digits(TimeToUint64(x.v), Long))
  ELSE IF t = "TIMESTAMP" /\ x.go = "instant" THEN Go("bytes", Digits(x.v[1] \div Second, Short))
  ELSE IF t = "BOOL"
    THEN IF x.go = "bool" THEN Go("bytes", IF x.v = <<1>> THEN True ELSE False)
         ELSE IF x.go = "string" /\ x.v \in {True, False} THEN Go("bytes", x.v) ELSE error
  ELSE ConvertInterfaceToBytes(x)

\* SerializeListData and SerializeSetData: the elements have the one subtype, and
\* the first error ends the loop; reflection fails on what has no elements.
SerializeData(x, sub) ==
  IF sub = "" \/ x.go # "list" \/ \E i \in DOMAIN x.v : EncodeAtom(x.v[i], sub).go # "bytes" THEN error
  ELSE Go("bytes", Data([i \in DOMAIN x.v |-> EncodeAtom(x.v[i], sub).v]))

ConvertInterfaceToBytesSafe(x, t, sub) ==
  IF t \in {"LIST", "SET"} /\ x # nil THEN SerializeData(x, sub) ELSE EncodeAtom(x, t)
-----------------------------------------------------------------------------
(* Reading *)

\* Two doubles, by way of a text; there is none for those that are not a number.
NaN == Size(Long) - 1
AsPointString(b) ==
  LET latitude == Read(SubSeq(b, 1, Long), Long)
      longitude == Read(SubSeq(b, Long + 1, 2 * Long), Long)
  IN  IF Len(b) # 2 * Long THEN error
      ELSE IF NaN \in {latitude, longitude} THEN nil
      ELSE Go("point", <<Format(latitude), Format(longitude)>>)

DecodeAtom(b, t) ==
  IF IsNull(t, b) \/ (b = <<>> /\ t \in {"DATETIME", "TIMESTAMP", "DECIMAL", "BOOL"}) THEN nil
  ELSE CASE t \in {"STRING", "TEXT", "DECIMAL"} -> Go("string", b)
         [] t = "BLOB" -> Go("bytes", b)
         [] t = "INT32" -> Go("int32", <<Signed(Read(b, Short), Short)>>)
         [] t = "INT64" -> Go("int64", <<Signed(Read(b, Long), Long)>>)
         [] t = "UINT32" -> Go("uint32", <<Read(b, Short)>>)
         [] t = "UINT64" -> Go("uint64", <<Read(b, Long)>>)
         [] t = "FLOAT" -> Go("float32", <<Read(b, Short)>>)
         [] t = "DOUBLE" -> Go("float64", <<Read(b, Long)>>)
         [] t = "DATETIME" -> IF Read(b, Long) = 0 THEN Go("uint64", <<0>>)
                              ELSE Go("time", Uint64ToTime(Read(b, Long)))
         [] t = "TIMESTAMP" -> Go("instant", <<Read(b, Short) * Second>>)
         [] t = "POINT" -> AsPointString(b)
         [] t = "BOOL" -> IF b \in {True, False} THEN Go("bool", IF b = True THEN <<1>> ELSE <<0>>) ELSE error
         [] t \in {"LIST", "SET"} -> IF b \in {<<>>, NullData} THEN Go("list", <<>>) ELSE panic
         [] OTHER -> nil

\* deserializeList, deserializeSet: the first error ends the loop.
DeserializeData(b, sub) ==
  IF b \in {<<>>, NullData} THEN Go("list", <<>>)
  ELSE IF sub = "" THEN panic
  ELSE IF \E i \in 2 .. Len(b) : DecodeAtom(b[i], sub) = error THEN error
  ELSE Go("list", [i \in 1 .. Len(b) - 1 |-> DecodeAtom(b[i + 1], sub)])

ConvertBytesToInterface(b, t, sub) ==
  IF t \in {"LIST", "SET"} /\ ~IsNull(t, b) THEN DeserializeData(b, sub) ELSE DecodeAtom(b, t)
-----------------------------------------------------------------------------
(* Texts *)

\* Texts are "blank", a "number", a "word", or a "date" whose year has two digits
\* or four, and which may name its zone; zones are seconds from UTC.
InRange(n, t) ==
  CASE t = "INT32" -> 2 * n \in -Size(Short) .. Size(Short) - 2
    [] t = "INT64" -> 2 * n \in -Size(Long) .. Size(Long) - 2
    [] t = "UINT32" -> n \in 0 .. Size(Short) - 1
    [] t = "UINT64" -> n \in 0 .. Size(Long) - 1

GoOf == [INT32 |-> "int32", INT64 |-> "int64", UINT32 |-> "uint32", UINT64 |-> "uint64"]

\* GetLocationFromConfig: the offset goes before the zone.  A zone "+hhmm" is
\* taken times 36, and one that is unknown is no location.
getLocationFromTimezone(zone) ==
  CASE zone.kind = "offset" -> IF zone.hhmm = 0 THEN {} ELSE {zone.hhmm * 36}
    [] zone.kind = "name" -> zone.known
    [] zone.kind = "" -> {}
\* Mutant: the zone goes before the offset.
GetLocationFromConfig_ZoneFirst(req) ==
  IF req.zone.kind # "" THEN getLocationFromTimezone(req.zone) ELSE {req.offset}
GetLocationFromConfig(req) == IF req.offset # 0 THEN {req.offset} ELSE getLocationFromTimezone(req.zone)

\* NewTimestampFromString: a number is milliseconds; a date without a zone is
\* taken in the location, or in time.Local.
InstantOf(s, location) ==
  LET zone == IF s.zone # {} THEN s.zone ELSE IF location # {} THEN location ELSE {Local}
  IN  IF s.kind = "number" THEN s.n ELSE s.wall - Second * (CHOOSE z \in zone : TRUE)

\* NewDatetimeFromString: RemoveTimezone first, then the fields as they stand.
FieldsOf(s) == IF s.twoDigits THEN [s.fields EXCEPT ![1] = ExpandYear(@)] ELSE s.fields

Epoch == <<1970, 1, 1, 0, 0, 0, 0>>

\* Not for FLOAT and DOUBLE, nor for a number as a DATETIME.
StringAsInterface(s, t, location) ==
  IF s.kind = "blank" /\ t \notin {"DATETIME", "STRING", "TEXT"} THEN nil
  ELSE CASE t \in DOMAIN GoOf -> IF s.kind = "number" /\ InRange(s.n, t) THEN Go(GoOf[t], <<s.n>>) ELSE error
         [] t = "DATETIME" -> IF s.kind = "blank" THEN Go("time", Epoch)
                              ELSE IF s.kind = "date" THEN Go("time", FieldsOf(s)) ELSE error
         [] t = "TIMESTAMP" -> IF s.kind = "word" THEN error ELSE Go("instant", <<InstantOf(s, location)>>)
         [] OTHER -> Go("string", s.v)
-----------------------------------------------------------------------------
(* A value on its way *)

\* The fields of a date, and the values that Go's types have; the coordinates of a
\* point are numbers.
Fields(f) == /\ f \in Seq(Nat) /\ Len(f) = 7 /\ f[2] \in 1 .. 12 /\ f[3] \in 1 .. 31
             /\ \A i \in 1 .. 4 : f[3 + i] < Bits(i)
Fits(x) ==
  /\ x.go \in DOMAIN Ints \cup {"instant"} => Len(x.v) = 1
  /\ \A t \in DOMAIN GoOf : x.go = GoOf[t] => InRange(x.v[1], t)
  /\ x.go \in {"float32", "float64"} => x.v[1] \in 0 .. Size(Ints[x.go]) - 1
  /\ x.go = "bool" => x.v \in {<<0>>, <<1>>}
  /\ x.go = "time" => Fields(x.v)
  /\ x.go = "point" => Len(x.v) = 2 /\ \A i \in 1 .. 2 : Format(x.v[i]) \in 0 .. NaN - 1
  /\ x.go = "nil" => x.v = <<>>
Scalars == DOMAIN Ints \cup {"nil", "bool", "string", "bytes", "time", "instant", "point"}
Scalar(x) == x.go \in Scalars /\ x = Go(x.go, x.v) /\ x.v \in Seq(Int) /\ Fits(x)
List(x) == /\ x = Go("list", x.v) /\ x.v \in Seq({x.v[i] : i \in DOMAIN x.v})
           /\ \A i \in DOMAIN x.v : Scalar(x.v[i]) \/ x.v[i] = Go("list", x.v[i].v)

\* A request, a text, and what an application may write.
Zone(z) == /\ z.kind \in {"", "offset", "name"}
           /\ z.kind = "offset" => z.hhmm \in Int
           /\ z.kind = "name" => z.known \subseteq Int
Text(s, t) ==
  /\ s.kind \in {"blank", "number", "word", "date"} /\ t \notin {"FLOAT", "DOUBLE"}
  /\ s.kind = "number" => s.n \in Int /\ t # "DATETIME"
  /\ s.kind = "date" => /\ Fields(s.fields) /\ s.wall \in Int /\ s.zone \subseteq Int
                        /\ s.twoDigits \in BOOLEAN /\ s.twoDigits => s.fields[1] < 100
  /\ t \notin DOMAIN GoOf \cup {"DATETIME", "TIMESTAMP"} => s.v \in Seq(Int)
\* A string for a date is an input with a text; as an element of a list it is
\* left out.
Undated(x, t) == t \in {"DATETIME", "TIMESTAMP"} => x.go # "string"
ASSUME InputsAssumption ==
  \A i \in Inputs :
    /\ i.column = [type |-> i.column.type, sub |-> i.column.sub, extra |-> i.column.extra]
    /\ i.column.sub # "" => i.column.type \in {"LIST", "SET", "MAP"}
    /\ i.column.extra # <<>> => i.column.type = "DECIMAL"
    /\ IF "text" \in DOMAIN i THEN Text(i.text, i.column.type) /\ i.req.offset \in Int /\ Zone(i.req.zone)
       ELSE /\ Scalar(i.value) \/ List(i.value)
            /\ Undated(i.value, i.column.type)
            /\ i.value.go = "list" => \A k \in DOMAIN i.value.v : Undated(i.value.v[k], i.column.sub)

\* The greatest date fits in the bytes of an int64, and is not the null one.
ASSUME DateAssumption ==
  (Limit + 1) * 13 * 32 * Bits(1) * Bits(2) * Bits(3) * Bits(4) < Size(Long)

Value == IF "text" \in DOMAIN input THEN "text" ELSE "value"
Init == /\ input \in Inputs
        /\ stage \in {"declare", Value}
        /\ name = Name("", "", <<>>) /\ column = input.column
        /\ value = IF "text" \in DOMAIN input THEN nil ELSE input.value
        /\ wire = <<>> /\ back = nil

\* CreateProperty; the server refuses a name that it does not know.
Declare == /\ stage = "declare"
           /\ LET n == GetStringType(column)
              IN  IF n.of = "" THEN stage' = "failed" /\ UNCHANGED name
                  ELSE stage' = "declared" /\ name' = n
           /\ UNCHANGED <<input, column, value, wire, back>>

\* ShowProperty or ShowSchema, as InsertNodesBatchAuto uses it.
Show == /\ stage = "declared" /\ stage' = Value
        /\ column' = SetTypeByString(name)
        /\ UNCHANGED <<input, name, value, wire, back>>

\* ConvertStringNodes, or the texts of ConvertInterfaceToBytesSafe.
Parse == /\ stage = "text"
         /\ value' = StringAsInterface(input.text, column.type, GetLocationFromConfig(input.req))
         /\ stage' = IF value'.go = "error" THEN "failed" ELSE "value"
         /\ UNCHANGED <<input, name, column, wire, back>>

Encode == /\ stage = "value"
          /\ LET e == ConvertInterfaceToBytesSafe(value, column.type, column.sub)
             IN  IF e.go # "bytes" THEN stage' = "failed" /\ UNCHANGED wire
                 ELSE stage' = "sent" /\ wire' = e.v
          /\ UNCHANGED <<input, name, column, value, back>>

\* The server keeps what it is sent, but the text of a point as two doubles.
Kept(x, t, bytes) ==
  IF t = "POINT" /\ x.go \in {"point", "string"} THEN Digits(bytes[1], Long) \o Digits(bytes[2], Long) ELSE bytes
KeptData(x, sub, data) ==
  [i \in DOMAIN data |-> IF i = 1 THEN data[1] ELSE Kept(x.v[i - 1], sub, data[i])]
Store == /\ stage = "sent" /\ stage' = "kept"
         /\ wire' = IF column.type \in {"LIST", "SET"} /\ value # nil THEN KeptData(value, column.sub, wire)
                    ELSE Kept(value, column.type, wire)
         /\ UNCHANGED <<input, name, column, value, back>>

Decode == /\ stage = "kept" /\ stage' = "done"
          /\ back' = ConvertBytesToInterface(wire, column.type, column.sub)
          /\ UNCHANGED <<input, name, column, value, wire>>

Next == Declare \/ Show \/ Parse \/ Encode \/ Store \/ Decode
Spec == Init /\ [][Next]_vars
-----------------------------------------------------------------------------
(***************************************************************************)
(* Properties.                                                              *)
(***************************************************************************)

\* The values of a type that the application cannot store, because they are read
\* as null: the greatest of an integer type, the string of one zero byte, a
\* decimal without digits.
Unstorable(t) ==
  CASE t \in {"INT32", "INT64"} -> {Go(GoOf[t], <<Size(IF t = "INT32" THEN Short ELSE Long) \div 2 - 1>>)}
    [] t \in {"UINT32", "UINT64"} -> {Go(GoOf[t], <<Size(IF t = "UINT32" THEN Short ELSE Long) - 1>>)}
    [] t \in {"STRING", "TEXT"} -> {Go("string", <<0>>)}
    [] t = "DECIMAL" -> {Go("string", <<>>)}
    [] OTHER -> {}

\* What a null comes back as: null, but an empty value where the type has no null.
NullOf(t) == IF t = "SET" THEN Go("list", <<>>) ELSE IF t = "BLOB" THEN Go("bytes", <<>>) ELSE nil

\* What a value comes back as: itself, but an int as the type's integer, a
\* number for a decimal as its text, and a point with the decimals of a text.
Canonical(x, t) ==
  IF x.go = "int" /\ t = "INT32" THEN Go("int32", x.v)
  ELSE IF x.go \in DOMAIN Ints /\ t = "DECIMAL" THEN Go("string", DecimalText(x.v[1]))
  ELSE IF x.go = "point" THEN Go("point", <<Format(x.v[1]), Format(x.v[2])>>)
  ELSE IF x.go = "instant" THEN Go("instant", <<(x.v[1] \div Second) * Second>>)
  ELSE x

\* The Go types that belong to a property type, and the values of them that its
\* encoding has room for.
Own == [INT32 |-> {"int", "int32"}, INT64 |-> {"int64"}, UINT32 |-> {"uint32"}, UINT64 |-> {"uint64"},
        FLOAT |-> {"float32"}, DOUBLE |-> {"float64"}, STRING |-> {"string"}, TEXT |-> {"string"},
        BLOB |-> {"bytes"}, BOOL |-> {"bool"}, DECIMAL |-> {"string", "int", "int64"},
        POINT |-> {"point"}, DATETIME |-> {"time"}, TIMESTAMP |-> {"instant"}]
Comparable(x, t) ==
  /\ t \in DOMAIN Own /\ x.go \in Own[t]
  /\ x.go = "int" /\ t = "INT32" => InRange(x.v[1], t)
  /\ x.go = "time" => x.v[1] \in 100 .. Limit
  /\ x.go = "instant" => x.v[1] \div Second \in 0 .. Size(Short) - 2
  /\ t \in {"FLOAT", "DOUBLE"} => x.v[1] < Size(Ints[x.go]) - 1
Storable(x, t) == x = nil \/ Comparable(x, t)
ComesBack(x, t, y) ==
  Storable(x, t) => y = IF x = nil THEN NullOf(t)
                        ELSE IF Canonical(x, t) \in Unstorable(t) THEN nil ELSE Canonical(x, t)

\* The type that a property was declared with is the one that its values are
\* encoded for.  A scalar of the Go type that belongs to it comes back as it was
\* written, and the values that come back as null are exactly those of Unstorable;
\* a list or a set comes back with the same length and each element so too.  (A
\* list of points must be one: other elements are not doubles when they are read.)
RoundTrip ==
  stage = "done" =>
    /\ column = input.column
    /\ Comparable(value, column.type) => ComesBack(value, column.type, back)
    /\ /\ column.type \in {"LIST", "SET"} /\ value # nil
       /\ column.sub = "POINT" => \A i \in DOMAIN value.v : Storable(value.v[i], "POINT")
       => /\ back.go = "list" /\ Len(back.v) = Len(value.v)
          /\ \A i \in DOMAIN value.v : ComesBack(value.v[i], column.sub, back.v[i])

\* A null comes back as null; as an empty value where the type has no null.
NullRoundTrip == (stage = "done" /\ value = nil) => back = NullOf(input.column.type)

\* The offset that a request means: that of its offset, or of its zone if it
\* knows that, or the local one.
Meant(req) ==
  IF req.offset # 0 THEN {req.offset}
  ELSE IF req.zone.kind = "offset" THEN {(req.zone.hhmm \div 100) * 3600}
  ELSE IF req.zone.kind = "name" /\ req.zone.known # {} THEN req.zone.known
  ELSE {Local}

\* The requests that do not ask for a "+hhmm" which the driver takes for another
\* zone: it knows those of whole hours, and "+0000" is the local one.
Clear(req) == (req.offset = 0 /\ req.zone.kind = "offset") => req.zone.hhmm # 0 /\ req.zone.hhmm % 100 = 0

\* The second of a date: in the zone that it names, else in the one that the
\* request means.
SecondOf(s, req) ==
  LET zone == CHOOSE z \in IF s.zone # {} THEN s.zone ELSE Meant(req) : TRUE
  IN  (s.wall - Second * zone) \div Second

\* A text for an integer is an error or exactly the number it says, never one
\* that wrapped around; a date for a timestamp that 32 bits can hold is the
\* instant that it is in its zone or in that of the request.
TextIsExact ==
  (stage = "done" /\ "text" \in DOMAIN input) =>
    LET s == input.text
        t == input.column.type
        second == SecondOf(s, input.req)
    IN  /\ (s.kind = "number" /\ t \in DOMAIN GoOf) =>
             \/ back = Go(GoOf[t], <<s.n>>)
             \/ back = nil /\ value \in Unstorable(t)
        /\ (s.kind = "date" /\ t = "TIMESTAMP" /\ (s.zone # {} \/ Clear(input.req))) =>
             (second \in 0 .. Size(Short) - 2 => back = Go("instant", <<second * Second>>))

=============================================================================
