------------------------------- MODULE MCCodec -------------------------------
(* An instance of Codec for TLC: bytes of 5 bits, an int32 of 3 and an int64  *)
(* of 6 of them, which hold dates with clock fields of two bits.              *)
EXTENDS Codec

TwoBits == <<2, 2, 2, 2>>
Edges(k) == {0, 1, Size(k) \div 2 - 2, Size(k) \div 2 - 1, Size(k) - 2, Size(k) - 1, Size(k) \div 2}
Halves(k) == {0, 1, -1, Size(k) \div 2 - 2, Size(k) \div 2 - 1, -(Size(k) \div 2)}
Texts == {<<>>, <<0>>, <<0, 0>>, <<1, 2>>, <<2>>}

ValuesOf(t) ==
  CASE t = "INT32" -> {Go(g, <<n>>) : g \in {"int", "int32"}, n \in Halves(Short)}
                      \cup {Go("int", <<Size(Short)>>), Go("int64", <<1>>), Go("list", <<>>)}
    [] t = "INT64" -> {Go("int64", <<n>>) : n \in Halves(Long)} \cup {Go("int", <<1>>)}
    [] t = "UINT32" -> {Go("uint32", <<n>>) : n \in Edges(Short)}
    [] t = "UINT64" -> {Go("uint64", <<n>>) : n \in Edges(Long)}
    [] t = "FLOAT" -> {Go("float32", <<n>>) : n \in Edges(Short)}
    [] t = "DOUBLE" -> {Go("float64", <<n>>) : n \in Edges(Long)}
    [] t \in {"STRING", "TEXT"} -> {Go("string", s) : s \in Texts}
    [] t = "BLOB" -> {Go("bytes", s) : s \in Texts}
    [] t = "BOOL" -> {Go("bool", <<0>>), Go("bool", <<1>>), Go("string", <<2>>), Go("string", True), Go("int", <<1>>)}
    [] t = "DECIMAL" -> {Go("string", <<>>), Go("string", <<1>>), Go("float32", <<3>>), Go("int", <<-7>>), Go("int64", <<7>>), Go("point", <<1, 2>>)}
    [] t = "DATETIME" ->
         {Go("time", <<y, m, d, h, 1, 2, 3>>) :
            y \in {0, 69, 70, 71, 99, 100, 1969, 1970, 2069, 9999, 10081}, m \in {1, 12}, d \in {1, 31}, h \in {0, 3}}
         \cup {Go("uint64", <<0>>)}
    [] t = "TIMESTAMP" -> {Go("instant", <<n * Second + 1>>) : n \in {-1, 0, 1, Size(Short) - 2, Size(Short) - 1}}
    [] t = "POINT" -> {Go("point", <<a, b>>) : a, b \in {0, 4, 5, 6, 14, 15, 95}}
                     \cup {Go("string", <<10, 20>>), Go("string", <<>>)}
    [] OTHER -> {}
Types == {"INT32", "INT64", "UINT32", "UINT64", "FLOAT", "DOUBLE", "STRING", "TEXT", "BLOB", "BOOL",
            "DECIMAL", "DATETIME", "TIMESTAMP", "POINT"}
Subs == {"INT32", "UINT64", "STRING", "BOOL", "DATETIME", "BLOB", "POINT"}
Lists(t) == LET some == ValuesOf(t) \cup {nil}
            IN  {Go("list", <<>>)} \cup {Go("list", <<x>>) : x \in some}
                \cup {Go("list", <<x, nil, x>>) : x \in some}

Dates == {[kind |-> "date", twoDigits |-> TRUE, fields |-> <<y, 2, 3, 1, 1, 1, 1>>, wall |-> 120000, zone |-> z] :
            y \in {0, 50, 69, 70, 71, 99}, z \in {{}, {1000}}}
         \cup {[kind |-> "date", twoDigits |-> FALSE, fields |-> <<y, 2, 3, 1, 1, 1, 1>>, wall |-> w, zone |-> {1000}] :
                 y \in {100, 170, 1950, 2024}, w \in {120000, 10000 + 10 * (Size(Short) - 2), 400000}}
Numbers == {[kind |-> "number", n |-> n] :
              n \in Halves(Short) \cup Edges(Short) \cup Halves(Long) \cup Edges(Long)}

Zones == {[kind |-> ""], [kind |-> "offset", hhmm |-> 100], [kind |-> "offset", hhmm |-> -200],
          [kind |-> "offset", hhmm |-> 0], [kind |-> "offset", hhmm |-> 530],
          [kind |-> "name", known |-> {7200}], [kind |-> "name", known |-> {}]}
Requests == [offset : {0, 1800}, zone : Zones]
Plain == [offset |-> 0, zone |-> [kind |-> ""]]

Column(t, s) == [type |-> t, sub |-> s, extra |-> IF t = "DECIMAL" THEN <<10, 2>> ELSE <<>>]
Item(t, s, x) == [column |-> Column(t, s), value |-> x]
TextItem(t, s, r) == [column |-> Column(t, ""), text |-> s, req |-> r]
MCInputs ==
  UNION {{Item(t, "", x) : x \in ValuesOf(t) \cup {nil}} : t \in Types}
  \cup UNION {{Item(t, s, x) : t \in {"LIST", "SET"}, x \in Lists(s)} : s \in Subs}
  \cup {Item(t, s, nil) : t \in {"LIST", "SET", "MAP"}, s \in {"", "INT32", "DECIMAL"}}
  \cup {Item(t, "", Go("list", <<Go("int32", <<1>>)>>)) : t \in {"LIST", "SET"}}
  \cup {Item(t, s, Go("list", <<x>>)) : t \in {"LIST", "SET"}, s \in {"LIST", "SET", "MAP"}, x \in {nil, Go("list", <<>>)}}
  \cup {[column |-> [type |-> "DECIMAL", sub |-> "", extra |-> <<>>], value |-> Go("string", <<1>>)]}
  \cup {TextItem(t, s, Plain) : t \in DOMAIN GoOf, s \in Numbers \cup {[kind |-> "word", v |-> <<1>>]}}
  \cup {TextItem("TIMESTAMP", s, r) : s \in Dates \cup {[kind |-> "number", n |-> 70]}, r \in Requests}
  \cup {TextItem("DATETIME", s, r) : s \in Dates, r \in Requests}
  \cup {TextItem(t, [kind |-> "blank", v |-> <<>>], Plain) : t \in {"DATETIME", "STRING", "INT32"}}
  \cup {TextItem(t, [kind |-> "word", v |-> <<1>>], Plain) : t \in {"DATETIME", "TEXT"}}
=============================================================================
