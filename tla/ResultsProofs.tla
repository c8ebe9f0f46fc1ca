----------------------------- MODULE ResultsProofs -----------------------------
(***************************************************************************)
(* What the AsXxx methods hand out, for any answers of the server.         *)
(*                                                                          *)
(* An answer is computed from the item alone, and items stay as they        *)
(* arrived (ItemInv): the work is in the lemmas about the loops over rows,  *)
(* tables and lists (NotNull, AllEntities, parseAttrList), each by          *)
(* induction over the length of what it reads.                              *)
(***************************************************************************)
EXTENDS Results, FiniteSetTheorems, SequenceTheorems, WellFoundedInduction, TLAPS

(* Which item a call was made on. *)
ItemInv ==
  \/ item \in {NilItem, UnsetItem} \cup TableItems \cup EntityItems \cup PathItems \cup AttrItems
  \/ item.type = "SCHEMAS"

LEMMA ItemStep == ASSUME ItemInv, [Next]_vars PROVE ItemInv'
<1>1. CASE Arrive BY <1>1 DEF Arrive, ItemInv
<1>2. CASE UNCHANGED item BY <1>2 DEF ItemInv
<1>3. Arrive \/ UNCHANGED item
      BY DEF Next, vars, Returns, CallReader, CallAsNodes, CallAsEdges, CallAsPaths, CallAsGraph,
             CallAsAttr, CallAsAny, CallAsAttrList, CallShowSchema
<1> QED BY <1>1, <1>2, <1>3

LEMMA ItemTypes ==
  ASSUME ItemInv
  PROVE  /\ item.type = "TABLE" => item \in TableItems
         /\ item.type = "PATH" => item \in PathItems
         /\ item.type = "ATTR" => item \in AttrItems
BY ItemsAssumption DEF ItemInv, NilItem, UnsetItem

(* The name of the call in the answer. *)
LEMMA CallNames ==
  ASSUME NEW c, NEW k, NEW i
  PROVE  /\ AsEntities(c, k, i).call = c
         /\ AsPaths(c, i).call = c
         /\ AsAttr(c, i).call = c
         /\ AsAttrList(c, k, i).call = c
<1>1. \A kind, value : Result(c, kind, value).call = c BY DEF Result
<1>2. \A t, a : ListAttrAs(c, t, a).call = c BY <1>1 DEF ListAttrAs
<1>3. \A a : ListAttrAsAttr(c, a).call = c BY <1>1, <1>2 DEF ListAttrAsAttr
<1>4. AsEntities(c, k, i).call = c BY <1>1 DEF AsEntities
<1>5. AsPaths(c, i).call = c BY <1>1 DEF AsPaths
<1>6. AsAttr(c, i).call = c BY <1>1, <1>3 DEF AsAttr
<1>7. AsAttrList(c, k, i).call = c BY <1>1, <1>2 DEF AsAttrList
<1> QED BY <1>4, <1>5, <1>6, <1>7

LEMMA OtherNames ==
  /\ \A i : AsGraph(i).call = "AsGraph"
  /\ \A i : AsAny(i).call = "AsAny"
  /\ \A r : ShowSchema(r).call = "ShowSchema"
<1>1. \A c, kind, value : Result(c, kind, value).call = c BY DEF Result
<1>2. ASSUME NEW i PROVE AsGraph(i).call = "AsGraph"
  <2>1. AsPaths("AsGraph", i).call = "AsGraph" BY CallNames
  <2> QED BY <1>1, <2>1 DEF AsGraph
<1>3. ASSUME NEW i PROVE AsAny(i).call = "AsAny"
  <2>1. AsAttr("AsAny", i).call = "AsAny" BY CallNames
  <2>2. AsEntities("AsAny", i.type, i).call = "AsAny" BY CallNames
  <2> QED BY <1>1, <2>1, <2>2 DEF AsAny
<1>4. ASSUME NEW r PROVE ShowSchema(r).call = "ShowSchema" BY <1>1 DEF ShowSchema
<1> QED BY <1>2, <1>3, <1>4

(* The answer after a step: the one before it, none, or what a call on the  *)
(* item returns.                                                            *)
LEMMA AnswerStep ==
  ASSUME [Next]_vars
  PROVE  \/ UNCHANGED <<item, answer>>
         \/ answer' = NoAnswer
         \/ /\ UNCHANGED item
            /\ \/ \E reader \in Readers :
                    answer' = [call |-> "ReadTable", kind |-> ReadTable(item, reader).kind,
                               value |-> [reader |-> reader, rows |-> ReadTable(item, reader).rows]]
               \/ answer' = AsEntities("AsNodes", "NODE", item)
               \/ answer' = AsEntities("AsEdges", "EDGE", item)
               \/ answer' = AsPaths("AsPaths", item)
               \/ answer' = AsGraph(item)
               \/ answer' = AsAttr("AsAttr", item)
               \/ answer' = AsAny(item)
               \/ \E kind \in {"NODE", "EDGE", "PATH"} : answer' = AsAttrList("AsAttrList", kind, item)
               \/ answer' = ShowSchema(item.data)
<1>1. CASE CallReader BY <1>1 DEF CallReader, Returns
<1>2. CASE ~CallReader
      BY <1>2 DEF Next, vars, Arrive, Returns, CallAsNodes, CallAsEdges, CallAsPaths, CallAsGraph,
             CallAsAttr, CallAsAny, CallAsAttrList, CallShowSchema
<1> QED BY <1>1, <1>2

-----------------------------------------------------------------------------
(* Numbers *)

LEMMA Least ==
  ASSUME NEW T \in SUBSET Nat, T # {}
  PROVE  \E x \in T : \A y \in T : x <= y
<1>1. PICK x \in T : \A y \in T : <<y, x>> \notin OpToRel(<, Nat)
      BY NatLessThanWellFounded, WFMin
<1>2. \A y \in T : ~(y < x) BY <1>1 DEF OpToRel
<1> QED BY <1>2

LEMMA SetInduction ==
  ASSUME NEW T \in SUBSET Nat, 0 \in T, \A m \in T : m + 1 \in T
  PROVE  T = Nat
<1> SUFFICES ASSUME Nat \ T # {} PROVE FALSE
    OBVIOUS
<1>1. PICK x \in Nat \ T : \A y \in Nat \ T : x <= y BY Least
<1>2. x - 1 \in T BY <1>1
<1> QED BY <1>1, <1>2

-----------------------------------------------------------------------------
(* Tables *)

(* The last of the indexes that have a property. *)
LEMMA Greatest ==
  ASSUME NEW n \in Nat, NEW I \in SUBSET (1 .. n), I # {}
  PROVE  Max(I) \in I /\ \A j \in I : j <= Max(I)
<1> DEFINE T == {m \in Nat : m <= n => \A J \in SUBSET (1 .. m) :
                   J # {} => \E x \in J : \A y \in J : x >= y}
<1>1. 0 \in T
  <2>1. \A J \in SUBSET (1 .. 0) : J = {} OBVIOUS
  <2> QED BY <2>1
<1>2. ASSUME NEW m \in T PROVE m + 1 \in T
  <2> SUFFICES ASSUME m + 1 <= n, NEW J \in SUBSET (1 .. (m + 1)), J # {}
               PROVE  \E x \in J : \A y \in J : x >= y
      OBVIOUS
  <2>1. CASE m + 1 \in J BY <2>1
  <2>2. CASE m + 1 \notin J
    <3>1. J \in SUBSET (1 .. m) BY <2>2
    <3>2. m <= n OBVIOUS
    <3> QED BY <3>1, <3>2
  <2> QED BY <2>1, <2>2
<1>3. T = Nat
  <2>1. T \in SUBSET Nat OBVIOUS
  <2> HIDE DEF T
  <2> QED BY <1>1, <1>2, <2>1, SetInduction
<1>4. \E x \in I : \A y \in I : x >= y
  <2>1. n \in T
    <3> HIDE DEF T
    <3> QED BY <1>3
  <2>2. \A J \in SUBSET (1 .. n) : J # {} => \E x \in J : \A y \in J : x >= y BY <2>1
  <2> QED BY <2>2
<1>5. Max(I) \in I /\ \A y \in I : Max(I) >= y BY <1>4 DEF Max
<1> QED BY <1>5

(* A header that is there is found, at an index that has it. *)
LEMMA HeaderFound ==
  ASSUME NEW table, NEW col, table.headers \in Seq(STRING),
         HeaderIndex(table, col) # 0 \/ col \in Range(table.headers)
  PROVE  /\ HeaderIndex(table, col) \in 1 .. Len(table.headers)
         /\ table.headers[HeaderIndex(table, col)] = col
<1> DEFINE I == {i \in 1 .. Len(table.headers) : table.headers[i] = col}
<1>1. HeaderIndex(table, col) = IF I # {} THEN Max(I) ELSE 0 BY DEF HeaderIndex, SelectLastInSeq
<1>2. Len(table.headers) \in Nat BY LenProperties
<1>3. col \in Range(table.headers) => I # {}
  <2>1. DOMAIN table.headers = 1 .. Len(table.headers) BY LenProperties
  <2> QED BY <2>1 DEF Range
<1>4. I # {} BY <1>1, <1>3
<1>5. I \in SUBSET (1 .. Len(table.headers)) OBVIOUS
<1>6. Max(I) \in I
  <2> HIDE DEF I
  <2> QED BY <1>2, <1>4, <1>5, Greatest
<1> QED BY <1>1, <1>4, <1>6

LEMMA LengthOf ==
  ASSUME NEW n \in Nat, NEW f, DOMAIN f = 1 .. n, f = [i \in 1 .. n |-> f[i]]
  PROVE  f \in Seq(Range(f)) /\ Len(f) = n
<1>1. f \in [1 .. n -> Range(f)] BY DEF Range
<1> QED BY <1>1

(* One field of one row. *)
LEMMA FieldIsCell ==
  ASSUME NEW reader, NEW field, NEW cell, FieldValue(reader, field, cell) # Absent
  PROVE  FieldValue(reader, field, cell) = cell
BY DEF FieldValue

LEMMA CellIsInPlace ==
  ASSUME NEW i \in TableItems, NEW reader, NEW field, NEW r \in 1 .. Len(i.data.rows),
         CellOf(i.data, reader, field, i.data.rows[r]) # Absent
  PROVE  /\ ~ByPlace(reader, field, i.data.headers)
              => CellOf(i.data, reader, field, i.data.rows[r]).of = <<field.col, r>>
         /\ ByPlace(reader, field, i.data.headers) /\ field.at \in 1 .. Len(i.data.headers)
              => CellOf(i.data, reader, field, i.data.rows[r]).of = <<i.data.headers[field.at], r>>
<1>1. PICK table, row : table = i.data /\ row = i.data.rows[r] OBVIOUS
<1>2. table.headers \in Seq(STRING) /\ Len(table.headers) \in Nat BY <1>1, ItemsAssumption, LenProperties
<1>3. PICK p : p = Position(table, reader, field) OBVIOUS
<1>4. p \in 1 .. Len(row) /\ CellOf(table, reader, field, row) = row[p]
      BY <1>1, <1>3 DEF CellOf
<1>5. ASSUME p \in 1 .. Len(table.headers) PROVE row[p].of = <<table.headers[p], r>>
  <2>1. p <= Len(table.headers) BY <1>2, <1>5
  <2> QED BY <1>1, <1>4, <2>1, ItemsAssumption
<1>6. CASE ~ByPlace(reader, field, table.headers)
  <2>1. p = HeaderIndex(table, field.col) BY <1>3, <1>6 DEF Position
  <2>2. p # 0
    <3>1. row \in Seq(ServerCells) BY <1>1, ItemsAssumption
    <3>2. Len(row) \in Nat BY <3>1, LenProperties
    <3> QED BY <1>4, <3>2
  <2>3. p \in 1 .. Len(table.headers) /\ table.headers[p] = field.col
        BY <1>2, <2>1, <2>2, HeaderFound
  <2> QED BY <1>1, <1>4, <1>5, <1>6, <2>3
<1>7. CASE ByPlace(reader, field, table.headers)
  <2>1. p = field.at BY <1>3, <1>7 DEF Position
  <2> QED BY <1>1, <1>4, <1>5, <1>7, <2>1
<1> QED BY <1>1, <1>6, <1>7

(* The rows that a successful reader returns. *)
LEMMA RowsRead ==
  ASSUME NEW i \in TableItems, NEW reader, NEW a, a = ReadTable(i, reader), a.kind = "ok"
  PROVE  \/ a.rows = <<>> /\ Len(i.data.headers) < reader.least
         \/ a.rows = <<>> /\ i.data.rows = <<>> /\ ~reader.first
         \/ \E n \in Nat : /\ n <= Len(i.data.rows) /\ (~reader.first => n = Len(i.data.rows))
                           /\ a.rows = [r \in 1 .. n |-> RowValue(i.data, reader, i.data.rows[r])]
<1>1. PICK table : table = i.data OBVIOUS
<1>2. table.rows \in Seq(Seq(ServerCells)) /\ Len(table.rows) \in Nat BY <1>1, ItemsAssumption
<1>3. i.type = "TABLE" BY ItemsAssumption
<1>4. \A k, rows : Answer(k, rows).kind = k /\ Answer(k, rows).rows = rows BY DEF Answer
<1>5. a = ReadRows(table, reader) BY <1>1, <1>3, <1>4 DEF ReadTable
<1> DEFINE rows == IF reader.first THEN SubSeq(table.rows, 1, 1) ELSE table.rows
<1>6. CASE Len(table.headers) < reader.least
  <2>1. ReadRows(table, reader) = Answer("ok", <<>>) BY <1>6 DEF ReadRows
  <2> QED BY <1>1, <1>4, <1>5, <1>6, <2>1
<1>7. CASE ~(Len(table.headers) < reader.least)
  <2>1. ~(reader.first /\ table.rows = <<>>)
        BY <1>4, <1>5, <1>7 DEF ReadRows
  <2>2. a.rows = [r \in 1 .. Len(rows) |-> RowValue(table, reader, rows[r])]
    <3> DEFINE value == [r \in 1 .. Len(rows) |-> RowValue(table, reader, rows[r])]
    <3>1. \E o : ReadRows(table, reader) =
                    IF Len(table.headers) < reader.least THEN Answer("ok", <<>>)
                    ELSE IF reader.first /\ table.rows = <<>> THEN Answer("panic", <<>>)
                    ELSE IF o # "ok" THEN Answer(o, <<>>)
                    ELSE Answer(LateError(table, reader), value)
          BY Zenon DEF ReadRows
    <3> HIDE DEF value
    <3>2. PICK o : ReadRows(table, reader) =
                    IF Len(table.headers) < reader.least THEN Answer("ok", <<>>)
                    ELSE IF reader.first /\ table.rows = <<>> THEN Answer("panic", <<>>)
                    ELSE IF o # "ok" THEN Answer(o, <<>>)
                    ELSE Answer(LateError(table, reader), value)
          BY <3>1
    <3>3. o = "ok" BY <1>4, <1>5, <1>7, <2>1, <3>2
    <3>4. a = Answer(LateError(table, reader), value) BY <1>5, <1>7, <2>1, <3>2, <3>3
    <3>5. a.rows = value BY <1>4, <3>4
    <3> QED BY <3>5 DEF value
  <2>3. CASE reader.first
    <3>1. Len(table.rows) >= 1 BY <1>2, <2>1, <2>3, EmptySeq
    <3>2. rows = SubSeq(table.rows, 1, 1) BY <2>3
    <3>3. Len(rows) = 1 /\ rows[1] = table.rows[1]
      <4>1. \A r \in 1 .. 1 : table.rows[r] \in Seq(ServerCells) BY <1>2, <3>1
      <4>2. /\ Len(SubSeq(table.rows, 1, 1)) = IF 1 <= 1 THEN 1 - 1 + 1 ELSE 0
            /\ \A r \in 1 .. 1 - 1 + 1 : SubSeq(table.rows, 1, 1)[r] = table.rows[1 + r - 1]
            BY <4>1, SubSeqProperties
      <4> QED BY <3>2, <4>2
    <3>4. a.rows = [r \in 1 .. 1 |-> RowValue(table, reader, table.rows[r])]
      <4> HIDE DEF rows
      <4>1. \A r \in 1 .. 1 : rows[r] = table.rows[r] BY <3>3
      <4> QED BY <2>2, <3>3, <4>1
    <3> QED BY <1>1, <1>2, <2>3, <3>1, <3>4
  <2>4. CASE ~reader.first
    <3>1. rows = table.rows BY <2>4
    <3> QED BY <1>1, <1>2, <2>2, <2>4, <3>1
  <2> QED BY <2>3, <2>4
<1> QED BY <1>6, <1>7

(* What a reader that reports success may return for an item. *)
RightlyRead(i, reader, rows) ==
  LET headers == i.data.headers
  IN /\ ~reader.first /\ Len(headers) >= reader.least => Len(rows) = Len(i.data.rows)
     /\ \A r \in 1 .. Len(rows), f \in 1 .. Len(reader.fields) :
          rows[r][f] # Absent =>
            /\ ~ByPlace(reader, reader.fields[f], headers) => rows[r][f].of = <<reader.fields[f].col, r>>
            /\ ByPlace(reader, reader.fields[f], headers) /\ reader.fields[f].at \in 1 .. Len(headers)
                 => rows[r][f].of = <<headers[reader.fields[f].at], r>>

LEMMA LeastNumbers == \A reader \in Readers : reader.least \in Nat
BY DEF Readers, Reader, AsGraphSets, AsGraphCount, AsSchemas, AsProperties, AsIndexes, AsFullTexts,
       AsAlgos, AsPolicies, AsExtas, AsTasks, AsProcesses, AsStats, AsPrivileges, AsUsers, AsJobs,
       AsHDCGraphs, AsProjections

LEMMA ReadRightly ==
  ASSUME NEW i \in TableItems, NEW reader \in Readers, ReadTable(i, reader).kind = "ok"
  PROVE  RightlyRead(i, reader, ReadTable(i, reader).rows)
<1>1. PICK rows : rows = ReadTable(i, reader).rows OBVIOUS
<1>2. reader.least \in Nat /\ Len(i.data.headers) \in Nat /\ Len(i.data.rows) \in Nat
      BY LeastNumbers, ItemsAssumption, LenProperties
<1>3. CASE rows = <<>> /\ (Len(i.data.headers) < reader.least \/ i.data.rows = <<>>)
  <2>1. Len(rows) = 0 /\ 1 .. Len(rows) = {} BY <1>3
  <2>2. ~reader.first /\ Len(i.data.headers) >= reader.least => Len(rows) = Len(i.data.rows)
        BY <1>2, <1>3
  <2> QED BY <1>1, <2>1, <2>2 DEF RightlyRead
<1>4. CASE \E n \in Nat : /\ n <= Len(i.data.rows) /\ (~reader.first => n = Len(i.data.rows))
                          /\ rows = [r \in 1 .. n |-> RowValue(i.data, reader, i.data.rows[r])]
  <2>1. PICK n \in Nat : /\ n <= Len(i.data.rows) /\ (~reader.first => n = Len(i.data.rows))
                         /\ rows = [r \in 1 .. n |-> RowValue(i.data, reader, i.data.rows[r])]
        BY <1>4
  <2>2. Len(rows) = n
    <3>1. DOMAIN rows = 1 .. n /\ rows = [r \in 1 .. n |-> rows[r]] BY <2>1
    <3> QED BY <3>1, LengthOf
  <2>3. ASSUME NEW r \in 1 .. Len(rows), NEW f \in 1 .. Len(reader.fields), rows[r][f] # Absent
        PROVE  /\ ~ByPlace(reader, reader.fields[f], i.data.headers)
                    => rows[r][f].of = <<reader.fields[f].col, r>>
               /\ ByPlace(reader, reader.fields[f], i.data.headers)
                  /\ reader.fields[f].at \in 1 .. Len(i.data.headers)
                    => rows[r][f].of = <<i.data.headers[reader.fields[f].at], r>>
    <3>1. PICK field, row, cell : /\ field = reader.fields[f] /\ row = i.data.rows[r]
                                  /\ cell = CellOf(i.data, reader, field, row)
          OBVIOUS
    <3>2. rows[r][f] = FieldValue(reader, field, cell) BY <2>1, <2>2, <3>1 DEF RowValue
    <3>3. rows[r][f] = cell BY <2>3, <3>2, FieldIsCell
    <3>4. r \in 1 .. Len(i.data.rows) BY <1>2, <2>1, <2>2
    <3>5. cell = CellOf(i.data, reader, field, i.data.rows[r]) BY <3>1
    <3>6. CellOf(i.data, reader, field, i.data.rows[r]) # Absent BY <2>3, <3>3, <3>5
    <3>7. /\ ~ByPlace(reader, field, i.data.headers)
               => CellOf(i.data, reader, field, i.data.rows[r]).of = <<field.col, r>>
          /\ ByPlace(reader, field, i.data.headers) /\ field.at \in 1 .. Len(i.data.headers)
               => CellOf(i.data, reader, field, i.data.rows[r]).of = <<i.data.headers[field.at], r>>
          BY <3>4, <3>6, CellIsInPlace
    <3> QED BY <3>1, <3>3, <3>5, <3>7
  <2> QED BY <1>1, <2>1, <2>2, <2>3 DEF RightlyRead
<1> QED BY <1>1, <1>3, <1>4, RowsRead

\* Whatever the table, every field that a successful reader fills holds a cell of
\* its own row: that of its own column for the readers by key and map and for the
\* named columns of AsSchemas, and that of whatever column is at its place for the
\* readers by position, for AsSchemas' total, and for its columns without a header.
THEOREM FieldsAreTheirColumns == Spec => []FieldsComeFromTheirColumns
<1> DEFINE Inv == ItemInv /\ FieldsComeFromTheirColumns
<1>1. Init => Inv
      BY DEF Init, ItemInv, FieldsComeFromTheirColumns, Returned, NoAnswer
<1>2. Inv /\ [Next]_vars => Inv'
  <2> SUFFICES ASSUME Inv, [Next]_vars PROVE FieldsComeFromTheirColumns'
      BY ItemStep
  <2>1. CASE UNCHANGED <<item, answer>> BY <2>1 DEF FieldsComeFromTheirColumns, Returned
  <2>2. ASSUME answer'.call # "ReadTable" PROVE FieldsComeFromTheirColumns'
        BY <2>2 DEF FieldsComeFromTheirColumns, Returned
  <2>3. ASSUME UNCHANGED item, NEW reader \in Readers,
               answer' = [call |-> "ReadTable", kind |-> ReadTable(item, reader).kind,
                          value |-> [reader |-> reader, rows |-> ReadTable(item, reader).rows]]
        PROVE  FieldsComeFromTheirColumns'
    <3>1. CASE ReadTable(item, reader).kind # "ok" \/ item.type # "TABLE"
          BY <2>3, <3>1 DEF FieldsComeFromTheirColumns, Returned
    <3>2. CASE ReadTable(item, reader).kind = "ok" /\ item.type = "TABLE"
      <4>1. item \in TableItems BY <3>2, ItemTypes
      <4>2. RightlyRead(item, reader, ReadTable(item, reader).rows) BY <3>2, <4>1, ReadRightly
      <4>3. answer'.value.reader = reader /\ answer'.value.rows = ReadTable(item, reader).rows
            BY <2>3
      <4>4. ASSUME NEW field, NEW cell, NEW r,
                   /\ ~ByPlace(reader, field, item.data.headers) => cell.of = <<field.col, r>>
                   /\ ByPlace(reader, field, item.data.headers) /\ field.at \in 1 .. Len(item.data.headers)
                        => cell.of = <<item.data.headers[field.at], r>>
            PROVE  RightCell(reader, field, cell, r, item.data.headers)
            BY <4>4 DEF ByPlace, RightCell
      <4>5. PICK rows : rows = ReadTable(item, reader).rows OBVIOUS
      <4>6. /\ ~reader.first /\ Len(item.data.headers) >= reader.least => Len(rows) = Len(item.data.rows)
            /\ \A r \in 1 .. Len(rows), f \in 1 .. Len(reader.fields) :
                 rows[r][f] # Absent => RightCell(reader, reader.fields[f], rows[r][f], r, item.data.headers)
        <5>1. ASSUME NEW r \in 1 .. Len(rows), NEW f \in 1 .. Len(reader.fields), rows[r][f] # Absent
              PROVE  RightCell(reader, reader.fields[f], rows[r][f], r, item.data.headers)
          <6>1. /\ ~ByPlace(reader, reader.fields[f], item.data.headers)
                     => rows[r][f].of = <<reader.fields[f].col, r>>
                /\ ByPlace(reader, reader.fields[f], item.data.headers)
                   /\ reader.fields[f].at \in 1 .. Len(item.data.headers)
                     => rows[r][f].of = <<item.data.headers[reader.fields[f].at], r>>
                BY <4>2, <4>5, <5>1 DEF RightlyRead
          <6> QED BY <4>4, <6>1
        <5>2. ~reader.first /\ Len(item.data.headers) >= reader.least => Len(rows) = Len(item.data.rows)
              BY <4>2, <4>5 DEF RightlyRead
        <5> QED BY <5>1, <5>2
      <4>7. item' = item /\ answer'.value.reader = reader /\ answer'.value.rows = rows BY <2>3, <4>3, <4>5
      <4> QED BY <4>6, <4>7 DEF FieldsComeFromTheirColumns, RightCell
    <3> QED BY <3>1, <3>2
  <2>4. NoAnswer.call = "none" BY DEF NoAnswer
  <2> QED BY <2>1, <2>2, <2>3, <2>4, AnswerStep, CallNames, OtherNames
<1> QED BY <1>1, <1>2, PTL DEF Spec

-----------------------------------------------------------------------------
(* FlattenSeq, which the loops that pass something over are written with *)

(* The recursive function of its definition exists. *)
LEMMA FlattenDefined ==
  ASSUME NEW seqs, Len(seqs) \in Nat, Len(seqs) # 0
  PROVE  \E f : /\ f = [i \in 1 .. Len(seqs) |-> IF i = 1 THEN seqs[i] ELSE f[i - 1] \o seqs[i]]
                /\ FlattenSeq(seqs) = f[Len(seqs)]
<1> DEFINE Body(f, i) == IF i = 1 THEN seqs[i] ELSE f[i - 1] \o seqs[i]
           Upto == {m \in Nat : \E f : f = [i \in 1 .. m |-> Body(f, i)]}
<1>1. 0 \in Upto
  <2>1. PICK f : f = [i \in 1 .. 0 |-> 0] OBVIOUS
  <2>2. \A i \in 1 .. 0 : 0 = Body(f, i) OBVIOUS
  <2> HIDE DEF Body
  <2>3. f = [i \in 1 .. 0 |-> Body(f, i)] BY <2>1, <2>2
  <2> QED BY <2>3
<1>2. ASSUME NEW m \in Upto PROVE m + 1 \in Upto
  <2>1. PICK f : f = [i \in 1 .. m |-> Body(f, i)] OBVIOUS
  <2>2. PICK h : h = [i \in 1 .. (m + 1) |-> IF i = m + 1 THEN Body(f, m + 1) ELSE f[i]] OBVIOUS
  <2>3. \A i \in 1 .. m : h[i] = f[i] BY <2>2
  <2>4. ASSUME NEW i \in 1 .. (m + 1) PROVE h[i] = Body(h, i)
    <3>1. CASE i = m + 1
      <4>1. h[i] = Body(f, m + 1) BY <2>2, <3>1
      <4>2. i = 1 \/ i - 1 \in 1 .. m BY <3>1
      <4> QED BY <2>3, <3>1, <4>1, <4>2
    <3>2. CASE i \in 1 .. m
      <4>1. h[i] = f[i] BY <2>3, <3>2
      <4>2. f[i] = Body(f, i) BY <2>1, <3>2
      <4>3. i = 1 \/ i - 1 \in 1 .. m BY <3>2
      <4> QED BY <2>3, <4>1, <4>2, <4>3
    <3> QED BY <3>1, <3>2
  <2> HIDE DEF Body
  <2>5. h = [i \in 1 .. (m + 1) |-> h[i]] BY <2>2
  <2>6. h = [i \in 1 .. (m + 1) |-> Body(h, i)] BY <2>4, <2>5
  <2> QED BY <2>6
<1>3. Len(seqs) \in Upto
  <2>1. Upto = Nat
    <3> HIDE DEF Body
    <3>1. Upto \in SUBSET Nat OBVIOUS
    <3> HIDE DEF Upto
    <3> QED BY <1>1, <1>2, <3>1, SetInduction
  <2> QED BY <2>1
<1> DEFINE flatten == CHOOSE f : f = [i \in 1 .. Len(seqs) |-> Body(f, i)]
<1>4. flatten = [i \in 1 .. Len(seqs) |-> Body(flatten, i)]
  <2> HIDE DEF Body
  <2>1. \E f : f = [i \in 1 .. Len(seqs) |-> Body(f, i)] BY <1>3
  <2> QED BY <2>1
<1>5. FlattenSeq(seqs) = flatten[Len(seqs)] BY DEF FlattenSeq
<1> QED BY <1>4, <1>5

LEMMA ConcatRange ==
  ASSUME NEW S, NEW x \in Seq(S), NEW y \in Seq(S)
  PROVE  /\ x \o y \in Seq(S) /\ Len(x \o y) = Len(x) + Len(y)
         /\ Range(x \o y) = Range(x) \cup Range(y)
         /\ \A i \in 1 .. Len(x) : (x \o y)[i] = x[i]
         /\ \A j \in 1 .. Len(y) : (x \o y)[Len(x) + j] = y[j]
<1>1. PICK z : z = x \o y OBVIOUS
<1>2. Len(x) \in Nat /\ Len(y) \in Nat /\ DOMAIN x = 1 .. Len(x) /\ DOMAIN y = 1 .. Len(y)
      BY LenProperties
<1>3. z \in Seq(S) /\ Len(z) = Len(x) + Len(y) BY <1>1, ConcatProperties
<1>4. \A k \in 1 .. Len(x) + Len(y) : z[k] = IF k <= Len(x) THEN x[k] ELSE y[k - Len(x)]
      BY <1>1, ConcatProperties
<1>5. DOMAIN z = 1 .. Len(x) + Len(y) BY <1>3, LenProperties
<1>6. ASSUME NEW i \in 1 .. Len(x) PROVE i \in 1 .. Len(x) + Len(y) /\ z[i] = x[i]
      BY <1>2, <1>4
<1>7. ASSUME NEW j \in 1 .. Len(y)
      PROVE  Len(x) + j \in 1 .. Len(x) + Len(y) /\ z[Len(x) + j] = y[j]
  <2>1. Len(x) + j \in 1 .. Len(x) + Len(y) /\ ~(Len(x) + j <= Len(x)) /\ (Len(x) + j) - Len(x) = j
        BY <1>2
  <2> QED BY <1>4, <2>1
<1>8. ASSUME NEW k \in 1 .. Len(x) + Len(y)
      PROVE  k \in 1 .. Len(x) \/ \E j \in 1 .. Len(y) : k = Len(x) + j
  <2>1. k \in 1 .. Len(x) \/ (k - Len(x) \in 1 .. Len(y) /\ k = Len(x) + (k - Len(x))) BY <1>2
  <2> QED BY <2>1
<1>9. Range(z) = Range(x) \cup Range(y)
  <2>1. \A v : v \in Range(z) <=> \E k \in 1 .. Len(x) + Len(y) : v = z[k] BY <1>5 DEF Range
  <2>2. \A v : v \in Range(x) <=> \E k \in 1 .. Len(x) : v = x[k] BY <1>2 DEF Range
  <2>3. \A v : v \in Range(y) <=> \E k \in 1 .. Len(y) : v = y[k] BY <1>2 DEF Range
  <2>4. ASSUME NEW v \in Range(z) PROVE v \in Range(x) \cup Range(y)
    <3>1. PICK k \in 1 .. Len(x) + Len(y) : v = z[k] BY <2>1, <2>4
    <3>2. CASE k \in 1 .. Len(x)
      <4>1. v = x[k] BY <1>6, <3>1, <3>2
      <4> QED BY <2>2, <3>2, <4>1
    <3>3. ASSUME NEW j \in 1 .. Len(y), k = Len(x) + j PROVE v \in Range(y)
      <4>1. v = y[j] BY <1>7, <3>1, <3>3
      <4> QED BY <2>3, <4>1
    <3> QED BY <1>8, <3>2, <3>3
  <2>5. ASSUME NEW v \in Range(x) \cup Range(y) PROVE v \in Range(z)
    <3>1. ASSUME NEW k \in 1 .. Len(x), v = x[k] PROVE v \in Range(z) BY <1>6, <2>1, <3>1
    <3>2. ASSUME NEW k \in 1 .. Len(y), v = y[k] PROVE v \in Range(z) BY <1>7, <2>1, <3>2
    <3> QED BY <2>2, <2>3, <2>5, <3>1, <3>2
  <2> QED BY <2>4, <2>5
<1> QED BY <1>1, <1>3, <1>6, <1>7, <1>9

LEMMA FlattenRange ==
  ASSUME NEW S, NEW seqs \in Seq(Seq(S))
  PROVE  /\ FlattenSeq(seqs) \in Seq(S)
         /\ \A v : v \in Range(FlattenSeq(seqs)) <=> \E i \in 1 .. Len(seqs) : v \in Range(seqs[i])
<1>1. Len(seqs) \in Nat /\ \A i \in 1 .. Len(seqs) : seqs[i] \in Seq(S) OBVIOUS
<1>2. CASE Len(seqs) = 0
  <2>1. FlattenSeq(seqs) = seqs /\ seqs = <<>> BY <1>2, EmptySeq DEF FlattenSeq
  <2> QED BY <1>2, <2>1 DEF Range
<1>3. CASE Len(seqs) # 0
  <2>1. PICK f : /\ f = [i \in 1 .. Len(seqs) |-> IF i = 1 THEN seqs[i] ELSE f[i - 1] \o seqs[i]]
                 /\ FlattenSeq(seqs) = f[Len(seqs)]
        BY <1>1, <1>3, FlattenDefined
  <2> DEFINE Ok(m) == f[m] \in Seq(S) /\ \A v : v \in Range(f[m]) <=> \E i \in 1 .. m : v \in Range(seqs[i])
             Good == {m \in Nat : m + 1 <= Len(seqs) => Ok(m + 1)}
  <2>2. 0 \in Good
    <3>1. f[1] = seqs[1] BY <1>1, <1>3, <2>1
    <3>2. 1 .. 1 = {1} /\ seqs[1] \in Seq(S) BY <1>1, <1>3
    <3>3. Ok(1) BY <3>1, <3>2
    <3> QED BY <3>3
  <2>3. ASSUME NEW m \in Good PROVE m + 1 \in Good
    <3> SUFFICES ASSUME (m + 1) + 1 <= Len(seqs) PROVE Ok((m + 1) + 1)
        OBVIOUS
    <3>1. PICK k : k = m + 1 OBVIOUS
    <3>2. m \in Nat /\ m + 1 <= Len(seqs) BY <1>1
    <3>3. k \in Nat /\ Ok(k) BY <3>1, <3>2
    <3>4. k + 1 \in 1 .. Len(seqs) /\ k + 1 # 1 /\ (k + 1) - 1 = k BY <1>1, <3>1, <3>2
    <3>5. f[k + 1] = f[k] \o seqs[k + 1] BY <2>1, <3>4
    <3>6. seqs[k + 1] \in Seq(S) BY <1>1, <3>4
    <3>7. f[k + 1] \in Seq(S) /\ Range(f[k + 1]) = Range(f[k]) \cup Range(seqs[k + 1])
          BY <3>3, <3>5, <3>6, ConcatRange
    <3>8. 1 .. k + 1 = (1 .. k) \cup {k + 1} BY <3>3
    <3>9. ASSUME NEW v
          PROVE  v \in Range(f[k + 1]) <=> \E i \in 1 .. k + 1 : v \in Range(seqs[i])
      <4>1. v \in Range(f[k]) <=> \E i \in 1 .. k : v \in Range(seqs[i]) BY <3>3
      <4>2. v \in Range(f[k + 1]) <=> v \in Range(f[k]) \/ v \in Range(seqs[k + 1]) BY <3>7
      <4> QED BY <3>8, <4>1, <4>2
    <3>10. Ok(k + 1) BY <3>7, <3>9
    <3> QED BY <3>1, <3>10
  <2>4. Good \in SUBSET Nat OBVIOUS
  <2>5. Good = Nat
    <3> HIDE DEF Good
    <3> QED BY <2>2, <2>3, <2>4, SetInduction
  <2>6. Len(seqs) - 1 \in Nat /\ (Len(seqs) - 1) + 1 = Len(seqs) BY <1>1, <1>3
  <2>7. Ok(Len(seqs))
    <3>1. PICK m \in Good : m + 1 = Len(seqs)
      <4> HIDE DEF Good
      <4> QED BY <2>5, <2>6
    <3>2. Ok(m + 1)
      <4> HIDE DEF Ok
      <4> QED BY <1>1, <3>1
    <3> HIDE DEF Ok
    <3> QED BY <3>1, <3>2
  <2> QED BY <2>1, <2>7
<1> QED BY <1>1, <1>2, <1>3

(* Of parts that are empty or of one element, the n-th that is not empty    *)
(* gives the n-th element.                                                  *)
Parts(seqs, n) == {i \in 1 .. n : seqs[i] # <<>>}

LEMMA PartsGrow ==
  ASSUME NEW seqs, NEW n \in Nat
  PROVE  /\ Cardinality(Parts(seqs, 0)) = 0
         /\ Cardinality(Parts(seqs, n)) \in Nat
         /\ Cardinality(Parts(seqs, n + 1)) =
              IF seqs[n + 1] = <<>> THEN Cardinality(Parts(seqs, n)) ELSE Cardinality(Parts(seqs, n)) + 1
<1>1. Parts(seqs, 0) = {} BY DEF Parts
<1>2. IsFiniteSet(Parts(seqs, n)) /\ Cardinality(Parts(seqs, n)) \in Nat
  <2>1. Parts(seqs, n) \in SUBSET (1 .. n) BY DEF Parts
  <2>2. IsFiniteSet(1 .. n) BY FS_Interval
  <2>3. IsFiniteSet(Parts(seqs, n)) BY <2>1, <2>2, FS_Subset
  <2> QED BY <2>3, FS_CardinalityType
<1>3. CASE seqs[n + 1] = <<>>
  <2>1. Parts(seqs, n + 1) = Parts(seqs, n) BY <1>3 DEF Parts
  <2> QED BY <1>1, <1>2, <1>3, <2>1, FS_EmptySet
<1>4. CASE seqs[n + 1] # <<>>
  <2>1. Parts(seqs, n + 1) = Parts(seqs, n) \cup {n + 1} BY <1>4 DEF Parts
  <2>2. n + 1 \notin Parts(seqs, n) BY DEF Parts
  <2> QED BY <1>1, <1>2, <1>4, <2>1, <2>2, FS_EmptySet, FS_AddElement
<1> QED BY <1>3, <1>4

LEMMA FlattenPlaces ==
  ASSUME NEW S, NEW seqs \in Seq(Seq(S)), \A i \in 1 .. Len(seqs) : Len(seqs[i]) <= 1
  PROVE  /\ Len(FlattenSeq(seqs)) = Cardinality(Parts(seqs, Len(seqs)))
         /\ \A i \in Parts(seqs, Len(seqs)) :
              FlattenSeq(seqs)[Cardinality(Parts(seqs, i))] = seqs[i][1]
<1>1. Len(seqs) \in Nat /\ \A i \in 1 .. Len(seqs) : seqs[i] \in Seq(S) OBVIOUS
<1>2. CASE Len(seqs) = 0
  <2>1. FlattenSeq(seqs) = seqs BY <1>2 DEF FlattenSeq
  <2>2. Parts(seqs, 0) = {} BY DEF Parts
  <2> QED BY <1>2, <2>1, <2>2, FS_EmptySet
<1>3. CASE Len(seqs) # 0
  <2>1. PICK f : /\ f = [i \in 1 .. Len(seqs) |-> IF i = 1 THEN seqs[i] ELSE f[i - 1] \o seqs[i]]
                 /\ FlattenSeq(seqs) = f[Len(seqs)]
        BY <1>1, <1>3, FlattenDefined
  <2> DEFINE At(i) == Cardinality(Parts(seqs, i))
             Ok(m) == /\ f[m] \in Seq(S) /\ Len(f[m]) = At(m)
                      /\ \A i \in Parts(seqs, m) : At(i) \in 1 .. At(m) /\ f[m][At(i)] = seqs[i][1]
             Good == {m \in Nat : m + 1 <= Len(seqs) => Ok(m + 1)}
  <2>2. ASSUME NEW k \in Nat
        PROVE  /\ At(0) = 0 /\ At(k) \in Nat
               /\ At(k + 1) = IF seqs[k + 1] = <<>> THEN At(k) ELSE At(k) + 1
        BY PartsGrow
  <2>3. ASSUME NEW i \in 1 .. Len(seqs)
        PROVE  Len(seqs[i]) = IF seqs[i] = <<>> THEN 0 ELSE 1
    <3>1. seqs[i] \in Seq(S) /\ Len(seqs[i]) \in Nat /\ Len(seqs[i]) <= 1 BY <1>1, LenProperties
    <3> QED BY <3>1, EmptySeq
  <2> HIDE DEF At
  <2>4. 0 \in Good
    <3>1. f[1] = seqs[1] /\ 1 \in 1 .. Len(seqs) /\ seqs[1] \in Seq(S) BY <1>1, <1>3, <2>1
    <3>2. At(1) = IF seqs[1] = <<>> THEN 0 ELSE 1
      <4>1. 0 + 1 = 1 OBVIOUS
      <4> QED BY <2>2, <4>1
    <3>3. Len(f[1]) = At(1) BY <2>3, <3>1, <3>2
    <3>4. ASSUME NEW i \in Parts(seqs, 1) PROVE At(i) \in 1 .. At(1) /\ f[1][At(i)] = seqs[i][1]
      <4>1. i = 1 /\ seqs[1] # <<>> BY DEF Parts
      <4>2. At(i) = 1 /\ At(1) = 1 BY <3>2, <4>1
      <4> QED BY <3>1, <4>1, <4>2
    <3>5. Ok(1) BY <3>1, <3>3, <3>4
    <3> QED BY <3>5
  <2>5. ASSUME NEW m \in Good PROVE m + 1 \in Good
    <3> SUFFICES ASSUME (m + 1) + 1 <= Len(seqs) PROVE Ok((m + 1) + 1)
        OBVIOUS
    <3>1. PICK k : k = m + 1 OBVIOUS
    <3>2. m \in Nat /\ m + 1 <= Len(seqs) BY <1>1
    <3>3. k \in Nat /\ Ok(k) BY <3>1, <3>2
    <3>4. k + 1 \in 1 .. Len(seqs) /\ k + 1 # 1 /\ (k + 1) - 1 = k BY <1>1, <3>1, <3>2
    <3>5. PICK x, y, z : x = f[k] /\ y = seqs[k + 1] /\ z = f[k + 1] OBVIOUS
    <3>6. z = x \o y BY <2>1, <3>4, <3>5
    <3>7. y \in Seq(S) /\ Len(y) = IF y = <<>> THEN 0 ELSE 1 BY <1>1, <2>3, <3>4, <3>5
    <3>8. x \in Seq(S) /\ Len(x) = At(k) /\ At(k) \in Nat BY <2>2, <3>3, <3>5
    <3>9. /\ z \in Seq(S) /\ Len(z) = Len(x) + Len(y)
          /\ \A i \in 1 .. Len(x) : z[i] = x[i]
          /\ \A j \in 1 .. Len(y) : z[Len(x) + j] = y[j]
      <4> HIDE DEF Ok, Good
      <4>0. x \in Seq(S) /\ y \in Seq(S) BY <3>7, <3>8
      <4>1. /\ x \o y \in Seq(S) /\ Len(x \o y) = Len(x) + Len(y)
            /\ \A i \in 1 .. Len(x) : (x \o y)[i] = x[i]
            /\ \A j \in 1 .. Len(y) : (x \o y)[Len(x) + j] = y[j]
            BY <4>0, ConcatRange
      <4> QED BY <3>6, <4>1
    <3>10. At(k + 1) = IF y = <<>> THEN At(k) ELSE At(k) + 1 BY <2>2, <3>3, <3>5
    <3>11. Len(z) = At(k + 1) BY <3>7, <3>8, <3>9, <3>10
    <3>12. ASSUME NEW i \in Parts(seqs, k + 1)
           PROVE  At(i) \in 1 .. At(k + 1) /\ z[At(i)] = seqs[i][1]
      <4>1. CASE i = k + 1
        <5>1. y # <<>> BY <3>5, <4>1 DEF Parts
        <5>2. At(i) = At(k) + 1 /\ At(k + 1) = At(k) + 1 /\ Len(y) = 1 BY <3>7, <3>10, <4>1, <5>1
        <5>3. z[Len(x) + 1] = y[1] BY <3>9, <5>2
        <5> QED BY <3>5, <3>8, <4>1, <5>2, <5>3
      <4>2. CASE i # k + 1
        <5>1. i \in Parts(seqs, k) BY <3>3, <4>2 DEF Parts
        <5>2. At(i) \in 1 .. At(k) /\ x[At(i)] = seqs[i][1] BY <3>3, <3>5, <5>1
        <5>3. z[At(i)] = x[At(i)] BY <3>8, <3>9, <5>2
        <5>4. At(k + 1) \in Nat /\ At(k + 1) >= At(k) BY <3>8, <3>10
        <5>5. At(i) \in 1 .. At(k + 1) BY <3>8, <5>2, <5>4
        <5> QED BY <5>2, <5>3, <5>5
      <4> QED BY <4>1, <4>2
    <3>13. Ok(k + 1) BY <3>5, <3>9, <3>11, <3>12
    <3> HIDE DEF Ok
    <3> QED BY <3>1, <3>13
  <2>6. Good \in SUBSET Nat OBVIOUS
  <2>7. Good = Nat
    <3> HIDE DEF Good
    <3> QED BY <2>4, <2>5, <2>6, SetInduction
  <2>8. Len(seqs) - 1 \in Nat /\ (Len(seqs) - 1) + 1 = Len(seqs) BY <1>1, <1>3
  <2>9. Ok(Len(seqs))
    <3>1. PICK m \in Good : m + 1 = Len(seqs)
      <4> HIDE DEF Good
      <4> QED BY <2>7, <2>8
    <3>2. Ok(m + 1)
      <4> HIDE DEF Ok
      <4> QED BY <1>1, <3>1
    <3> HIDE DEF Ok
    <3> QED BY <3>1, <3>2
  <2> QED BY <2>1, <2>9 DEF At
<1> QED BY <1>1, <1>2, <1>3

-----------------------------------------------------------------------------
(* Entities and paths *)

LEMMA NotNullPlaces ==
  ASSUME NEW rows \in Seq(ServerRows)
  PROVE  /\ NotNull(rows) \in Seq(ServerRows)
         /\ Len(NotNull(rows)) = Cardinality(Kept(rows, Len(rows)))
         /\ \A j \in Kept(rows, Len(rows)) :
              /\ Cardinality(Kept(rows, j)) \in 1 .. Len(NotNull(rows))
              /\ NotNull(rows)[Cardinality(Kept(rows, j))] = rows[j]
<1>1. PICK seqs : seqs = [i \in 1 .. Len(rows) |-> IF rows[i].null THEN <<>> ELSE <<rows[i]>>]
      OBVIOUS
<1>2. Len(rows) \in Nat /\ \A i \in 1 .. Len(rows) : rows[i] \in ServerRows /\ rows[i].null \in BOOLEAN
  <2>1. \A i \in 1 .. Len(rows) : rows[i] \in ServerRows OBVIOUS
  <2> QED BY <2>1 DEF ServerRows
<1>3. ASSUME NEW i \in 1 .. Len(rows)
      PROVE  /\ seqs[i] \in Seq(ServerRows) /\ Len(seqs[i]) <= 1
             /\ ~rows[i].null => seqs[i] # <<>> /\ seqs[i][1] = rows[i]
             /\ seqs[i] # <<>> => ~rows[i].null
      BY <1>1, <1>2
<1>4. seqs \in Seq(Seq(ServerRows)) /\ Len(seqs) = Len(rows)
  <2>1. seqs \in [1 .. Len(rows) -> Seq(ServerRows)] BY <1>1, <1>3
  <2> QED BY <1>2, <2>1
<1>5. NotNull(rows) = FlattenSeq(seqs) BY <1>1 DEF NotNull
<1>6. ASSUME NEW n \in 0 .. Len(rows) PROVE Parts(seqs, n) = Kept(rows, n)
  <2>1. \A i \in 1 .. n : i \in 1 .. Len(rows) BY <1>2
  <2> QED BY <1>3, <2>1 DEF Parts, Kept
<1>7. NotNull(rows) \in Seq(ServerRows) BY <1>4, <1>5, FlattenRange
<1>8. /\ Len(FlattenSeq(seqs)) = Cardinality(Parts(seqs, Len(seqs)))
      /\ \A i \in Parts(seqs, Len(seqs)) :
              FlattenSeq(seqs)[Cardinality(Parts(seqs, i))] = seqs[i][1]
      BY <1>3, <1>4, FlattenPlaces
<1>9. Len(NotNull(rows)) = Cardinality(Kept(rows, Len(rows))) BY <1>2, <1>4, <1>5, <1>6, <1>8
<1>10. ASSUME NEW j \in Kept(rows, Len(rows))
       PROVE  /\ Cardinality(Kept(rows, j)) \in 1 .. Len(NotNull(rows))
              /\ NotNull(rows)[Cardinality(Kept(rows, j))] = rows[j]
  <2>1. j \in 1 .. Len(rows) /\ j \in 0 .. Len(rows) /\ ~rows[j].null BY <1>2 DEF Kept
  <2>2. Parts(seqs, j) = Kept(rows, j) /\ j \in Parts(seqs, Len(seqs))
    <3>1. Len(rows) \in 0 .. Len(rows) /\ Len(seqs) = Len(rows) BY <1>2, <1>4
    <3>2. Parts(seqs, Len(seqs)) = Kept(rows, Len(rows)) BY <1>6, <3>1
    <3>3. Parts(seqs, j) = Kept(rows, j) BY <1>6, <2>1
    <3> QED BY <3>2, <3>3
  <2>3. NotNull(rows)[Cardinality(Kept(rows, j))] = rows[j] BY <1>3, <1>5, <1>8, <2>1, <2>2
  <2>4. Cardinality(Kept(rows, j)) \in 1 .. Cardinality(Kept(rows, Len(rows)))
    <3>1. IsFiniteSet(1 .. Len(rows)) BY <1>2, FS_Interval
    <3>2. Kept(rows, Len(rows)) \in SUBSET (1 .. Len(rows)) BY DEF Kept
    <3>3. IsFiniteSet(Kept(rows, Len(rows))) BY <3>1, <3>2, FS_Subset
    <3>4. Kept(rows, j) \in SUBSET Kept(rows, Len(rows)) BY <1>2, <2>1 DEF Kept
    <3>5. /\ IsFiniteSet(Kept(rows, j))
          /\ Cardinality(Kept(rows, j)) <= Cardinality(Kept(rows, Len(rows)))
          BY <3>3, <3>4, FS_Subset
    <3>6. j \in Kept(rows, j) BY <2>1 DEF Kept
    <3>7. Cardinality(Kept(rows, j)) # 0 BY <3>5, <3>6, FS_EmptySet
    <3>8. Cardinality(Kept(rows, j)) \in Nat /\ Cardinality(Kept(rows, Len(rows))) \in Nat
          BY <3>3, <3>5, FS_CardinalityType
    <3> QED BY <3>5, <3>7, <3>8
  <2> QED BY <1>9, <2>3, <2>4
<1> QED BY <1>7, <1>9, <1>10

LEMMA TableUUIDs ==
  ASSUME NEW table, table.rows \in Seq(ServerRows)
  PROVE  /\ Entities(table) \in Seq(Range(Entities(table)))
         /\ InOrder(NodeTableToUUIDs(table), table.rows)
         /\ Range(NodeTableToUUIDs(table)) = UUIDs(Entities(table))
<1>1. PICK rows : rows = NotNull(table.rows) OBVIOUS
<1>2. rows \in Seq(ServerRows) /\ Len(rows) \in Nat BY <1>1, NotNullPlaces, LenProperties
<1>3. PICK e, u : e = Entities(table) /\ u = NodeTableToUUIDs(table) OBVIOUS
<1>4. e = [i \in 1 .. Len(rows) |-> EntityOf(table, rows[i])] BY <1>1, <1>3 DEF Entities
<1>5. u = [i \in 1 .. Len(rows) |-> rows[i].uuid] BY <1>1, <1>3 DEF NodeTableToUUIDs
<1>6. e \in Seq(Range(e)) /\ Len(e) = Len(rows)
  <2>1. DOMAIN e = 1 .. Len(rows) /\ e = [i \in 1 .. Len(rows) |-> e[i]] BY <1>4
  <2> QED BY <1>2, <2>1, LengthOf
<1>7. Len(u) = Len(rows)
  <2>1. DOMAIN u = 1 .. Len(rows) /\ u = [i \in 1 .. Len(rows) |-> u[i]] BY <1>5
  <2> QED BY <1>2, <2>1, LengthOf
<1>8. \A i \in 1 .. Len(rows) : e[i].uuid = rows[i].uuid BY <1>4 DEF EntityOf
<1>9. Range(u) = UUIDs(e)
  <2>1. Range(u) = {rows[i].uuid : i \in 1 .. Len(rows)} BY <1>5 DEF Range
  <2>2. UUIDs(e) = {e[i].uuid : i \in 1 .. Len(rows)} BY <1>6 DEF UUIDs
  <2> QED BY <1>8, <2>1, <2>2
<1>10. InOrder(u, table.rows)
  <2>1. /\ Len(rows) = Cardinality(Kept(table.rows, Len(table.rows)))
        /\ \A j \in Kept(table.rows, Len(table.rows)) :
              /\ Cardinality(Kept(table.rows, j)) \in 1 .. Len(rows)
              /\ rows[Cardinality(Kept(table.rows, j))] = table.rows[j]
        BY <1>1, NotNullPlaces
  <2>2. ASSUME NEW j \in Kept(table.rows, Len(table.rows))
        PROVE  u[Cardinality(Kept(table.rows, j))] = table.rows[j].uuid
        BY <1>5, <2>1
  <2> QED BY <1>7, <2>1, <2>2 DEF InOrder
<1> QED BY <1>3, <1>6, <1>9, <1>10

LEMMA KeysByUUID == ASSUME NEW e PROVE DOMAIN ByUUID(e) = UUIDs(e)
BY DEF ByUUID, UUIDs

LEMMA AllUUIDs ==
  ASSUME NEW tables, Len(tables) \in Nat, \A i \in 1 .. Len(tables) : tables[i].rows \in Seq(ServerRows)
  PROVE  \A u : u \in UUIDs(AllEntities(tables)) <=>
                  \E i \in 1 .. Len(tables) : u \in UUIDs(Entities(tables[i]))
<1>1. PICK seqs : seqs = [i \in 1 .. Len(tables) |-> Entities(tables[i])] OBVIOUS
<1> DEFINE S == UNION {Range(seqs[i]) : i \in 1 .. Len(tables)}
<1>2. ASSUME NEW i \in 1 .. Len(tables) PROVE seqs[i] \in Seq(S) /\ seqs[i] \in Seq(Range(seqs[i]))
  <2>1. seqs[i] = Entities(tables[i]) /\ tables[i].rows \in Seq(ServerRows) BY <1>1
  <2>2. seqs[i] \in Seq(Range(seqs[i])) BY <2>1, TableUUIDs
  <2>3. Range(seqs[i]) \subseteq S OBVIOUS
  <2> HIDE DEF S
  <2> QED BY <2>2, <2>3
<1> HIDE DEF S
<1>3. seqs \in Seq(Seq(S)) /\ Len(seqs) = Len(tables)
  <2>1. seqs \in [1 .. Len(tables) -> Seq(S)] BY <1>1, <1>2
  <2> QED BY <2>1
<1>4. PICK all : all = AllEntities(tables) OBVIOUS
<1>5. /\ all \in Seq(S)
      /\ \A v : v \in Range(all) <=> \E i \in 1 .. Len(tables) : v \in Range(seqs[i])
  <2>1. all = FlattenSeq(seqs) BY <1>1, <1>4 DEF AllEntities
  <2> QED BY <1>3, <2>1, FlattenRange
<1>6. ASSUME NEW T, NEW x \in Seq(T), NEW u PROVE u \in UUIDs(x) <=> \E v \in Range(x) : u = v.uuid
  <2>1. DOMAIN x = 1 .. Len(x) BY LenProperties
  <2> QED BY <2>1 DEF UUIDs, Range
<1>7. ASSUME NEW u
      PROVE  u \in UUIDs(all) <=> \E i \in 1 .. Len(tables) : u \in UUIDs(seqs[i])
  <2>1. u \in UUIDs(all) <=> \E v \in Range(all) : u = v.uuid BY <1>5, <1>6
  <2>2. \A i \in 1 .. Len(tables) : u \in UUIDs(seqs[i]) <=> \E v \in Range(seqs[i]) : u = v.uuid
        BY <1>2, <1>6
  <2> QED BY <1>5, <2>1, <2>2
<1> QED BY <1>1, <1>4, <1>7

(* What AsPaths and AsGraph hand out for the paths of an item. *)
ClosedPaths(paths, data) ==
  /\ Len(paths) = Len(data)
  /\ \A i \in 1 .. Len(paths) :
       /\ Range(paths[i].nodeUUIDs) = DOMAIN paths[i].nodes
       /\ Range(paths[i].edgeUUIDs) = DOMAIN paths[i].edges
       /\ InOrder(paths[i].nodeUUIDs, data[i].nodes.rows)
       /\ InOrder(paths[i].edgeUUIDs, data[i].edges.rows)

PathData(data) ==
  /\ Len(data) \in Nat
  /\ \A i \in 1 .. Len(data) : data[i].nodes.rows \in Seq(ServerRows) /\ data[i].edges.rows \in Seq(ServerRows)

LEMMA PathItemData == ASSUME NEW i \in PathItems PROVE PathData(i.data)
<1>1. i.data \in Seq(Range(i.data)) BY ItemsAssumption DEF IsSequence
<1>2. \A p \in Range(i.data) : p.nodes.rows \in Seq(ServerRows) /\ p.edges.rows \in Seq(ServerRows)
      BY ItemsAssumption
<1>3. Len(i.data) \in Nat /\ \A k \in 1 .. Len(i.data) : i.data[k] \in Range(i.data) BY <1>1
<1> QED BY <1>2, <1>3 DEF PathData

LEMMA PathsClosed == ASSUME NEW data, PathData(data) PROVE ClosedPaths(parsePaths(data), data)
<1>1. PICK paths : paths = parsePaths(data) OBVIOUS
<1>2. paths = [i \in 1 .. Len(data) |->
                 [nodeUUIDs |-> NodeTableToUUIDs(data[i].nodes),
                  edgeUUIDs |-> NodeTableToUUIDs(data[i].edges),
                  nodes     |-> ByUUID(Entities(data[i].nodes)),
                  edges     |-> ByUUID(Entities(data[i].edges))]]
      BY <1>1 DEF parsePaths
<1>3. Len(paths) = Len(data)
  <2>1. DOMAIN paths = 1 .. Len(data) /\ paths = [i \in 1 .. Len(data) |-> paths[i]] BY <1>2
  <2> QED BY <2>1, LengthOf DEF PathData
<1>4. ASSUME NEW i \in 1 .. Len(data)
      PROVE  /\ Range(paths[i].nodeUUIDs) = DOMAIN paths[i].nodes
             /\ Range(paths[i].edgeUUIDs) = DOMAIN paths[i].edges
             /\ InOrder(paths[i].nodeUUIDs, data[i].nodes.rows)
             /\ InOrder(paths[i].edgeUUIDs, data[i].edges.rows)
  <2>1. PICK n, e : n = data[i].nodes /\ e = data[i].edges OBVIOUS
  <2>2. n.rows \in Seq(ServerRows) /\ e.rows \in Seq(ServerRows) BY <2>1 DEF PathData
  <2>3. /\ paths[i].nodeUUIDs = NodeTableToUUIDs(n) /\ paths[i].nodes = ByUUID(Entities(n))
        /\ paths[i].edgeUUIDs = NodeTableToUUIDs(e) /\ paths[i].edges = ByUUID(Entities(e))
        BY <1>2, <2>1
  <2>4. InOrder(NodeTableToUUIDs(n), n.rows) /\ Range(NodeTableToUUIDs(n)) = UUIDs(Entities(n))
        BY <2>2, TableUUIDs
  <2>5. InOrder(NodeTableToUUIDs(e), e.rows) /\ Range(NodeTableToUUIDs(e)) = UUIDs(Entities(e))
        BY <2>2, TableUUIDs
  <2>6. DOMAIN paths[i].nodes = UUIDs(Entities(n)) /\ DOMAIN paths[i].edges = UUIDs(Entities(e))
        BY <2>3, KeysByUUID
  <2> QED BY <2>1, <2>3, <2>4, <2>5, <2>6
<1> QED BY <1>1, <1>3, <1>4 DEF ClosedPaths

LEMMA GraphHoldsPaths ==
  ASSUME NEW data, PathData(data), NEW g, g = parseGraphs(data)
  PROVE  /\ g.paths = parsePaths(data)
         /\ DOMAIN g.nodes = UNION {DOMAIN g.paths[i].nodes : i \in 1 .. Len(data)}
         /\ DOMAIN g.edges = UNION {DOMAIN g.paths[i].edges : i \in 1 .. Len(data)}
<1>1. PICK ns, es : /\ ns = [i \in 1 .. Len(data) |-> data[i].nodes]
                    /\ es = [i \in 1 .. Len(data) |-> data[i].edges]
      OBVIOUS
<1>2. /\ g.nodes = ByUUID(AllEntities(ns)) /\ g.edges = ByUUID(AllEntities(es))
      /\ g.paths = parsePaths(data)
      BY <1>1 DEF parseGraphs
<1>3. Len(data) \in Nat /\ Len(ns) = Len(data) /\ Len(es) = Len(data)
  <2>1. Len(data) \in Nat BY DEF PathData
  <2>2. /\ DOMAIN ns = 1 .. Len(data) /\ ns = [i \in 1 .. Len(data) |-> ns[i]]
        /\ DOMAIN es = 1 .. Len(data) /\ es = [i \in 1 .. Len(data) |-> es[i]]
        BY <1>1
  <2> QED BY <2>1, <2>2, LengthOf
<1>4. ASSUME NEW i \in 1 .. Len(data)
      PROVE  /\ ns[i].rows \in Seq(ServerRows) /\ es[i].rows \in Seq(ServerRows)
             /\ DOMAIN g.paths[i].nodes = UUIDs(Entities(ns[i]))
             /\ DOMAIN g.paths[i].edges = UUIDs(Entities(es[i]))
  <2>1. ns[i] = data[i].nodes /\ es[i] = data[i].edges BY <1>1
  <2>2. g.paths[i].nodes = ByUUID(Entities(ns[i])) /\ g.paths[i].edges = ByUUID(Entities(es[i]))
        BY <1>2, <2>1 DEF parsePaths
  <2> QED BY <2>1, <2>2, KeysByUUID DEF PathData
<1>5. DOMAIN g.nodes = UUIDs(AllEntities(ns)) /\ DOMAIN g.edges = UUIDs(AllEntities(es))
      BY <1>2, KeysByUUID
<1>6. \A u : u \in UUIDs(AllEntities(ns)) <=> \E i \in 1 .. Len(data) : u \in UUIDs(Entities(ns[i]))
      BY <1>3, <1>4, AllUUIDs
<1>7. \A u : u \in UUIDs(AllEntities(es)) <=> \E i \in 1 .. Len(data) : u \in UUIDs(Entities(es[i]))
      BY <1>3, <1>4, AllUUIDs
<1>8. DOMAIN g.nodes = UNION {DOMAIN g.paths[i].nodes : i \in 1 .. Len(data)}
      BY <1>4, <1>5, <1>6
<1>9. DOMAIN g.edges = UNION {DOMAIN g.paths[i].edges : i \in 1 .. Len(data)}
      BY <1>4, <1>5, <1>7
<1> QED BY <1>2, <1>8, <1>9

\* Every uuid that a path lists is a key of the path's maps, in the order of the
\* rows, and a graph has exactly the nodes and edges of its paths.
THEOREM PathsStayClosed == Spec => []PathsAreClosed
<1> DEFINE Inv == ItemInv /\ PathsAreClosed
<1>1. Init => Inv
      BY DEF Init, ItemInv, PathsAreClosed, Returned, NoAnswer
<1>2. Inv /\ [Next]_vars => Inv'
  <2> SUFFICES ASSUME Inv, [Next]_vars PROVE PathsAreClosed'
      BY ItemStep
  <2>1. CASE UNCHANGED <<item, answer>> BY <2>1 DEF PathsAreClosed, Returned
  <2>2. ASSUME answer'.call \notin {"AsPaths", "AsGraph"} PROVE PathsAreClosed'
        BY <2>2 DEF PathsAreClosed, Returned
  <2>3. ASSUME UNCHANGED item, answer'.kind # "ok" \/ item.type # "PATH" PROVE PathsAreClosed'
        BY <2>3 DEF PathsAreClosed, Returned
  <2>4. ASSUME item.type = "PATH" PROVE PathData(item.data) BY <2>4, ItemTypes, PathItemData
  <2>5. \A c, k, v : /\ Result(c, k, v).kind = k /\ Result(c, k, v).call = c
                     /\ k = "ok" => Result(c, k, v).value = v
        BY DEF Result
  <2>6. CASE UNCHANGED item /\ answer' = AsPaths("AsPaths", item)
    <3> SUFFICES ASSUME answer'.kind = "ok", item.type = "PATH" PROVE PathsAreClosed'
        BY <2>3, <2>6
    <3>1. answer' = Result("AsPaths", PathsOutcome(item.data), parsePaths(item.data))
          BY <2>6 DEF AsPaths
    <3>2. answer'.call = "AsPaths" /\ answer'.value = parsePaths(item.data) BY <2>5, <3>1
    <3>3. ClosedPaths(answer'.value, item.data) BY <2>4, <3>2, PathsClosed
    <3> QED BY <2>6, <3>2, <3>3 DEF ClosedPaths, PathsAreClosed
  <2>7. CASE UNCHANGED item /\ answer' = AsGraph(item)
    <3> SUFFICES ASSUME answer'.kind = "ok", item.type = "PATH" PROVE PathsAreClosed'
        BY <2>3, <2>7
    <3>1. answer' = Result("AsGraph", "ok", parseGraphs(item.data))
      <4>1. AsPaths("AsGraph", item).kind = "ok" /\ AsPaths("AsGraph", item).value # <<>>
            BY <2>5, <2>7 DEF AsGraph
      <4> QED BY <2>7, <4>1 DEF AsGraph
    <3>2. answer'.call = "AsGraph" /\ answer'.value = parseGraphs(item.data) BY <2>5, <3>1
    <3>3. PICK g, d : g = answer'.value /\ d = item.data OBVIOUS
    <3>4. /\ g.paths = parsePaths(d)
          /\ DOMAIN g.nodes = UNION {DOMAIN g.paths[i].nodes : i \in 1 .. Len(d)}
          /\ DOMAIN g.edges = UNION {DOMAIN g.paths[i].edges : i \in 1 .. Len(d)}
          BY <2>4, <3>2, <3>3, GraphHoldsPaths
    <3>5. ClosedPaths(g.paths, d) BY <2>4, <3>3, <3>4, PathsClosed
    <3>6. item' = item /\ answer'.value = g /\ item.data = d BY <2>7, <3>3
    <3> QED BY <3>2, <3>4, <3>5, <3>6 DEF ClosedPaths, PathsAreClosed
  <2>8. NoAnswer.call = "none" BY DEF NoAnswer
  <2> QED BY <2>1, <2>2, <2>6, <2>7, <2>8, AnswerStep, CallNames, OtherNames
<1> QED BY <1>1, <1>2, PTL DEF Spec

-----------------------------------------------------------------------------
(* Lists *)

ListData(lists) ==
  /\ Len(lists) \in Nat
  /\ \A i \in 1 .. Len(lists) : lists[i].null \in BOOLEAN /\ lists[i].table.rows \in Seq(ServerRows)
AllParsed(lists) == \A i \in 1 .. Len(lists) : Parsed(lists[i])
InPlace(value, lists) ==
  /\ Len(value) = Len(lists)
  /\ \A i \in 1 .. Len(value) :
       /\ (value[i] = Null) = lists[i].null
       /\ lists[i].kind \in {"NODE", "EDGE"} /\ ~lists[i].null /\ value[i].kind = lists[i].kind
            => UUIDs(value[i].list) = Range(NodeTableToUUIDs(lists[i].table))

LEMMA AttrItemData == ASSUME NEW i \in AttrItems PROVE ListData(i.data.lists)
<1>1. i.data.lists \in Seq(Range(i.data.lists)) BY ItemsAssumption DEF IsSequence
<1>2. \A l \in Range(i.data.lists) : l.null \in BOOLEAN /\ l.table.rows \in Seq(ServerRows)
      BY ItemsAssumption
<1>3. Len(i.data.lists) \in Nat /\ \A k \in 1 .. Len(i.data.lists) : i.data.lists[k] \in Range(i.data.lists)
      BY <1>1
<1> QED BY <1>2, <1>3 DEF ListData

(* One value per list, when no list is passed over. *)
LEMMA ListValues ==
  ASSUME NEW lists, ListData(lists), AllParsed(lists), NEW v, v = parseAttrList(lists)
  PROVE  /\ v \in Seq(Range(v)) /\ Len(v) = Len(lists)
         /\ \A i \in 1 .. Len(lists) : v[i] = ListValue(lists[i])
<1>1. PICK n : n = Len(lists) OBVIOUS
<1>2. n \in Nat /\ \A i \in 1 .. n : Parsed(lists[i]) BY <1>1 DEF ListData, AllParsed
<1>3. PICK seqs : seqs = [i \in 1 .. n |-> IF Parsed(lists[i]) THEN <<ListValue(lists[i])>> ELSE <<>>]
      OBVIOUS
<1>4. v = FlattenSeq(seqs) BY <1>1, <1>3 DEF parseAttrList
<1> DEFINE S == {ListValue(lists[i]) : i \in 1 .. n}
<1>5. ASSUME NEW i \in 1 .. n
      PROVE  /\ seqs[i] = <<ListValue(lists[i])>> /\ seqs[i] \in Seq(S)
             /\ seqs[i] # <<>> /\ Len(seqs[i]) = 1 /\ seqs[i][1] = ListValue(lists[i])
  <2>1. PICK x : x = ListValue(lists[i]) OBVIOUS
  <2>2. x \in S BY <2>1
  <2>3. seqs[i] = <<x>> BY <1>2, <1>3, <2>1
  <2> HIDE DEF S
  <2> QED BY <2>1, <2>2, <2>3
<1> HIDE DEF S
<1>6. seqs \in Seq(Seq(S)) /\ Len(seqs) = n
  <2>1. seqs \in [1 .. n -> Seq(S)] BY <1>3, <1>5
  <2> QED BY <1>2, <2>1
<1>7. v \in Seq(S) BY <1>4, <1>6, FlattenRange
<1>8. ASSUME NEW i \in 1 .. Len(seqs) PROVE Len(seqs[i]) <= 1
  <2>1. i \in 1 .. n BY <1>6
  <2>2. Len(seqs[i]) = 1 BY <1>5, <2>1
  <2> QED BY <2>2
<1>9. /\ Len(v) = Cardinality(Parts(seqs, n))
      /\ \A i \in Parts(seqs, n) : v[Cardinality(Parts(seqs, i))] = seqs[i][1]
      BY <1>4, <1>6, <1>8, FlattenPlaces
<1>10. ASSUME NEW i \in 0 .. n PROVE Parts(seqs, i) = 1 .. i /\ Cardinality(Parts(seqs, i)) = i
  <2>1. \A j \in 1 .. i : j \in 1 .. n BY <1>2
  <2>2. Parts(seqs, i) = 1 .. i BY <1>5, <2>1 DEF Parts
  <2>3. Cardinality(1 .. i) = i
    <3>1. Cardinality(1 .. i) = IF 1 > i THEN 0 ELSE i - 1 + 1 BY <1>2, FS_Interval
    <3> QED BY <1>2, <3>1
  <2> QED BY <2>2, <2>3
<1>11. Len(v) = n BY <1>2, <1>9, <1>10
<1>12. ASSUME NEW i \in 1 .. n PROVE v[i] = ListValue(lists[i])
  <2>1. i \in 0 .. n /\ n \in 0 .. n BY <1>2
  <2>2. i \in Parts(seqs, n) /\ Cardinality(Parts(seqs, i)) = i BY <1>10, <2>1
  <2> QED BY <1>5, <1>9, <2>2
<1>13. v \in Seq(Range(v))
  <2>1. DOMAIN v = 1 .. n /\ v = [i \in 1 .. n |-> v[i]] BY <1>7, <1>11
  <2> QED BY <1>2, <2>1, LengthOf
<1> QED BY <1>1, <1>11, <1>12, <1>13

LEMMA ListValueIs ==
  ASSUME NEW row, row.null \in BOOLEAN, Parsed(row), row.table.rows \in Seq(ServerRows)
  PROVE  /\ row.null => ListValue(row) = Null /\ ListValue(row).kind = "NULL"
         /\ ~row.null => /\ ListValue(row) # Null /\ ListValue(row).kind = row.kind
                         /\ row.kind \in {"NODE", "EDGE", "PATH", "ATTR"}
         /\ ~row.null /\ row.kind \in {"NODE", "EDGE"} =>
              UUIDs(ListValue(row).list) = Range(NodeTableToUUIDs(row.table))
<1>1. CASE row.null BY <1>1 DEF ListValue, Null
<1>2. CASE ~row.null
  <2>1. row.kind \in {"NODE", "EDGE", "PATH", "ATTR"} BY <1>2 DEF Parsed
  <2>2. ListValue(row).kind = row.kind BY <1>2 DEF ListValue
  <2>3. Null.kind = "NULL" BY DEF Null
  <2>4. ASSUME row.kind \in {"NODE", "EDGE"} PROVE ListValue(row).list = Entities(row.table)
        BY <1>2, <2>4 DEF ListValue
  <2>5. Range(NodeTableToUUIDs(row.table)) = UUIDs(Entities(row.table)) BY TableUUIDs
  <2> QED BY <1>2, <2>1, <2>2, <2>3, <2>4, <2>5
<1> QED BY <1>1, <1>2

LEMMA ResultTypeIs ==
  ASSUME NEW values, Len(values) \in Nat
  PROVE  \/ ResultType(values) = "ATTR"
         \/ \E i \in 1 .. Len(values) : values[i] # Null /\ ResultType(values) = values[i].kind
<1> DEFINE found == {i \in 1 .. Len(values) : values[i] # Null}
<1>1. CASE found = {} BY <1>1 DEF ResultType
<1>2. CASE found # {}
  <2>1. found \in SUBSET Nat OBVIOUS
  <2>2. PICK c : c = CHOOSE i \in found : \A j \in found : i <= j OBVIOUS
  <2>3. ResultType(values) = values[c].kind BY <1>2, <2>2 DEF ResultType
  <2>4. \E i \in found : \A j \in found : i <= j
    <3> HIDE DEF found
    <3> QED BY <1>2, <2>1, Least
  <2>5. c \in found
    <3> HIDE DEF found
    <3> QED BY <2>2, <2>4
  <2> QED BY <2>3, <2>5
<1> QED BY <1>1, <1>2

(* The value that a list of data gives as it stands. *)
LEMMA ValuesInPlace ==
  ASSUME NEW lists, ListData(lists), AllParsed(lists)
  PROVE  InPlace(parseAttrList(lists), lists)
<1>1. PICK v : v = parseAttrList(lists) OBVIOUS
<1>2. Len(v) = Len(lists) /\ \A i \in 1 .. Len(lists) : v[i] = ListValue(lists[i]) BY <1>1, ListValues
<1>3. ASSUME NEW i \in 1 .. Len(lists)
      PROVE  /\ (v[i] = Null) = lists[i].null
             /\ lists[i].kind \in {"NODE", "EDGE"} /\ ~lists[i].null =>
                  UUIDs(v[i].list) = Range(NodeTableToUUIDs(lists[i].table))
  <2>1. PICK row : row = lists[i] OBVIOUS
  <2>2. row.null \in BOOLEAN /\ Parsed(row) /\ row.table.rows \in Seq(ServerRows)
        BY <2>1 DEF ListData, AllParsed
  <2>3. v[i] = ListValue(row) BY <1>2, <2>1
  <2>4. /\ row.null => ListValue(row) = Null
        /\ ~row.null => ListValue(row) # Null
        /\ ~row.null /\ row.kind \in {"NODE", "EDGE"} =>
              UUIDs(ListValue(row).list) = Range(NodeTableToUUIDs(row.table))
        BY <2>2, ListValueIs
  <2> QED BY <2>1, <2>2, <2>3, <2>4
<1> QED BY <1>1, <1>2, <1>3 DEF InPlace

LEMMA ListAttrInPlace ==
  ASSUME NEW c, NEW kind \in {"NODE", "EDGE", "PATH"}, NEW attr, ListData(attr.lists),
         AllParsed(attr.lists), NEW a, a = ListAttrAs(c, kind, attr), a.kind = "ok"
  PROVE  InPlace(a.value, attr.lists)
<1>1. PICK lists, v : lists = attr.lists /\ v = parseAttrList(lists) OBVIOUS
<1>2. /\ Len(lists) \in Nat /\ Len(v) = Len(lists)
      /\ \A i \in 1 .. Len(lists) : v[i] = ListValue(lists[i])
      BY <1>1, ListValues DEF ListData
<1>3. \A k, x : Result(c, k, x).kind = k /\ (k = "ok" => Result(c, k, x).value = x) BY DEF Result
<1>4. CASE v = <<>>
  <2>1. Len(lists) = 0 /\ 1 .. 0 = {} BY <1>2, <1>4
  <2>2. a.value = <<>> BY <1>1, <1>3, <1>4 DEF ListAttrAs
  <2> QED BY <1>1, <2>1, <2>2 DEF InPlace
<1>5. CASE v # <<>>
  <2> DEFINE value == [i \in 1 .. Len(v) |->
                         [kind |-> kind, list |-> IF v[i].kind = kind THEN v[i].list ELSE <<>>]]
  <2>1. /\ ~\E i \in 1 .. Len(v) : v[i].kind \in {"NULL", "ATTR"}
        /\ a = Result(c, "ok", value)
        BY <1>1, <1>3, <1>5 DEF ListAttrAs
  <2>2. a.value = value BY <1>3, <2>1
  <2>3. PICK w : w = a.value OBVIOUS
  <2>4. Len(w) = Len(lists)
    <3>1. DOMAIN w = 1 .. Len(v) /\ w = [i \in 1 .. Len(v) |-> w[i]] BY <2>2, <2>3
    <3> QED BY <1>2, <3>1, LengthOf
  <2>5. ASSUME NEW i \in 1 .. Len(lists)
        PROVE  /\ (w[i] = Null) = lists[i].null
               /\ lists[i].kind \in {"NODE", "EDGE"} /\ ~lists[i].null /\ w[i].kind = lists[i].kind
                    => UUIDs(w[i].list) = Range(NodeTableToUUIDs(lists[i].table))
    <3>1. PICK row : row = lists[i] OBVIOUS
    <3>2. row.null \in BOOLEAN /\ Parsed(row) /\ row.table.rows \in Seq(ServerRows)
          BY <1>1, <3>1 DEF ListData, AllParsed
    <3>3. v[i] = ListValue(row) BY <1>2, <3>1
    <3>4. /\ row.null => v[i].kind = "NULL"
          /\ ~row.null => v[i].kind = row.kind
          /\ ~row.null /\ row.kind \in {"NODE", "EDGE"} =>
               UUIDs(v[i].list) = Range(NodeTableToUUIDs(row.table))
          BY <3>2, <3>3, ListValueIs
    <3>5. ~row.null BY <1>2, <2>1, <3>2, <3>4
    <3>6. w[i].kind = kind /\ w[i].list = IF v[i].kind = kind THEN v[i].list ELSE <<>>
          BY <1>2, <2>2, <2>3
    <3>7. w[i] # Null BY <3>6 DEF Null
    <3> QED BY <3>1, <3>2, <3>4, <3>5, <3>6, <3>7
  <2> QED BY <1>1, <2>3, <2>4, <2>5 DEF InPlace
<1> QED BY <1>4, <1>5

LEMMA AsAttrInPlace ==
  ASSUME NEW c, NEW attr, ListData(attr.lists), AllParsed(attr.lists),
         NEW a, a = ListAttrAsAttr(c, attr), a.kind = "ok"
  PROVE  InPlace(a.value, attr.lists)
<1>1. PICK v : v = parseAttrList(attr.lists) OBVIOUS
<1>2. /\ Len(v) \in Nat /\ Len(v) = Len(attr.lists)
      /\ \A i \in 1 .. Len(v) : v[i] = ListValue(attr.lists[i])
      BY <1>1, ListValues DEF ListData
<1>3. \A k, x : Result(c, k, x).kind = k /\ (k = "ok" => Result(c, k, x).value = x) BY DEF Result
<1>4. CASE v = <<>> \/ ResultType(v) = "ATTR"
  <2>1. a.value = v BY <1>1, <1>3, <1>4 DEF ListAttrAsAttr
  <2> QED BY <1>1, <2>1, ValuesInPlace
<1>5. CASE ~(v = <<>> \/ ResultType(v) = "ATTR")
  <2>1. a = ListAttrAs(c, ResultType(v), attr) BY <1>1, <1>5 DEF ListAttrAsAttr
  <2>2. PICK i \in 1 .. Len(v) : v[i] # Null /\ ResultType(v) = v[i].kind BY <1>2, <1>5, ResultTypeIs
  <2>3. PICK row : row = attr.lists[i] OBVIOUS
  <2>4. row.null \in BOOLEAN /\ Parsed(row) /\ row.table.rows \in Seq(ServerRows) /\ v[i] = ListValue(row)
        BY <1>2, <2>3 DEF ListData, AllParsed
  <2>5. ResultType(v) \in {"NODE", "EDGE", "PATH", "ATTR"} BY <2>2, <2>4, ListValueIs
  <2>6. ResultType(v) \in {"NODE", "EDGE", "PATH"} BY <1>5, <2>5
  <2> QED BY <2>1, <2>6, ListAttrInPlace
<1> QED BY <1>4, <1>5

\* The i-th value of an attribute of lists is that of its i-th list, and null
\* exactly where that list is null, unless a list of an unknown kind is among them.
THEOREM ListsStayInPlace == Spec => []ListsKeepTheirPlace
<1> DEFINE Inv == ItemInv /\ ListsKeepTheirPlace
           Listed == /\ item.type = "ATTR" /\ item.data.type \in {"LIST", "SET"}
                     /\ \A i \in 1 .. Len(item.data.lists) : Parsed(item.data.lists[i])
<1>1. Init => Inv
      BY DEF Init, ItemInv, ListsKeepTheirPlace, Returned, NoAnswer
<1>2. Inv /\ [Next]_vars => Inv'
  <2> SUFFICES ASSUME Inv, [Next]_vars PROVE ListsKeepTheirPlace'
      BY ItemStep
  <2>1. CASE UNCHANGED <<item, answer>> BY <2>1 DEF ListsKeepTheirPlace, Returned
  <2>2. ASSUME answer'.call \notin {"AsAttr", "AsAttrList", "AsAny"} PROVE ListsKeepTheirPlace'
        BY <2>2 DEF ListsKeepTheirPlace, Returned
  <2>3. ASSUME UNCHANGED item, answer'.kind # "ok" \/ ~Listed PROVE ListsKeepTheirPlace'
        BY <2>3 DEF ListsKeepTheirPlace, Returned
  <2>4. ASSUME Listed PROVE ListData(item.data.lists) /\ AllParsed(item.data.lists)
    <3>1. item \in AttrItems BY <2>4, ItemTypes
    <3> QED BY <2>4, <3>1, AttrItemData DEF AllParsed
  <2>5. ASSUME UNCHANGED item, InPlace(answer'.value, item.data.lists) PROVE ListsKeepTheirPlace'
        BY <2>5 DEF InPlace, ListsKeepTheirPlace
  <2>6. \A c, k, x : Result(c, k, x).kind = k BY DEF Result
  <2>7. ASSUME NEW c, UNCHANGED item, answer' = AsAttr(c, item) PROVE ListsKeepTheirPlace'
    <3> SUFFICES ASSUME answer'.kind = "ok", Listed PROVE InPlace(answer'.value, item.data.lists)
        BY <2>3, <2>5, <2>7
    <3>1. answer' = ListAttrAsAttr(c, item.data) BY <2>6, <2>7 DEF AsAttr
    <3> QED BY <2>4, <3>1, AsAttrInPlace
  <2>8. ASSUME UNCHANGED item, answer' = AsAny(item) PROVE ListsKeepTheirPlace'
    <3>1. CASE item.type = "ATTR"
      <4>1. answer' = AsAttr("AsAny", item) BY <2>8, <3>1 DEF AsAny
      <4> QED BY <2>7, <2>8, <4>1
    <3>2. CASE item.type # "ATTR" BY <2>3, <2>8, <3>2
    <3> QED BY <3>1, <3>2
  <2>9. ASSUME UNCHANGED item, NEW kind \in {"NODE", "EDGE", "PATH"},
               answer' = AsAttrList("AsAttrList", kind, item)
        PROVE  ListsKeepTheirPlace'
    <3> SUFFICES ASSUME answer'.kind = "ok", Listed PROVE InPlace(answer'.value, item.data.lists)
        BY <2>3, <2>5, <2>9
    <3>1. answer' = ListAttrAs("AsAttrList", kind, item.data) BY <2>6, <2>9 DEF AsAttrList
    <3> QED BY <2>4, <3>1, ListAttrInPlace
  <2>10. NoAnswer.call = "none" BY DEF NoAnswer
  <2> QED BY <2>1, <2>2, <2>7, <2>8, <2>9, <2>10, AnswerStep, CallNames, OtherNames
<1> QED BY <1>1, <1>2, PTL DEF Spec
-----------------------------------------------------------------------------
(* Totals *)

(* The number that a total starts from.                                     *)
Number(description) == IF description = NoNumber THEN 0 ELSE description

(* The count is one of the schema's.                                        *)
Belongs(schema, count) ==
  count.schema = schema.name /\ (count.type = "edge") = (schema.dbType = "edge")

(* What the first n counts count.                                           *)
CountedTo(schema, counts, n) ==
  UNION {{j} \X (1 .. counts[j].count) :
           j \in {j \in 1 .. n : Belongs(schema, counts[j])}}

LEMMA Column ==
  ASSUME NEW j, NEW k \in Nat
  PROVE  IsFiniteSet({j} \X (1 .. k)) /\ Cardinality({j} \X (1 .. k)) = k
<1>1. IsFiniteSet({j}) /\ Cardinality({j}) = 1 BY FS_Singleton
<1>2. IsFiniteSet(1 .. k) /\ Cardinality(1 .. k) = k
  <2>1. IsFiniteSet(1 .. k) /\ Cardinality(1 .. k) = IF 1 > k THEN 0 ELSE k - 1 + 1 BY FS_Interval
  <2> QED BY <2>1
<1>3. /\ IsFiniteSet({j} \X (1 .. k))
      /\ Cardinality({j} \X (1 .. k)) = Cardinality({j}) * Cardinality(1 .. k)
      BY <1>1, <1>2, FS_Product
<1> QED BY <1>1, <1>2, <1>3

LEMMA CountedGrows ==
  ASSUME NEW schema, NEW counts, NEW n \in Nat, counts[n + 1].count \in Nat,
         IsFiniteSet(CountedTo(schema, counts, n))
  PROVE  /\ IsFiniteSet(CountedTo(schema, counts, n + 1))
         /\ Cardinality(CountedTo(schema, counts, n + 1)) =
              Cardinality(CountedTo(schema, counts, n)) +
              IF Belongs(schema, counts[n + 1]) THEN counts[n + 1].count ELSE 0
<1> DEFINE Mine(j) == Belongs(schema, counts[j])
           New == {n + 1} \X (1 .. counts[n + 1].count)
           Old == CountedTo(schema, counts, n)
<1>1. Cardinality(Old) \in Nat BY FS_CardinalityType
<1>2. CASE ~Mine(n + 1)
  <2>1. {j \in 1 .. n + 1 : Mine(j)} = {j \in 1 .. n : Mine(j)} BY <1>2
  <2>2. CountedTo(schema, counts, n + 1) = Old BY <2>1 DEF CountedTo
  <2> QED BY <1>1, <1>2, <2>2
<1>3. CASE Mine(n + 1)
  <2>1. {j \in 1 .. n + 1 : Mine(j)} = {j \in 1 .. n : Mine(j)} \cup {n + 1} BY <1>3
  <2>2. CountedTo(schema, counts, n + 1) = Old \cup New BY <2>1 DEF CountedTo
  <2>3. Old \cap New = {} BY DEF CountedTo
  <2>4. IsFiniteSet(New) /\ Cardinality(New) = counts[n + 1].count BY Column
  <2> HIDE DEF Old, New
  <2>5. IsFiniteSet(Old) BY DEF Old
  <2>6. IsFiniteSet(Old \cup New) /\ Cardinality(Old \cup New) =
          Cardinality(Old) + Cardinality(New) - Cardinality(Old \cap New)
        BY <2>4, <2>5, FS_Union
  <2>7. Cardinality(Old \cap New) = 0 BY <2>3, FS_EmptySet
  <2>8. Cardinality(Old \cup New) = Cardinality(Old) + counts[n + 1].count
    <3>1. PICK c \in Nat : c = counts[n + 1].count OBVIOUS
    <3>2. PICK o \in Nat : o = Cardinality(Old) BY <1>1
    <3>3. Cardinality(New) = c BY <2>4, <3>1
    <3>4. Cardinality(Old \cup New) = o + c - 0 BY <2>6, <2>7, <3>2, <3>3
    <3> QED BY <3>1, <3>2, <3>4
  <2> QED BY <1>3, <2>2, <2>6, <2>8 DEF Old
<1> QED BY <1>2, <1>3

(* The loop of SetStatsByGraphCount defines a function.                     *)
LEMMA TotalDefined ==
  ASSUME NEW schema, NEW counts, Len(counts) \in Nat
  PROVE  \E f : /\ f[0] = schema.total
                /\ \A i \in 1 .. Len(counts) : f[i] = f[i - 1] + Additions(schema, counts)[i]
                /\ SetStatsByGraphCount(schema, counts) =
                     [name |-> schema.name, dbType |-> schema.dbType, total |-> f[Len(counts)]]
<1> DEFINE Body(f, i) == IF i = 0 THEN schema.total ELSE f[i - 1] + Additions(schema, counts)[i]
           Upto == {m \in Nat : \E f : f = [i \in 0 .. m |-> Body(f, i)]}
<1>1. 0 \in Upto
  <2>1. PICK f : f = [i \in 0 .. 0 |-> schema.total] OBVIOUS
  <2>2. \A i \in 0 .. 0 : schema.total = Body(f, i) OBVIOUS
  <2> HIDE DEF Body
  <2>3. f = [i \in 0 .. 0 |-> Body(f, i)] BY <2>1, <2>2
  <2> QED BY <2>3
<1>2. ASSUME NEW m \in Upto PROVE m + 1 \in Upto
  <2>1. PICK f : f = [i \in 0 .. m |-> Body(f, i)] OBVIOUS
  <2>2. PICK h : h = [i \in 0 .. (m + 1) |-> IF i = m + 1 THEN Body(f, m + 1) ELSE f[i]] OBVIOUS
  <2>3. \A i \in 0 .. m : h[i] = f[i] BY <2>2
  <2>4. ASSUME NEW i \in 0 .. (m + 1) PROVE h[i] = Body(h, i)
    <3>1. CASE i = m + 1
      <4>1. h[i] = Body(f, m + 1) BY <2>2, <3>1
      <4>2. i - 1 \in 0 .. m BY <3>1
      <4> QED BY <2>3, <3>1, <4>1, <4>2
    <3>2. CASE i \in 0 .. m
      <4>1. h[i] = f[i] BY <2>3, <3>2
      <4>2. f[i] = Body(f, i) BY <2>1, <3>2
      <4>3. i = 0 \/ i - 1 \in 0 .. m BY <3>2
      <4> QED BY <2>3, <4>1, <4>2, <4>3
    <3> QED BY <3>1, <3>2
  <2> HIDE DEF Body
  <2>5. h = [i \in 0 .. (m + 1) |-> h[i]] BY <2>2
  <2>6. h = [i \in 0 .. (m + 1) |-> Body(h, i)] BY <2>4, <2>5
  <2> QED BY <2>6
<1>3. Upto = Nat
  <2> HIDE DEF Body
  <2>1. Upto \in SUBSET Nat OBVIOUS
  <2> HIDE DEF Upto
  <2> QED BY <1>1, <1>2, <2>1, SetInduction
<1> DEFINE total == CHOOSE f : f = [i \in 0 .. Len(counts) |-> Body(f, i)]
<1>4. total = [i \in 0 .. Len(counts) |-> Body(total, i)]
  <2> HIDE DEF Body
  <2>1. \E f : f = [i \in 0 .. Len(counts) |-> Body(f, i)] BY <1>3
  <2> QED BY <2>1
<1>5. SetStatsByGraphCount(schema, counts) =
        [name |-> schema.name, dbType |-> schema.dbType, total |-> total[Len(counts)]]
      BY DEF SetStatsByGraphCount
<1> HIDE DEF total
<1>6. \A i \in 0 .. Len(counts) : total[i] = Body(total, i)
  <2> HIDE DEF Body
  <2> QED BY <1>4
<1>7. 0 \in 0 .. Len(counts) /\ \A i \in 1 .. Len(counts) : i \in 0 .. Len(counts) /\ i # 0 OBVIOUS
<1> QED BY <1>5, <1>6, <1>7

LEMMA TotalIs ==
  ASSUME NEW schema, schema.total \in Nat, schema.dbType \in {"node", "edge"},
         NEW counts, Len(counts) \in Nat,
         \A j \in 1 .. Len(counts) : counts[j].count \in Nat
  PROVE  SetStatsByGraphCount(schema, counts).total =
           Cardinality(Counted(SetStatsByGraphCount(schema, counts), counts)) + schema.total
<1>1. PICK n \in Nat : n = Len(counts) OBVIOUS
<1>2. PICK adds : adds = Additions(schema, counts) OBVIOUS
<1>3. PICK sum : /\ sum[0] = schema.total
                 /\ \A i \in 1 .. n : sum[i] = sum[i - 1] + adds[i]
                 /\ SetStatsByGraphCount(schema, counts) =
                      [name |-> schema.name, dbType |-> schema.dbType, total |-> sum[n]]
      BY <1>1, <1>2, TotalDefined
<1>4. PICK start \in Nat : start = schema.total OBVIOUS
<1> DEFINE Size(m) == Cardinality(CountedTo(schema, counts, m))
           T == {m \in Nat : m <= n => /\ IsFiniteSet(CountedTo(schema, counts, m))
                                       /\ sum[m] = Size(m) + start}
<1>5. 0 \in T
  <2>1. CountedTo(schema, counts, 0) = {} BY DEF CountedTo
  <2>2. sum[0] = start BY <1>3, <1>4
  <2>3. IsFiniteSet(CountedTo(schema, counts, 0)) /\ Size(0) = 0 BY <2>1, FS_EmptySet
  <2> QED BY <2>2, <2>3
<1>6. ASSUME NEW m \in T PROVE m + 1 \in T
  <2> SUFFICES ASSUME m + 1 <= n
               PROVE  IsFiniteSet(CountedTo(schema, counts, m + 1)) /\ sum[m + 1] = Size(m + 1) + start
      OBVIOUS
  <2>1. IsFiniteSet(CountedTo(schema, counts, m)) /\ sum[m] = Size(m) + start OBVIOUS
  <2>2. m + 1 \in 1 .. n /\ m + 1 \in 0 .. n /\ m + 1 - 1 = m OBVIOUS
  <2>3. sum[m + 1] = sum[m] + adds[m + 1]
    <3>1. sum[m + 1] = sum[m + 1 - 1] + adds[m + 1] BY <1>3, <2>2
    <3> QED BY <2>2, <3>1
  <2>4. counts[m + 1].count \in Nat BY <1>1, <2>2
  <2>5. adds[m + 1] = IF Belongs(schema, counts[m + 1]) THEN counts[m + 1].count ELSE 0
    <3>1. DBType(counts[m + 1].type) = schema.dbType
            <=> (counts[m + 1].type = "edge") = (schema.dbType = "edge")
          BY DEF DBType
    <3> QED BY <1>1, <1>2, <2>2, <3>1 DEF Additions, Belongs
  <2>6. /\ IsFiniteSet(CountedTo(schema, counts, m + 1))
        /\ Size(m + 1) = Size(m) + adds[m + 1]
        BY <2>1, <2>4, <2>5, CountedGrows
  <2>7. Size(m) \in Nat /\ adds[m + 1] \in Nat BY <2>1, <2>4, <2>5, FS_CardinalityType
  <2> HIDE DEF Size
  <2>8. sum[m + 1] = Size(m + 1) + start BY <2>1, <2>3, <2>6, <2>7
  <2> QED BY <2>6, <2>8
<1>7. T = Nat
  <2>1. T \in SUBSET Nat OBVIOUS
  <2> HIDE DEF T
  <2> QED BY <1>5, <1>6, <2>1, SetInduction
<1>8. sum[n] = Size(n) + start BY <1>7
<1>9. PICK s : s = SetStatsByGraphCount(schema, counts) OBVIOUS
<1>10. s.name = schema.name /\ s.dbType = schema.dbType /\ s.total = sum[n] BY <1>3, <1>9
<1>11. Counted(s, counts) = CountedTo(schema, counts, n)
       BY <1>1, <1>10 DEF Counted, CountsOf, CountedTo, Belongs
<1> QED BY <1>4, <1>8, <1>9, <1>10, <1>11

LEMMA SchemasOf ==
  ASSUME NEW reply \in SchemaReplies, NEW a, a = ShowSchema(reply), a.kind = "ok"
  PROVE  /\ Len(a.value) = Len(reply.nodes \o reply.edges)
         /\ \A i \in 1 .. Len(a.value) :
              a.value[i].total = Cardinality(Counted(a.value[i], reply.counts))
                                   + Number((reply.nodes \o reply.edges)[i].description)
<1> DEFINE nodes == [j \in 1 .. Len(reply.nodes) |-> SchemaOf(reply.nodes[j], "node")]
           edges == [j \in 1 .. Len(reply.edges) |-> SchemaOf(reply.edges[j], "edge")]
           Given == Range(reply.nodes) \cup Range(reply.edges)
           Schemas == [name : {row.name : row \in Given}, dbType : {"node", "edge"}, total : Nat]
<1>1. /\ Len(reply.nodes) \in Nat /\ Len(reply.edges) \in Nat /\ Len(reply.counts) \in Nat
      /\ \A j \in 1 .. Len(reply.nodes) : reply.nodes[j] \in Range(reply.nodes)
      /\ \A j \in 1 .. Len(reply.edges) : reply.edges[j] \in Range(reply.edges)
      /\ \A j \in 1 .. Len(reply.counts) : reply.counts[j] \in Range(reply.counts)
      BY ItemsAssumption DEF IsSequence, Range
<1>2. \A row \in Given : Number(row.description) \in Nat BY ItemsAssumption DEF Number
<1>3. ASSUME NEW row \in Given, NEW t \in {"node", "edge"}
      PROVE  SchemaOf(row, t) \in Schemas /\ SchemaOf(row, t).total = Number(row.description)
      BY <1>2 DEF SchemaOf, Number
<1>4. nodes \in Seq(Schemas) /\ edges \in Seq(Schemas)
  <2> HIDE DEF Schemas
  <2>1. nodes \in [1 .. Len(reply.nodes) -> Schemas] /\ edges \in [1 .. Len(reply.edges) -> Schemas]
        BY <1>1, <1>3
  <2> QED BY <1>1, <2>1
<1>5. PICK schemas, rows : schemas = nodes \o edges /\ rows = reply.nodes \o reply.edges OBVIOUS
<1>6. reply.nodes \in Seq(Given) /\ reply.edges \in Seq(Given)
  <2>1. reply.nodes \in Seq(Range(reply.nodes)) /\ reply.edges \in Seq(Range(reply.edges))
        BY ItemsAssumption DEF IsSequence
  <2> QED BY <2>1
<1>7. /\ schemas \in Seq(Schemas) /\ Len(schemas) \in Nat /\ Len(schemas) = Len(rows)
      /\ \A i \in 1 .. Len(schemas) : schemas[i] \in Schemas /\ schemas[i].total = Number(rows[i].description)
  <2> HIDE DEF Schemas, Given
  <2>1. Len(nodes) = Len(reply.nodes) /\ Len(edges) = Len(reply.edges) BY <1>1
  <2>2. /\ schemas \in Seq(Schemas) /\ Len(schemas) = Len(nodes) + Len(edges)
        /\ \A i \in 1 .. Len(nodes) + Len(edges) :
             schemas[i] = IF i <= Len(nodes) THEN nodes[i] ELSE edges[i - Len(nodes)]
    <3> HIDE DEF nodes, edges
    <3> QED BY <1>4, <1>5, ConcatProperties
  <2>3. /\ Len(rows) = Len(reply.nodes) + Len(reply.edges)
        /\ \A i \in 1 .. Len(reply.nodes) + Len(reply.edges) :
             rows[i] = IF i <= Len(reply.nodes) THEN reply.nodes[i] ELSE reply.edges[i - Len(reply.nodes)]
        BY <1>5, <1>6, ConcatProperties
  <2>4. ASSUME NEW i \in 1 .. Len(schemas) PROVE schemas[i].total = Number(rows[i].description)
    <3>1. CASE i <= Len(reply.nodes)
      <4>1. i \in 1 .. Len(reply.nodes) BY <1>1, <2>1, <2>2, <3>1
      <4>2. schemas[i] = SchemaOf(reply.nodes[i], "node") /\ rows[i] = reply.nodes[i]
            BY <1>1, <2>1, <2>2, <2>3, <3>1, <4>1
      <4>3. reply.nodes[i] \in Given BY <1>1, <4>1 DEF Given
      <4> QED BY <1>3, <4>2, <4>3
    <3>2. CASE ~(i <= Len(reply.nodes))
      <4>1. PICK k \in 1 .. Len(reply.edges) : k = i - Len(reply.nodes)
        <5> HIDE DEF nodes, edges
        <5>1. PICK m \in Nat, n \in Nat : m = Len(reply.nodes) /\ n = Len(reply.edges) BY <1>1
        <5>2. i \in 1 .. m + n /\ ~(i <= m) BY <2>1, <2>2, <3>2, <5>1
        <5>3. i - m \in 1 .. n BY <5>2
        <5> QED BY <5>1, <5>3
      <4>2. schemas[i] = edges[k] /\ rows[i] = reply.edges[k]
        <5> HIDE DEF nodes, edges
        <5> QED BY <1>1, <2>1, <2>2, <2>3, <3>2, <4>1
      <4>3. edges[k] = SchemaOf(reply.edges[k], "edge") BY <4>1
      <4>4. reply.edges[k] \in Given BY <1>1, <4>1 DEF Given
      <4> HIDE DEF nodes, edges
      <4> QED BY <1>3, <4>2, <4>3, <4>4
    <3> QED BY <3>1, <3>2
  <2> HIDE DEF nodes, edges
  <2>5. Len(schemas) \in Nat /\ \A i \in 1 .. Len(schemas) : schemas[i] \in Schemas
        BY <2>2, LenProperties, ElementOfSeq
  <2> QED BY <2>1, <2>2, <2>3, <2>4, <2>5
<1>8. \A c, k, x : Result(c, k, x).kind = k /\ (k = "ok" => Result(c, k, x).value = x) BY DEF Result
<1>9. PICK counts : counts = reply.counts OBVIOUS
<1>10. Len(counts) \in Nat /\ \A j \in 1 .. Len(counts) : counts[j].count \in Nat
       BY <1>1, <1>9, ItemsAssumption
<1>11. CASE counts = <<>>
  <2>1. a.value = schemas
    <3>1. a = Result("ShowSchema", "ok", schemas) BY <1>5, <1>9, <1>11 DEF ShowSchema
    <3> QED BY <1>8, <3>1
  <2>2. ASSUME NEW i \in 1 .. Len(a.value)
        PROVE  a.value[i].total = Cardinality(Counted(a.value[i], counts)) + Number(rows[i].description)
    <3>1. Counted(a.value[i], counts) = {} BY <1>11 DEF Counted, CountsOf
    <3>2. Cardinality(Counted(a.value[i], counts)) = 0 BY <3>1, FS_EmptySet
    <3>3. a.value[i].total \in Nat /\ a.value[i].total = Number(rows[i].description) BY <1>7, <2>1
    <3> QED BY <3>2, <3>3
  <2> QED BY <1>5, <1>7, <1>9, <2>1, <2>2
<1>12. CASE counts # <<>>
  <2>1. a.value = [j \in 1 .. Len(schemas) |-> SetStatsByGraphCount(schemas[j], counts)]
    <3>1. a = IF schemas = <<>> THEN Result("ShowSchema", "err", <<>>)
              ELSE Result("ShowSchema", "ok",
                          [j \in 1 .. Len(schemas) |-> SetStatsByGraphCount(schemas[j], counts)])
          BY <1>5, <1>9, <1>12 DEF ShowSchema
    <3>2. schemas # <<>> BY <1>8, <3>1
    <3> QED BY <1>8, <3>1, <3>2
  <2>2. Len(a.value) = Len(schemas) BY <1>7, <2>1
  <2>3. ASSUME NEW i \in 1 .. Len(a.value)
        PROVE  a.value[i].total = Cardinality(Counted(a.value[i], counts)) + Number(rows[i].description)
    <3>1. i \in 1 .. Len(schemas) /\ a.value[i] = SetStatsByGraphCount(schemas[i], counts) BY <2>1, <2>2
    <3>2. PICK schema : schema = schemas[i] OBVIOUS
    <3>3. /\ schema.total \in Nat /\ schema.dbType \in {"node", "edge"}
          /\ schema.total = Number(rows[i].description)
          BY <1>7, <3>1, <3>2
    <3>4. SetStatsByGraphCount(schema, counts).total =
            Cardinality(Counted(SetStatsByGraphCount(schema, counts), counts)) + schema.total
          BY <1>10, <3>3, TotalIs
    <3> QED BY <3>1, <3>2, <3>3, <3>4
  <2> QED BY <1>5, <1>7, <1>9, <2>2, <2>3
<1> QED BY <1>11, <1>12

(* The answer to show().schema() is one of the server's.                    *)
ReplyInv == item.type = "SCHEMAS" => item.data \in SchemaReplies

\* The total that ShowSchema gives a schema is what the server counted for it,
\* however many counts there are and in whatever order, on top of the number that
\* the description is, if it is one.
THEOREM TotalsAreExact == Spec => []TotalIsExact
<1> DEFINE Inv == ReplyInv /\ TotalIsExact
<1>1. Init => Inv
      BY DEF Init, ReplyInv, NilItem, NoAnswer, TotalIsExact, Returned
<1>2. Inv /\ [Next]_vars => Inv'
  <2> SUFFICES ASSUME Inv, [Next]_vars PROVE Inv'
      OBVIOUS
  <2>1. ReplyInv'
    <3>1. CASE Arrive BY <3>1, ItemsAssumption DEF Arrive, ReplyInv, UnsetItem
    <3>2. CASE UNCHANGED item BY <3>2 DEF ReplyInv
    <3>3. Arrive \/ UNCHANGED item
          BY DEF Next, vars, Returns, CallReader, CallAsNodes, CallAsEdges, CallAsPaths, CallAsGraph,
                 CallAsAttr, CallAsAny, CallAsAttrList, CallShowSchema
    <3> QED BY <3>1, <3>2, <3>3
  <2>2. CASE UNCHANGED <<item, answer>> BY <2>2 DEF TotalIsExact, Returned, ReplyInv
  <2>3. ASSUME answer'.call # "ShowSchema" PROVE TotalIsExact'
        BY <2>3 DEF TotalIsExact, Returned
  <2>4. CASE CallShowSchema
    <3> SUFFICES ASSUME answer'.kind = "ok" PROVE TotalIsExact'
        BY <2>1 DEF TotalIsExact, Returned
    <3>1. PICK reply \in SchemaReplies : reply = item.data BY <2>4 DEF CallShowSchema, ReplyInv
    <3>2. answer' = ShowSchema(reply) /\ item' = item BY <2>4, <3>1 DEF CallShowSchema
    <3>3. /\ Len(answer'.value) = Len(reply.nodes \o reply.edges)
          /\ \A i \in 1 .. Len(answer'.value) :
               answer'.value[i].total = Cardinality(Counted(answer'.value[i], reply.counts))
                                          + Number((reply.nodes \o reply.edges)[i].description)
          BY <3>2, SchemasOf
    <3> QED BY <3>1, <3>2, <3>3 DEF TotalIsExact, Number
  <2>5. CASE CallReader
    <3>1. answer'.call = "ReadTable" BY <2>5 DEF CallReader, Returns
    <3> QED BY <2>1, <2>3, <3>1
  <2>6. CASE ~CallReader /\ ~CallShowSchema /\ ~UNCHANGED <<item, answer>>
    <3>1. answer'.call # "ShowSchema"
          BY <2>6, CallNames, OtherNames
          DEF Next, vars, Arrive, NoAnswer, Returns, CallAsNodes, CallAsEdges, CallAsPaths, CallAsGraph,
              CallAsAttr, CallAsAny, CallAsAttrList
    <3> QED BY <2>1, <2>3, <3>1
  <2> QED BY <2>1, <2>2, <2>4, <2>5, <2>6
<1>3. Inv => TotalIsExact OBVIOUS
<1> QED BY <1>1, <1>2, <1>3, PTL DEF Spec
=============================================================================
