------------------------------- MODULE MCResults -------------------------------
(***************************************************************************)
(* Results on bounded answers: tables of at most two rows, of which one has *)
(* at most one flaw, with the columns in the expected order, reversed, one  *)
(* short, or one repeated; entity tables of at most two rows; at most two   *)
(* paths or lists.                                                          *)
(***************************************************************************)
EXTENDS Results

CONSTANT Descriptions

(* The columns a reader knows, by position where it has one.                *)
Columns(reader) ==
  LET named == SelectSeq(reader.fields, LAMBDA f : f.col \notin reader.pinned)
      sorted == SortSeq(named, LAMBDA f, g : f.at < g.at)
  IN [i \in 1 .. Len(named) |-> sorted[i].col]

Arrangements(reader) ==
  LET cols == Columns(reader)
  IN {cols, Reverse(cols), Tail(cols), Append(cols, Head(cols))}

Cells(headers, r, is) == [i \in 1 .. Len(headers) |-> [of |-> <<headers[i], r>>, is |-> is]]

(* A whole row, one with a flawed cell, one cell short, or one too long.    *)
Rows(headers, r) ==
  LET whole == Cells(headers, r, "good")
  IN {whole, whole \o <<[of |-> <<"more", r>>, is |-> "good"]>>, Front(whole)}
       \cup {[whole EXCEPT ![i].is = is] : i \in 1 .. Len(headers), is \in {"bad", "null", "broken"}}

RowLists(headers) ==
  {<<>>} \cup {<<row>> : row \in Rows(headers, 1)}
    \cup {<<Cells(headers, 1, "good"), row>> : row \in Rows(headers, 2)}
    \cup {<<row, Cells(headers, 2, "good")>> : row \in Rows(headers, 1)}

TablesFor(reader) ==
  LET name == IF reader.tables = {} THEN "any" ELSE CHOOSE n \in reader.tables : TRUE
  IN UNION {{[type |-> "TABLE", data |-> [name |-> name, headers |-> h, rows |-> rows]] :
               rows \in RowLists(h)} : h \in Arrangements(reader)}

MCTableItems == UNION {TablesFor(reader) : reader \in Readers}

-----------------------------------------------------------------------------
Cell(is) == [of |-> <<"value", 1>>, is |-> is]

EntityRows ==
  {[null |-> TRUE, uuid |-> 0, schema |-> "s", values |-> <<>>]}
    \cup [null : {FALSE}, uuid : {1, 2}, schema : {"s"}, values : {<<Cell("good")>>}]
    \cup [null : {FALSE}, uuid : {1}, schema : {"s", "undeclared"},
          values : {<<>>, <<Cell("broken")>>, <<Cell("null"), Cell("good")>>}]

EntityTables ==
  {[schemas |-> [s \in {"s"} |-> <<"p">>], rows |-> rows] : rows \in SeqOf(EntityRows, 2)}

MCEntityItems == [type : {"NODE", "EDGE"}, data : EntityTables]

(* Tables without a flaw, and one with a broken value.                      *)
PathTables ==
  LET good == {row \in EntityRows : \A i \in 1 .. Len(row.values) : row.values[i].is = "good"}
  IN {t \in EntityTables : Range(t.rows) \subseteq {row \in good : row.schema = "s"}}
       \cup {t \in EntityTables : Len(t.rows) = 1 /\ t.rows[1].values = <<Cell("broken")>>}

Ones == {t \in PathTables : Len(t.rows) <= 1}

Paths == [nodes : PathTables, edges : Ones]

MCPathItems ==
  [type : {"PATH"}, data : {<<>>} \cup {<<p>> : p \in Paths}
                             \cup [1 .. 2 -> [nodes : Ones, edges : Ones]]]

-----------------------------------------------------------------------------
NoTable == [schemas |-> [s \in {"s"} |-> <<"p">>], rows |-> <<>>]

List(null, kind, table, paths, cells) ==
  [null |-> null, kind |-> kind, table |-> table, paths |-> paths, cells |-> cells]

Lists ==
  {List(TRUE, "ATTR", NoTable, <<>>, <<>>), List(TRUE, "NODE", NoTable, <<>>, <<>>),
   List(FALSE, "OTHER", NoTable, <<>>, <<>>), List(FALSE, "GARBLED", NoTable, <<>>, <<>>)}
    \cup {List(FALSE, kind, table, <<>>, <<>>) : kind \in {"NODE", "EDGE"}, table \in Ones}
    \cup {List(FALSE, "PATH", NoTable, paths, <<>>) :
            paths \in {<<>>} \cup {<<[nodes |-> n, edges |-> NoTable]>> : n \in Ones}}
    \cup {List(FALSE, "ATTR", NoTable, <<>>, cells) :
            cells \in SeqOf({Cell("good"), Cell("null"), Cell("broken")}, 1)}

MCAttrItems ==
  [type : {"ATTR"},
   data : [type : {"LIST", "SET"}, lists : SeqOf(Lists, 2), cells : {<<>>}]
            \cup [type : {"MAP"}, lists : SeqOf({l \in Lists : l.cells = <<>> /\ l.kind = "ATTR"}, 2), cells : {<<>>}]
            \cup [type : {"STRING"}, lists : {<<>>}, cells : SeqOf({Cell("good"), Cell("null"), Cell("broken")}, 2)]]

-----------------------------------------------------------------------------
SchemaRows == SeqOf([name : {"a", "b"}, description : Descriptions], 1)

MCSchemaReplies ==
  [nodes : SchemaRows, edges : SchemaRows,
   counts : SeqOf([type : {"node", "edge", "unknown"}, schema : {"a", "b"}, count : {0, 2}], 2)]

=============================================================================
