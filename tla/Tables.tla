-------------------------------- MODULE Tables --------------------------------
(***************************************************************************)
(* How a result table becomes Go structures: the readers AsGraphSets,       *)
(* AsSchemas, AsUsers ... of sdk/http/dataitem.go, as a table of readers    *)
(* and the code they share.                                                 *)
(*                                                                          *)
(* A table is a record of its name, the names of its columns and its rows.  *)
(* A cell is a record: the column and the row the server filled it for      *)
(* ("of"), and what it holds ("is"):                                        *)
(*   "good"    text that the reader of that column can parse,               *)
(*   "bad"     text that it cannot parse,                                   *)
(*   "null"    the null bytes of the column's type,                         *)
(*   "broken"  bytes that ConvertBytesToInterface refuses.                  *)
(* An outcome is "ok", "err" (an error is returned), "panic" (an index out  *)
(* of range, a failed type assertion) or "exit" (log.Fatalln).              *)
(***************************************************************************)
EXTENDS Naturals, Sequences, SequencesExt

(* What a reader does with one column: where it looks for it, and what      *)
(* becomes of a text that does not parse: "keep" (it is not parsed), "drop" *)
(* (the error is ignored), "late" (the error goes to the variable err and   *)
(* the row is kept), or the outcome of the whole call.                      *)
Field(col, at, bad) == [col |-> col, at |-> at, bad |-> bad]

Texts(cols) == [i \in 1 .. Len(cols) |-> Field(cols[i], i, "keep")]

(* tables: the accepted names, {} for any; unset: the outcome for a result  *)
(* of type UNSET; by: "position", "header" (the position of the header, the *)
(* given one without it), "key" (ToKV, and a type assertion) or "map" (a    *)
(* default for a missing column); optional: columns that may be missing;    *)
(* pinned: columns that "header" reads at the given place all the same;      *)
(* width: the exact length of a row, 0 for any; least: the headers below    *)
(* which nothing is read; first: only the first row is read, unchecked.     *)
Reader(tables, unset, by, fields, optional) ==
  [tables |-> tables, unset |-> unset, by |-> by, fields |-> fields, optional |-> optional,
   pinned |-> {}, width |-> 0, least |-> 0, first |-> FALSE]

AsGraphSets ==
  Reader({"_graph"}, "ok", "key",
         Texts(<<"id", "name", "status", "description", "shards", "partition_by">>)
           \o << Field("total_nodes", 0, "drop"), Field("total_edges", 0, "late"),
                 Field("slot_num", 0, "late") >>,
         {"total_nodes", "total_edges", "slot_num"})

AsGraphCount ==
  [Reader({"_graphCount"}, "ok", "position",
          Texts(<<"type", "schema", "from_schema", "to_schema">>) \o << Field("count", 5, "drop") >>, {})
     EXCEPT !.least = 5]

(* The total is read at position 4 of whatever the header says, which is    *)
(* the default position of the description.  The JSON of the properties is  *)
(* parsed last; a text for the decimal extra is unmarshalled into a nil     *)
(* pointer, so a property that has one counts as one that does not parse.   *)
AsSchemas ==
  [Reader({"_nodeSchema", "_edgeSchema"}, "ok", "header",
          << Field("name", 2, "keep"), Field("description", 4, "keep"), Field("total", 4, "drop"),
             Field("id", 1, "keep"), Field("properties", 5, "exit") >>, {})
     EXCEPT !.pinned = {"total"}]

AsProperties ==
  LET texts == <<"name", "type", "read", "write", "schema", "description", "encrypt">>
  IN Reader({"_nodeProperty", "_edgeProperty"}, "ok", "map",
            Texts(texts) \o << Field("lte", 0, "exit"), Field("extra", 0, "exit") >>,
            Range(texts) \cup {"lte", "extra"})

AsIndexes ==
  Reader({"_nodeIndex", "_edgeIndex"}, "ok", "position",
         Texts(<<"id", "name", "properties", "schema", "status">>), {})

AsFullTexts ==
  Reader({"_nodeFulltext", "_edgeFulltext"}, "ok", "position",
         Texts(<<"name", "properties", "schema", "status">>), {})

AsAlgos ==
  Reader({}, "err", "key",
         Texts(<<"name", "version", "type", "write_support_type", "can_rollback",
                 "description", "config_context">>), {})

AsPolicies ==
  [Reader({"_policy"}, "err", "position",
          << Field("name", 1, "keep"), Field("graphPrivileges", 2, "err"),
             Field("systemPrivileges", 3, "err"), Field("propertyPrivileges", 4, "err"),
             Field("policies", 5, "err") >>, {})
     EXCEPT !.width = 5]

AsExtas == Reader({"_extaList"}, "ok", "position", Texts(<<"name", "author", "version", "detail">>), {})

AsTasks == Reader({"_task"}, "ok", "position", << Field("task", 1, "err") >>, {})

AsProcesses ==
  Reader({"_top"}, "ok", "position", Texts(<<"process_id", "status", "process_query", "duration">>), {})

AsStats ==
  [Reader({"_statistic"}, "err", "position",
          << Field("expired_date", 3, "err"), Field("cpu_usage", 1, "keep"),
             Field("mem_usage", 2, "keep"), Field("cpu_cores", 4, "keep"),
             Field("company", 5, "keep"), Field("server_type", 6, "keep"),
             Field("version", 7, "keep") >>, {})
     EXCEPT !.first = TRUE]

AsPrivileges ==
  Reader({"_privilege"}, "ok", "position",
         << Field("graph_privileges", 1, "err"), Field("system_privileges", 2, "err") >>, {})

AsUsers ==
  Reader({"_user"}, "ok", "key",
         << Field("username", 1, "keep"), Field("create", 2, "panic"),
            Field("graphPrivileges", 3, "err"), Field("systemPrivileges", 4, "err"),
            Field("propertyPrivileges", 5, "err"), Field("policies", 6, "err") >>, {})

AsJobs ==
  Reader({"_job"}, "ok", "position",
         Texts(<<"job_id", "graph_name", "type", "query", "status", "err_msg">>)
           \o << Field("result", 7, "drop") >>
           \o << Field("start_time", 8, "keep"), Field("end_time", 9, "keep"),
                 Field("progress", 10, "keep") >>, {})

AsHDCGraphs ==
  Reader({"_hdcGraphList"}, "ok", "key",
         Texts(<<"name", "graph_name", "status", "stats", "is_default", "hdc_server_name",
                 "hdc_server_status", "config">>), {})

AsProjections ==
  Reader({"_projectionList"}, "ok", "key",
         Texts(<<"name", "graph_name", "status", "stats", "config">>), {})

Readers ==
  { AsGraphSets, AsGraphCount, AsSchemas, AsProperties, AsIndexes, AsFullTexts, AsAlgos,
    AsPolicies, AsExtas, AsTasks, AsProcesses, AsStats, AsPrivileges, AsUsers, AsJobs,
    AsHDCGraphs, AsProjections }

-----------------------------------------------------------------------------
Absent == [of |-> <<"", 0>>, is |-> "absent"]

(* The first outcome that ends the call, or "ok".                           *)
FirstFailure(outcomes) ==
  LET failures == SelectSeq(outcomes, LAMBDA o : o # "ok")
  IN IF failures = <<>> THEN "ok" ELSE Head(failures)

(* The conversion of one row by its headers: the bytes of each cell, and    *)
(* the header at its index.                                                 *)
ConvertRow(headers, row) ==
  FirstFailure([i \in 1 .. Len(row) |->
                  IF i > Len(headers) THEN "panic"
                  ELSE IF row[i].is = "broken" THEN "err" ELSE "ok"])

AsTable(table) ==
  FirstFailure([i \in 1 .. Len(table.rows) |-> ConvertRow(table.headers, table.rows[i])])

(* One map per row; every header is indexed in the row.                     *)
ToKV(table) ==
  FirstFailure([i \in 1 .. Len(table.rows) |->
                  IF Len(table.rows[i]) < Len(table.headers) THEN "panic" ELSE "ok"])

-----------------------------------------------------------------------------
(* The last header of that name, as in a map that is filled in order; 0:     *)
(* there is none.                                                           *)
HeaderIndex(table, col) == SelectLastInSeq(table.headers, LAMBDA h : h = col)

(* The positions of AsSchemas before it looked at the headers.              *)
Position_Fixed(table, reader, field) ==
  IF reader.by \in {"position", "header"} THEN field.at ELSE HeaderIndex(table, field.col)

(* The column is looked for at its given place.                             *)
ByPlace(reader, field, headers) ==
  \/ reader.by = "position"
  \/ reader.by = "header" /\ (field.col \in reader.pinned \/ field.col \notin Range(headers))

(* Where the reader finds a column; 0: nowhere.                             *)
Position(table, reader, field) ==
  IF ByPlace(reader, field, table.headers) THEN field.at ELSE HeaderIndex(table, field.col)

CellOf(table, reader, field, row) ==
  LET p == Position(table, reader, field)
  IN IF p \in 1 .. Len(row) THEN row[p] ELSE Absent

(* getOrDefault, v.Get(...): a null has become nil by ToKV.                 *)
Missing(reader, cell) == cell = Absent \/ (reader.by = "key" /\ cell.is = "null")

FieldOutcome(reader, field, cell) ==
  IF Missing(reader, cell) THEN IF field.col \in reader.optional THEN "ok" ELSE "panic"
  ELSE IF cell.is = "good" \/ field.bad \in {"keep", "drop", "late"} THEN "ok"
  ELSE field.bad

(* A missing column and a dropped text leave the zero value.                *)
FieldValue(reader, field, cell) ==
  IF Missing(reader, cell) \/ (cell.is # "good" /\ field.bad \in {"drop", "late"})
  THEN Absent
  ELSE cell

RowOutcome(table, reader, row) ==
  IF reader.width > 0 /\ Len(row) # reader.width THEN "err"
  ELSE IF reader.by = "map" /\ Len(row) < Len(table.headers) THEN "panic"
  ELSE FirstFailure([i \in 1 .. Len(reader.fields) |->
                  FieldOutcome(reader, reader.fields[i],
                               CellOf(table, reader, reader.fields[i], row))])

RowValue(table, reader, row) ==
  [i \in 1 .. Len(reader.fields) |->
     FieldValue(reader, reader.fields[i], CellOf(table, reader, reader.fields[i], row))]

(* The variable err after the last row: each "late" column that is there    *)
(* overwrites it, a success included.                                       *)
LateError(table, reader) ==
  LET late(row) ==
        LET there == SelectSeq(reader.fields, LAMBDA f :
                       f.bad = "late" /\ ~Missing(reader, CellOf(table, reader, f, row)))
        IN [i \in 1 .. Len(there) |->
              IF CellOf(table, reader, there[i], row).is = "good" THEN "ok" ELSE "err"]
      all == FlattenSeq([i \in 1 .. Len(table.rows) |-> late(table.rows[i])])
  IN IF all = <<>> THEN "ok" ELSE Last(all)

Answer(kind, rows) == [kind |-> kind, rows |-> rows]

(* The loop over the rows, after the checks of the table's type and name.   *)
ReadRows(table, reader) ==
  LET rows    == IF reader.first THEN SubSeq(table.rows, 1, 1) ELSE table.rows
      convert == IF reader.by = "key" THEN FirstFailure(<<AsTable(table), ToKV(table)>>) ELSE "ok"
      outcome == FirstFailure(<<convert>> \o
                   [i \in 1 .. Len(rows) |-> RowOutcome(table, reader, rows[i])])
  IN IF Len(table.headers) < reader.least THEN Answer("ok", <<>>)
     ELSE IF reader.first /\ table.rows = <<>> THEN Answer("panic", <<>>)
     ELSE IF outcome # "ok" THEN Answer(outcome, <<>>)
     ELSE Answer(LateError(table, reader),
                 [i \in 1 .. Len(rows) |-> RowValue(table, reader, rows[i])])

(* One As... reader: no data is nothing, the types and names it refuses are *)
(* errors.                                                                  *)
ReadTable(item, reader) ==
  CASE item.type = "NIL"   -> Answer("ok", <<>>)
    [] item.type = "UNSET" -> Answer(reader.unset, <<>>)
    [] item.type = "TABLE" -> IF reader.tables # {} /\ item.data.name \notin reader.tables
                              THEN Answer("err", <<>>)
                              ELSE ReadRows(item.data, reader)
    [] OTHER -> Answer("err", <<>>)

=============================================================================
