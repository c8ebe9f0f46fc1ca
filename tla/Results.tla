-------------------------------- MODULE Results --------------------------------
(***************************************************************************)
(* What a caller gets from a result item (sdk/http/dataitem.go): the nodes, *)
(* edges, paths, graphs and lists that the AsXxx methods build from the     *)
(* tables of an answer, the structures of Tables, and the totals that       *)
(* ShowSchema adds up from three tables of one answer.                      *)
(*                                                                          *)
(* An item is a record [type, data].  An entity table has the properties of *)
(* each declared schema, in order, and rows [null, uuid, schema, values]; a *)
(* path has a table of nodes and one of edges; an attribute has a type, and *)
(* lists [null, kind, table, paths, cells], of which the one its kind names *)
(* is set, or cells.  Cells are those of Tables.                            *)
(* Lists of lists are left out: the rows of a list of kind "ATTR" hold      *)
(* plain cells.                                                             *)
(***************************************************************************)
EXTENDS Tables, FiniteSets, FiniteSetsExt

CONSTANTS
  TableItems,      \* the tables a caller may read
  EntityItems,     \* items of nodes or edges
  PathItems,       \* items of paths
  AttrItems,       \* items of attributes
  SchemaReplies,   \* answers to show().schema()
  NoNumber         \* a description that is not a number

VARIABLES
  item,    \* the item of the answer that is being read
  answer   \* what the last call on it returned: [call, kind, value]

vars == <<item, answer>>

(* The cells of a table are "of" the header above them and of their row;    *)
(* the rows of an entity table.                                             *)
ServerCells == [of : STRING \X Nat, is : {"good", "bad", "null", "broken"}]
ServerRows  == [null : BOOLEAN, uuid : Nat, schema : STRING, values : Seq(ServerCells)]

IsSequence(s) == s \in Seq(Range(s))

ASSUME ItemsAssumption ==
  /\ \A i \in TableItems :
       /\ i.type = "TABLE" /\ i.data.headers \in Seq(STRING) /\ i.data.rows \in Seq(Seq(ServerCells))
       /\ \A r \in 1 .. Len(i.data.rows) : \A c \in 1 .. Len(i.data.rows[r]) :
            c <= Len(i.data.headers) => i.data.rows[r][c].of = <<i.data.headers[c], r>>
  /\ \A i \in EntityItems : i.type \in {"NODE", "EDGE"} /\ i.data.rows \in Seq(ServerRows)
  /\ \A i \in PathItems :
       /\ i.type = "PATH" /\ IsSequence(i.data)
       /\ \A p \in Range(i.data) : p.nodes.rows \in Seq(ServerRows) /\ p.edges.rows \in Seq(ServerRows)
  /\ \A i \in AttrItems :
       /\ i.type = "ATTR" /\ IsSequence(i.data.lists)
       /\ \A l \in Range(i.data.lists) : l.null \in BOOLEAN /\ l.table.rows \in Seq(ServerRows)
  /\ \A r \in SchemaReplies :
       /\ IsSequence(r.nodes) /\ IsSequence(r.edges) /\ IsSequence(r.counts)
       /\ \A c \in Range(r.counts) : c.count \in Nat
       /\ \A row \in Range(r.nodes) \cup Range(r.edges) : row.description \in Nat \cup {NoNumber}

NilItem   == [type |-> "NIL", data |-> <<>>]
UnsetItem == [type |-> "UNSET", data |-> <<>>]
NoAnswer  == [call |-> "none", kind |-> "ok", value |-> <<>>]

-----------------------------------------------------------------------------
(* Entities.                                                                *)

(* The values of a row against the properties of its schema: a schema that  *)
(* the table does not declare is a nil pointer, a value too many an index   *)
(* out of range.                                                            *)
EntityOutcome(table, row) ==
  IF row.null THEN "ok"
  ELSE FirstFailure([i \in 1 .. Len(row.values) |->
         IF row.schema \notin DOMAIN table.schemas \/ i > Len(table.schemas[row.schema]) THEN "panic"
         ELSE IF row.values[i].is = "broken" THEN "err" ELSE "ok"])

EntitiesOutcome(table) ==
  FirstFailure([i \in 1 .. Len(table.rows) |-> EntityOutcome(table, table.rows[i])])

EntityOf(table, row) ==
  [uuid   |-> row.uuid,
   schema |-> row.schema,
   values |-> [i \in 1 .. Len(row.values) |-> << table.schemas[row.schema][i], row.values[i] >>]]

NotNull(rows) == FlattenSeq([i \in 1 .. Len(rows) |-> IF rows[i].null THEN <<>> ELSE <<rows[i]>>])

(* NodeTableToNodes and EdgeTableToEdges: null rows are skipped.            *)
Entities(table) ==
  LET rows == NotNull(table.rows)
  IN [i \in 1 .. Len(rows) |-> EntityOf(table, rows[i])]

(* A later entity of the same uuid replaces an earlier one.                 *)
ByUUID(entities) ==
  LET at(u) == CHOOSE i \in 1 .. Len(entities) :
                 /\ entities[i].uuid = u
                 /\ \A j \in i + 1 .. Len(entities) : entities[j].uuid # u
  IN [u \in {entities[i].uuid : i \in 1 .. Len(entities)} |-> entities[at(u)]]

NodeTableToUUIDs_KeepsNull(table) == [i \in 1 .. Len(table.rows) |-> table.rows[i].uuid]

NodeTableToUUIDs(table) ==
  LET rows == NotNull(table.rows)
  IN [i \in 1 .. Len(rows) |-> rows[i].uuid]

-----------------------------------------------------------------------------
(* Paths and graphs.                                                        *)

PathsOutcome(paths) ==
  FirstFailure(FlattenSeq([i \in 1 .. Len(paths) |->
    << EntitiesOutcome(paths[i].nodes), EntitiesOutcome(paths[i].edges) >>]))

parsePaths(paths) ==
  [i \in 1 .. Len(paths) |->
     [nodeUUIDs |-> NodeTableToUUIDs(paths[i].nodes),
      edgeUUIDs |-> NodeTableToUUIDs(paths[i].edges),
      nodes     |-> ByUUID(Entities(paths[i].nodes)),
      edges     |-> ByUUID(Entities(paths[i].edges))]]

(* The nodes and edges of all paths, by uuid, and the paths themselves.     *)
AllEntities(tables) == FlattenSeq([i \in 1 .. Len(tables) |-> Entities(tables[i])])

parseGraphs(paths) ==
  [nodes |-> ByUUID(AllEntities([i \in 1 .. Len(paths) |-> paths[i].nodes])),
   edges |-> ByUUID(AllEntities([i \in 1 .. Len(paths) |-> paths[i].edges])),
   paths |-> parsePaths(paths)]

-----------------------------------------------------------------------------
(* Attributes.                                                              *)

CellsOutcome(cells) ==
  FirstFailure([i \in 1 .. Len(cells) |-> IF cells[i].is = "broken" THEN "err" ELSE "ok"])

Null == [kind |-> "NULL", list |-> <<>>]

ListOutcome(row) ==
  IF row.kind = "GARBLED" THEN "err"
  ELSE IF row.null THEN "ok"
  ELSE CASE row.kind \in {"NODE", "EDGE"} -> EntitiesOutcome(row.table)
         [] row.kind = "PATH"             -> PathsOutcome(row.paths)
         [] row.kind = "ATTR"             -> CellsOutcome(row.cells)
         [] OTHER                         -> "ok"

ListValue(row) ==
  IF row.null THEN Null
  ELSE [kind |-> row.kind,
        list |-> CASE row.kind \in {"NODE", "EDGE"} -> Entities(row.table)
                   [] row.kind = "PATH"             -> parsePaths(row.paths)
                   [] OTHER                         -> row.cells]

Parsed(row) == row.null \/ row.kind \in {"NODE", "EDGE", "PATH", "ATTR"}

parseAttrList_SkipsNull(lists) ==
  LET values == SelectSeq(lists, LAMBDA r : Parsed(r) /\ ~r.null)
  IN [i \in 1 .. Len(values) |-> ListValue(values[i])]

(* One value per list, nil for a null one; a list of another kind is        *)
(* passed over.                                                             *)
parseAttrList(lists) ==
  FlattenSeq([i \in 1 .. Len(lists) |-> IF Parsed(lists[i]) THEN <<ListValue(lists[i])>> ELSE <<>>])

(* The kind of the first list that is not null.                             *)
ResultType(values) ==
  LET found == {i \in 1 .. Len(values) : values[i] # Null}
  IN IF found = {} THEN "ATTR" ELSE values[CHOOSE i \in found : \A j \in found : i <= j].kind

(* parseAttr and handleAttrValues; a map whose row has no key or no value   *)
(* dereferences a nil attribute.                                            *)
AttrOutcome(attr) ==
  CASE attr.type \in {"LIST", "SET"} ->
         FirstFailure([i \in 1 .. Len(attr.lists) |-> ListOutcome(attr.lists[i])])
    [] attr.type = "MAP" ->
         FirstFailure([i \in 1 .. Len(attr.lists) |-> IF attr.lists[i].null THEN "panic" ELSE "ok"])
    [] OTHER -> CellsOutcome(attr.cells)

Result(call, kind, value) ==
  [call |-> call, kind |-> kind, value |-> IF kind = "ok" THEN value ELSE <<>>]

(* ListAttrAsAttrNodes, ...Edges, ...Paths: every value is asserted to be   *)
(* list data, which a nil and a row of plain values are not.                *)
ListAttrAs(call, kind, attr) ==
  LET values == parseAttrList(attr.lists)
  IN IF attr.type # "LIST" THEN Result(call, "err", <<>>)
     ELSE IF values = <<>> THEN Result(call, "ok", <<>>)
     ELSE IF ResultType(values) # kind THEN Result(call, "err", <<>>)
     ELSE IF \E i \in 1 .. Len(values) : values[i].kind \in {"NULL", "ATTR"}
          THEN Result(call, "panic", <<>>)
     ELSE Result(call, "ok",
            [i \in 1 .. Len(values) |->
               [kind |-> kind,
                list |-> IF values[i].kind = kind THEN values[i].list ELSE <<>>]])

ListAttrAsAttr(call, attr) ==
  LET values == parseAttrList(attr.lists)
  IN IF values = <<>> \/ ResultType(values) = "ATTR"
     THEN Result(call, "ok", values)
     ELSE ListAttrAs(call, ResultType(values), attr)

-----------------------------------------------------------------------------
(* The methods of DataItem.  Each one is [type, data] -> answer.            *)

AsEntities(call, type, i) ==
  IF i.type \in {"NIL", "UNSET"} THEN Result(call, "ok", <<>>)
  ELSE CASE i.type = type   -> Result(call, EntitiesOutcome(i.data), Entities(i.data))
         [] i.type = "ATTR" -> Result(call, "panic", <<>>)
         [] OTHER           -> Result(call, "err", <<>>)

AsPaths(call, i) ==
  CASE i.type \in {"NIL", "UNSET"} -> Result(call, "ok", <<>>)
    [] i.type = "PATH" -> Result(call, PathsOutcome(i.data), parsePaths(i.data))
    [] OTHER           -> Result(call, "err", <<>>)

AsGraph(i) ==
  LET paths == AsPaths("AsGraph", i)
  IN IF i.type = "NIL" \/ paths.kind # "ok" THEN paths
     ELSE IF paths.value = <<>> THEN Result("AsGraph", "err", <<>>)
     ELSE Result("AsGraph", "ok", parseGraphs(i.data))

AsAttr(call, i) ==
  IF i.type \in {"NIL", "UNSET"} THEN Result(call, "ok", <<>>)
  ELSE IF i.type # "ATTR" THEN Result(call, "err", <<>>)
  ELSE IF AttrOutcome(i.data) # "ok" THEN Result(call, AttrOutcome(i.data), <<>>)
  ELSE CASE i.data.type = "MAP"             -> Result(call, "err", <<>>)
         [] i.data.type \in {"LIST", "SET"} -> ListAttrAsAttr(call, i.data)
         [] OTHER                           -> Result(call, "ok", i.data.cells)

(* AsAttrNodes, AsAttrEdges, AsAttrPaths.                                   *)
AsAttrList(call, kind, i) ==
  IF i.type \in {"NIL", "UNSET"} THEN Result(call, "ok", <<>>)
  ELSE IF i.type # "ATTR" THEN Result(call, "err", <<>>)
  ELSE IF AttrOutcome(i.data) # "ok" THEN Result(call, AttrOutcome(i.data), <<>>)
  ELSE ListAttrAs(call, kind, i.data)

(* Paths are handed out as they came.                                       *)
AsAny(i) ==
  CASE i.type = "ATTR"            -> AsAttr("AsAny", i)
    [] i.type \in {"NODE", "EDGE"} -> AsEntities("AsAny", i.type, i)
    [] i.type = "TABLE"           -> Result("AsAny", AsTable(i.data), i.data.rows)
    [] OTHER                      -> Result("AsAny", "ok", i.data)

-----------------------------------------------------------------------------
(* ShowSchema: the schemas of two tables and the counts of a third.  The    *)
(* number in the description's place is the first part of the total; a      *)
(* count of an unknown type is taken for one of nodes.                      *)
DBType(type) == IF type = "edge" THEN "edge" ELSE "node"

(* What each count adds to the total of a schema.                           *)
Additions_AnyType(schema, counts) ==
  [i \in 1 .. Len(counts) |-> IF counts[i].schema = schema.name THEN counts[i].count ELSE 0]

Additions(schema, counts) ==
  [i \in 1 .. Len(counts) |->
     IF counts[i].schema = schema.name /\ DBType(counts[i].type) = schema.dbType
     THEN counts[i].count ELSE 0]

SetStatsByGraphCount(schema, counts) ==
  LET total[i \in 0 .. Len(counts)] ==
        IF i = 0 THEN schema.total ELSE total[i - 1] + Additions(schema, counts)[i]
  IN [name |-> schema.name, dbType |-> schema.dbType, total |-> total[Len(counts)]]

SchemaOf(row, dbType) ==
  [name |-> row.name, dbType |-> dbType, total |-> IF row.description = NoNumber THEN 0 ELSE row.description]

ShowSchema(reply) ==
  LET schemas == [i \in 1 .. Len(reply.nodes) |-> SchemaOf(reply.nodes[i], "node")]
                   \o [i \in 1 .. Len(reply.edges) |-> SchemaOf(reply.edges[i], "edge")]
  IN IF reply.counts = <<>> THEN Result("ShowSchema", "ok", schemas)
     ELSE IF schemas = <<>> THEN Result("ShowSchema", "err", <<>>)
     ELSE Result("ShowSchema", "ok",
                          [i \in 1 .. Len(schemas) |-> SetStatsByGraphCount(schemas[i], reply.counts)])

-----------------------------------------------------------------------------
(* An item is read; any method may be called on it, the ones for another    *)
(* type included.                                                           *)

Init == item = NilItem /\ answer = NoAnswer

(* The server's answer: one item of it, or the tables of show().schema().   *)
(* The calls on an item leave it alone, so that one item is enough.         *)
Arrive ==
  /\ item = NilItem
  /\ \/ item' \in TableItems
     \/ item' \in EntityItems
     \/ item' \in PathItems
     \/ item' \in AttrItems
     \/ \E reply \in SchemaReplies : item' = [type |-> "SCHEMAS", data |-> reply]
     \/ item' = UnsetItem
  /\ answer' = NoAnswer

Returns(result) ==
  /\ item.type # "SCHEMAS"
  /\ answer' = result
  /\ UNCHANGED item

CallReader ==
  \E reader \in Readers :
    LET read == ReadTable(item, reader)
    IN Returns([call |-> "ReadTable", kind |-> read.kind,
                value |-> [reader |-> reader, rows |-> read.rows]])

CallAsNodes == Returns(AsEntities("AsNodes", "NODE", item))
CallAsEdges == Returns(AsEntities("AsEdges", "EDGE", item))
CallAsPaths == Returns(AsPaths("AsPaths", item))
CallAsGraph == Returns(AsGraph(item))
CallAsAttr  == Returns(AsAttr("AsAttr", item))
CallAsAny   == Returns(AsAny(item))

CallAsAttrList ==
  \E kind \in {"NODE", "EDGE", "PATH"} : Returns(AsAttrList("AsAttrList", kind, item))

CallShowSchema ==
  /\ item.type = "SCHEMAS"
  /\ answer' = ShowSchema(item.data)
  /\ UNCHANGED item

Next ==
  \/ Arrive
  \/ CallReader
  \/ CallAsNodes
  \/ CallAsEdges
  \/ CallAsPaths
  \/ CallAsGraph
  \/ CallAsAttr
  \/ CallAsAttrList
  \/ CallAsAny
  \/ CallShowSchema

Spec == Init /\ [][Next]_vars

-----------------------------------------------------------------------------
Returned(calls) == answer.call \in calls /\ answer.kind = "ok"

(* The rows of an entity table up to the n-th that are not null.            *)
Kept(rows, n) == {j \in 1 .. n : ~rows[j].null}
InOrder(uuids, rows) ==
  /\ Len(uuids) = Cardinality(Kept(rows, Len(rows)))
  /\ \A j \in Kept(rows, Len(rows)) : uuids[Cardinality(Kept(rows, j))] = rows[j].uuid

UUIDs(entities) == {entities[i].uuid : i \in 1 .. Len(entities)}

(* The cell of row r that a field may hold.                                 *)
RightCell(reader, field, cell, r, headers) ==
  LET atOwn == field.col \in Range(headers) /\ field.col \notin reader.pinned
  IN /\ reader.by \in {"key", "map"} \/ (reader.by = "header" /\ atOwn) => cell.of = <<field.col, r>>
     /\ reader.by = "position" \/ (reader.by = "header" /\ ~atOwn)
          => (field.at \in 1 .. Len(headers) => cell.of = <<headers[field.at], r>>)

(* A reader that reports success has read every row of the table, in order, *)
(* and each field of a structure holds a cell of its own row, or its zero   *)
(* value: a reader by key or map that of its own column, in any order of    *)
(* the columns; a reader by position that of the column at its place, which *)
(* is its own in the documented order; AsSchemas that of its own column,    *)
(* but the total, always, and a field without a header take the cell at     *)
(* their place, whatever column is there: the total is the description's in *)
(* the documented order, and with the id left out the id is the name.       *)
FieldsComeFromTheirColumns ==
  Returned({"ReadTable"}) /\ item.type = "TABLE" =>
    LET reader == answer.value.reader
        rows   == answer.value.rows
    IN /\ ~reader.first /\ Len(item.data.headers) >= reader.least => Len(rows) = Len(item.data.rows)
       /\ \A r \in 1 .. Len(rows), f \in 1 .. Len(reader.fields) :
            rows[r][f] # Absent => RightCell(reader, reader.fields[f], rows[r][f], r, item.data.headers)

(* The uuids that a path lists are, in order, those of its rows that are    *)
(* not null, and each of them is a key of the path's nodes or edges: the    *)
(* two are built by separate passes over the table, and a caller looks up   *)
(* the one in the other.  A graph holds exactly what its paths do.          *)
PathsAreClosed ==
  Returned({"AsPaths", "AsGraph"}) /\ item.type = "PATH" =>
    LET paths == IF answer.call = "AsGraph" THEN answer.value.paths ELSE answer.value
    IN /\ Len(paths) = Len(item.data)
       /\ \A i \in 1 .. Len(paths) :
            /\ Range(paths[i].nodeUUIDs) = DOMAIN paths[i].nodes
            /\ Range(paths[i].edgeUUIDs) = DOMAIN paths[i].edges
            /\ InOrder(paths[i].nodeUUIDs, item.data[i].nodes.rows)
            /\ InOrder(paths[i].edgeUUIDs, item.data[i].edges.rows)
       /\ answer.call = "AsGraph" =>
            /\ DOMAIN answer.value.nodes = UNION {DOMAIN paths[i].nodes : i \in 1 .. Len(paths)}
            /\ DOMAIN answer.value.edges = UNION {DOMAIN paths[i].edges : i \in 1 .. Len(paths)}

(* The lists of an attribute keep their place: the i-th value is that of    *)
(* the i-th list, and null where that list is null, so that the attributes  *)
(* of one result can be read side by side.  (A list of a kind the driver    *)
(* does not know is passed over, and shifts those after it.)                *)
ListsKeepTheirPlace ==
  Returned({"AsAttr", "AsAttrList", "AsAny"}) /\ item.type = "ATTR" /\ item.data.type \in {"LIST", "SET"}
  /\ (\A i \in 1 .. Len(item.data.lists) : Parsed(item.data.lists[i])) =>
    /\ Len(answer.value) = Len(item.data.lists)
    /\ \A i \in 1 .. Len(answer.value) :
         /\ (answer.value[i] = Null) = item.data.lists[i].null
         /\ item.data.lists[i].kind \in {"NODE", "EDGE"} /\ ~item.data.lists[i].null
            /\ answer.value[i].kind = item.data.lists[i].kind
              => UUIDs(answer.value[i].list) = Range(NodeTableToUUIDs(item.data.lists[i].table))

(* The counts that the server gave for a schema, and what they count: a     *)
(* count of edges is one of its edges, any other one of its nodes.          *)
CountsOf(schema, counts) ==
  {j \in 1 .. Len(counts) :
     counts[j].schema = schema.name /\ (counts[j].type = "edge") = (schema.dbType = "edge")}
Counted(schema, counts) ==
  UNION {{j} \X (1 .. counts[j].count) : j \in CountsOf(schema, counts)}

(* The total of a schema is the number of entities that the server counted  *)
(* for it, nodes and edges of the same name apart, and in whatever order    *)
(* and number the counts come, on top of the number in the fourth column of *)
(* the schema's own row, the description, if that is one.                   *)
TotalIsExact ==
  Returned({"ShowSchema"}) =>
    LET rows == item.data.nodes \o item.data.edges
    IN /\ Len(answer.value) = Len(rows)
       /\ \A i \in 1 .. Len(answer.value) :
            answer.value[i].total = Cardinality(Counted(answer.value[i], item.data.counts))
                                      + IF rows[i].description = NoNumber THEN 0 ELSE rows[i].description

(* structs.Schema has "Total" beside a "Description" of its own: the total  *)
(* is what the server counted, whatever the description says.               *)
TotalIsCount ==
  Returned({"ShowSchema"}) =>
    \A i \in 1 .. Len(answer.value) :
      answer.value[i].total = Cardinality(Counted(answer.value[i], item.data.counts))

=============================================================================
