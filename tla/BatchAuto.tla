------------------------------ MODULE BatchAuto ------------------------------
(***************************************************************************)
(* InsertNodesBatchAuto (sdk/api/insert.nodes.go) and InsertEdgesBatchAuto *)
(* (sdk/api/insert.edges.go): rows of several schemas are checked and      *)
(* grouped by schema in one pass, then one request per schema is sent, in  *)
(* the order of a map iteration.  The answers are collected in a map from  *)
(* schemas to responses; the positions of the rows that the server ignored *)
(* are translated back, through m, to the caller's indices.                *)
(*                                                                         *)
(* Rows have the indices of the slice, from 0.  A row is good, bad (it     *)
(* fails its check or its conversion) or nil.                              *)
(***************************************************************************)
EXTENDS Naturals, Sequences, FiniteSets

CONSTANTS Size,      \* the number of rows of the call
          Schemas,   \* the schemas that rows name
          Positions  \* the positions that replies name, of rows of the table or not

ASSUME BatchAssumption == Size \in Nat /\ Positions \subseteq Nat

Indices == 0..(Size - 1)
Codes == {"fewer", "equal", "more"}  \* error codes, compared with the positions
Replies == [schema : Schemas, positions : SUBSET Positions, codes : Codes]
Results == {"none", "nil", "show", "schema", "row", "panic", "noClient", "noContext", "rpc"}

VARIABLES
    edges,     \* the call is InsertEdgesBatchAuto
    rows,      \* the caller's slice
    schemas,   \* what ShowNodeSchema returned
    pc,        \* where the call is
    at,        \* the next row of the first loop
    batches,   \* the rows of each batch, in the order of its slice Nodes
    m,         \* from positions in a batch to indices of rows, 0 where not set
    left,      \* the keys of batches that the second loop has not reached
    requests,  \* the requests, as pairs of a schema and the rows of its table
    resps,     \* the response kept for each schema
    errorItem, \* the keys of resps.ErrorItem
    replies,   \* what the server's replies said of ignored rows, as they came
    outcome    \* what the call returned

autoVars == <<edges, rows, schemas, pc, at, batches, m, left, requests, resps, errorItem, replies, outcome>>

AutoTypeOK ==
    /\ edges \in BOOLEAN
    /\ rows \in [Indices -> [schema : Schemas, fit : {"good", "bad", "nil"}]]
    /\ schemas \in SUBSET Schemas
    /\ pc \in {"show", "group", "send", "returned"}
    /\ at \in 0..Size
    /\ batches \in [Schemas -> Seq(Indices)]
    /\ m \in [Schemas -> [Indices -> Indices]]
    /\ left \in SUBSET Schemas
    /\ requests \in Seq(Schemas \X Seq(Indices))
    /\ resps \in [Schemas -> {"none", "success", "failed"}]
    /\ errorItem \in SUBSET Indices
    /\ replies \subseteq Replies
    /\ outcome \in Results

AutoInit ==
    /\ edges \in BOOLEAN
    /\ rows \in [Indices -> [schema : Schemas, fit : {"good", "bad", "nil"}]]
    /\ schemas = {}
    /\ pc = "show"
    /\ at = 0
    /\ batches = [s \in Schemas |-> <<>>]
    /\ m = [s \in Schemas |-> [k \in Indices |-> 0]]
    /\ left = {}
    /\ requests = <<>>
    /\ resps = [s \in Schemas |-> "none"]
    /\ errorItem = {}
    /\ replies = {}
    /\ outcome = "none"

ReturnWith(r) == pc' = "returned" /\ outcome' = r

-----------------------------------------------------------------------------
\* api.ShowNodeSchema fails, or the call goes on with the schemas it returned.
ShowFails ==
    /\ pc = "show"
    /\ ReturnWith("show")
    /\ UNCHANGED <<edges, rows, schemas, at, batches, m, left, requests, resps, errorItem, replies>>

Show ==
    /\ pc = "show"
    /\ pc' = "group"
    /\ schemas' \in SUBSET Schemas
    /\ UNCHANGED <<edges, rows, at, batches, m, left, requests, resps, errorItem, replies, outcome>>

\* The first loop stops at a nil row (node.Schema dereferences it), at a row
\* whose schema is not known, or at a bad row.
Refusal_BadRowSkipped(r) ==
    CASE r.fit = "nil" -> "panic"
      [] r.fit # "nil" /\ r.schema \notin schemas -> "schema"
      [] OTHER -> "none"
Refusal(r) ==
    CASE r.fit = "nil" -> "panic"
      [] r.fit # "nil" /\ r.schema \notin schemas -> "schema"
      [] r.fit = "bad" /\ r.schema \in schemas -> "row"
      [] OTHER -> "none"

Refuse ==
    /\ pc = "group" /\ at < Size /\ Refusal(rows[at]) # "none"
    /\ ReturnWith(Refusal(rows[at]))
    /\ UNCHANGED <<edges, rows, schemas, at, batches, m, left, requests, resps, errorItem, replies>>

\* The batch of the row's schema, created when it is the first one.
BatchOf_Recreated(s) == <<>>
BatchOf(s) == batches[s]

\* The key that the row gets in m: its position in the batch.
Position_Length(s) == Len(batches[s]) + 1
Position(s) == Len(batches[s])

Group ==
    /\ pc = "group" /\ at < Size /\ Refusal(rows[at]) = "none"
    /\ LET s == rows[at].schema
       IN  /\ batches' = [batches EXCEPT ![s] = Append(BatchOf(s), at)]
           /\ m' = [m EXCEPT ![s] = [m[s] EXCEPT ![Position(s)] = at]]
           /\ left' = left \cup {s}
    /\ at' = at + 1
    /\ UNCHANGED <<edges, rows, schemas, pc, requests, resps, errorItem, replies, outcome>>

Grouped == at = Size
StartSending ==
    /\ pc = "group" /\ Grouped
    /\ pc' = "send"
    /\ UNCHANGED <<edges, rows, schemas, at, batches, m, left, requests, resps, errorItem, replies, outcome>>

\* GetClient or NewContext fails before the request of a batch.
ClientFails ==
    /\ pc = "send" /\ left # {}
    /\ \E r \in {"noClient", "noContext"} : ReturnWith(r)
    /\ UNCHANGED <<edges, rows, schemas, at, batches, m, left, requests, resps, errorItem, replies>>

\* The batch that the iteration over the map comes to.
Advance(s) == left' = left \ {s}

\* The request fails; the server may have executed it.
RpcFails(s) ==
    /\ pc = "send" /\ s \in left
    /\ requests' = Append(requests, <<s, batches[s]>>)
    /\ ReturnWith("rpc")
    /\ UNCHANGED <<edges, rows, schemas, at, batches, m, left, resps, errorItem, replies>>

\* A reply has the positions of ignored rows and codes for them.  When there are
\* fewer or more codes than positions, NewNodesInsertResponse keeps no item, and
\* NewEdgesInsertResponse indexes the codes out of range or does not notice.
Panics(positions, codes) == edges /\ positions # {} /\ codes = "fewer"
Kept(positions, codes) == IF edges \/ codes = "equal" THEN positions ELSE {}

\* m3[k]: a map yields 0 for a key that it lacks.
Translate(s, k) == IF k \in Indices THEN m[s][k] ELSE 0

\* resps.Resps[batchSchema.Name] = response, whatever its status.
KeepResp_OnlySuccess(s, status) ==
    resps' = IF status = "success" THEN [resps EXCEPT ![s] = status] ELSE resps
KeepResp(s, status) == resps' = [resps EXCEPT ![s] = status]

Respond(s, positions, codes, status) ==
    /\ pc = "send" /\ s \in left
    /\ Advance(s)
    /\ requests' = Append(requests, <<s, batches[s]>>)
    /\ IF Panics(positions, codes)
       THEN ReturnWith("panic") /\ UNCHANGED <<resps, errorItem, replies>>
       ELSE /\ KeepResp(s, status)
            /\ errorItem' = errorItem \cup {Translate(s, k) : k \in Kept(positions, codes)}
            /\ replies' = replies \cup {[schema |-> s, positions |-> positions, codes |-> codes]}
            /\ UNCHANGED <<pc, outcome>>
    /\ UNCHANGED <<edges, rows, schemas, at, batches, m>>

ReturnResps ==
    /\ pc = "send" /\ left = {}
    /\ ReturnWith("nil")
    /\ UNCHANGED <<edges, rows, schemas, at, batches, m, left, requests, resps, errorItem, replies>>

AutoNext ==
    \/ ShowFails \/ Show \/ Refuse \/ Group \/ StartSending \/ ClientFails \/ ReturnResps
    \/ \E s \in Schemas :
        \/ RpcFails(s)
        \/ \E positions \in SUBSET Positions, codes \in Codes,
              status \in {"success", "failed"} :
                Respond(s, positions, codes, status)

AutoSpec == AutoInit /\ [][AutoNext]_autoVars

-----------------------------------------------------------------------------
RowsOf(s) == {r \in Indices : rows[r].schema = s}
Increasing(q) == \A i, j \in DOMAIN q : i < j => q[i] < q[j]

\* Nothing is sent unless every row of the call passed: a refused row, whichever
\* schema it is of, leaves the database as it was.
ValidatedBeforeSent ==
    requests # <<>> => \A r \in Indices : rows[r].fit = "good" /\ rows[r].schema \in schemas

\* A request holds all rows of its schema, in the caller's order, and a schema is
\* sent once, whichever calls fail in between.
RequestsAreWhole ==
    /\ \A i \in DOMAIN requests :
        /\ Increasing(requests[i][2])
        /\ {requests[i][2][k] : k \in DOMAIN requests[i][2]} = RowsOf(requests[i][1])
    /\ \A i, j \in DOMAIN requests : requests[i][1] = requests[j][1] => i = j

\* A nil error means that each row was sent and that the response of its schema
\* is in the map that the caller gets.
NilMeansAnswered ==
    outcome = "nil" =>
        \A r \in Indices : /\ resps[rows[r].schema] # "none"
                           /\ \E i \in DOMAIN requests : requests[i][1] = rows[r].schema

\* A reply means by a position the row of its schema with so many before it in
\* the caller's slice; Stray: it has a position that no row has.
Rank(r) == Cardinality({q \in RowsOf(rows[r].schema) : q < r})
Ignored(a) == {r \in RowsOf(a.schema) : Rank(r) \in a.positions}
Stray(a) == \E k \in a.positions : k >= Cardinality(RowsOf(a.schema))

\* The replies whose notes on ignored rows are kept: those of nodes only if there
\* is a code for each (response.insert.go:108).
Noted(a) == edges \/ a.codes = "equal"

\* Whatever the rows, their order and the order of the replies, ErrorItem has each
\* row that a noted reply says was ignored, under the caller's index, and no other,
\* but for row 0, which is also blamed for every position that no row has.
ErrorItemsAreTheIgnored ==
    /\ \A a \in replies : Noted(a) => Ignored(a) \subseteq errorItem
    /\ \A r \in errorItem : \E a \in replies : Noted(a) /\ (r \in Ignored(a) \/ (r = 0 /\ Stray(a)))
=============================================================================
