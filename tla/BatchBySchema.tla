---------------------------- MODULE BatchBySchema ----------------------------
(***************************************************************************)
(* InsertNodesBatchBySchema (sdk/api/insert.nodes.go) and its twin         *)
(* InsertEdgesBatchBySchema (sdk/api/insert.edges.go): the rows of one     *)
(* schema are checked one after the other, converted by one goroutine per  *)
(* row, and sent in one request.                                           *)
(*                                                                         *)
(* The main goroutine and the converters share the variable err of         *)
(* setPropertiesToNodeRow, without a lock.  It is an interface value of    *)
(* two words, the type (set or nil) and the pointer to the message, which  *)
(* are stored and loaded one after the other.  A goroutine that tests err  *)
(* right after assigning it uses the value it assigned (the compiler       *)
(* forwards it); the loads after select and after wg.Wait() see whatever   *)
(* the last writer of each word left there.                                *)
(*                                                                         *)
(* A row is good, fails its check ("badCheck": a nil row, values that do   *)
(* not match the properties, an edge with one end missing) or passes it    *)
(* and fails the conversion ("badConvert": a value that does not fit the   *)
(* type of its property).                                                  *)
(***************************************************************************)
EXTENDS Naturals, FiniteSets

CONSTANT NRows    \* the number of rows of the batch

ASSUME RowsAssumption == NRows \in Nat

Rows == 1..NRows
Kinds == {"good", "badCheck", "badConvert"}

(* "row" is an error that names a row, "broken" an error whose type is set *)
(* and whose message pointer is nil.                                       *)
Outcomes == {"none", "nil", "row", "broken", "noClient", "noContext", "rpc", "status",
             "panic"}

VARIABLES
    kind,       \* what each row given to the call is
    main,       \* where the main goroutine is
    index,      \* the loop variable: the row that is checked
    conv,       \* where the converter of each row is
    errType,    \* the type word of err: an error is set
    errRow,     \* the data word of err: the row its message names, 0 for nil
    cancelled,  \* ctx of setPropertiesToNodeRow
    nodeRows,   \* the rows whose slot of nodeRows holds a converted row
    result,     \* what the call returned
    named,      \* the row that the returned error names
    sent        \* the rows in the table of the request, when one was sent

vars == <<kind, main, index, conv, errType, errRow, cancelled, nodeRows, result, named, sent>>

TypeOK ==
    /\ kind \in [Rows -> Kinds]
    /\ main \in {"call", "loop", "checked", "select", "load", "send", "returned"}
    /\ index \in 1..(NRows + 1)
    /\ conv \in [Rows -> {"unborn", "convert", "assign", "store", "done"}]
    /\ errType \in BOOLEAN
    /\ errRow \in 0..NRows
    /\ cancelled \in BOOLEAN
    /\ nodeRows \in SUBSET Rows
    /\ result \in Outcomes
    /\ named \in 0..NRows
    /\ sent \in SUBSET SUBSET Rows

Init ==
    /\ kind \in [Rows -> Kinds]
    /\ main = "call"
    /\ index = 1
    /\ conv = [r \in Rows |-> "unborn"]
    /\ errType = FALSE
    /\ errRow = 0
    /\ cancelled = FALSE
    /\ nodeRows = {}
    /\ result = "none"
    /\ named = 0
    /\ sent = {}

Return(r, row) == main' = "returned" /\ result' = r /\ named' = row

-----------------------------------------------------------------------------
\* GetClient finds no connection, or NewContext refuses the time zone.
CallFails ==
    /\ main = "call"
    /\ \E e \in {"noClient", "noContext"} : Return(e, 0)
    /\ UNCHANGED <<kind, index, conv, errType, errRow, cancelled, nodeRows, sent>>

\* The table and its schema are set up; setPropertiesToNodeRow starts.
CallStarts ==
    /\ main = "call"
    /\ main' = "loop"
    /\ UNCHANGED <<kind, index, conv, errType, errRow, cancelled, nodeRows, result, named, sent>>

\* err = checkNodeProperties(schema, row, index), the type word.
CheckFails_Overlooked == FALSE
CheckFails == kind[index] = "badCheck"
CheckRow ==
    /\ main = "loop" /\ index <= NRows
    /\ main' = "checked"
    /\ errType' = CheckFails
    /\ UNCHANGED <<kind, index, conv, errRow, cancelled, nodeRows, result, named, sent>>

\* The data word, and the test: the call returns the error, leaving the
\* converters that still run to themselves, or starts the row's converter.
Checked ==
    /\ main = "checked"
    /\ errRow' = IF CheckFails THEN index ELSE 0
    /\ IF CheckFails
       THEN Return("row", index) /\ UNCHANGED conv
       ELSE /\ main' = "select" /\ conv' = [conv EXCEPT ![index] = "convert"]
            /\ UNCHANGED <<result, named>>
    /\ UNCHANGED <<kind, index, errType, cancelled, nodeRows, sent>>

\* return err, nodeRows: the type word decides whether the call goes on.
LoadType ==
    /\ main' = IF errType THEN "load" ELSE "send"
    /\ UNCHANGED <<kind, index, conv, errType, errRow, cancelled, nodeRows, result, named, sent>>

\* The context is cancelled.
SelectDone == main = "select" /\ cancelled /\ LoadType

SelectDefault ==
    /\ main = "select" /\ ~cancelled
    /\ main' = "loop"
    /\ index' = index + 1
    /\ UNCHANGED <<kind, conv, errType, errRow, cancelled, nodeRows, result, named, sent>>

\* wg.Wait() after the last row.
Waited_NoWait == TRUE
Waited_DoneAfterStore == nodeRows = Rows
Waited == \A r \in Rows : conv[r] = "done"
WaitGroup == main = "loop" /\ index > NRows /\ Waited /\ LoadType

LoadData ==
    /\ main = "load"
    /\ Return(IF errRow = 0 THEN "broken" ELSE "row", errRow)
    /\ UNCHANGED <<kind, index, conv, errType, errRow, cancelled, nodeRows, sent>>

\* newNode, err = doConvertSdkNodeRowToUltipaNodeRow(...), the type word.
Convert(r) ==
    /\ conv[r] = "convert"
    /\ conv' = [conv EXCEPT ![r] = "assign"]
    /\ errType' = (kind[r] # "good")
    /\ UNCHANGED <<kind, main, index, errRow, cancelled, nodeRows, result, named, sent>>

\* The row that the message of the converter of r names: the parameter index
\* of the function literal, not the loop's variable.
Named_LoopVariable(r) == IF index > NRows THEN NRows ELSE index
Named(r) == r

\* The data word, and the test: cancel() and return, which runs wg.Done().
AfterFailure == "done"
Assign(r) ==
    /\ conv[r] = "assign"
    /\ IF kind[r] = "good"
       THEN errRow' = 0 /\ conv' = [conv EXCEPT ![r] = "store"] /\ UNCHANGED cancelled
       ELSE /\ errRow' = Named(r) /\ conv' = [conv EXCEPT ![r] = AfterFailure]
            /\ cancelled' = TRUE
    /\ UNCHANGED <<kind, main, index, errType, nodeRows, result, named, sent>>

\* nodeRows[index] = newNode
Store(r) ==
    /\ conv[r] = "store"
    /\ conv' = [conv EXCEPT ![r] = "done"]
    /\ nodeRows' = nodeRows \cup {r}
    /\ UNCHANGED <<kind, main, index, errType, errRow, cancelled, result, named, sent>>

\* client.InsertNodes: the slots that are not filled are nil rows of the table.
\* The way to the server may fail, the server may refuse the request, and
\* NewEdgesInsertResponse panics on a reply with too few error codes.
Send ==
    /\ main = "send"
    /\ sent' = {nodeRows}
    /\ \E e \in {"nil", "rpc", "status", "panic"} : Return(e, 0)
    /\ UNCHANGED <<kind, index, conv, errType, errRow, cancelled, nodeRows>>

Main == \/ CallFails \/ CallStarts \/ CheckRow \/ Checked \/ SelectDone
        \/ SelectDefault \/ WaitGroup \/ LoadData \/ Send
Converter(r) == Convert(r) \/ Assign(r) \/ Store(r)
Next == Main \/ \E r \in Rows : Converter(r)

Spec == Init /\ [][Next]_vars

(* The scheduler runs every goroutine that can run, and the request returns *)
(* or its context expires.                                                  *)
FairSpec == Spec /\ WF_vars(Main) /\ \A r \in Rows : WF_vars(Converter(r))

-----------------------------------------------------------------------------
Good == {r \in Rows : kind[r] = "good"}

\* The row that an error of the call names is a bad one, and an error without a
\* message comes from a bad row too: however the two words of err are
\* overwritten, a good row is not blamed and a good batch is not refused.
ErrorIsGenuine ==
    /\ result = "row" => named \in Rows \ Good
    /\ result = "broken" => Good # Rows

\* When every row is good, whatever the converters' order, the request holds
\* all of them and no converter runs on: wg.Wait() stands between the last
\* store and the request.
GoodBatchIsSentWhole == Good = Rows /\ sent # {} => sent = {Rows} /\ Waited

\* When a row fails its check and the rows before it are good, the call names
\* that row, however their converters interleave with the loop.
FirstBadRowIsNamed ==
    \A r \in Rows :
        /\ kind[r] = "badCheck" /\ \A q \in 1..(r - 1) : kind[q] = "good"
        /\ result \notin {"none", "noClient", "noContext"}
        => result = "row" /\ named = r

\* The call returns, whatever the rows are and however the converters end.
CallReturns == <>(main = "returned")

\* A caller takes a nil error without error items as "All edges inserted
\* successfully" (test/batch.insert_test.go): all rows must have been sent.
NilMeansAllSent == result = "nil" => sent = {Rows}
=============================================================================
