---------------------------- MODULE BatchProofs ----------------------------
(***************************************************************************)
(* Proofs about the two batch inserts: BatchBySchema, for any number of    *)
(* rows of any kinds, and BatchAuto, for any number of rows and any        *)
(* schemas.                                                                *)
(***************************************************************************)
EXTENDS BatchBySchema, BatchAuto, FiniteSetTheorems, TLAPS

Bad == {r \in Rows : kind[r] # "good"}

(* The words of err only ever hold what a bad row put there. *)
ErrInv ==
    /\ errType => Bad # {}
    /\ errRow # 0 => errRow \in Bad
    /\ main = "load" => Bad # {}
    /\ result = "row" => named \in Bad
    /\ result = "broken" => Bad # {}

(* Rows are started in order, each after it passed its check; only a started *)
(* row that cannot be converted cancels the context.                         *)
OrderInv ==
    /\ main \in {"checked", "select"} => index <= NRows
    /\ \A r \in Rows :
        /\ conv[r] # "unborn" => r <= index /\ kind[r] # "badCheck"
        /\ r < index \/ (r = index /\ main = "select") => conv[r] # "unborn"
        /\ conv[r] = "done" /\ kind[r] = "good" => r \in nodeRows
    /\ cancelled => \E r \in Rows : kind[r] = "badConvert" /\ conv[r] # "unborn"

(* What lets the call go past the loop. *)
Past == cancelled \/ (index > NRows /\ Waited)

ResultInv ==
    /\ main \in {"load", "send"} \/ result \in {"nil", "rpc", "status", "broken", "panic"} => Past
    /\ result = "row" => Past \/ (named = index /\ index <= NRows /\ kind[index] = "badCheck")
    /\ result # "none" <=> main = "returned"
    /\ sent # {} => Past /\ main = "returned"
    /\ sent # {} /\ ~cancelled => sent = {Rows} \/ Bad # {}

IInv == TypeOK /\ ErrInv /\ OrderInv /\ ResultInv

-----------------------------------------------------------------------------
LEMMA InitInv == Init => IInv
<1> SUFFICES ASSUME Init PROVE IInv
    OBVIOUS
<1> USE RowsAssumption DEF Init, Rows
<1>1. TypeOK
  <2>1. index \in 1..(NRows + 1) /\ errRow \in 0..NRows /\ named \in 0..NRows
        OBVIOUS
  <2>2. conv \in [Rows -> {"unborn", "convert", "assign", "store", "done"}]
        OBVIOUS
  <2>3. errType \in BOOLEAN /\ cancelled \in BOOLEAN
        OBVIOUS
  <2> QED BY <2>1, <2>2, <2>3 DEF TypeOK, Outcomes
<1>2. ErrInv BY DEF ErrInv
<1>3. OrderInv BY DEF OrderInv
<1>4. ResultInv BY DEF ResultInv
<1> QED BY <1>1, <1>2, <1>3, <1>4 DEF IInv

LEMMA TypeStep == TypeOK /\ OrderInv /\ [Next]_vars => TypeOK'
<1> SUFFICES ASSUME TypeOK, OrderInv, [Next]_vars PROVE TypeOK'
    OBVIOUS
<1> USE RowsAssumption DEF TypeOK, Rows, Kinds, Outcomes, Return
<1>1. CASE CallFails BY <1>1 DEF CallFails
<1>2. CASE CallStarts BY <1>2 DEF CallStarts
<1>3. CASE CheckRow BY <1>3 DEF CheckRow, CheckFails
<1>4. CASE Checked BY <1>4 DEF Checked, CheckFails, OrderInv
<1>5. CASE SelectDone BY <1>5 DEF SelectDone, LoadType
<1>6. CASE SelectDefault BY <1>6 DEF SelectDefault, OrderInv
<1>7. CASE WaitGroup BY <1>7 DEF WaitGroup, LoadType
<1>8. CASE LoadData BY <1>8 DEF LoadData
<1>9. CASE Send BY <1>9 DEF Send
<1>10. ASSUME NEW r \in Rows, Convert(r) PROVE TypeOK' BY <1>10 DEF Convert
<1>11. ASSUME NEW r \in Rows, Assign(r) PROVE TypeOK'
  <2>1. conv' \in [Rows -> {"unborn", "convert", "assign", "store", "done"}]
        BY <1>11 DEF Assign, AfterFailure
  <2>2. errRow' \in 0..NRows
        BY <1>11 DEF Assign, Named
  <2>3. cancelled' \in BOOLEAN
        BY <1>11, Zenon DEF Assign
  <2> QED BY <1>11, <2>1, <2>2, <2>3 DEF Assign
<1>12. ASSUME NEW r \in Rows, Store(r) PROVE TypeOK' BY <1>12 DEF Store
<1>13. CASE UNCHANGED vars BY <1>13 DEF vars
<1> QED BY <1>1, <1>2, <1>3, <1>4, <1>5, <1>6, <1>7, <1>8, <1>9, <1>10, <1>11, <1>12, <1>13
        DEF Next, Main, Converter

LEMMA ErrStep == TypeOK /\ OrderInv /\ ErrInv /\ [Next]_vars => ErrInv'
<1> SUFFICES ASSUME TypeOK, OrderInv, ErrInv, [Next]_vars PROVE ErrInv'
    OBVIOUS
<1> USE RowsAssumption DEF TypeOK, ErrInv, Rows, Bad, Return
<1>1. CASE CallFails BY <1>1 DEF CallFails
<1>2. CASE CallStarts BY <1>2 DEF CallStarts
<1>3. CASE CheckRow BY <1>3 DEF CheckRow, CheckFails
<1>4. CASE Checked BY <1>4 DEF Checked, CheckFails, OrderInv
<1>5. CASE SelectDone BY <1>5 DEF SelectDone, LoadType
<1>6. CASE SelectDefault BY <1>6 DEF SelectDefault
<1>7. CASE WaitGroup BY <1>7 DEF WaitGroup, LoadType
<1>8. CASE LoadData BY <1>8 DEF LoadData
<1>9. CASE Send BY <1>9 DEF Send
<1>10. ASSUME NEW r \in Rows, Convert(r) PROVE ErrInv' BY <1>10 DEF Convert
<1>11. ASSUME NEW r \in Rows, Assign(r) PROVE ErrInv' BY <1>11 DEF Assign, Named
<1>12. ASSUME NEW r \in Rows, Store(r) PROVE ErrInv' BY <1>12 DEF Store
<1>13. CASE UNCHANGED vars BY <1>13 DEF vars
<1> QED BY <1>1, <1>2, <1>3, <1>4, <1>5, <1>6, <1>7, <1>8, <1>9, <1>10, <1>11, <1>12, <1>13
        DEF Next, Main, Converter

LEMMA OrderStep == TypeOK /\ OrderInv /\ [Next]_vars => OrderInv'
<1> SUFFICES ASSUME TypeOK, OrderInv, [Next]_vars PROVE OrderInv'
    OBVIOUS
<1> USE RowsAssumption DEF TypeOK, OrderInv, Rows, Return
<1>1. CASE CallFails BY <1>1 DEF CallFails
<1>2. CASE CallStarts BY <1>2 DEF CallStarts
<1>3. CASE CheckRow BY <1>3 DEF CheckRow, CheckFails
<1>4. CASE Checked BY <1>4 DEF Checked, CheckFails
<1>5. CASE SelectDone BY <1>5 DEF SelectDone, LoadType
<1>6. CASE SelectDefault BY <1>6 DEF SelectDefault
<1>7. CASE WaitGroup BY <1>7 DEF WaitGroup, LoadType
<1>8. CASE LoadData BY <1>8 DEF LoadData
<1>9. CASE Send BY <1>9 DEF Send
<1>10. ASSUME NEW r \in Rows, Convert(r) PROVE OrderInv' BY <1>10 DEF Convert
<1>11. ASSUME NEW r \in Rows, Assign(r) PROVE OrderInv' BY <1>11 DEF Assign, AfterFailure, Kinds
<1>12. ASSUME NEW r \in Rows, Store(r) PROVE OrderInv' BY <1>12 DEF Store
<1>13. CASE UNCHANGED vars BY <1>13 DEF vars
<1> QED BY <1>1, <1>2, <1>3, <1>4, <1>5, <1>6, <1>7, <1>8, <1>9, <1>10, <1>11, <1>12, <1>13
        DEF Next, Main, Converter

(* Nothing undoes what let the call go past the loop. *)
LEMMA PastStep == TypeOK /\ OrderInv /\ Past /\ [Next]_vars => Past'
<1> SUFFICES ASSUME TypeOK, OrderInv, Past, [Next]_vars PROVE Past'
    OBVIOUS
<1> USE RowsAssumption DEF TypeOK, OrderInv, Past, Waited, Rows, Return
<1>1. CASE CallFails BY <1>1 DEF CallFails
<1>2. CASE CallStarts BY <1>2 DEF CallStarts
<1>3. CASE CheckRow BY <1>3 DEF CheckRow
<1>4. CASE Checked BY <1>4 DEF Checked
<1>5. CASE SelectDone BY <1>5 DEF SelectDone, LoadType
<1>6. CASE SelectDefault BY <1>6 DEF SelectDefault
<1>7. CASE WaitGroup BY <1>7 DEF WaitGroup, LoadType
<1>8. CASE LoadData BY <1>8 DEF LoadData
<1>9. CASE Send BY <1>9 DEF Send
<1>10. ASSUME NEW r \in Rows, Convert(r) PROVE Past' BY <1>10 DEF Convert
<1>11. ASSUME NEW r \in Rows, Assign(r) PROVE Past' BY <1>11 DEF Assign
<1>12. ASSUME NEW r \in Rows, Store(r) PROVE Past' BY <1>12 DEF Store
<1>13. CASE UNCHANGED vars BY <1>13 DEF vars
<1> QED BY <1>1, <1>2, <1>3, <1>4, <1>5, <1>6, <1>7, <1>8, <1>9, <1>10, <1>11, <1>12, <1>13
        DEF Next, Main, Converter

LEMMA ResultStep == IInv /\ [Next]_vars => ResultInv'
<1> SUFFICES ASSUME IInv, [Next]_vars PROVE ResultInv'
    OBVIOUS
<1>p. Past => Past'
      BY PastStep DEF IInv
<1> USE RowsAssumption DEF IInv, TypeOK, ResultInv, Rows, Bad, Return
<1>1. CASE CallFails BY <1>1, <1>p DEF CallFails
<1>2. CASE CallStarts BY <1>2, <1>p DEF CallStarts
<1>3. CASE CheckRow BY <1>3, <1>p DEF CheckRow
<1>4. CASE Checked BY <1>4, <1>p DEF Checked, CheckFails, OrderInv
<1>5. CASE SelectDone BY <1>5, <1>p DEF SelectDone, LoadType, Past
<1>6. CASE SelectDefault BY <1>6, <1>p DEF SelectDefault
<1>7. CASE WaitGroup BY <1>7, <1>p DEF WaitGroup, LoadType, Past
<1>8. CASE LoadData BY <1>8, <1>p DEF LoadData
<1>9. CASE Send BY <1>9, <1>p DEF Send, Past, Waited, OrderInv
<1>10. ASSUME NEW r \in Rows, Convert(r) PROVE ResultInv' BY <1>10, <1>p DEF Convert
<1>11. ASSUME NEW r \in Rows, Assign(r) PROVE ResultInv' BY <1>11, <1>p DEF Assign
<1>12. ASSUME NEW r \in Rows, Store(r) PROVE ResultInv' BY <1>12, <1>p DEF Store
<1>13. CASE UNCHANGED vars BY <1>13, <1>p DEF vars
<1> QED BY <1>1, <1>2, <1>3, <1>4, <1>5, <1>6, <1>7, <1>8, <1>9, <1>10, <1>11, <1>12, <1>13
        DEF Next, Main, Converter

\* IInv is an invariant of every batch insert: the words of err hold only what
\* bad rows put there, rows are started in order, and the loop is left only by
\* cancellation or after the last converter.
THEOREM Invariance == Spec => []IInv
<1>1. IInv /\ [Next]_vars => IInv'
      BY TypeStep, ErrStep, OrderStep, ResultStep DEF IInv
<1> QED BY <1>1, InitInv, PTL DEF Spec

\* Every state of a batch insert has its type.
THEOREM TypeCorrect == Spec => []TypeOK
<1>1. IInv => TypeOK BY DEF IInv
<1> QED BY <1>1, Invariance, PTL

\* Whatever the rows and their number, an error of the call names a bad row, and
\* a good batch is never refused by the driver.
THEOREM ErrorsAreGenuine == Spec => []ErrorIsGenuine
<1>1. IInv => ErrorIsGenuine
      BY DEF IInv, ErrInv, ErrorIsGenuine, Good, Bad
<1> QED BY <1>1, Invariance, PTL

\* A batch of good rows is sent whole, after the last converter ended.
THEOREM GoodBatchesAreSentWhole == Spec => []GoodBatchIsSentWhole
<1>1. ASSUME IInv, Good = Rows, sent # {} PROVE sent = {Rows} /\ Waited
  <2>1. Bad = {} BY <1>1 DEF Good, Bad
  <2>2. ~cancelled BY <1>1, <2>1 DEF IInv, OrderInv, Bad
  <2> QED BY <1>1, <2>1, <2>2 DEF IInv, ResultInv, Past
<1>2. IInv => GoodBatchIsSentWhole BY <1>1 DEF GoodBatchIsSentWhole
<1> QED BY <1>2, Invariance, PTL

\* The first bad row, when it fails its check, is the one the call names, for
\* every interleaving of the converters of the rows before it.
THEOREM FirstBadRowsAreNamed == Spec => []FirstBadRowIsNamed
<1>1. ASSUME IInv, NEW r \in Rows, kind[r] = "badCheck", \A q \in 1..(r - 1) : kind[q] = "good",
             result \notin {"none", "noClient", "noContext"}
      PROVE  result = "row" /\ named = r
  <2> USE RowsAssumption DEF Rows
  <2>1. index \in Nat /\ r \in Nat /\ index <= r
        BY <1>1 DEF IInv, TypeOK, OrderInv
  <2>2. ~cancelled
    <3>1. SUFFICES ASSUME NEW q \in Rows, kind[q] = "badConvert", conv[q] # "unborn" PROVE FALSE
          BY <1>1 DEF IInv, OrderInv
    <3>2. q <= index /\ q # r BY <1>1, <3>1 DEF IInv, OrderInv
    <3>3. q \in 1..(r - 1) BY <2>1, <3>2
    <3> QED BY <1>1, <3>1, <3>3
  <2>3. ~Past BY <2>1, <2>2 DEF Past
  <2>4. result = "row" BY <1>1, <2>3 DEF IInv, TypeOK, ResultInv, Outcomes
  <2>5. named = index /\ kind[index] = "badCheck" /\ index \in Rows
        BY <1>1, <2>3, <2>4, <2>1 DEF IInv, TypeOK, ResultInv
  <2>6. index = r BY <1>1, <2>1, <2>5
  <2> QED BY <2>4, <2>5, <2>6
<1>2. IInv => FirstBadRowIsNamed BY <1>1 DEF FirstBadRowIsNamed
<1> QED BY <1>2, Invariance, PTL

-----------------------------------------------------------------------------
(* BatchAuto: the bookkeeping of its two loops. *)

(* The rows that the first loop passed. *)
PassedInv ==
    \A r \in Indices : r < at =>
        /\ rows[r].fit = "good"
        /\ rows[r].schema \in schemas
        /\ \E i \in DOMAIN batches[rows[r].schema] : batches[rows[r].schema][i] = r

(* A batch has passed rows of its schema in order, and m their positions and no more. *)
BatchInv ==
    \A s \in Schemas :
        /\ Len(batches[s]) <= at
        /\ Increasing(batches[s])
        /\ \A i \in DOMAIN batches[s] :
            /\ batches[s][i] < at
            /\ rows[batches[s][i]].schema = s
            /\ m[s][i - 1] = batches[s][i]
        /\ \A k \in Indices : k >= Len(batches[s]) => m[s][k] = 0

(* The second loop runs over finished batches, each of which is sent once. *)
SentInv ==
    /\ pc = "show" => at = 0
    /\ pc # "returned" => outcome = "none"
    /\ pc = "send" => at = Size
    /\ requests # <<>> => at = Size /\ pc \in {"send", "returned"}
    /\ outcome = "nil" => at = Size /\ left = {} /\ pc = "returned"
    /\ \A i \in DOMAIN requests :
        /\ requests[i][2] = batches[requests[i][1]]
        /\ pc = "send" => requests[i][1] \notin left
    /\ \A i, j \in DOMAIN requests : requests[i][1] = requests[j][1] => i = j

(* The schema of a passed row waits in left, or has been sent and answered. *)
Answered(s) == resps[s] # "none" /\ \E i \in DOMAIN requests : requests[i][1] = s
LeftInv == \A r \in Indices : r < at /\ outcome # "panic" =>
                rows[r].schema \in left \/ Answered(rows[r].schema)

(* A batch that waits has a row; an error item comes from a position of a reply. *)
GivenInv == left # {} => at > 0
ErrorInv ==
    /\ replies # {} => at = Size
    /\ \A a \in replies : Noted(a) => \A k \in a.positions : Translate(a.schema, k) \in errorItem
    /\ \A r \in errorItem : \E a \in replies :
         Noted(a) /\ \E k \in a.positions : r = Translate(a.schema, k)

AutoInv ==
    /\ AutoTypeOK
    /\ PassedInv
    /\ BatchInv
    /\ SentInv
    /\ LeftInv
    /\ GivenInv
    /\ ErrorInv

-----------------------------------------------------------------------------
LEMMA AutoInitInv == AutoInit => AutoInv
<1> SUFFICES ASSUME AutoInit PROVE AutoInv
    OBVIOUS
<1> USE BatchAssumption DEF AutoInit
<1>1. m \in [Schemas -> [Indices -> Indices]] BY DEF Indices
<1>2. at \in 0..Size /\ edges \in BOOLEAN OBVIOUS
<1>3. batches \in [Schemas -> Seq(Indices)] OBVIOUS
<1>4. requests \in Seq(Schemas \X Seq(Indices)) OBVIOUS
<1>5. resps \in [Schemas -> {"none", "success", "failed"}] OBVIOUS
<1>6. AutoTypeOK BY <1>1, <1>2, <1>3, <1>4, <1>5 DEF AutoTypeOK, Results
<1>7. PassedInv /\ LeftInv BY DEF PassedInv, LeftInv, Indices
<1>8. BatchInv BY DEF BatchInv, Increasing
<1>9. SentInv BY DEF SentInv
<1>10. GivenInv /\ ErrorInv BY DEF GivenInv, ErrorInv
<1> QED BY <1>6, <1>7, <1>8, <1>9, <1>10 DEF AutoInv

(* Grouping the row that the loop is at keeps the bookkeeping of the first loop. *)
LEMMA GroupStep == AutoInv /\ Group => AutoInv'
<1> SUFFICES ASSUME AutoInv, Group PROVE AutoInv'
    OBVIOUS
<1> DEFINE s == rows[at].schema
<1> USE BatchAssumption
<1>1. at \in Indices /\ at \in Nat /\ at' = at + 1 /\ at' \in 0..Size
      BY DEF Indices, AutoInv, AutoTypeOK, Group
<1>2. s \in Schemas /\ rows[at].fit = "good" /\ s \in schemas
      BY <1>1 DEF Refusal, AutoInv, AutoTypeOK, Group
<1>3. /\ batches \in [Schemas -> Seq(Indices)] /\ m \in [Schemas -> [Indices -> Indices]]
      /\ batches' = [batches EXCEPT ![s] = Append(batches[s], at)]
      /\ m' = [m EXCEPT ![s] = [m[s] EXCEPT ![Len(batches[s])] = at]]
      /\ left' = left \cup {s}
      /\ UNCHANGED <<edges, rows, schemas, pc, requests, resps, errorItem, replies, outcome>>
      BY DEF AutoInv, AutoTypeOK, Group, Position, BatchOf
<1>4. Len(batches[s]) \in Nat /\ Len(batches[s]) <= at /\ DOMAIN batches[s] = 1..Len(batches[s])
      BY <1>2, <1>3 DEF AutoInv, BatchInv
<1>5. Len(batches[s]) \in Indices
      BY <1>1, <1>4 DEF Indices
<1>6. batches' \in [Schemas -> Seq(Indices)] /\ m' \in [Schemas -> [Indices -> Indices]]
      BY <1>1, <1>2, <1>3, <1>5
<1>7. AutoTypeOK'
      BY <1>1, <1>2, <1>3, <1>6 DEF AutoInv, AutoTypeOK
<1>8. /\ batches'[s] = Append(batches[s], at)
      /\ \A t \in Schemas : t # s => batches'[t] = batches[t] /\ m'[t] = m[t]
      /\ \A k \in Indices : k # Len(batches[s]) => m'[s][k] = m[s][k]
      /\ m'[s][Len(batches[s])] = at
      BY <1>1, <1>2, <1>3, <1>5
<1>9. /\ Len(batches'[s]) = Len(batches[s]) + 1
      /\ batches'[s][Len(batches[s]) + 1] = at
      /\ \A i \in DOMAIN batches[s] : batches'[s][i] = batches[s][i]
      /\ DOMAIN batches'[s] = 1..(Len(batches[s]) + 1)
      BY <1>1, <1>2, <1>3, <1>8
<1>10. ASSUME NEW t \in Schemas
       PROVE  /\ Len(batches'[t]) <= at'
              /\ Increasing(batches'[t])
              /\ \A i \in DOMAIN batches'[t] : /\ batches'[t][i] < at'
                                               /\ rows[batches'[t][i]].schema = t
                                               /\ m'[t][i - 1] = batches'[t][i]
              /\ \A k \in Indices : k >= Len(batches'[t]) => m'[t][k] = 0
  <2>0. /\ Len(batches[t]) \in Nat /\ Len(batches[t]) <= at /\ Increasing(batches[t])
        /\ \A i \in DOMAIN batches[t] : /\ batches[t][i] \in Nat
                                        /\ batches[t][i] < at
                                        /\ rows[batches[t][i]].schema = t
                                        /\ m[t][i - 1] = batches[t][i]
        /\ \A k \in Indices : k >= Len(batches[t]) => m[t][k] = 0
        BY <1>3 DEF AutoInv, BatchInv, Indices
  <2>1. CASE t # s
    <3>1. batches'[t] = batches[t] /\ m'[t] = m[t] BY <2>1, <1>8
    <3>2. \A i \in DOMAIN batches[t] : batches[t][i] < at' BY <2>0, <1>1
    <3>3. Len(batches[t]) <= at' BY <2>0, <1>1
    <3> QED BY <2>0, <3>1, <3>2, <3>3
  <2>2. CASE t = s
    <3>1. Len(batches'[s]) <= at'
          BY <1>1, <1>4, <1>9
    <3>2. Increasing(batches'[s])
      <4> SUFFICES ASSUME NEW i \in DOMAIN batches'[s], NEW j \in DOMAIN batches'[s], i < j
                   PROVE  batches'[s][i] < batches'[s][j]
          BY DEF Increasing
      <4>1. i \in DOMAIN batches[s] BY <1>4, <1>9
      <4>2. CASE j \in DOMAIN batches[s]
            BY <2>0, <2>2, <4>1, <4>2, <1>9 DEF Increasing
      <4>3. CASE j \notin DOMAIN batches[s]
        <5>1. j = Len(batches[s]) + 1 BY <4>3, <1>4, <1>9
        <5> QED BY <2>0, <2>2, <4>1, <5>1, <1>1, <1>9
      <4> QED BY <4>2, <4>3
    <3>3. ASSUME NEW i \in DOMAIN batches[s]
          PROVE  batches'[s][i] < at' /\ rows[batches'[s][i]].schema = s /\ m'[s][i - 1] = batches'[s][i]
      <4>1. i \in Nat /\ i - 1 \in Indices /\ i - 1 # Len(batches[s])
            BY <1>4, <1>5 DEF Indices
      <4>2. m'[s][i - 1] = m[s][i - 1] /\ batches'[s][i] = batches[s][i]
            BY <4>1, <1>8, <1>9
      <4> QED BY <2>0, <2>2, <1>1, <4>2
    <3>4. ASSUME NEW i \in DOMAIN batches'[s], i = Len(batches[s]) + 1
          PROVE  batches'[s][i] < at' /\ rows[batches'[s][i]].schema = s /\ m'[s][i - 1] = batches'[s][i]
      <4>1. i - 1 = Len(batches[s]) BY <3>4, <1>4
      <4> QED BY <3>4, <4>1, <1>1, <1>8, <1>9
    <3>5. \A i \in DOMAIN batches'[s] : i \in DOMAIN batches[s] \/ i = Len(batches[s]) + 1
          BY <1>4, <1>9
    <3>6. ASSUME NEW k \in Indices, k >= Len(batches'[s]) PROVE m'[s][k] = 0
      <4>1. k # Len(batches[s]) /\ k >= Len(batches[s]) BY <3>6, <1>4, <1>9 DEF Indices
      <4> QED BY <2>0, <2>2, <4>1, <1>8
    <3> QED BY <2>2, <3>1, <3>2, <3>3, <3>4, <3>5, <3>6
  <2> QED BY <2>1, <2>2
<1>11. BatchInv'
       BY <1>3, <1>10 DEF BatchInv, Increasing
<1>12. ASSUME NEW r \in Indices, r < at + 1
       PROVE  /\ rows[r].fit = "good" /\ rows[r].schema \in schemas
              /\ \E i \in DOMAIN batches'[rows[r].schema] : batches'[rows[r].schema][i] = r
  <2>1. CASE r = at
    <3>1. Len(batches[s]) + 1 \in DOMAIN batches'[s] BY <1>4, <1>9
    <3> QED BY <2>1, <3>1, <1>2, <1>9
  <2>2. CASE r # at
    <3>1. r < at BY <2>2, <1>1, <1>12 DEF Indices
    <3>2. PICK i \in DOMAIN batches[rows[r].schema] : batches[rows[r].schema][i] = r
          BY <3>1 DEF AutoInv, PassedInv
    <3>3. rows[r].schema \in Schemas BY DEF AutoInv, AutoTypeOK
    <3>4. i \in DOMAIN batches'[rows[r].schema] /\ batches'[rows[r].schema][i] = r
          BY <3>2, <3>3, <1>4, <1>8, <1>9
    <3> QED BY <3>1, <3>4 DEF AutoInv, PassedInv
  <2> QED BY <2>1, <2>2
<1>13. PassedInv'
       BY <1>1, <1>3, <1>12 DEF PassedInv
<1>14. requests = <<>> /\ pc = "group" /\ outcome = "none"
       BY DEF AutoInv, SentInv, Group
<1>15. SentInv' BY <1>3, <1>14 DEF SentInv
<1>16. ASSUME NEW r \in Indices, r < at + 1
       PROVE  rows[r].schema \in left' \/ Answered(rows[r].schema)'
  <2>1. CASE r = at BY <2>1, <1>3
  <2>2. CASE r # at
    <3>1. r < at BY <2>2, <1>1, <1>16 DEF Indices
    <3> QED BY <3>1, <1>3, <1>14 DEF AutoInv, LeftInv, Answered
  <2> QED BY <2>1, <2>2
<1>17. LeftInv' BY <1>1, <1>3, <1>16 DEF LeftInv
<1>18. GivenInv' BY <1>1 DEF GivenInv
<1>19. replies = {} /\ errorItem = {}
       BY <1>1 DEF AutoInv, ErrorInv, Indices
<1>20. ErrorInv' BY <1>3, <1>19 DEF ErrorInv
<1> QED BY <1>7, <1>11, <1>13, <1>15, <1>17, <1>18, <1>20 DEF AutoInv

(* Sending the batch of s, and what the second loop knows afterwards. *)
LEMMA AppendSent ==
  ASSUME AutoTypeOK, SentInv, NEW s \in Schemas, s \in left, pc = "send", requests' = Append(requests, <<s, batches[s]>>)
  PROVE  /\ requests' \in Seq(Schemas \X Seq(Indices))
         /\ \A i \in DOMAIN requests : i \in DOMAIN requests' /\ requests'[i] = requests[i]
         /\ \E i \in DOMAIN requests' : requests'[i][1] = s
         /\ \A i \in DOMAIN requests' : requests'[i][2] = batches[requests'[i][1]]
         /\ \A i \in DOMAIN requests' : requests'[i][1] # s => requests'[i][1] \notin left
         /\ \A i, j \in DOMAIN requests' : requests'[i][1] = requests'[j][1] => i = j
<1> DEFINE n == Len(requests) + 1
<1>1. <<s, batches[s]>> \in Schemas \X Seq(Indices)
      BY DEF AutoTypeOK
<1>2. /\ requests' \in Seq(Schemas \X Seq(Indices))
      /\ \A i \in DOMAIN requests : i \in DOMAIN requests' /\ requests'[i] = requests[i] /\ i # n
      /\ n \in DOMAIN requests' /\ requests'[n] = <<s, batches[s]>>
      /\ \A i \in DOMAIN requests' : i \in DOMAIN requests \/ i = n
      BY <1>1 DEF AutoTypeOK
<1>3. \A i \in DOMAIN requests : requests[i][1] # s /\ requests[i][1] \notin left
      BY DEF SentInv
<1> QED BY <1>2, <1>3 DEF SentInv

LEMMA RespondStep ==
  ASSUME AutoInv, NEW s \in Schemas, NEW positions \in SUBSET Positions,
         NEW codes \in Codes, NEW status \in {"success", "failed"},
         Respond(s, positions, codes, status)
  PROVE  AutoInv'
<1> USE BatchAssumption DEF AutoInv, Respond, Advance, KeepResp, ReturnWith
<1>1. s \in left /\ pc = "send" /\ requests' = Append(requests, <<s, batches[s]>>) /\ left' = left \ {s}
      OBVIOUS
<1>2. /\ requests' \in Seq(Schemas \X Seq(Indices))
      /\ \A i \in DOMAIN requests : i \in DOMAIN requests' /\ requests'[i] = requests[i]
      /\ \E i \in DOMAIN requests' : requests'[i][1] = s
      /\ \A i \in DOMAIN requests' : requests'[i][2] = batches[requests'[i][1]]
      /\ \A i \in DOMAIN requests' : requests'[i][1] # s => requests'[i][1] \notin left
      /\ \A i, j \in DOMAIN requests' : requests'[i][1] = requests'[j][1] => i = j
      BY <1>1, AppendSent
<1>3. at = Size /\ outcome # "nil"
      BY DEF SentInv
<1>4. PassedInv' /\ BatchInv'
      BY DEF PassedInv, BatchInv, Increasing
<1>5. CASE Panics(positions, codes)
  <2>1. AutoTypeOK' BY <1>1, <1>2, <1>5 DEF AutoTypeOK, Results
  <2>2. SentInv' BY <1>1, <1>2, <1>3, <1>5 DEF SentInv
  <2>3. LeftInv' BY <1>5 DEF LeftInv
  <2>4. GivenInv' BY <1>1 DEF GivenInv
  <2>5. ErrorInv' BY <1>5 DEF ErrorInv, Noted, Translate
  <2> QED BY <1>4, <2>1, <2>2, <2>3, <2>4, <2>5
<1>6. CASE ~Panics(positions, codes)
  <2> DEFINE kept == Kept(positions, codes)
             a == [schema |-> s, positions |-> positions, codes |-> codes]
  <2>1. /\ resps' = [resps EXCEPT ![s] = status] /\ UNCHANGED <<pc, outcome>>
        /\ errorItem' = errorItem \cup {Translate(s, k) : k \in kept}
        /\ replies' = replies \cup {a}
        BY <1>6
  <2>2. a \in Replies /\ kept = IF Noted(a) THEN positions ELSE {} BY DEF Replies, Kept, Noted
  <2>3. errorItem' \in SUBSET Indices /\ replies' \subseteq Replies
    <3>1. \A k \in kept : Translate(s, k) \in Indices
      <4>1. at > 0 BY <1>1 DEF GivenInv
      <4>2. 0 \in Indices BY <1>3, <4>1 DEF Indices
      <4>3. m[s] \in [Indices -> Indices] BY DEF AutoTypeOK
      <4> QED BY <4>2, <4>3 DEF Translate
    <3> QED BY <2>1, <2>2, <3>1 DEF AutoTypeOK
  <2>a. ErrorInv'
    <3>1. UNCHANGED <<edges, m, at>> OBVIOUS
    <3>2. \A t, k : Translate(t, k)' = Translate(t, k) BY <3>1 DEF Translate
    <3>3. \A b : Noted(b)' = Noted(b) BY <3>1 DEF Noted
    <3>4. ASSUME NEW b \in replies', Noted(b), NEW k \in b.positions
          PROVE  Translate(b.schema, k) \in errorItem'
      <4>1. CASE b \in replies BY <2>1, <3>4, <4>1 DEF ErrorInv
      <4>2. CASE b = a BY <2>1, <2>2, <3>4, <4>2
      <4> QED BY <2>1, <4>1, <4>2
    <3>5. ASSUME NEW r \in errorItem'
          PROVE  \E b \in replies' : Noted(b) /\ \E k \in b.positions : r = Translate(b.schema, k)
      <4>1. CASE r \in errorItem BY <2>1, <4>1 DEF ErrorInv
      <4>2. CASE r \in {Translate(s, k) : k \in kept}
        <5>1. PICK k \in kept : r = Translate(s, k) BY <4>2
        <5>2. Noted(a) /\ k \in a.positions /\ a.schema = s BY <2>2, <5>1
        <5> QED BY <2>1, <5>1, <5>2
      <4> QED BY <2>1, <4>1, <4>2
    <3> QED BY <1>3, <3>1, <3>2, <3>3, <3>4, <3>5 DEF ErrorInv
  <2>b. GivenInv' BY <1>1 DEF GivenInv
  <2>4. resps' \in [Schemas -> {"none", "success", "failed"}] /\ resps'[s] # "none"
        BY <2>1 DEF AutoTypeOK
  <2>5. AutoTypeOK' BY <1>1, <1>2, <2>1, <2>3, <2>4 DEF AutoTypeOK
  <2>6. SentInv' BY <1>1, <1>2, <1>3, <2>1 DEF SentInv
  <2>7. LeftInv'
    <3> SUFFICES ASSUME NEW r \in Indices, r < at, outcome # "panic"
                 PROVE  rows[r].schema \in left' \/ Answered(rows[r].schema)'
        BY <2>1 DEF LeftInv
    <3>1. CASE rows[r].schema = s BY <3>1, <1>2, <2>4 DEF Answered
    <3>2. CASE rows[r].schema # s
      <4>1. rows[r].schema \in left \/ Answered(rows[r].schema) BY DEF LeftInv
      <4>2. CASE rows[r].schema \in left BY <4>2, <3>2, <1>1
      <4>3. CASE Answered(rows[r].schema)
        <5>1. PICK i \in DOMAIN requests : requests[i][1] = rows[r].schema BY <4>3 DEF Answered
        <5>2. i \in DOMAIN requests' /\ requests'[i][1] = rows[r].schema BY <5>1, <1>2
        <5>3. resps'[rows[r].schema] # "none" BY <4>3, <3>2, <2>1 DEF Answered, AutoTypeOK
        <5> QED BY <5>2, <5>3 DEF Answered
      <4> QED BY <4>1, <4>2, <4>3
    <3> QED BY <3>1, <3>2
  <2> QED BY <1>4, <2>5, <2>6, <2>7, <2>a, <2>b
<1> QED BY <1>5, <1>6

LEMMA RpcStep ==
  ASSUME AutoInv, NEW s \in Schemas, RpcFails(s) PROVE AutoInv'
<1> USE BatchAssumption DEF AutoInv, RpcFails, ReturnWith
<1>2. /\ requests' \in Seq(Schemas \X Seq(Indices))
      /\ \A i \in DOMAIN requests : i \in DOMAIN requests' /\ requests'[i] = requests[i]
      /\ \A i \in DOMAIN requests' : requests'[i][2] = batches[requests'[i][1]]
      /\ \A i, j \in DOMAIN requests' : requests'[i][1] = requests'[j][1] => i = j
      BY AppendSent
<1>3. at = Size
      BY DEF SentInv
<1>4. PassedInv' /\ BatchInv'
      BY DEF PassedInv, BatchInv, Increasing
<1>5. AutoTypeOK' BY <1>2 DEF AutoTypeOK, Results
<1>6. SentInv' BY <1>2, <1>3 DEF SentInv
<1>7. LeftInv'
  <2>1. outcome # "panic" BY DEF LeftInv, SentInv
  <2> QED BY <1>2, <2>1 DEF LeftInv, Answered
<1>8. GivenInv' /\ ErrorInv' BY DEF GivenInv, ErrorInv, Noted, Translate
<1> QED BY <1>4, <1>5, <1>6, <1>7, <1>8

(* The steps that change neither a batch nor a response. *)
LEMMA OtherStep ==
  ASSUME AutoInv, ShowFails \/ Show \/ Refuse \/ StartSending \/ ClientFails \/ ReturnResps \/ UNCHANGED autoVars
  PROVE  AutoInv'
<1>a. UNCHANGED <<edges, m, at, left, errorItem, replies>>
      BY DEF ShowFails, Show, Refuse, StartSending, ClientFails, ReturnResps, autoVars
<1>b. GivenInv /\ ErrorInv BY DEF AutoInv
<1>0. GivenInv' /\ ErrorInv' BY <1>a, <1>b DEF GivenInv, ErrorInv, Noted, Translate
<1> USE BatchAssumption DEF AutoInv, AutoTypeOK, Results, ReturnWith
<1>1. CASE ShowFails BY <1>0, <1>1 DEF ShowFails, PassedInv, BatchInv, Increasing, SentInv, LeftInv, Answered
<1>2. CASE Show
  <2>1. at = 0 BY <1>2 DEF Show, SentInv
  <2>2. PassedInv' /\ LeftInv'
        BY <1>2, <2>1 DEF Show, PassedInv, LeftInv, Indices
  <2>3. AutoTypeOK' BY <1>2 DEF Show
  <2>4. BatchInv' BY <1>2 DEF Show, BatchInv, Increasing
  <2>5. SentInv' BY <1>2 DEF Show, SentInv
  <2> QED BY <1>0, <1>2, <2>2, <2>3, <2>4, <2>5 DEF Show
<1>3. CASE Refuse BY <1>0, <1>3 DEF Refuse, Refusal, PassedInv, BatchInv, Increasing, SentInv, LeftInv, Answered
<1>4. CASE StartSending BY <1>0, <1>4 DEF StartSending, Grouped, PassedInv, BatchInv, Increasing, SentInv, LeftInv, Answered
<1>5. CASE ClientFails BY <1>0, <1>5 DEF ClientFails, PassedInv, BatchInv, Increasing, SentInv, LeftInv, Answered
<1>6. CASE ReturnResps BY <1>0, <1>6 DEF ReturnResps, PassedInv, BatchInv, Increasing, SentInv, LeftInv, Answered
<1>7. CASE UNCHANGED autoVars BY <1>0, <1>7 DEF autoVars, PassedInv, BatchInv, Increasing, SentInv, LeftInv, Answered
<1> QED BY <1>0, <1>1, <1>2, <1>3, <1>4, <1>5, <1>6, <1>7

\* The bookkeeping of both loops is an invariant: batches and m agree with the
\* rows that passed, and every passed row waits to be sent or was answered.
THEOREM AutoInvariance == AutoSpec => []AutoInv
<1>1. AutoInv /\ [AutoNext]_autoVars => AutoInv'
  <2> SUFFICES ASSUME AutoInv, [AutoNext]_autoVars PROVE AutoInv'
      OBVIOUS
  <2> QED BY GroupStep, RespondStep, RpcStep, OtherStep DEF AutoNext
<1> QED BY <1>1, AutoInitInv, PTL DEF AutoSpec

\* Every variable keeps its type; in particular every error item is the index of
\* a row of the caller.
THEOREM AutoTypeCorrect == AutoSpec => []AutoTypeOK
<1>1. AutoInv => AutoTypeOK BY DEF AutoInv
<1> QED BY <1>1, AutoInvariance, PTL

\* No request leaves the driver before every row of the call has passed.
THEOREM Validated == AutoSpec => []ValidatedBeforeSent
<1>1. AutoInv => ValidatedBeforeSent
      BY BatchAssumption DEF AutoInv, SentInv, PassedInv, ValidatedBeforeSent, Indices
<1> QED BY <1>1, AutoInvariance, PTL

\* Every request holds all the rows of its schema in order, and no schema is
\* sent twice.
THEOREM WholeRequests == AutoSpec => []RequestsAreWhole
<1>1. ASSUME AutoInv, NEW i \in DOMAIN requests
      PROVE  /\ Increasing(requests[i][2])
             /\ {requests[i][2][k] : k \in DOMAIN requests[i][2]} = RowsOf(requests[i][1])
  <2> DEFINE s == requests[i][1]
  <2>1. s \in Schemas /\ requests[i][2] = batches[s] /\ at = Size /\ batches[s] \in Seq(Indices)
        BY <1>1 DEF AutoInv, AutoTypeOK, SentInv
  <2>2. Increasing(batches[s]) BY <1>1, <2>1 DEF AutoInv, BatchInv
  <2>3. \A k \in DOMAIN batches[s] : batches[s][k] \in RowsOf(s)
        BY <1>1, <2>1 DEF AutoInv, BatchInv, RowsOf
  <2>4. \A r \in RowsOf(s) : \E k \in DOMAIN batches[s] : batches[s][k] = r
        BY <1>1, <2>1, BatchAssumption DEF AutoInv, PassedInv, RowsOf, Indices
  <2> QED BY <2>1, <2>2, <2>3, <2>4
<1>2. AutoInv => RequestsAreWhole
      BY <1>1 DEF RequestsAreWhole, AutoInv, SentInv
<1> QED BY <1>2, AutoInvariance, PTL

\* When the call returns a nil error, every row was sent and its schema has a
\* response.
THEOREM NilIsAnswered == AutoSpec => []NilMeansAnswered
<1>1. AutoInv => NilMeansAnswered
      BY BatchAssumption DEF AutoInv, SentInv, LeftInv, Answered, NilMeansAnswered, Indices
<1> QED BY <1>1, AutoInvariance, PTL

\* An entry of a finished batch stands where its rank is, and a batch has as many
\* entries as its schema has rows.
LEMMA RankIsPosition ==
  ASSUME AutoInv, at = Size, NEW s \in Schemas
  PROVE  /\ Cardinality(RowsOf(s)) = Len(batches[s])
         /\ \A i \in 1 .. Len(batches[s]) : batches[s][i] \in RowsOf(s) /\ Rank(batches[s][i]) = i - 1
         /\ \A r \in RowsOf(s) : \E i \in 1 .. Len(batches[s]) : batches[s][i] = r
<1> DEFINE b == batches[s]
<1>1. /\ b \in Seq(Indices) /\ Len(b) \in Nat /\ DOMAIN b = 1 .. Len(b) /\ Indices \subseteq Nat
      /\ \A i \in 1 .. Len(b) : b[i] \in Nat
  <2>1. b \in Seq(Indices) BY DEF AutoInv, AutoTypeOK
  <2>2. Len(b) \in Nat /\ DOMAIN b = 1 .. Len(b) /\ \A i \in 1 .. Len(b) : b[i] \in Indices BY <2>1
  <2>3. Indices \subseteq Nat BY BatchAssumption DEF Indices
  <2> QED BY <2>1, <2>2, <2>3
<1>2. \A i, j \in 1 .. Len(b) : i < j => b[i] < b[j] BY <1>1 DEF AutoInv, BatchInv, Increasing
<1>3. \A i \in 1 .. Len(b) : b[i] \in RowsOf(s) /\ rows[b[i]].schema = s
      BY <1>1 DEF AutoInv, AutoTypeOK, BatchInv, RowsOf
<1>4. ASSUME NEW r \in RowsOf(s) PROVE \E i \in 1 .. Len(b) : b[i] = r
  <2>1. r \in Indices /\ rows[r].schema = s BY DEF RowsOf
  <2>2. r < at BY <2>1, BatchAssumption DEF Indices
  <2>3. \E i \in DOMAIN batches[rows[r].schema] : batches[rows[r].schema][i] = r
        BY <2>1, <2>2 DEF AutoInv, PassedInv
  <2> QED BY <1>1, <2>1, <2>3
<1>5. ASSUME NEW n \in 0 .. Len(b), NEW S, S = {b[i] : i \in 1 .. n} PROVE Cardinality(S) = n
  <2> DEFINE f == [i \in 1 .. n |-> b[i]]
  <2>1. n \in Nat /\ 1 .. n \subseteq 1 .. Len(b) BY <1>1
  <2>2. f \in Surjection(1 .. n, S)
    <3>1. f \in [1 .. n -> S] BY <1>5
    <3>2. \A y \in S : \E i \in 1 .. n : f[i] = y BY <1>5
    <3> QED BY <3>1, <3>2 DEF Surjection
  <2>3. f \in Injection(1 .. n, S)
    <3>1. ASSUME NEW i \in 1 .. n, NEW j \in 1 .. n, b[i] = b[j] PROVE i = j
      <4>1. i \in 1 .. Len(b) /\ j \in 1 .. Len(b) BY <2>1
      <4>2. ~(i < j) /\ ~(j < i) BY <1>1, <1>2, <3>1, <4>1
      <4> QED BY <4>1, <4>2
    <3>2. f \in [1 .. n -> S] BY <2>2 DEF Surjection
    <3>3. \A i, j \in 1 .. n : f[i] = f[j] => i = j BY <3>1
    <3> QED BY <3>2, <3>3 DEF Injection, IsInjective
  <2>4. f \in Bijection(1 .. n, S) BY <2>2, <2>3 DEF Bijection
  <2>5. ExistsBijection(1 .. n, S) BY <2>4 DEF ExistsBijection
  <2> QED BY <2>1, <2>5, FS_CountingElements
<1>6. Cardinality(RowsOf(s)) = Len(b)
  <2>1. RowsOf(s) = {b[i] : i \in 1 .. Len(b)} BY <1>3, <1>4
  <2> QED BY <1>1, <1>5, <2>1
<1>7. ASSUME NEW i \in 1 .. Len(b) PROVE Rank(b[i]) = i - 1
  <2> DEFINE S == {q \in RowsOf(s) : q < b[i]}
  <2>1. Rank(b[i]) = Cardinality(S) BY <1>3 DEF Rank
  <2>2. i - 1 \in 0 .. Len(b) /\ 1 .. (i - 1) \subseteq 1 .. Len(b) BY <1>1
  <2>3. \A j \in 1 .. (i - 1) : b[j] \in S BY <1>1, <1>2, <1>3, <2>2
  <2>4. ASSUME NEW q \in S PROVE \E j \in 1 .. (i - 1) : b[j] = q
    <3>1. PICK j \in 1 .. Len(b) : b[j] = q BY <1>4, <2>4
    <3>2. b[j] < b[i] BY <2>4, <3>1
    <3>3. ~(i < j) /\ i # j BY <1>1, <1>2, <3>2
    <3>4. j \in 1 .. (i - 1) BY <1>1, <3>1, <3>3
    <3> QED BY <3>1, <3>4
  <2>5. S = {b[j] : j \in 1 .. (i - 1)} BY <2>3, <2>4
  <2>6. Cardinality(S) = i - 1 BY <1>5, <2>2, <2>5
  <2> QED BY <2>1, <2>6
<1> QED BY <1>3, <1>4, <1>6, <1>7

\* What m makes of a position: the row that it means, or row 0 if it means none.
LEMMA TranslateFinds ==
  ASSUME AutoInv, NEW a \in replies, NEW k \in a.positions
  PROVE  /\ k < Cardinality(RowsOf(a.schema)) =>
              /\ Translate(a.schema, k) \in Ignored(a)
              /\ \A r \in RowsOf(a.schema) : Rank(r) = k => r = Translate(a.schema, k)
         /\ k >= Cardinality(RowsOf(a.schema)) => Translate(a.schema, k) = 0
<1> DEFINE s == a.schema
<1>1. at = Size /\ s \in Schemas /\ k \in Nat
      BY BatchAssumption DEF AutoInv, ErrorInv, AutoTypeOK, Replies
<1>2. /\ Cardinality(RowsOf(s)) = Len(batches[s])
      /\ \A i \in 1 .. Len(batches[s]) : batches[s][i] \in RowsOf(s) /\ Rank(batches[s][i]) = i - 1
      /\ \A r \in RowsOf(s) : \E i \in 1 .. Len(batches[s]) : batches[s][i] = r
      BY <1>1, RankIsPosition
<1>3. /\ Len(batches[s]) \in Nat /\ Len(batches[s]) <= Size /\ DOMAIN batches[s] = 1 .. Len(batches[s])
      /\ \A i \in 1 .. Len(batches[s]) : m[s][i - 1] = batches[s][i]
      /\ \A j \in Indices : j >= Len(batches[s]) => m[s][j] = 0
      BY <1>1 DEF AutoInv, AutoTypeOK, BatchInv
<1>4. ASSUME k < Len(batches[s])
      PROVE  Translate(s, k) \in Ignored(a) /\ \A r \in RowsOf(s) : Rank(r) = k => r = Translate(s, k)
  <2>1. k + 1 \in 1 .. Len(batches[s]) /\ (k + 1) - 1 = k /\ k \in Indices
        BY <1>1, <1>3, <1>4, BatchAssumption DEF Indices
  <2>2. Translate(s, k) = batches[s][k + 1] BY <1>3, <2>1 DEF Translate
  <2>3. Rank(batches[s][k + 1]) = k /\ batches[s][k + 1] \in RowsOf(s) BY <1>2, <2>1
  <2>4. ASSUME NEW r \in RowsOf(s), Rank(r) = k PROVE r = Translate(s, k)
    <3>1. PICK i \in 1 .. Len(batches[s]) : batches[s][i] = r BY <1>2
    <3>2. i - 1 = k BY <1>2, <2>4, <3>1
    <3>3. i = k + 1 BY <1>1, <3>1, <3>2
    <3> QED BY <2>2, <3>1, <3>3
  <2> QED BY <2>2, <2>3, <2>4 DEF Ignored
<1>5. ASSUME k >= Len(batches[s]) PROVE Translate(s, k) = 0
      BY <1>3, <1>5 DEF Translate
<1> QED BY <1>2, <1>4, <1>5

\* For any rows and any replies, positions that no row has and codes that do not
\* match included: ErrorItem has the rows that the noted replies mean, found by
\* counting the rows of their schema in the caller's slice, and no others but row 0.
THEOREM ErrorItemsAreExact == AutoSpec => []ErrorItemsAreTheIgnored
<1>1. AutoInv => ErrorItemsAreTheIgnored
  <2> SUFFICES ASSUME AutoInv PROVE ErrorItemsAreTheIgnored
      OBVIOUS
  <2>0. \A a \in replies : a.positions \subseteq Nat /\ a.schema \in Schemas /\ at = Size
        BY BatchAssumption DEF AutoInv, ErrorInv, AutoTypeOK, Replies
  <2>1. ASSUME NEW a \in replies, Noted(a), NEW r \in Ignored(a) PROVE r \in errorItem
    <3> DEFINE k == Rank(r)
    <3>1. k \in a.positions /\ r \in RowsOf(a.schema) BY DEF Ignored
    <3>2. /\ Cardinality(RowsOf(a.schema)) = Len(batches[a.schema])
          /\ \A i \in 1 .. Len(batches[a.schema]) : Rank(batches[a.schema][i]) = i - 1
          /\ \E i \in 1 .. Len(batches[a.schema]) : batches[a.schema][i] = r
          BY <2>0, <3>1, RankIsPosition
    <3>3. Len(batches[a.schema]) \in Nat BY <2>0 DEF AutoInv, AutoTypeOK
    <3>4. k < Cardinality(RowsOf(a.schema)) BY <3>2, <3>3
    <3>5. r = Translate(a.schema, k) BY <3>1, <3>4, TranslateFinds
    <3> QED BY <2>1, <3>1, <3>5 DEF AutoInv, ErrorInv
  <2>2. ASSUME NEW r \in errorItem
        PROVE  \E a \in replies : Noted(a) /\ (r \in Ignored(a) \/ (r = 0 /\ Stray(a)))
    <3>1. PICK a \in replies : Noted(a) /\ \E k \in a.positions : r = Translate(a.schema, k)
          BY DEF AutoInv, ErrorInv
    <3>2. PICK k \in a.positions : r = Translate(a.schema, k) BY <3>1
    <3>3. k \in Nat /\ Cardinality(RowsOf(a.schema)) \in Nat
      <4>1. Cardinality(RowsOf(a.schema)) = Len(batches[a.schema]) BY <2>0, RankIsPosition
      <4> QED BY <2>0, <4>1 DEF AutoInv, AutoTypeOK
    <3>4. CASE k < Cardinality(RowsOf(a.schema)) BY <3>1, <3>2, <3>4, TranslateFinds
    <3>5. CASE k >= Cardinality(RowsOf(a.schema))
      <4>1. r = 0 BY <3>2, <3>5, TranslateFinds
      <4>2. Stray(a) BY <3>2, <3>5 DEF Stray
      <4> QED BY <3>1, <4>1, <4>2
    <3> QED BY <3>3, <3>4, <3>5
  <2> QED BY <2>1, <2>2 DEF ErrorItemsAreTheIgnored
<1> QED BY <1>1, AutoInvariance, PTL
=============================================================================
