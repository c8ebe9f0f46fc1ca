--------------------------- MODULE QueryExecProofs ---------------------------
(***************************************************************************)
(* Proofs about QueryExec, for any aliases and any number of records.      *)
(*                                                                         *)
(* IInv is about the receiving loops.  On top of it, MergeInv says what    *)
(* the reply holds; a record keeps it because of what MergeUQLReply does   *)
(* to two replies (lemma Merged, by induction over the aliases).           *)
(***************************************************************************)
EXTENDS QueryExec, SequenceTheorems, WellFoundedInduction, TLAPS

(* Before the stream is read, and after the call returned. *)
PhaseInv ==
    /\ pc \in {"call", "query", "retry"} => got = 0 /\ delivered = <<>> /\ status = "success"
    /\ result = "none" <=> pc # "returned"
    /\ result = "response" => ~call.stream
    /\ result = "nil" => call.stream

(* The callback has been given what was received. *)
StreamInv ==
    /\ Len(delivered) <= got
    /\ \A i \in DOMAIN delivered : delivered[i] = i /\ sent[i].fault = "none"
    /\ call.stream /\ pc = "recv" => Len(delivered) = got
    /\ ~call.stream => delivered = <<>>
    /\ result = "nil" /\ ~call.host => ended = "eof" /\ Len(delivered) = Len(sent)

(* NewUQLResponse goes on only while no record reported a failure. *)
ResponseInv ==
    /\ ~call.stream /\ pc = "recv" =>
        status = "success" /\ \A i \in 1..got : sent[i].fault # "status"
    /\ ResponseIsFinal

IInv == TypeOK /\ PhaseInv /\ StreamInv /\ ResponseInv

-----------------------------------------------------------------------------
LEMMA InitInv == Init => IInv
<1> SUFFICES ASSUME Init PROVE IInv
    OBVIOUS
<1> USE DEF Init
<1>1. TypeOK BY DEF TypeOK, Results
<1>2. PhaseInv /\ StreamInv BY DEF PhaseInv, StreamInv
<1>3. ResponseInv BY DEF ResponseInv, ResponseIsFinal
<1> QED BY <1>1, <1>2, <1>3 DEF IInv

(* The server's steps: a record is added behind the ones received. *)
LEMMA ServerStep ==
  ASSUME IInv, \/ \E r \in Records : ServerSend(r)
               \/ \E e \in {"eof", "broken"} : ServerEnd(e)
               \/ Expire
               \/ UNCHANGED vars
  PROVE  IInv'
<1>1. ASSUME NEW r \in Records, ServerSend(r) PROVE IInv'
  <2>1. /\ sent' = Append(sent, r) /\ pc = "recv"
        /\ UNCHANGED <<call, pc, ctx, ended, got, reply, status, delivered, result>>
        BY <1>1 DEF ServerSend
  <2>2. /\ sent' \in Seq(Records) /\ Len(sent') = Len(sent) + 1
        /\ \A i \in 1..Len(sent) : sent'[i] = sent[i]
        BY <1>1, <2>1 DEF IInv, TypeOK
  <2>3. got \in 0..Len(sent) /\ Len(sent) \in Nat /\ delivered \in Seq(Nat) /\ Len(delivered) <= got
        BY DEF IInv, TypeOK, StreamInv
  <2>4. DOMAIN delivered = 1..Len(delivered) /\ Len(delivered) \in Nat
        BY <2>3
  <2>5. TypeOK' BY <2>1, <2>2, <2>3 DEF IInv, TypeOK
  <2>6. PhaseInv' BY <2>1 DEF IInv, PhaseInv
  <2>7. result = "none" BY <2>1 DEF IInv, PhaseInv
  <2>8. StreamInv'
    <3>1. \A i \in DOMAIN delivered : i \in 1..Len(sent) BY <2>3, <2>4
    <3>2. \A i \in DOMAIN delivered : delivered[i] = i /\ sent'[i].fault = "none"
          BY <3>1, <2>2 DEF IInv, StreamInv
    <3> QED BY <3>2, <2>1, <2>7 DEF IInv, StreamInv
  <2>9. ResponseInv' BY <2>1, <2>2, <2>3, <2>7 DEF IInv, ResponseInv, ResponseIsFinal
  <2> QED BY <2>5, <2>6, <2>8, <2>9 DEF IInv
<1>2. ASSUME NEW e \in {"eof", "broken"}, ServerEnd(e) PROVE IInv'
  <2>1. result = "none" BY <1>2 DEF IInv, PhaseInv, ServerEnd
  <2> QED BY <1>2, <2>1 DEF ServerEnd, IInv, TypeOK, PhaseInv, StreamInv, ResponseInv, ResponseIsFinal
<1>3. CASE Expire
      BY <1>3 DEF Expire, IInv, TypeOK, PhaseInv, StreamInv, ResponseInv, ResponseIsFinal
<1>4. CASE UNCHANGED vars
      BY <1>4 DEF vars, IInv, TypeOK, PhaseInv, StreamInv, ResponseInv, ResponseIsFinal
<1> QED BY <1>1, <1>2, <1>3, <1>4

(* The steps of doExecuteQuery, before the stream is read. *)
LEMMA OpenStep ==
  ASSUME IInv, GetClientFails \/ NewContextFails \/ NewContext \/ QueryFails \/ QueryOpens
  PROVE  IInv'
<1> USE DEF IInv, TypeOK, Results, PhaseInv, StreamInv, ResponseInv, ResponseIsFinal, Return
<1>1. CASE GetClientFails BY <1>1 DEF GetClientFails
<1>2. CASE NewContextFails BY <1>2 DEF NewContextFails
<1>3. CASE NewContext BY <1>3 DEF NewContext
<1>4. CASE QueryFails BY <1>4 DEF QueryFails
<1>5. CASE QueryOpens BY <1>5 DEF QueryOpens
<1> QED BY <1>1, <1>2, <1>3, <1>4, <1>5

LEMMA RecordStep == ASSUME IInv, RecvRecord PROVE IInv'
<1>1. /\ pc = "recv" /\ ~call.stream /\ got \in Nat /\ got < Len(sent) /\ got' = got + 1
      /\ got + 1 \in 1..Len(sent) /\ Len(sent) \in Nat
      /\ UNCHANGED <<call, ctx, sent, ended, delivered>>
      /\ delivered = <<>> /\ result = "none"
      /\ status = "success" /\ \A i \in 1..got : sent[i].fault # "status"
      BY DEF RecvRecord, CanRecv, IInv, TypeOK, PhaseInv, StreamInv, ResponseInv
<1>2. CASE pc' = "returned" /\ result' = "statError" /\ UNCHANGED <<reply, status>>
      BY <1>1, <1>2 DEF IInv, TypeOK, Results, PhaseInv, StreamInv, ResponseInv, ResponseIsFinal
<1>3. CASE /\ sent[got + 1].fault = "status" /\ status' = "failed"
           /\ pc' = "returned" /\ result' = "response"
  <2>1. (got + 1) - 1 = got BY <1>1
  <2>2. ResponseIsFinal' BY <1>1, <1>3, <2>1 DEF ResponseIsFinal
  <2> QED BY <1>1, <1>3, <2>2 DEF IInv, TypeOK, Results, PhaseInv, StreamInv, ResponseInv
<1>4. CASE sent[got + 1].fault # "status" /\ status' = "success" /\ UNCHANGED <<pc, result>>
  <2>1. \A i \in 1..(got + 1) : i \in 1..got \/ i = got + 1 BY <1>1
  <2>2. ResponseInv' BY <1>1, <1>4, <2>1 DEF ResponseInv, ResponseIsFinal
  <2> QED BY <1>1, <1>4, <2>2 DEF IInv, TypeOK, Results, PhaseInv, StreamInv
<1>5. \/ pc' = "returned" /\ result' = "statError" /\ UNCHANGED <<reply, status>>
      \/ /\ sent[got + 1].fault = "status" /\ status' = "failed"
         /\ pc' = "returned" /\ result' = "response"
      \/ sent[got + 1].fault # "status" /\ status' = "success" /\ UNCHANGED <<pc, result>>
      BY DEF RecvRecord, StopOnFailure, Record, Return
<1> QED BY <1>2, <1>3, <1>4, <1>5

LEMMA StreamStep == ASSUME IInv, RecvStream PROVE IInv'
<1>1. /\ pc = "recv" /\ call.stream /\ got \in Nat /\ got < Len(sent) /\ got' = got + 1
      /\ got + 1 \in 1..Len(sent) /\ Len(sent) \in Nat
      /\ UNCHANGED <<call, ctx, sent, ended, reply, status>>
      /\ delivered \in Seq(Nat) /\ Len(delivered) = got /\ result = "none"
      BY DEF RecvStream, CanRecv, IInv, TypeOK, PhaseInv, StreamInv
<1>2. CASE pc' = "returned" /\ result' \in {"statError", "statusError"} /\ UNCHANGED delivered
      BY <1>1, <1>2 DEF IInv, TypeOK, Results, PhaseInv, StreamInv, ResponseInv, ResponseIsFinal
<1>3. CASE /\ sent[got + 1].fault = "none" /\ delivered' = Append(delivered, got + 1)
           /\ (pc' = "returned" /\ result' = "cbError") \/ UNCHANGED <<pc, result>>
  <2>1. /\ delivered' \in Seq(Nat) /\ Len(delivered') = got + 1
        /\ DOMAIN delivered = 1..got /\ DOMAIN delivered' = 1..(got + 1)
        /\ \A i \in 1..got : delivered'[i] = delivered[i]
        /\ delivered'[got + 1] = got + 1
        BY <1>1, <1>3
  <2>2. \A i \in DOMAIN delivered' : delivered'[i] = i /\ sent[i].fault = "none"
        BY <1>1, <1>3, <2>1 DEF IInv, StreamInv
  <2>3. result' # "nil" /\ result' # "response" /\ (result' = "none" <=> pc' # "returned")
        BY <1>1, <1>3
  <2>4. StreamInv' BY <1>1, <1>3, <2>1, <2>2, <2>3 DEF StreamInv
  <2>5. TypeOK' BY <1>1, <1>3, <2>1 DEF IInv, TypeOK, Results
  <2>6. PhaseInv' BY <1>1, <1>3, <2>3 DEF PhaseInv
  <2>7. ResponseInv' BY <1>1, <2>3 DEF ResponseInv, ResponseIsFinal
  <2> QED BY <2>4, <2>5, <2>6, <2>7 DEF IInv
<1>4. sent[got + 1] \in Records
      BY <1>1 DEF IInv, TypeOK
<1>5. \/ pc' = "returned" /\ result' \in {"statError", "statusError"} /\ UNCHANGED delivered
      \/ /\ sent[got + 1].fault = "none" /\ delivered' = Append(delivered, got + 1)
         /\ (pc' = "returned" /\ result' = "cbError") \/ UNCHANGED <<pc, result>>
      BY <1>4 DEF RecvStream, RecvFails, Record, Records, Faults, Return
<1> QED BY <1>2, <1>3, <1>5

LEMMA EndStep == ASSUME IInv, RecvEOF \/ RecvError PROVE IInv'
<1> USE DEF IInv, TypeOK, Results, PhaseInv, StreamInv, ResponseInv, ResponseIsFinal, Return
<1>1. CASE RecvEOF BY <1>1 DEF RecvEOF, AtEnd
<1>2. CASE RecvError BY <1>2 DEF RecvError
<1> QED BY <1>1, <1>2

\* The invariant of the receiving loops holds in every state of a call.
THEOREM Invariance == Spec => []IInv
<1>1. IInv /\ [Next]_vars => IInv'
  <2> SUFFICES ASSUME IInv, [Next]_vars PROVE IInv'
      OBVIOUS
  <2> QED BY ServerStep, OpenStep, RecordStep, StreamStep, EndStep DEF Next, Client
<1> QED BY <1>1, InitInv, PTL DEF Spec

\* The variables keep their types; the client never reads past what was sent.
THEOREM TypeCorrect == Spec => []TypeOK
<1>1. IInv => TypeOK BY DEF IInv
<1> QED BY <1>1, Invariance, PTL

\* A successful response was read to the end of the stream, and a failed one
\* stopped at the record that reported the failure.
THEOREM ResponsesAreFinal == Spec => []ResponseIsFinal
<1>1. IInv => ResponseIsFinal BY DEF IInv, ResponseInv
<1> QED BY <1>1, Invariance, PTL

\* The callback of a stream is given the good records in order, and all of them
\* when the call returns nil without having been given a host.
THEOREM StreamsAreExact == Spec => []StreamIsExact
<1>1. IInv => StreamIsExact BY DEF IInv, StreamInv, StreamIsExact
<1> QED BY <1>1, Invariance, PTL

(* A record that is received goes to the callback, or ends the call with an error. *)
LEMMA StreamPromised == ASSUME IInv, RecvStream PROVE [Consumer!Next]_(Consumer!vars)
<1>1. /\ pc = "recv" /\ call.stream /\ got \in Nat /\ got + 1 \in 1..Len(sent)
      /\ UNCHANGED <<call, sent, ended>>
      /\ Len(delivered) = got /\ result = "none"
      BY DEF RecvStream, CanRecv, IInv, TypeOK, PhaseInv, StreamInv
<1>2. sent[got + 1] \in Records BY <1>1 DEF IInv, TypeOK
<1>3. Told = "nothing" BY <1>1 DEF Told
<1>4. CASE result' \in {"statError", "statusError"} /\ UNCHANGED delivered
  <2>1. Told' \in {"nothing", "error"} BY <1>1, <1>4 DEF Told
  <2>2. Consumer!Fail \/ UNCHANGED Consumer!vars
        BY <1>1, <1>3, <1>4, <2>1 DEF Consumer!Fail, Consumer!vars
  <2> QED BY <2>2 DEF Consumer!Next
<1>5. CASE /\ sent[got + 1].fault = "none" /\ delivered' = Append(delivered, got + 1)
           /\ result' = "cbError" \/ UNCHANGED result
  <2>1. Told' \in {"nothing", "error"} BY <1>1, <1>5 DEF Told
  <2>2. sent[Len(delivered) + 1] \in {r \in Records : r.fault = "none"} /\ Len(delivered) + 1 <= Len(sent)
        BY <1>1, <1>2, <1>5
  <2>3. Consumer!Deliver BY <1>1, <1>3, <1>5, <2>1, <2>2 DEF Consumer!Deliver
  <2> QED BY <2>3 DEF Consumer!Next
<1>6. \/ result' \in {"statError", "statusError"} /\ UNCHANGED delivered
      \/ /\ sent[got + 1].fault = "none" /\ delivered' = Append(delivered, got + 1)
         /\ result' = "cbError" \/ UNCHANGED result
      BY <1>2 DEF RecvStream, RecvFails, Record, Records, Faults, Return
<1> QED BY <1>4, <1>5, <1>6

(* What happens around the callbacks. *)
LEMMA OthersPromised ==
  ASSUME IInv, [Next]_vars, ~RecvStream PROVE [Consumer!Next]_(Consumer!vars)
<1> USE DEF Return
<1>1. CASE \E r \in Records : ServerSend(r)
  <2>1. Told = "nothing" /\ Told' = Told BY <1>1 DEF ServerSend, IInv, PhaseInv, Told
  <2>2. Consumer!Send BY <1>1, <2>1 DEF ServerSend, Consumer!Send
  <2> QED BY <2>2 DEF Consumer!Next
<1>2. CASE \E e \in {"eof", "broken"} : ServerEnd(e)
  <2>1. Told = "nothing" /\ Told' = Told BY <1>2 DEF ServerEnd, IInv, PhaseInv, Told
  <2>2. Consumer!End BY <1>2, <2>1 DEF ServerEnd, Consumer!End
  <2> QED BY <2>2 DEF Consumer!Next
<1>3. CASE RecvEOF
  <2>1. /\ result = "none" /\ Told = "nothing" /\ ended = "eof" /\ got = Len(sent)
        /\ UNCHANGED <<call, sent, ended, delivered>>
        BY <1>3 DEF RecvEOF, AtEnd, IInv, PhaseInv, Told
  <2>2. CASE call.stream /\ ~call.host
    <3>1. Told' = "nil" BY <1>3, <2>1, <2>2 DEF RecvEOF, Told
    <3>2. Len(delivered) = Len(sent) BY <1>3, <2>1, <2>2 DEF RecvEOF, IInv, StreamInv
    <3>3. Consumer!Finish BY <2>1, <3>1, <3>2 DEF Consumer!Finish
    <3> QED BY <3>3 DEF Consumer!Next
  <2>3. CASE ~(call.stream /\ ~call.host)
    <3>1. Told' = "nothing" BY <2>1, <2>3 DEF Told
    <3> QED BY <2>1, <3>1 DEF Consumer!vars
  <2> QED BY <2>2, <2>3
<1>4. CASE GetClientFails \/ NewContextFails \/ NewContext \/ QueryFails \/ QueryOpens \/ RecvError \/ RecvRecord
  <2>1. result = "none" /\ Told = "nothing" /\ UNCHANGED <<call, sent, ended, delivered>>
        BY <1>4 DEF GetClientFails, NewContextFails, NewContext, QueryFails, QueryOpens, RecvError,
                    RecvRecord, CanRecv, IInv, PhaseInv, Told
  <2>2. result' # "nil" \/ call.host \/ ~call.stream
        BY <1>4, <2>1 DEF GetClientFails, NewContextFails, NewContext, QueryFails, QueryOpens, RecvError, RecvRecord
  <2>3. Told' \in {"nothing", "error"} BY <2>1, <2>2 DEF Told
  <2>4. Consumer!Fail \/ UNCHANGED Consumer!vars BY <2>1, <2>3 DEF Consumer!Fail, Consumer!vars
  <2> QED BY <2>4 DEF Consumer!Next
<1>5. CASE Expire \/ UNCHANGED vars
  <2>1. UNCHANGED <<call, sent, ended, delivered, result>> BY <1>5 DEF Expire, vars
  <2>2. UNCHANGED Told BY <2>1 DEF Told
  <2> QED BY <2>1, <2>2 DEF Consumer!vars
<1> QED BY <1>1, <1>2, <1>3, <1>4, <1>5 DEF Next, Client

\* For any aliases and any number of records, the streaming calls keep the promise
\* of StreamConsumer: each step of a call (responseStream.go) delivers the next
\* record, ends the call truthfully, or is not seen by the caller.
THEOREM StreamsImplement == Spec => ImplementsConsumer
<1>1. Init => Consumer!Init BY DEF Init, Consumer!Init, Told
<1>2. IInv /\ [Next]_vars => [Consumer!Next]_(Consumer!vars) BY StreamPromised, OthersPromised
<1>3. Spec => Consumer!Spec BY <1>1, <1>2, Invariance, PTL DEF Spec, Consumer!Spec
<1> QED BY <1>3 DEF ImplementsConsumer
-----------------------------------------------------------------------------
(* What the reply holds *)

Replies == [listed : BOOLEAN, rows : [Aliases -> Seq(Nat)]]

(* r is what merging should make of the first n records of s. *)
Vals(q) == {q[i] : i \in DOMAIN q}
CameIn(s, n, a) == {i \in 1..n : a \in s[i].has}
RegularIn(s, n) ==
    \A i \in 1..n : s[i].listed /\ \A a \in Aliases : \E b \in s[i].has : TypeOf[b] = TypeOf[a]
GoodReply(r, s, n) ==
    /\ r \in Replies
    /\ \A a \in Aliases : Increasing(r.rows[a]) /\ Vals(r.rows[a]) \subseteq CameIn(s, n, a)
    /\ RegularIn(s, n) => r.listed /\ \A a \in Aliases : Vals(r.rows[a]) = CameIn(s, n, a)

MergeInv ==
    /\ Len(reply) <= 1 /\ (call.stream => reply = <<>>)
    /\ ~call.stream /\ pc = "recv" /\ reply = <<>> => got = 0
    /\ reply # <<>> => got > 0 /\ GoodReply(reply[1], sent, got)

\* A set of numbers has a least one, and one that is closed under successor is
\* all of them: the well-founded order of the library, as facts about sets.
LEMMA Least ==
  ASSUME NEW T \in SUBSET Nat, T # {}
  PROVE  \E x \in T : \A y \in T : x <= y
<1>1. PICK x \in T : \A y \in T : <<y, x>> \notin OpToRel(<, Nat)
      BY NatLessThanWellFounded, WFMin
<1>2. \A y \in T : ~(y < x) BY <1>1 DEF OpToRel
<1> QED BY <1>2

LEMMA SetInduction ==
  ASSUME NEW T \in SUBSET Nat, 0 \in T, \A m \in T : m + 1 \in T
  PROVE  T = Nat
<1> SUFFICES ASSUME Nat \ T # {} PROVE FALSE
    OBVIOUS
<1>1. PICK x \in Nat \ T : \A y \in Nat \ T : x <= y BY Least
<1>2. x - 1 \in T BY <1>1
<1> QED BY <1>1, <1>2

LEMMA AliasesTyped ==
  /\ Len(AliasSeq) \in Nat /\ DOMAIN AliasSeq = 1..Len(AliasSeq)
  /\ \A i \in 1..Len(AliasSeq) : AliasSeq[i] \in Aliases
  /\ \A a \in Aliases : \E i \in 1..Len(AliasSeq) : a = AliasSeq[i]
<1>1. Len(AliasSeq) \in Nat /\ DOMAIN AliasSeq = 1..Len(AliasSeq) BY QueryAssumption
<1> QED BY <1>1 DEF Aliases

\* The recursive functions of the two loops exist, so they are the ones of their
\* definitions.
LEMMA LoopDefined ==
  ASSUME NEW r1, NEW r2
  PROVE  \E g : /\ g = [i \in 0..Len(AliasSeq) |->
                          IF i = 0 THEN [stop |-> ~r1.listed, reply |-> r1]
                          ELSE MergeAlias(g[i - 1], r2, AliasSeq[i])]
                /\ MergeUQLReply(r1, r2) = g[Len(AliasSeq)].reply
<1> DEFINE Body(g, i) == IF i = 0 THEN [stop |-> ~r1.listed, reply |-> r1]
                         ELSE MergeAlias(g[i - 1], r2, AliasSeq[i])
           Upto == {m \in Nat : \E g : g = [i \in 0..m |-> Body(g, i)]}
<1>1. 0 \in Upto
  <2>1. PICK g : g = [i \in 0..0 |-> [stop |-> ~r1.listed, reply |-> r1]] OBVIOUS
  <2>2. \A i \in 0..0 : Body(g, i) = [stop |-> ~r1.listed, reply |-> r1] OBVIOUS
  <2> HIDE DEF Body
  <2>3. g = [i \in 0..0 |-> Body(g, i)] BY <2>1, <2>2
  <2> QED BY <2>3
<1>2. ASSUME NEW m \in Upto PROVE m + 1 \in Upto
  <2>1. PICK g : g = [i \in 0..m |-> Body(g, i)] OBVIOUS
  <2>2. PICK h : h = [i \in 0..(m + 1) |-> IF i = m + 1 THEN Body(g, m + 1) ELSE g[i]] OBVIOUS
  <2>3. \A i \in 0..m : h[i] = g[i] BY <2>2
  <2>4. ASSUME NEW i \in 0..(m + 1) PROVE h[i] = Body(h, i)
    <3>1. CASE i = m + 1
      <4>1. h[i] = Body(g, m + 1) BY <2>2, <3>1
      <4>2. i # 0 /\ i - 1 \in 0..m BY <3>1
      <4> QED BY <2>3, <3>1, <4>1, <4>2
    <3>2. CASE i \in 0..m
      <4>1. h[i] = g[i] BY <2>3, <3>2
      <4>2. g[i] = Body(g, i) BY <2>1, <3>2
      <4>3. i = 0 \/ i - 1 \in 0..m BY <3>2
      <4> QED BY <2>3, <4>1, <4>2, <4>3
    <3> QED BY <3>1, <3>2
  <2> HIDE DEF Body
  <2>5. h = [i \in 0..(m + 1) |-> h[i]] BY <2>2
  <2>6. h = [i \in 0..(m + 1) |-> Body(h, i)] BY <2>4, <2>5
  <2> QED BY <2>6
<1>3. Len(AliasSeq) \in Upto
  <2>1. Upto = Nat
    <3> HIDE DEF Body
    <3>1. Upto \in SUBSET Nat OBVIOUS
    <3> HIDE DEF Upto
    <3> QED BY <1>1, <1>2, <3>1, SetInduction
  <2> QED BY <2>1, AliasesTyped
<1> DEFINE loop == CHOOSE g : g = [i \in 0..Len(AliasSeq) |-> Body(g, i)]
<1>4. loop = [i \in 0..Len(AliasSeq) |-> Body(loop, i)]
  <2> HIDE DEF Body
  <2>1. \E g : g = [i \in 0..Len(AliasSeq) |-> Body(g, i)] BY <1>3
  <2> QED BY <2>1
<1>5. MergeUQLReply(r1, r2) = loop[Len(AliasSeq)].reply BY DEF MergeUQLReply
<1> QED BY <1>4, <1>5

LEMMA FindDefined ==
  ASSUME NEW r, NEW a, r.listed
  PROVE  \E g : /\ g = [i \in 0..Len(AliasSeq) |->
                          IF i = 0 THEN unset
                          ELSE IF g[i - 1].data # <<>> THEN g[i - 1]
                          ELSE LET t == TypeOf[AliasSeq[i]]
                               IN  [data |-> IF TypeOf[a] = t THEN r.rows[a] ELSE <<>>, type |-> t]]
                /\ FindAliasDataInReply(r, a) = g[Len(AliasSeq)]
<1> DEFINE Body(g, i) == IF i = 0 THEN unset
                         ELSE IF g[i - 1].data # <<>> THEN g[i - 1]
                         ELSE LET t == TypeOf[AliasSeq[i]]
                              IN  [data |-> IF TypeOf[a] = t THEN r.rows[a] ELSE <<>>, type |-> t]
           Upto == {m \in Nat : \E g : g = [i \in 0..m |-> Body(g, i)]}
<1>1. 0 \in Upto
  <2>1. PICK g : g = [i \in 0..0 |-> unset] OBVIOUS
  <2>2. \A i \in 0..0 : Body(g, i) = unset OBVIOUS
  <2> HIDE DEF Body
  <2>3. g = [i \in 0..0 |-> Body(g, i)] BY <2>1, <2>2
  <2> QED BY <2>3
<1>2. ASSUME NEW m \in Upto PROVE m + 1 \in Upto
  <2>1. PICK g : g = [i \in 0..m |-> Body(g, i)] OBVIOUS
  <2>2. PICK h : h = [i \in 0..(m + 1) |-> IF i = m + 1 THEN Body(g, m + 1) ELSE g[i]] OBVIOUS
  <2>3. \A i \in 0..m : h[i] = g[i] BY <2>2
  <2>4. ASSUME NEW i \in 0..(m + 1) PROVE h[i] = Body(h, i)
    <3>1. CASE i = m + 1
      <4>1. h[i] = Body(g, m + 1) BY <2>2, <3>1
      <4>2. i # 0 /\ i - 1 \in 0..m BY <3>1
      <4> QED BY <2>3, <3>1, <4>1, <4>2
    <3>2. CASE i \in 0..m
      <4>1. h[i] = g[i] BY <2>3, <3>2
      <4>2. g[i] = Body(g, i) BY <2>1, <3>2
      <4>3. i = 0 \/ i - 1 \in 0..m BY <3>2
      <4> QED BY <2>3, <4>1, <4>2, <4>3
    <3> QED BY <3>1, <3>2
  <2> HIDE DEF Body
  <2>5. h = [i \in 0..(m + 1) |-> h[i]] BY <2>2
  <2>6. h = [i \in 0..(m + 1) |-> Body(h, i)] BY <2>4, <2>5
  <2> QED BY <2>6
<1>3. Len(AliasSeq) \in Upto
  <2>1. Upto = Nat
    <3> HIDE DEF Body
    <3>1. Upto \in SUBSET Nat OBVIOUS
    <3> HIDE DEF Upto
    <3> QED BY <1>1, <1>2, <3>1, SetInduction
  <2> QED BY <2>1, AliasesTyped
<1> DEFINE find == CHOOSE g : g = [i \in 0..Len(AliasSeq) |-> Body(g, i)]
<1>4. find = [i \in 0..Len(AliasSeq) |-> Body(find, i)]
  <2> HIDE DEF Body
  <2>1. \E g : g = [i \in 0..Len(AliasSeq) |-> Body(g, i)] BY <1>3
  <2> QED BY <2>1
<1>5. FindAliasDataInReply(r, a) = find[Len(AliasSeq)] BY DEF FindAliasDataInReply
<1> QED BY <1>4, <1>5

\* An alias with rows is found, under its own type.
LEMMA Found ==
  ASSUME NEW r \in Replies, r.listed, NEW a \in Aliases, r.rows[a] # <<>>
  PROVE  FindAliasDataInReply(r, a) = [data |-> r.rows[a], type |-> TypeOf[a]]
<1>1. PICK g : /\ g = [i \in 0..Len(AliasSeq) |->
                          IF i = 0 THEN unset
                          ELSE IF g[i - 1].data # <<>> THEN g[i - 1]
                          ELSE LET t == TypeOf[AliasSeq[i]]
                               IN  [data |-> IF TypeOf[a] = t THEN r.rows[a] ELSE <<>>, type |-> t]]
               /\ FindAliasDataInReply(r, a) = g[Len(AliasSeq)]
      BY FindDefined
<1> DEFINE hit == [data |-> r.rows[a], type |-> TypeOf[a]]
           Ok(i) == \/ g[i] = hit
                    \/ g[i].data = <<>> /\ \A j \in 1..i : TypeOf[AliasSeq[j]] # TypeOf[a]
           Good == {i \in Nat : i <= Len(AliasSeq) => Ok(i)}
<1>2. 0 \in Good
  <2>1. g[0] = unset BY <1>1, AliasesTyped
  <2> QED BY <2>1 DEF unset
<1>3. ASSUME NEW m \in Good PROVE m + 1 \in Good
  <2> SUFFICES ASSUME m + 1 <= Len(AliasSeq) PROVE Ok(m + 1)
      OBVIOUS
  <2>1. Ok(m) /\ m \in Nat BY AliasesTyped
  <2>2. g[m + 1] = IF g[m].data # <<>> THEN g[m]
                   ELSE [data |-> IF TypeOf[a] = TypeOf[AliasSeq[m + 1]] THEN r.rows[a] ELSE <<>>,
                         type |-> TypeOf[AliasSeq[m + 1]]]
    <3>1. m + 1 \in 0..Len(AliasSeq) /\ m + 1 # 0 /\ (m + 1) - 1 = m BY <2>1, AliasesTyped
    <3> QED BY <1>1, <3>1
  <2>3. CASE g[m] = hit
    <3>1. g[m].data # <<>> BY <2>3
    <3> QED BY <2>2, <2>3, <3>1
  <2>4. CASE g[m].data = <<>> /\ \A j \in 1..m : TypeOf[AliasSeq[j]] # TypeOf[a]
    <3>1. CASE TypeOf[AliasSeq[m + 1]] = TypeOf[a] BY <2>2, <2>4, <3>1
    <3>2. CASE TypeOf[AliasSeq[m + 1]] # TypeOf[a]
      <4>1. g[m + 1].data = <<>> BY <2>2, <2>4, <3>2
      <4>2. \A j \in 1..(m + 1) : TypeOf[AliasSeq[j]] # TypeOf[a] BY <2>1, <2>4, <3>2
      <4> QED BY <4>1, <4>2
    <3> QED BY <3>1, <3>2
  <2> QED BY <2>1, <2>3, <2>4
<1>4. Ok(Len(AliasSeq))
  <2>1. Good \in SUBSET Nat OBVIOUS
  <2>2. Good = Nat
    <3> HIDE DEF Good
    <3> QED BY <1>2, <1>3, <2>1, SetInduction
  <2>3. Len(AliasSeq) \in Good
    <3> HIDE DEF Good
    <3> QED BY <2>2, AliasesTyped
  <2> HIDE DEF Ok
  <2> QED BY <2>3, AliasesTyped
<1>5. PICK i \in 1..Len(AliasSeq) : a = AliasSeq[i] BY AliasesTyped
<1> QED BY <1>1, <1>4, <1>5

-----------------------------------------------------------------------------
(* One alias of MergeUQLReply's loop: it ends the loop with one of the two  *)
(* replies, or joins the rows of the alias.                                 *)
LEMMA ReplaceRows ==
  ASSUME NEW p \in Replies, NEW f
  PROVE  [p EXCEPT !.rows = f] = [listed |-> p.listed, rows |-> f]
BY DEF Replies

AliasMerged(q, s, r2, a) ==
    /\ q.stop \in BOOLEAN /\ q.reply \in Replies
    /\ \/ q = s /\ s.stop
       \/ q.stop /\ q.reply = r2
       \/ q.stop /\ q.reply = s.reply
       \/ /\ ~q.stop /\ ~s.stop
          /\ q.reply.listed = s.reply.listed
          /\ q.reply.rows = [s.reply.rows EXCEPT ![a] = @ \o r2.rows[a]]
    /\ ~s.stop /\ ~NoList(s.reply, TypeOf[a]) /\ ~NoList(r2, TypeOf[a]) => ~q.stop

LEMMA MergeOne ==
  ASSUME NEW s, s.stop \in BOOLEAN, s.reply \in Replies, NEW r2 \in Replies, NEW a \in Aliases,
         NEW q, q = MergeAlias(s, r2, a)
  PROVE  AliasMerged(q, s, r2, a)
<1> USE DEF AliasMerged
<1>1. CASE s.stop BY <1>1 DEF MergeAlias
<1>2. CASE ~s.stop /\ NoList(s.reply, TypeOf[a]) /\ ~NoList(r2, TypeOf[a])
  <2>1. q = [stop |-> TRUE, reply |-> r2] BY <1>2 DEF MergeAlias
  <2> QED BY <1>2, <2>1
<1>3. CASE ~s.stop /\ NoList(r2, TypeOf[a])
  <2>1. q = [stop |-> TRUE, reply |-> s.reply] BY <1>3 DEF MergeAlias
  <2> QED BY <1>3, <2>1
<1>4. CASE ~s.stop /\ ~NoList(s.reply, TypeOf[a]) /\ ~NoList(r2, TypeOf[a])
  <2>1. q = [stop |-> FALSE, reply |-> [s.reply EXCEPT !.rows[a] = @ \o r2.rows[a]]]
        BY <1>4 DEF MergeAlias
  <2>2. PICK p, f : p = s.reply /\ f = [s.reply.rows EXCEPT ![a] = @ \o r2.rows[a]] OBVIOUS
  <2>3. q.stop = FALSE /\ q.reply = [p EXCEPT !.rows = f] BY <2>1, <2>2
  <2>4. q.reply = [listed |-> p.listed, rows |-> f] BY <2>2, <2>3, ReplaceRows
  <2>5. f \in [Aliases -> Seq(Nat)]
    <3>1. p.rows \in [Aliases -> Seq(Nat)] /\ r2.rows \in [Aliases -> Seq(Nat)]
          BY <2>2 DEF Replies
    <3>2. p.rows[a] \o r2.rows[a] \in Seq(Nat) BY <3>1, ConcatProperties
    <3> QED BY <2>2, <3>1, <3>2
  <2>6. p.listed \in BOOLEAN BY <2>2 DEF Replies
  <2>7. q.reply \in Replies BY <2>4, <2>5, <2>6 DEF Replies
  <2>8. q.reply.listed = s.reply.listed /\ q.reply.rows = f BY <2>2, <2>4
  <2>9. q.reply.rows = [s.reply.rows EXCEPT ![a] = @ \o r2.rows[a]] BY <2>2, <2>8
  <2>10. q.stop \in BOOLEAN /\ ~q.stop /\ ~s.stop BY <1>4, <2>3
  <2> QED BY <2>7, <2>8, <2>9, <2>10
<1> QED BY <1>1, <1>2, <1>3, <1>4

(* The loop's invariant: what the first i aliases have made of the replies. *)
Complete(r1, r2) ==
    r1.listed /\ \A a \in Aliases : ~NoList(r1, TypeOf[a]) /\ ~NoList(r2, TypeOf[a])
Both(r1, r2, a) == r1.rows[a] \o r2.rows[a]
Joined(p, r1, r2, i) ==
    \A j \in 1..Len(AliasSeq) :
        /\ p.rows[AliasSeq[j]] \in {r1.rows[AliasSeq[j]], Both(r1, r2, AliasSeq[j])}
        /\ j > i => p.rows[AliasSeq[j]] = r1.rows[AliasSeq[j]]
MergedTo(s, r1, r2, i) ==
    /\ s.stop \in BOOLEAN /\ s.reply \in Replies
    /\ (s.stop /\ s.reply = r2) \/ Joined(s.reply, r1, r2, i)
    /\ Complete(r1, r2) =>
         /\ ~s.stop /\ s.reply.listed
         /\ \A j \in 1..i : s.reply.rows[AliasSeq[j]] = Both(r1, r2, AliasSeq[j])

LEMMA JoinIsNotEmpty ==
  ASSUME NEW x \in Seq(Nat), NEW y \in Seq(Nat), x # <<>>
  PROVE  x \o y # <<>>
<1>1. Len(x) \in Nat /\ Len(x) # 0 /\ Len(y) \in Nat BY EmptySeq, LenProperties
<1>2. Len(x \o y) = Len(x) + Len(y) BY ConcatProperties
<1>3. Len(x \o y) # 0 BY <1>1, <1>2
<1> QED BY <1>3

LEMMA MergeLoopStep ==
  ASSUME NEW r1 \in Replies, NEW r2 \in Replies, NEW m \in Nat, m + 1 <= Len(AliasSeq),
         NEW s, MergedTo(s, r1, r2, m), NEW q, q = MergeAlias(s, r2, AliasSeq[m + 1])
  PROVE  MergedTo(q, r1, r2, m + 1)
<1>1. m + 1 \in 1..Len(AliasSeq) /\ m <= Len(AliasSeq) BY AliasesTyped
<1>2. PICK a : a = AliasSeq[m + 1] OBVIOUS
<1>3. a \in Aliases BY <1>1, <1>2, AliasesTyped
<1>4. s.stop \in BOOLEAN /\ s.reply \in Replies BY DEF MergedTo
<1>5. AliasMerged(q, s, r2, a)
  <2>1. q = MergeAlias(s, r2, a) BY <1>2
  <2> QED BY <1>3, <1>4, <2>1, MergeOne
<1>6. ASSUME Complete(r1, r2) PROVE ~q.stop
  <2>1. ~s.stop /\ Joined(s.reply, r1, r2, m) BY <1>6 DEF MergedTo
  <2>2. ~NoList(r1, TypeOf[a]) /\ ~NoList(r2, TypeOf[a]) BY <1>3, <1>6 DEF Complete
  <2>3. PICK b \in Aliases : TypeOf[b] = TypeOf[a] /\ r1.rows[b] # <<>> BY <2>2 DEF NoList
  <2>4. PICK j \in 1..Len(AliasSeq) : b = AliasSeq[j] BY AliasesTyped
  <2>5. s.reply.rows[b] \in {r1.rows[b], r1.rows[b] \o r2.rows[b]} BY <2>1, <2>4 DEF Joined, Both
  <2>6. r1.rows[b] \in Seq(Nat) /\ r2.rows[b] \in Seq(Nat) BY DEF Replies
  <2>7. r1.rows[b] \o r2.rows[b] # <<>>
    <3>1. PICK x, y : x = r1.rows[b] /\ y = r2.rows[b] OBVIOUS
    <3> QED BY <2>3, <2>6, <3>1, JoinIsNotEmpty
  <2>8. s.reply.rows[b] # <<>> BY <2>3, <2>5, <2>7
  <2>9. ~NoList(s.reply, TypeOf[a]) BY <2>3, <2>8 DEF NoList
  <2> QED BY <1>5, <2>1, <2>2, <2>9 DEF AliasMerged
<1>7. CASE q.stop /\ q.reply = r2 BY <1>5, <1>6, <1>7 DEF MergedTo, AliasMerged
<1>8. CASE q.stop /\ q.reply = s.reply
  <2>1. CASE s.stop /\ s.reply = r2 BY <1>7, <1>8, <2>1
  <2>2. CASE Joined(s.reply, r1, r2, m)
    <3>1. Joined(q.reply, r1, r2, m + 1)
      <4> SUFFICES ASSUME NEW j \in 1..Len(AliasSeq)
                   PROVE  /\ q.reply.rows[AliasSeq[j]] \in {r1.rows[AliasSeq[j]], Both(r1, r2, AliasSeq[j])}
                          /\ j > m + 1 => q.reply.rows[AliasSeq[j]] = r1.rows[AliasSeq[j]]
          BY DEF Joined
      <4>1. j > m + 1 => j > m BY AliasesTyped
      <4> QED BY <1>8, <2>2, <4>1 DEF Joined
    <3> QED BY <1>5, <1>6, <1>8, <3>1 DEF MergedTo, AliasMerged
  <2> QED BY <2>1, <2>2 DEF MergedTo
<1>9. CASE q = s /\ s.stop BY <1>8, <1>9
<1>10. CASE /\ ~q.stop /\ ~s.stop
            /\ q.reply.listed = s.reply.listed
            /\ q.reply.rows = [s.reply.rows EXCEPT ![a] = @ \o r2.rows[a]]
  <2>1. Joined(s.reply, r1, r2, m) BY <1>10 DEF MergedTo
  <2>2. s.reply.rows \in [Aliases -> Seq(Nat)] BY <1>4 DEF Replies
  <2>3. ASSUME NEW j \in 1..Len(AliasSeq), j # m + 1
        PROVE  q.reply.rows[AliasSeq[j]] = s.reply.rows[AliasSeq[j]]
    <3>1. AliasSeq[j] # a /\ AliasSeq[j] \in Aliases
          BY <1>1, <1>2, <2>3, QueryAssumption, AliasesTyped
    <3> QED BY <1>10, <2>2, <3>1
  <2>4. q.reply.rows[a] = Both(r1, r2, a)
    <3>1. s.reply.rows[a] = r1.rows[a] BY <1>1, <1>2, <2>1 DEF Joined
    <3> QED BY <1>3, <1>10, <2>2, <3>1 DEF Both
  <2>5. Joined(q.reply, r1, r2, m + 1)
    <3> SUFFICES ASSUME NEW j \in 1..Len(AliasSeq)
                 PROVE  /\ q.reply.rows[AliasSeq[j]] \in {r1.rows[AliasSeq[j]], Both(r1, r2, AliasSeq[j])}
                        /\ j > m + 1 => q.reply.rows[AliasSeq[j]] = r1.rows[AliasSeq[j]]
        BY DEF Joined
    <3>1. CASE j = m + 1 BY <1>2, <2>4, <3>1
    <3>2. CASE j # m + 1
      <4>1. q.reply.rows[AliasSeq[j]] = s.reply.rows[AliasSeq[j]] BY <2>3, <3>2
      <4>2. j > m + 1 => j > m BY AliasesTyped
      <4> QED BY <2>1, <4>1, <4>2 DEF Joined
    <3> QED BY <3>1, <3>2
  <2>6. ASSUME Complete(r1, r2), NEW j \in 1..(m + 1)
        PROVE  q.reply.rows[AliasSeq[j]] = Both(r1, r2, AliasSeq[j])
    <3>1. CASE j = m + 1 BY <1>2, <2>4, <3>1
    <3>2. CASE j # m + 1
      <4>1. j \in 1..m /\ j \in 1..Len(AliasSeq) BY <1>1, <3>2, AliasesTyped
      <4>2. s.reply.rows[AliasSeq[j]] = Both(r1, r2, AliasSeq[j]) BY <2>6, <4>1 DEF MergedTo
      <4> QED BY <2>3, <3>2, <4>1, <4>2
    <3> QED BY <3>1, <3>2
  <2>7. Complete(r1, r2) => q.reply.listed BY <1>10 DEF MergedTo
  <2> QED BY <1>5, <1>10, <2>5, <2>6, <2>7 DEF MergedTo, AliasMerged
<1> QED BY <1>5, <1>7, <1>8, <1>9, <1>10 DEF AliasMerged

(* What MergeUQLReply makes of two replies: the second one, or the first one *)
(* with the rows of some aliases joined to it; and those of every alias, if  *)
(* the first lists the aliases and no list is missing.                       *)
LEMMA Merged ==
  ASSUME NEW r1 \in Replies, NEW r2 \in Replies, NEW r, r = MergeUQLReply(r1, r2)
  PROVE  /\ r \in Replies
         /\ \/ r = r2
            \/ \A a \in Aliases : r.rows[a] \in {r1.rows[a], Both(r1, r2, a)}
         /\ Complete(r1, r2) => r.listed /\ \A a \in Aliases : r.rows[a] = Both(r1, r2, a)
<1>1. PICK g : /\ g = [i \in 0..Len(AliasSeq) |->
                         IF i = 0 THEN [stop |-> ~r1.listed, reply |-> r1]
                         ELSE MergeAlias(g[i - 1], r2, AliasSeq[i])]
               /\ r = g[Len(AliasSeq)].reply
      BY LoopDefined
<1> DEFINE Good == {i \in Nat : i <= Len(AliasSeq) => MergedTo(g[i], r1, r2, i)}
<1>2. 0 \in Good
  <2>1. g[0] = [stop |-> ~r1.listed, reply |-> r1] BY <1>1, AliasesTyped
  <2>2. r1.listed \in BOOLEAN BY DEF Replies
  <2>3. g[0].stop = ~r1.listed /\ g[0].reply = r1 BY <2>1
  <2>4. Joined(r1, r1, r2, 0) BY DEF Joined
  <2>5. Complete(r1, r2) => r1.listed BY DEF Complete
  <2>6. 1..0 = {} OBVIOUS
  <2>7. MergedTo(g[0], r1, r2, 0) BY <2>2, <2>3, <2>4, <2>5, <2>6 DEF MergedTo
  <2> QED BY <2>7
<1>3. ASSUME NEW m \in Good PROVE m + 1 \in Good
  <2> SUFFICES ASSUME m + 1 <= Len(AliasSeq) PROVE MergedTo(g[m + 1], r1, r2, m + 1)
      OBVIOUS
  <2>1. /\ m \in Nat /\ m <= Len(AliasSeq) /\ m + 1 \in 0..Len(AliasSeq)
        /\ m + 1 # 0 /\ (m + 1) - 1 = m
        BY AliasesTyped
  <2>2. MergedTo(g[m], r1, r2, m) BY <2>1
  <2>3. g[m + 1] = MergeAlias(g[m], r2, AliasSeq[m + 1]) BY <1>1, <2>1
  <2> HIDE DEF Good
  <2> QED BY <2>1, <2>2, <2>3, MergeLoopStep
<1>4. MergedTo(g[Len(AliasSeq)], r1, r2, Len(AliasSeq))
  <2>1. Good \in SUBSET Nat OBVIOUS
  <2>2. Good = Nat
    <3> HIDE DEF Good
    <3> QED BY <1>2, <1>3, <2>1, SetInduction
  <2>3. Len(AliasSeq) \in Good
    <3> HIDE DEF Good
    <3> QED BY <2>2, AliasesTyped
  <2> QED BY <2>3, AliasesTyped
<1>5. r \in Replies BY <1>1, <1>4 DEF MergedTo
<1>6. \/ r = r2
      \/ \A a \in Aliases : r.rows[a] \in {r1.rows[a], Both(r1, r2, a)}
      BY <1>1, <1>4, AliasesTyped DEF MergedTo, Joined
<1>7. Complete(r1, r2) => r.listed /\ \A a \in Aliases : r.rows[a] = Both(r1, r2, a)
      BY <1>1, <1>4, AliasesTyped DEF MergedTo
<1> QED BY <1>5, <1>6, <1>7

-----------------------------------------------------------------------------
(* A record's rows behind the rows of the records before it. *)
LEMMA JoinRow ==
  ASSUME NEW x \in Seq(Nat), NEW n \in Nat, Increasing(x), \A i \in DOMAIN x : x[i] < n
  PROVE  /\ Increasing(x \o <<n>>) /\ Vals(x \o <<n>>) = Vals(x) \cup {n}
         /\ Increasing(x \o <<>>) /\ Vals(x \o <<>>) = Vals(x)
<1>1. x \o <<>> = x BY ConcatEmptySeq
<1>2. PICK y : y = x \o <<n>> OBVIOUS
<1>3. Len(x) \in Nat /\ DOMAIN x = 1..Len(x) BY LenProperties
<1>4. <<n>> \in Seq(Nat) /\ Len(<<n>>) = 1 /\ <<n>>[1] = n OBVIOUS
<1>5. y \in Seq(Nat) /\ Len(y) = Len(x) + 1 /\ DOMAIN y = 1..(Len(x) + 1)
      BY <1>2, <1>3, <1>4, ConcatProperties, LenProperties
<1>6. \A i \in 1..Len(x) : y[i] = x[i] BY <1>2, <1>3, <1>4, ConcatProperties
<1>7. y[Len(x) + 1] = n BY <1>2, <1>3, <1>4, ConcatProperties
<1>8. Increasing(y)
  <2> SUFFICES ASSUME NEW i \in 1..(Len(x) + 1), NEW j \in 1..(Len(x) + 1), i < j
               PROVE  y[i] < y[j]
      BY <1>5 DEF Increasing
  <2>1. i \in 1..Len(x) BY <1>3
  <2>2. CASE j = Len(x) + 1 BY <1>3, <1>6, <1>7, <2>1, <2>2
  <2>3. CASE j \in 1..Len(x) BY <1>3, <1>6, <2>1, <2>3 DEF Increasing
  <2>4. j = Len(x) + 1 \/ j \in 1..Len(x) BY <1>3
  <2> QED BY <2>2, <2>3, <2>4
<1>9. Vals(y) = Vals(x) \cup {n}
  <2>1. \A i \in 1..(Len(x) + 1) : i \in 1..Len(x) \/ i = Len(x) + 1 BY <1>3
  <2>2. \A i \in 1..Len(x) : i \in 1..(Len(x) + 1) BY <1>3
  <2>3. Len(x) + 1 \in 1..(Len(x) + 1) BY <1>3
  <2> QED BY <1>3, <1>5, <1>6, <1>7, <2>1, <2>2, <2>3 DEF Vals
<1> QED BY <1>1, <1>2, <1>8, <1>9

LEMMA AsReplyTyped ==
  ASSUME NEW n \in Nat, NEW rec \in Records
  PROVE  /\ AsReply(n, rec) \in Replies
         /\ AsReply(n, rec).listed = rec.listed
         /\ \A a \in Aliases : AsReply(n, rec).rows[a] = IF a \in rec.has THEN <<n>> ELSE <<>>
<1>1. <<n>> \in Seq(Nat) /\ <<>> \in Seq(Nat) OBVIOUS
<1>2. rec.listed \in BOOLEAN BY DEF Records
<1>3. [a \in Aliases |-> IF a \in rec.has THEN <<n>> ELSE <<>>] \in [Aliases -> Seq(Nat)] BY <1>1
<1> QED BY <1>2, <1>3 DEF AsReply, Replies

(* A record that arrives behind them changes nothing about the ones received. *)
LEMMA SentBehind ==
  ASSUME NEW r, NEW s \in Seq(Records), NEW n \in 0..Len(s), NEW s2,
         \A i \in 1..n : s2[i] = s[i], GoodReply(r, s, n)
  PROVE  GoodReply(r, s2, n)
<1>1. \A a \in Aliases : CameIn(s2, n, a) = CameIn(s, n, a) BY DEF CameIn
<1>2. RegularIn(s2, n) = RegularIn(s, n) BY DEF RegularIn
<1> QED BY <1>1, <1>2 DEF GoodReply

(* The first record is the reply. *)
LEMMA FirstGood ==
  ASSUME NEW s \in Seq(Records), 1 \in 1..Len(s)
  PROVE  GoodReply(AsReply(1, s[1]), s, 1)
<1>1. s[1] \in Records OBVIOUS
<1>2. PICK r : r = AsReply(1, s[1]) OBVIOUS
<1>3. /\ r \in Replies /\ r.listed = s[1].listed
      /\ \A a \in Aliases : r.rows[a] = IF a \in s[1].has THEN <<1>> ELSE <<>>
      BY <1>1, <1>2, AsReplyTyped
<1>4. Increasing(<<1>>) /\ Increasing(<<>>) /\ Vals(<<1>>) = {1} /\ Vals(<<>>) = {}
      BY DEF Increasing, Vals
<1>5. 1..1 = {1} OBVIOUS
<1>6. ASSUME NEW a \in Aliases
      PROVE  Increasing(r.rows[a]) /\ Vals(r.rows[a]) = CameIn(s, 1, a)
      BY <1>3, <1>4, <1>5 DEF CameIn
<1>7. RegularIn(s, 1) => r.listed BY <1>3 DEF RegularIn
<1> QED BY <1>2, <1>3, <1>6, <1>7 DEF GoodReply

(* Every further record is merged into it. *)
LEMMA NextGood ==
  ASSUME NEW s \in Seq(Records), NEW n \in Nat, n > 0, n + 1 \in 1..Len(s),
         NEW r1, GoodReply(r1, s, n)
  PROVE  GoodReply(MergeUQLReply(r1, AsReply(n + 1, s[n + 1])), s, n + 1)
<1>1. s[n + 1] \in Records /\ Len(s) \in Nat OBVIOUS
<1>2. PICK r2, r : r2 = AsReply(n + 1, s[n + 1]) /\ r = MergeUQLReply(r1, r2) OBVIOUS
<1>3. /\ r2 \in Replies /\ r2.listed = s[n + 1].listed
      /\ \A a \in Aliases : r2.rows[a] = IF a \in s[n + 1].has THEN <<n + 1>> ELSE <<>>
      BY <1>1, <1>2, AsReplyTyped
<1>4. r1 \in Replies BY DEF GoodReply
<1>5. /\ r \in Replies
      /\ \/ r = r2
         \/ \A a \in Aliases : r.rows[a] \in {r1.rows[a], Both(r1, r2, a)}
      /\ Complete(r1, r2) => r.listed /\ \A a \in Aliases : r.rows[a] = Both(r1, r2, a)
      BY <1>2, <1>3, <1>4, Merged
<1>6. \A a \in Aliases : CameIn(s, n + 1, a) =
          CameIn(s, n, a) \cup (IF a \in s[n + 1].has THEN {n + 1} ELSE {})
  <2>1. 1..(n + 1) = 1..n \cup {n + 1} OBVIOUS
  <2> QED BY <2>1 DEF CameIn
<1>7. ASSUME NEW a \in Aliases
      PROVE  /\ Increasing(Both(r1, r2, a))
             /\ Vals(Both(r1, r2, a)) =
                  Vals(r1.rows[a]) \cup (IF a \in s[n + 1].has THEN {n + 1} ELSE {})
  <2>1. PICK x : x = r1.rows[a] OBVIOUS
  <2>2. x \in Seq(Nat) BY <1>4, <2>1 DEF Replies
  <2>3. Increasing(x) /\ Vals(x) \subseteq CameIn(s, n, a) BY <2>1 DEF GoodReply
  <2>4. ASSUME NEW i \in DOMAIN x PROVE x[i] < n + 1
    <3>1. x[i] \in Vals(x) BY DEF Vals
    <3>2. x[i] \in 1..n BY <2>3, <3>1 DEF CameIn
    <3> QED BY <3>2
  <2>5. /\ Increasing(x \o <<n + 1>>) /\ Vals(x \o <<n + 1>>) = Vals(x) \cup {n + 1}
        /\ Increasing(x \o <<>>) /\ Vals(x \o <<>>) = Vals(x)
        BY <2>2, <2>3, <2>4, JoinRow
  <2> QED BY <1>3, <2>1, <2>5 DEF Both
<1>8. ASSUME NEW a \in Aliases
      PROVE  Increasing(r.rows[a]) /\ Vals(r.rows[a]) \subseteq CameIn(s, n + 1, a)
  <2>1. CASE r = r2
    <3>1. Increasing(<<n + 1>>) /\ Increasing(<<>>) /\ Vals(<<n + 1>>) = {n + 1} /\ Vals(<<>>) = {}
          BY DEF Increasing, Vals
    <3> QED BY <1>3, <1>6, <2>1, <3>1
  <2>2. CASE r.rows[a] = r1.rows[a]
    <3>1. Increasing(r1.rows[a]) /\ Vals(r1.rows[a]) \subseteq CameIn(s, n, a) BY DEF GoodReply
    <3> QED BY <1>6, <2>2, <3>1
  <2>3. CASE r.rows[a] = Both(r1, r2, a)
    <3>1. Vals(r1.rows[a]) \subseteq CameIn(s, n, a) BY DEF GoodReply
    <3> QED BY <1>6, <1>7, <2>3, <3>1
  <2> QED BY <1>5, <2>1, <2>2, <2>3
<1>9. ASSUME RegularIn(s, n + 1)
      PROVE  r.listed /\ \A a \in Aliases : Vals(r.rows[a]) = CameIn(s, n + 1, a)
  <2>1. RegularIn(s, n)
    <3>1. \A i \in 1..n : i \in 1..(n + 1) OBVIOUS
    <3> QED BY <1>9, <3>1 DEF RegularIn
  <2>2. r1.listed /\ \A a \in Aliases : Vals(r1.rows[a]) = CameIn(s, n, a)
        BY <2>1 DEF GoodReply
  <2>3. Complete(r1, r2)
    <3> SUFFICES ASSUME NEW a \in Aliases
                 PROVE  ~NoList(r1, TypeOf[a]) /\ ~NoList(r2, TypeOf[a])
        BY <2>2 DEF Complete
    <3>1. ~NoList(r1, TypeOf[a])
      <4>1. 1 \in 1..n /\ s[1] \in Records OBVIOUS
      <4>2. PICK b \in s[1].has : TypeOf[b] = TypeOf[a] BY <2>1, <4>1 DEF RegularIn
      <4>3. b \in Aliases BY <4>1, <4>2 DEF Records
      <4>4. 1 \in Vals(r1.rows[b]) BY <2>2, <4>1, <4>2, <4>3 DEF CameIn
      <4>5. r1.rows[b] # <<>> BY <4>4 DEF Vals
      <4> QED BY <4>2, <4>3, <4>5 DEF NoList
    <3>2. ~NoList(r2, TypeOf[a])
      <4>1. PICK b \in s[n + 1].has : TypeOf[b] = TypeOf[a] BY <1>9 DEF RegularIn
      <4>2. b \in Aliases BY <1>1, <4>1 DEF Records
      <4>3. r2.rows[b] = <<n + 1>> BY <1>3, <4>1, <4>2
      <4>4. r2.rows[b] # <<>> BY <4>3
      <4> QED BY <4>1, <4>2, <4>4 DEF NoList
    <3> QED BY <3>1, <3>2
  <2> QED BY <1>5, <1>6, <1>7, <2>2, <2>3
<1> QED BY <1>2, <1>5, <1>8, <1>9 DEF GoodReply

LEMMA MergeInitially == Init => MergeInv
BY DEF Init, MergeInv

LEMMA MergeStep == ASSUME IInv, MergeInv, [Next]_vars PROVE MergeInv'
<1>1. sent \in Seq(Records) /\ got \in 0..Len(sent) /\ Len(sent) \in Nat BY DEF IInv, TypeOK
<1>2. ASSUME NEW r \in Records, ServerSend(r) PROVE MergeInv'
  <2>1. sent' = Append(sent, r) /\ UNCHANGED <<call, pc, got, reply>> BY <1>2 DEF ServerSend
  <2>2. \A i \in 1..got : sent'[i] = sent[i] BY <1>1, <2>1
  <2>3. reply # <<>> => GoodReply(reply[1], sent', got) BY <1>1, <2>2, SentBehind DEF MergeInv
  <2> QED BY <2>1, <2>3 DEF MergeInv
<1>3. CASE RecvRecord
  <2>1. /\ pc = "recv" /\ ~call.stream /\ got + 1 \in 1..Len(sent) /\ got' = got + 1
        /\ UNCHANGED <<call, sent>> /\ got \in Nat
        BY <1>1, <1>3 DEF RecvRecord, CanRecv
  <2>2. CASE reply = <<>> /\ pc' = "returned" /\ UNCHANGED reply
        BY <2>1, <2>2 DEF MergeInv
  <2>3. CASE reply = <<>> /\ reply' = <<AsReply(got + 1, sent[got + 1])>>
    <3>1. got = 0 BY <2>1, <2>3 DEF MergeInv
    <3>2. reply' = <<AsReply(1, sent[1])>> /\ got' = 1 /\ 1 \in 1..Len(sent) BY <2>1, <2>3, <3>1
    <3>3. GoodReply(AsReply(1, sent[1]), sent, 1) BY <1>1, <3>2, FirstGood
    <3>4. Len(reply') = 1 /\ reply'[1] = AsReply(1, sent[1]) BY <3>2
    <3> QED BY <2>1, <3>2, <3>3, <3>4 DEF MergeInv
  <2>4. CASE reply # <<>> /\ reply' = <<MergeUQLReply(reply[1], AsReply(got + 1, sent[got + 1]))>>
    <3>1. got > 0 /\ GoodReply(reply[1], sent, got) BY <2>4 DEF MergeInv
    <3>2. GoodReply(MergeUQLReply(reply[1], AsReply(got + 1, sent[got + 1])), sent, got + 1)
          BY <1>1, <2>1, <3>1, NextGood
    <3>3. /\ Len(reply') = 1
          /\ reply'[1] = MergeUQLReply(reply[1], AsReply(got + 1, sent[got + 1]))
          BY <2>4
    <3> QED BY <2>1, <3>2, <3>3 DEF MergeInv
  <2> QED BY <1>3, <2>2, <2>3, <2>4 DEF RecvRecord, Record, Return
<1>4. CASE RecvStream
  <2>1. call.stream /\ UNCHANGED <<call, reply>> BY <1>4 DEF RecvStream
  <2> QED BY <2>1 DEF MergeInv
<1>5. CASE QueryOpens
  <2>1. got = 0 /\ UNCHANGED <<call, sent, got, reply>> BY <1>5 DEF QueryOpens, IInv, PhaseInv
  <2> QED BY <2>1 DEF MergeInv
<1>6. CASE GetClientFails \/ NewContextFails \/ NewContext \/ QueryFails \/ RecvEOF \/ RecvError
  <2>1. UNCHANGED <<call, sent, got, reply>> /\ pc' # "recv"
        BY <1>6 DEF GetClientFails, NewContextFails, NewContext, QueryFails, RecvEOF, RecvError, Return
  <2> QED BY <2>1 DEF MergeInv
<1>7. CASE Expire \/ (\E e \in {"eof", "broken"} : ServerEnd(e)) \/ UNCHANGED vars
  <2>1. UNCHANGED <<call, pc, sent, got, reply>> BY <1>7 DEF Expire, ServerEnd, vars
  <2> QED BY <2>1 DEF MergeInv
<1> QED BY <1>2, <1>3, <1>4, <1>5, <1>6, <1>7 DEF Next, Client

\* NewUQLResponse merges the records of a reply so that no row is repeated,
\* moved or made up whatever lists they have, and none is lost when they have
\* them all; Get then finds the rows under their own type.
THEOREM MergesAreExact == Spec => []MergeIsExact
<1>1. IInv /\ MergeInv => MergeIsExact
  <2> SUFFICES ASSUME IInv, MergeInv, reply # <<>>, NEW a \in Aliases
               PROVE  /\ Increasing(reply[1].rows[a]) /\ RowsOf(a) \subseteq Came(a)
                      /\ Regular => RowsOf(a) = Came(a)
                      /\ (result = "response" /\ status = "success" /\ Regular /\ Came(a) # {}) =>
                           \A i \in DOMAIN AliasSeq : AliasSeq[i] = a =>
                               Get(i) = [data |-> reply[1].rows[a], type |-> TypeOf[a]]
      BY DEF MergeIsExact
  <2>1. GoodReply(reply[1], sent, got) BY DEF MergeInv
  <2>2. /\ RowsOf(a) = Vals(reply[1].rows[a]) /\ Came(a) = CameIn(sent, got, a)
        /\ Regular = RegularIn(sent, got)
        BY DEF RowsOf, Vals, Came, CameIn, Regular, RegularIn
  <2>3. Increasing(reply[1].rows[a]) /\ RowsOf(a) \subseteq Came(a) BY <2>1, <2>2 DEF GoodReply
  <2>4. Regular => reply[1].listed /\ RowsOf(a) = Came(a) BY <2>1, <2>2 DEF GoodReply
  <2>5. ASSUME status = "success", Regular, Came(a) # {}, NEW i \in DOMAIN AliasSeq, AliasSeq[i] = a
        PROVE  Get(i) = [data |-> reply[1].rows[a], type |-> TypeOf[a]]
    <3>1. reply[1] \in Replies BY <2>1 DEF GoodReply
    <3>2. reply[1].rows[a] # <<>>
      <4>1. Vals(reply[1].rows[a]) # {} BY <2>2, <2>4, <2>5
      <4> QED BY <4>1 DEF Vals
    <3>3. FindAliasDataInReply(reply[1], a) = [data |-> reply[1].rows[a], type |-> TypeOf[a]]
          BY <2>4, <2>5, <3>1, <3>2, Found
    <3>4. Get(i) = FindAliasDataInReply(reply[1], a) BY <2>4, <2>5 DEF Get
    <3> QED BY <3>3, <3>4
  <2> QED BY <2>3, <2>4, <2>5
<1>2. IInv /\ MergeInv /\ [Next]_vars => MergeInv' BY MergeStep
<1> QED BY <1>1, <1>2, MergeInitially, Invariance, PTL DEF Spec
=============================================================================
