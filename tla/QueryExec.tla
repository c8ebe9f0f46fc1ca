------------------------------ MODULE QueryExec ------------------------------
(***************************************************************************)
(* One call of Uql/Gql (api.query) or UqlStream/GqlStream (api.queryStream) *)
(* against a server that streams its reply in records:                     *)
(*   doExecuteQuery (sdk/api/api.go) opens the stream, trying twice;       *)
(*   NewUQLResponse (sdk/http/response.query.go) reads it to its end and   *)
(*     merges the records with MergeUQLReply (sdk/utils/merge.reply.go);   *)
(*   Response.Recv (sdk/http/responseStream.go) hands each record to the   *)
(*     caller's callback.                                                  *)
(*                                                                         *)
(* A record may list the result aliases, and has rows for some of them;    *)
(* the entries of one result type (nodes, edges, tables, ...) make up one  *)
(* list of the record, which is nil when it has no entry.  A row stands    *)
(* for the number of the record it came in.                                *)
(***************************************************************************)
EXTENDS Integers, Sequences

CONSTANTS AliasSeq,     \* the result aliases, in the order of Reply.Alias
          TypeOf,       \* the result type of each alias
          MaxRecords,   \* a bound on the records of a reply
          Window        \* a bound on the records in flight

Aliases == {AliasSeq[i] : i \in DOMAIN AliasSeq}

ASSUME QueryAssumption ==
    /\ AliasSeq \in Seq(Aliases)
    /\ MaxRecords \in Nat /\ Window \in Nat \ {0}
    /\ \A i, j \in DOMAIN AliasSeq : AliasSeq[i] = AliasSeq[j] => i = j

(* A record that reports a failure, or whose statistics do not parse. *)
Faults == {"none", "status", "statistic"}
Records == [listed : BOOLEAN, has : SUBSET Aliases, fault : Faults]
Results == {"none", "nil", "response", "noClient", "panic", "rpc",
            "recvError", "statError", "statusError", "cbError"}

VARIABLES
    call,       \* the caller's arguments
    pc,         \* where the call is
    ctx,        \* the context made for the call
    sent,       \* the records that the server has sent
    ended,      \* whether and how the server ended the stream
    got,        \* the number of records received
    reply,      \* response.Reply, as a sequence of at most one reply
    status,     \* response.Status.Code
    delivered,  \* the records that the callback was given
    result      \* what the call returned

vars == <<call, pc, ctx, sent, ended, got, reply, status, delivered, result>>

(* host: RequestConfig.Host is set; zone: time.LoadLocation knows the time *)
(* zone; deadline: the timeout is not negative.                            *)
Calls == [stream : BOOLEAN, host : BOOLEAN, zone : BOOLEAN, deadline : BOOLEAN]

(* What reply may hold is what MergeIsExact is about. *)
TypeOK ==
    /\ call \in Calls
    /\ pc \in {"call", "query", "retry", "recv", "returned"}
    /\ ctx \in {"none", "live", "expired"}
    /\ sent \in Seq(Records)
    /\ ended \in {"open", "eof", "broken"}
    /\ got \in 0..Len(sent)
    /\ status \in {"success", "failed"}
    /\ delivered \in Seq(Nat)
    /\ result \in Results

Init ==
    /\ call \in Calls
    /\ pc = "call"
    /\ ctx = "none"
    /\ sent = <<>>
    /\ ended = "open"
    /\ got = 0
    /\ reply = <<>>
    /\ status = "success"
    /\ delivered = <<>>
    /\ result = "none"

-----------------------------------------------------------------------------
(* utils.MergeUQLReply: the loop over the aliases of reply1 returns as soon *)
(* as one of the two replies has no list of the alias's type.               *)
AsReply(n, r) ==
    [listed |-> r.listed, rows |-> [a \in Aliases |-> IF a \in r.has THEN <<n>> ELSE <<>>]]

NoList(r, t) == \A a \in Aliases : TypeOf[a] = t => r.rows[a] = <<>>

\* One alias of the loop; a step with stop set is a return from the function.
MergeAlias_NoContinue(step, r2, a) ==
    IF step.stop THEN step
    ELSE [step EXCEPT !.reply.rows[a] =
            IF @ = <<>> THEN r2.rows[a] \o r2.rows[a] ELSE @ \o r2.rows[a]]
MergeAlias(step, r2, a) ==
    IF step.stop THEN step
    ELSE LET r1 == step.reply
             t == TypeOf[a]
         IN  IF NoList(r1, t) /\ ~NoList(r2, t) THEN [stop |-> TRUE, reply |-> r2]
             ELSE IF NoList(r2, t) THEN [stop |-> TRUE, reply |-> r1]
             ELSE [stop |-> FALSE, reply |-> [r1 EXCEPT !.rows[a] = @ \o r2.rows[a]]]

MergeUQLReply(r1, r2) ==
    LET loop[i \in 0..Len(AliasSeq)] ==
            IF i = 0 THEN [stop |-> ~r1.listed, reply |-> r1]
            ELSE MergeAlias(loop[i - 1], r2, AliasSeq[i])
    IN  loop[Len(AliasSeq)].reply

(* utils.FindAliasDataInReply: the entry of an alias is looked up in the    *)
(* lists of the types of the listed aliases, in their order; the type of an *)
(* alias without an entry is that of the last one.                          *)
unset == [data |-> <<>>, type |-> "UNSET"]
FindAliasDataInReply(r, a) ==
    LET find[i \in 0..Len(AliasSeq)] ==
            IF i = 0 THEN unset
            ELSE IF find[i - 1].data # <<>> THEN find[i - 1]
            ELSE LET t == TypeOf[AliasSeq[i]]
                 IN  [data |-> IF TypeOf[a] = t THEN r.rows[a] ELSE <<>>, type |-> t]
    IN  IF r.listed THEN find[Len(AliasSeq)] ELSE unset

-----------------------------------------------------------------------------
(* The server and the network. *)
ServerSend(r) ==
    /\ pc = "recv" /\ ended = "open" /\ Len(sent) < MaxRecords /\ Len(sent) - got < Window
    /\ sent' = Append(sent, r)
    /\ UNCHANGED <<call, pc, ctx, ended, got, reply, status, delivered, result>>

ServerEnd(e) ==
    /\ pc = "recv" /\ ended = "open"
    /\ ended' = e
    /\ UNCHANGED <<call, pc, ctx, sent, got, reply, status, delivered, result>>

\* context.WithTimeout: the timer fires, whether or not the call has returned.
Expire ==
    /\ ctx = "live" /\ call.deadline
    /\ ctx' = "expired"
    /\ UNCHANGED <<call, pc, sent, ended, got, reply, status, delivered, result>>

-----------------------------------------------------------------------------
Return(r) == pc' = "returned" /\ result' = r

GetClientFails ==
    /\ pc = "call"
    /\ Return("noClient")
    /\ UNCHANGED <<call, ctx, sent, ended, got, reply, status, delivered>>

\* NewContext refuses the time zone and returns a nil cancel, which is deferred.
NewContextFails ==
    /\ pc = "call" /\ ~call.zone
    /\ Return("panic")
    /\ UNCHANGED <<call, ctx, sent, ended, got, reply, status, delivered>>

NewContext ==
    /\ pc = "call" /\ call.zone
    /\ pc' = "query"
    /\ ctx' = "live"
    /\ UNCHANGED <<call, sent, ended, got, reply, status, delivered, result>>

\* client.Query fails; it is called a second time with the same context.
QueryFails ==
    /\ pc \in {"query", "retry"}
    /\ IF pc = "query" THEN pc' = "retry" /\ UNCHANGED result ELSE Return("rpc")
    /\ UNCHANGED <<call, ctx, sent, ended, got, reply, status, delivered>>

\* The stream is open; queryStream does not read it when a host was given.
QueryOpens ==
    /\ pc \in {"query", "retry"} /\ ctx = "live"
    /\ IF call.stream /\ call.host THEN Return("nil") ELSE pc' = "recv" /\ UNCHANGED result
    /\ UNCHANGED <<call, ctx, sent, ended, got, reply, status, delivered>>

-----------------------------------------------------------------------------
Record == sent[got + 1]
CanRecv == pc = "recv" /\ got < Len(sent)

\* NewUQLResponse: the statistics are parsed from the first record only, the
\* record is merged into the reply, and a failure ends the loop.
StopOnFailure_Ignored == FALSE
StopOnFailure == Record.fault = "status"
RecvRecord ==
    /\ CanRecv /\ ~call.stream
    /\ got' = got + 1
    /\ IF reply = <<>> /\ Record.fault = "statistic"
       THEN Return("statError") /\ UNCHANGED <<reply, status>>
       ELSE /\ reply' = IF reply = <<>> THEN <<AsReply(got + 1, Record)>>
                        ELSE <<MergeUQLReply(reply[1], AsReply(got + 1, Record))>>
            /\ status' = IF Record.fault = "status" THEN "failed" ELSE "success"
            /\ IF StopOnFailure THEN Return("response") ELSE UNCHANGED <<pc, result>>
    /\ UNCHANGED <<call, ctx, sent, ended, delivered>>

\* Response.Recv: every record is checked before the callback is given it.
RecvFails_AfterCallback == "none"
RecvFails == Record.fault
RecvStream ==
    /\ CanRecv /\ call.stream
    /\ got' = got + 1
    /\ CASE RecvFails = "statistic" -> Return("statError") /\ UNCHANGED delivered
         [] RecvFails = "status" -> Return("statusError") /\ UNCHANGED delivered
         [] OTHER -> /\ delivered' = Append(delivered, got + 1)
                     /\ Return("cbError") \/ UNCHANGED <<pc, result>>
    /\ UNCHANGED <<call, ctx, sent, ended, reply, status>>

\* io.EOF.  response.Reply.Alias is read even when no record came.
AtEnd == ended = "eof"
RecvEOF ==
    /\ pc = "recv" /\ got = Len(sent) /\ AtEnd
    /\ Return(CASE call.stream -> "nil"
                [] ~call.stream /\ reply = <<>> -> "panic"
                [] OTHER -> "response")
    /\ UNCHANGED <<call, ctx, sent, ended, got, reply, status, delivered>>

\* The stream breaks after the records that arrived, or the context expires.
ContextEnds_Ignored == FALSE
ContextEnds == ctx = "expired"
RecvError ==
    /\ pc = "recv"
    /\ ContextEnds \/ (got = Len(sent) /\ ended = "broken")
    /\ Return("recvError")
    /\ UNCHANGED <<call, ctx, sent, ended, got, reply, status, delivered>>

Client == \/ GetClientFails \/ NewContextFails \/ NewContext \/ QueryFails \/ QueryOpens
          \/ RecvRecord \/ RecvStream \/ RecvEOF \/ RecvError
Next == \/ Client \/ Expire
        \/ \E r \in Records : ServerSend(r)
        \/ \E e \in {"eof", "broken"} : ServerEnd(e)

Spec == Init /\ [][Next]_vars

(* The goroutine of the call runs and timers fire; the server owes nothing. *)
FairSpec == Spec /\ WF_vars(Client) /\ WF_vars(Expire)

-----------------------------------------------------------------------------
(* Response.Get of a response: AliasList is filled at the end of the stream *)
(* only, so that a response which reports failure has none.                 *)
Get(i) ==
    IF status = "success" /\ reply[1].listed THEN FindAliasDataInReply(reply[1], AliasSeq[i]) ELSE unset

Increasing(q) == \A i, j \in DOMAIN q : i < j => q[i] < q[j]
Came(a) == {i \in 1..got : a \in sent[i].has}
RowsOf(a) == {reply[1].rows[a][i] : i \in DOMAIN reply[1].rows[a]}

\* Every record lists the aliases and has a list of every type.
Regular ==
    \A i \in 1..got : sent[i].listed /\ \A a \in Aliases : \E b \in sent[i].has : TypeOf[b] = TypeOf[a]

\* Whatever lists the records have, merging never repeats, reorders or invents a
\* row: a row of the reply came once, in a record that had it.  When no record
\* lacks a list, the reply has all the rows that came, and what Get gives at the
\* place of an alias of which some came, in a response that reports success, is
\* these rows as a result of the alias's own type.
MergeIsExact ==
    reply # <<>> => \A a \in Aliases :
        /\ Increasing(reply[1].rows[a]) /\ RowsOf(a) \subseteq Came(a)
        /\ Regular => RowsOf(a) = Came(a)
        /\ (result = "response" /\ status = "success" /\ Regular /\ Came(a) # {}) =>
             \A i \in DOMAIN AliasSeq : AliasSeq[i] = a => Get(i) = [data |-> reply[1].rows[a], type |-> TypeOf[a]]

\* A response that reports success was read to the end of the stream; one that
\* reports failure stopped at the record that said so.
ResponseIsFinal ==
    result = "response" =>
        IF status = "success"
        THEN ended = "eof" /\ got = Len(sent) /\ \A i \in 1..got : sent[i].fault # "status"
        ELSE sent[got].fault = "status" /\ \A i \in 1..(got - 1) : sent[i].fault # "status"

\* The callback is given the records in order and none that reports a failure;
\* unless a host was given, a nil error means that it was given all of them.
StreamIsExact ==
    /\ \A i \in DOMAIN delivered : delivered[i] = i /\ sent[i].fault = "none"
    /\ result = "nil" /\ ~call.host => ended = "eof" /\ Len(delivered) = Len(sent)

\* What the call returned, in the terms of StreamConsumer.  A call that is given
\* a host, or collects a response, promises nothing about callbacks.
Told ==
    CASE result = "none" \/ ~call.stream \/ call.host -> "nothing"
      [] result = "nil" /\ call.stream /\ ~call.host -> "nil"
      [] OTHER -> "error"
Consumer == INSTANCE StreamConsumer WITH Good <- {r \in Records : r.fault = "none"}, told <- Told

\* UqlStream and GqlStream keep the promise of StreamConsumer, step by step: no
\* record that reports a failure reaches the callback, nor any after it or after
\* the call has returned, and what a call returned it does not take back.
ImplementsConsumer == Consumer!Spec

\* With a deadline a call returns even if the server never answers.
CallReturns == call.deadline ~> pc = "returned"

\* CHANGELOG.md, version 4.0.4: "Fix Context Memory leak".  A call that returned
\* has released its context.
NoContextOutlivesCall == pc = "returned" => ctx # "live"

\* request.config.go: Timezone is the "name of time zone , e.g. Aisa/Shanghai",
\* a name that time.LoadLocation refuses: the call returns, with an error or not.
AnyZoneReturns == ~call.zone => result # "panic"
=============================================================================
