---------------------------- MODULE CatalogProofs ----------------------------
(***************************************************************************)
(* Catalog implements CreateOnce, reports every write that failed, and      *)
(* creates the properties of a schema in their order, for any clients,      *)
(* objects and calls.                                                       *)
(*                                                                          *)
(* A client's part of the state is changed by its own steps only, so the    *)
(* invariant is one of a single client (ClientInv), and a step of another   *)
(* leaves it alone (lemma OthersKept).  That the objects of other clients   *)
(* come and go in between does no harm: "added" and "seen" are histories.   *)
(* BuiltInv, on top of it, says which properties are still to be created.   *)
(***************************************************************************)
EXTENDS Catalog, TLAPS

Labels == {"idle", "return", "statement", "hasGraph", "createGraph", "getSchema",
           "createSchema", "createProperties", "getProperty", "createProperty"}
Dropping == {"createSchemaIfNotExist", "initModel"}
Failures == {"error", "refused", "panic"}

Shape ==
  /\ store \subseteq Objects
  /\ pc = [c \in Clients |-> pc[c]] /\ req = [c \in Clients |-> req[c]]
  /\ props = [c \in Clients |-> props[c]] /\ resp = [c \in Clients |-> resp[c]]
  /\ out = [c \in Clients |-> out[c]] /\ told = [c \in Clients |-> told[c]]
  /\ added = [c \in Clients |-> added[c]] /\ seen = [c \in Clients |-> seen[c]]
  /\ spoilt = [c \in Clients |-> spoilt[c]]

\* Which calls are at which point.
ControlInv(c) ==
  /\ pc[c] \in Labels
  /\ pc[c] = "statement" => /\ req[c].op = "single"
                            /\ req[c].call.does = "create" => req[c].to = req[c].obj
  /\ pc[c] \in {"hasGraph", "createGraph"} => req[c].op \in {"createGraphIfNotExist", "initModel"}
  /\ pc[c] = "getSchema" => req[c].op \in {"createSchemaIfNotExist", "initModel"}
  /\ pc[c] = "createSchema" => req[c].op \in {"createSchema", "createSchemaIfNotExist", "initModel"}
  /\ pc[c] = "createProperties" => req[c].op \in {"createSchema", "createSchemaIfNotExist"}
  /\ pc[c] \in {"getProperty", "createProperty"} =>
       /\ req[c].op \in {"createPropertyIfNotExist", "initModel"}
       /\ req[c].op = "createPropertyIfNotExist" => props[c] = <<req[c].property>>

\* A call that is about to claim something has the right to.
ClaimInv(c) ==
  /\ pc[c] # "idle" => told[c] = [what |-> "nothing", obj |-> <<>>]
  /\ pc[c] = "createProperties" /\ resp[c] = "ok" => Target(req[c]) \in added[c]
  /\ pc[c] = "return" /\ out[c].exist => Target(req[c]) \in seen[c]
  /\ pc[c] = "return" /\ ~out[c].exist /\ out[c].result = "ok" /\ Target(req[c]) # <<>>
       => Target(req[c]) \in added[c]

\* A write that failed is the last of the call, or is kept in resp.
FailureInv(c) ==
  "write" \in spoilt[c] /\ req[c].op \notin Dropping =>
    \/ pc[c] \in {"return", "idle"} /\ out[c].result \in Failures
    \/ pc[c] = "createProperties" /\ resp[c] = "refused"

ClientInv(c) == ControlInv(c) /\ ClaimInv(c) /\ FailureInv(c)
IInv == Shape /\ \A c \in Clients : ClientInv(c)
-----------------------------------------------------------------------------
LEMMA InitInv == Init => IInv
<1> SUFFICES ASSUME Init PROVE IInv
    OBVIOUS
<1>1. Shape BY CatalogAssumption DEF Init, Shape
<1>2. ASSUME NEW c \in Clients PROVE ClientInv(c)
      BY DEF Init, ClientInv, ControlInv, ClaimInv, FailureInv, Labels
<1> QED BY <1>1, <1>2 DEF IInv

\* A statement that changes something, seen by the promise.
LEMMA ExecutePromised ==
  ASSUME NEW c \in Clients, NEW does, NEW o, NEW to, NEW reply,
         Execute(c, does, o, to, reply), UNCHANGED told,
         told[c] = [what |-> "nothing", obj |-> <<>>], Shape
  PROVE  [Promise!Next]_(Promise!vars)
<1>1. CASE UNCHANGED <<store, added>>
      BY <1>1 DEF Execute, Promise!vars
<1>2. CASE /\ Legal(does, o, to) /\ store' = Effect(does, o, to)
           /\ added' = [added EXCEPT ![c] = IF does = "create" THEN @ \cup {o} ELSE @]
  <2>1. UNCHANGED seen /\ told[c] = Promise!Nothing BY DEF Execute, Promise!Nothing
  <2>2. CASE does = "create"
    <3>1. Promise!Create(c) BY <1>2, <2>1, <2>2 DEF Legal, Effect, Promise!Create
    <3> QED BY <3>1 DEF Promise!Next
  <2>3. CASE does # "create"
    <3>1. added' = added BY <1>2, <2>3 DEF Shape
    <3>2. CASE does = "drop"
      <4>1. Promise!Remove(c)
            BY <1>2, <2>1, <3>1, <3>2 DEF Legal, Effect, Promise!Remove, Below, Promise!Below
      <4> QED BY <4>1 DEF Promise!Next
    <3>3. CASE does = "rename"
      <4>1. Promise!Rename(c)
            BY <1>2, <2>1, <3>1, <3>3 DEF Legal, Effect, Promise!Rename, Moved, Promise!Moved,
                                          Below, Promise!Below
      <4> QED BY <4>1 DEF Promise!Next
    <3>4. CASE does \notin {"create", "drop", "rename"}
      <4>1. store' = store BY <1>2, <3>4 DEF Effect
      <4> QED BY <2>1, <3>1, <4>1 DEF Promise!vars
    <3> QED BY <2>3, <3>2, <3>3, <3>4
  <2> QED BY <2>2, <2>3
<1> QED BY <1>1, <1>2 DEF Execute

LEMMA LookPromised ==
  ASSUME NEW c \in Clients, NEW o, NEW reply, Look(c, o, reply), UNCHANGED told,
         told[c] = [what |-> "nothing", obj |-> <<>>], Shape
  PROVE  [Promise!Next]_(Promise!vars)
<1>1. told[c] = Promise!Nothing /\ UNCHANGED <<store, added>> BY DEF Look, Promise!Nothing
<1>2. CASE o \in store /\ reply = "ok"
  <2>1. seen' = [seen EXCEPT ![c] = @ \cup {o}]
    <3>1. {o} \cap store = {o} BY <1>2
    <3> QED BY <1>2, <3>1 DEF Look
  <2>2. Promise!Look(c) BY <1>1, <1>2, <2>1 DEF Promise!Look
  <2> QED BY <2>2 DEF Promise!Next
<1>3. CASE ~(o \in store /\ reply = "ok")
  <2>1. seen' = seen
    <3>1. CASE reply # "ok" BY <3>1 DEF Look
    <3>2. CASE reply = "ok"
      <4>1. {o} \cap store = {} BY <1>3, <3>2
      <4> QED BY <3>2, <4>1 DEF Look, Shape
    <3> QED BY <3>1, <3>2
  <2> QED BY <1>1, <2>1 DEF Promise!vars
<1> QED BY <1>2, <1>3
-----------------------------------------------------------------------------
\* A step of c: nothing of another client changes.
Mine(c) ==
  /\ Shape'
  /\ \A e \in Clients \ {c} :
       /\ pc'[e] = pc[e] /\ req'[e] = req[e] /\ props'[e] = props[e] /\ resp'[e] = resp[e]
       /\ out'[e] = out[e] /\ told'[e] = told[e] /\ added'[e] = added[e] /\ seen'[e] = seen[e]
       /\ spoilt'[e] = spoilt[e]

LEMMA OthersKept ==
  ASSUME IInv, NEW c \in Clients, Mine(c), ClientInv(c)'
  PROVE  IInv'
<1>1. ASSUME NEW e \in Clients \ {c} PROVE ClientInv(e)'
      BY <1>1 DEF IInv, Mine, ClientInv, ControlInv, ClaimInv, FailureInv
<1> QED BY <1>1 DEF IInv, Mine

LEMMA ExecuteKeeps ==
  ASSUME Shape, NEW c \in Clients, NEW does, NEW o, NEW to, NEW reply,
         Execute(c, does, o, to, reply)
  PROVE  /\ store' \subseteq Objects /\ seen' = seen
         /\ added' = [e \in Clients |-> added'[e]] /\ spoilt' = [e \in Clients |-> spoilt'[e]]
         /\ \A e \in Clients \ {c} : added'[e] = added[e] /\ spoilt'[e] = spoilt[e]
         /\ added[c] \subseteq added'[c]
         /\ reply = "ok" => spoilt' = spoilt /\ (does = "create" => o \in added'[c])
         /\ reply = "ok" => Legal(does, o, to)
<1>1. store' \subseteq Objects
  <2>1. CASE UNCHANGED store BY <2>1 DEF Shape
  <2>2. CASE Legal(does, o, to) /\ store' = Effect(does, o, to)
    <3>1. CASE does = "create" BY <2>2, <3>1 DEF Legal, Effect, Shape
    <3>2. CASE does = "rename" BY <2>2, <3>2 DEF Legal, Effect
    <3>3. CASE does \notin {"create", "rename"} BY <2>2, <3>3 DEF Effect, Shape
    <3> QED BY <3>1, <3>2, <3>3
  <2> QED BY <2>1, <2>2 DEF Execute
<1>2. spoilt' = spoilt \/ (reply # "ok" /\ spoilt' = [spoilt EXCEPT ![c] = @ \cup {"write"}])
      BY DEF Execute, Spoil
<1>3. \/ added' = added /\ reply # "ok"
      \/ Legal(does, o, to) /\ added' = [added EXCEPT ![c] = IF does = "create" THEN @ \cup {o} ELSE @]
      BY DEF Execute
<1>4. seen' = seen BY DEF Execute
<1> QED BY <1>1, <1>2, <1>3, <1>4 DEF Shape

LEMMA LookKeeps ==
  ASSUME Shape, NEW c \in Clients, NEW o, NEW reply, Look(c, o, reply)
  PROVE  /\ store' = store /\ added' = added
         /\ seen' = [e \in Clients |-> seen'[e]] /\ spoilt' = [e \in Clients |-> spoilt'[e]]
         /\ \A e \in Clients \ {c} : seen'[e] = seen[e] /\ spoilt'[e] = spoilt[e]
         /\ "write" \in spoilt'[c] => "write" \in spoilt[c]
         /\ reply = "ok" /\ o \in store => o \in seen'[c]
<1>1. spoilt' = spoilt \/ spoilt' = [spoilt EXCEPT ![c] = @ \cup {"read"}]
      BY DEF Look, Spoil
<1>2. \/ seen' = seen /\ reply # "ok"
      \/ seen' = [seen EXCEPT ![c] = @ \cup ({o} \cap store)]
      BY DEF Look
<1>3. store' = store /\ added' = added BY DEF Look
<1> QED BY <1>1, <1>2, <1>3 DEF Shape
-----------------------------------------------------------------------------
(* One lemma per action: it keeps the invariant, and keeps the promise. *)

LEMMA BeginStep == ASSUME IInv, NEW c \in Clients, Begin(c) PROVE IInv' /\ [Promise!Next]_(Promise!vars)
<1>1. PICK r \in Requests[c] :
        /\ Accept(c, r)
        /\ Goto(c, CASE r.op \in {"createGraphIfNotExist", "initModel"} -> "hasGraph"
                     [] r.op = "createSchema" -> "createSchema"
                     [] r.op = "createSchemaIfNotExist" -> "getSchema"
                     [] r.op = "createPropertyIfNotExist" -> "getProperty"
                     [] r.op = "single" -> "statement")
        /\ props' = [props EXCEPT ![c] = CASE r.op = "createPropertyIfNotExist" -> <<r.property>>
                                     [] r.op \in {"createSchema", "createSchemaIfNotExist"} ->
                                          IF r.isCreateProperties
                                          THEN Creatables(r.schema) ELSE <<>>
                                     [] OTHER -> <<>>]
      BY DEF Begin
<1>2. Promise!Begin(c) BY <1>1 DEF Accept, Promise!Begin, Promise!Nothing
<1>3. Mine(c)
  <2>1. PICK l, list : pc' = [pc EXCEPT ![c] = l] /\ props' = [props EXCEPT ![c] = list]
        BY <1>1 DEF Goto
  <2>2. /\ req' = [req EXCEPT ![c] = r] /\ added' = [added EXCEPT ![c] = {}]
        /\ seen' = [seen EXCEPT ![c] = {}] /\ spoilt' = [spoilt EXCEPT ![c] = {}]
        /\ told' = [told EXCEPT ![c] = [what |-> "nothing", obj |-> <<>>]]
        /\ resp' = [resp EXCEPT ![c] = "nil"] /\ UNCHANGED <<store, out>>
        BY <1>1 DEF Accept
  <2> QED BY <2>1, <2>2 DEF IInv, Shape, Mine
<1>4. /\ r.op \in {"createGraphIfNotExist", "createSchema", "createSchemaIfNotExist",
                   "createPropertyIfNotExist", "initModel", "single"}
      /\ r.op = "single" /\ r.call.does = "create" => r.to = r.obj
      BY RequestsAssumption
<1>5. /\ req'[c] = r /\ spoilt'[c] = {} /\ told'[c] = [what |-> "nothing", obj |-> <<>>]
      /\ r.op = "createPropertyIfNotExist" => props'[c] = <<r.property>>
      /\ pc'[c] = CASE r.op \in {"createGraphIfNotExist", "initModel"} -> "hasGraph"
                    [] r.op = "createSchema" -> "createSchema"
                    [] r.op = "createSchemaIfNotExist" -> "getSchema"
                    [] r.op = "createPropertyIfNotExist" -> "getProperty"
                    [] r.op = "single" -> "statement"
      BY <1>1 DEF IInv, Shape, Accept, Goto
<1>6. ClientInv(c)'
  <2>1. ControlInv(c)' BY <1>4, <1>5 DEF ControlInv, Labels
  <2>2. ClaimInv(c)' BY <1>4, <1>5 DEF ClaimInv
  <2> QED BY <1>5, <2>1, <2>2 DEF ClientInv, FailureInv
<1> QED BY <1>2, <1>3, <1>6, OthersKept DEF Promise!Next

LEMMA ReturnStep == ASSUME IInv, NEW c \in Clients, Return(c) PROVE IInv' /\ [Promise!Next]_(Promise!vars)
<1>1. /\ pc[c] = "return" /\ pc' = [pc EXCEPT ![c] = "idle"]
      /\ told' = [told EXCEPT ![c] = Claim(c)]
      /\ UNCHANGED <<store, req, props, resp, out, added, seen, spoilt>>
      BY DEF Return, Goto
<1>2. /\ told[c] = Promise!Nothing
      /\ out[c].exist => Target(req[c]) \in seen[c]
      /\ ~out[c].exist /\ out[c].result = "ok" /\ Target(req[c]) # <<>> => Target(req[c]) \in added[c]
      BY <1>1 DEF IInv, ClientInv, ClaimInv, Promise!Nothing
<1>3. \/ Claim(c) = Promise!NoClaim
      \/ Target(req[c]) \in added[c] /\ Claim(c) = Promise!Created(Target(req[c]))
      \/ Target(req[c]) \in seen[c] /\ Claim(c) = Promise!Exists(Target(req[c]))
      BY <1>2 DEF Claim, Promise!NoClaim, Promise!Created, Promise!Exists
<1>4. Promise!Report(c) BY <1>1, <1>2, <1>3 DEF Promise!Report
<1>5. Mine(c) BY <1>1 DEF IInv, Shape, Mine
<1>6. ClientInv(c)'
  <2>1. pc'[c] = "idle" BY <1>1 DEF IInv, Shape
  <2> QED BY <1>1, <2>1 DEF IInv, ClientInv, ControlInv, ClaimInv, FailureInv, Labels
<1> QED BY <1>4, <1>5, <1>6, OthersKept DEF Promise!Next

LEMMA RejectStep ==
  ASSUME IInv, NEW c \in Clients, Reject(c) \/ RejectSchema(c)
  PROVE  IInv' /\ [Promise!Next]_(Promise!vars)
<1>1. /\ pc' = [pc EXCEPT ![c] = "return"] /\ pc[c] \in {"statement", "createSchema"}
      /\ out' = [out EXCEPT ![c] = [exist |-> FALSE, result |-> "error"]]
      /\ UNCHANGED <<store, req, props, resp, added, seen, told, spoilt>>
      BY DEF Reject, RejectSchema, Finish, Goto
<1>2. Mine(c) BY <1>1 DEF IInv, Shape, Mine
<1>3. pc'[c] = "return" /\ out'[c] = [exist |-> FALSE, result |-> "error"] BY <1>1 DEF IInv, Shape
<1>4. ClientInv(c)'
      BY <1>1, <1>3 DEF IInv, ClientInv, ControlInv, ClaimInv, FailureInv, Labels, Failures
<1> QED BY <1>1, <1>2, <1>4, OthersKept DEF Promise!vars

\* The other steps change these variables at c, one statement's worth.
Moves(c) ==
  /\ req' = req /\ told' = told
  /\ pc' = [pc EXCEPT ![c] = pc'[c]] /\ out' = [out EXCEPT ![c] = out'[c]]
  /\ props' = [props EXCEPT ![c] = props'[c]] /\ resp' = [resp EXCEPT ![c] = resp'[c]]

LEMMA MovesAreMine ==
  ASSUME Shape, NEW c \in Clients, Moves(c),
         \/ \E does, o, to, reply : Execute(c, does, o, to, reply)
         \/ \E o, reply : Look(c, o, reply)
         \/ UNCHANGED <<store, added, seen, spoilt>>
  PROVE  Mine(c)
<1>1. /\ \A e \in Clients \ {c} : added'[e] = added[e] /\ seen'[e] = seen[e] /\ spoilt'[e] = spoilt[e]
      /\ store' \subseteq Objects /\ added' = [e \in Clients |-> added'[e]]
      /\ seen' = [e \in Clients |-> seen'[e]] /\ spoilt' = [e \in Clients |-> spoilt'[e]]
  <2>1. CASE \E does, o, to, reply : Execute(c, does, o, to, reply)
    <3>1. PICK does, o, to, reply : Execute(c, does, o, to, reply) BY <2>1
    <3> QED BY <3>1, ExecuteKeeps DEF Shape
  <2>2. CASE \E o, reply : Look(c, o, reply)
    <3>1. PICK o, reply : Look(c, o, reply) BY <2>2
    <3> QED BY <3>1, LookKeeps DEF Shape
  <2>3. CASE UNCHANGED <<store, added, seen, spoilt>> BY <2>3 DEF Shape
  <2> QED BY <2>1, <2>2, <2>3
<1>2. /\ pc' = [e \in Clients |-> pc'[e]] /\ out' = [e \in Clients |-> out'[e]]
      /\ props' = [e \in Clients |-> props'[e]] /\ resp' = [e \in Clients |-> resp'[e]]
      BY DEF Moves, Shape
<1>3. Shape' BY <1>1, <1>2 DEF Moves, Shape
<1> QED BY <1>1, <1>3 DEF Mine, Moves, Shape

LEMMA SingleStep == ASSUME IInv, NEW c \in Clients, Single(c) PROVE IInv' /\ [Promise!Next]_(Promise!vars)
<1> DEFINE call == req[c].call
           o == IF req[c].input = "good" THEN req[c].obj ELSE <<>>
           does == IF req[c].to # o THEN "rename" ELSE call.does
<1>1. PICK reply \in Replies :
        /\ IF call.does = "read" THEN Look(c, o, reply) ELSE Execute(c, does, o, req[c].to, reply)
        /\ \E result \in Returned(call, reply, o \in store) : Finish(c, FALSE, result)
      BY DEF Single
<1>2. PICK result \in Returned(call, reply, o \in store) : Finish(c, FALSE, result) BY <1>1
<1>3. pc[c] = "statement" /\ UNCHANGED <<req, props, resp, told>> BY DEF Single
<1> HIDE DEF o, does, call
<1>4. pc'[c] = "return" /\ out'[c] = [exist |-> FALSE, result |-> result] /\ Moves(c)
      BY <1>2, <1>3 DEF Finish, Goto, Moves, IInv, Shape
<1>5. /\ result = "ok" => reply = "ok"
      /\ reply \in {"refused", "error"} => result \in Failures
      BY <1>1, <1>2 DEF Returned, RaisesRefusal, Failures, Replies
<1>6. Mine(c) BY <1>1, <1>4, MovesAreMine DEF IInv
<1>7. ControlInv(c)' BY <1>4 DEF ControlInv, Labels
<1>8. told'[c] = [what |-> "nothing", obj |-> <<>>] /\ told[c] = told'[c]
      BY <1>3 DEF IInv, ClientInv, ClaimInv
<1>9. req[c].op = "single" /\ (call.does = "create" => req[c].to = req[c].obj)
      BY <1>3 DEF IInv, ClientInv, ControlInv, call
<1>10. "write" \notin spoilt[c]
      BY <1>3, <1>9 DEF IInv, ClientInv, FailureInv, Dropping
<1>11. CASE call.does = "read"
  <2>1. Target(req[c]) = <<>> BY <1>9, <1>11 DEF Target, call
  <2>2. Look(c, o, reply) BY <1>1, <1>11
  <2>3. ClaimInv(c)' BY <1>3, <1>4, <1>8, <2>1 DEF ClaimInv
  <2>4. FailureInv(c)' BY <1>3, <1>10, <2>2, LookKeeps DEF FailureInv, IInv
  <2> QED BY <1>3, <1>6, <1>7, <1>8, <2>2, <2>3, <2>4, OthersKept, LookPromised DEF ClientInv, IInv
<1>12. CASE call.does # "read"
  <2>1. Execute(c, does, o, req[c].to, reply) BY <1>1, <1>12
  <2>2. reply = "ok" => spoilt' = spoilt /\ Legal(does, o, req[c].to)
                        /\ (does = "create" => o \in added'[c])
        BY <2>1, ExecuteKeeps DEF IInv
  <2>3. FailureInv(c)'
        BY <1>1, <1>3, <1>4, <1>5, <1>10, <2>2 DEF FailureInv, Replies
  <2>4. ClaimInv(c)'
    <3>1. CASE Target(req[c]) = <<>> BY <1>3, <1>4, <1>8, <3>1 DEF ClaimInv
    <3>2. CASE Target(req[c]) # <<>>
      <4>1. call.does = "create" /\ Target(req[c]) = req[c].obj BY <1>9, <3>2 DEF Target, call
      <4>2. ASSUME result = "ok" PROVE req[c].obj \in added'[c]
        <5>1. reply = "ok" BY <4>2, <1>5
        <5>2. does \in {"create", "rename"} BY <4>1 DEF does
        <5>3. o # <<>>
              BY <5>1, <5>2, <2>2, CatalogAssumption DEF Legal, IInv, Shape
        <5>4. o = req[c].obj BY <5>3 DEF o
        <5>5. does = "create" BY <4>1, <1>9, <5>4 DEF does
        <5> QED BY <5>1, <5>4, <5>5, <2>2
      <4> QED BY <1>3, <1>4, <1>8, <4>1, <4>2 DEF ClaimInv
    <3> QED BY <3>1, <3>2
  <2> QED BY <1>3, <1>6, <1>7, <1>8, <2>1, <2>3, <2>4, OthersKept, ExecutePromised DEF ClientInv, IInv
<1> QED BY <1>11, <1>12

\* The ways in which a step ends.
LEMMA Ends ==
  ASSUME Shape, NEW c \in Clients, NEW exist \in BOOLEAN, NEW result, Finish(c, exist, result)
  PROVE  /\ pc'[c] = "return" /\ (out'[c].exist <=> exist) /\ out'[c].result = result
         /\ pc' = [pc EXCEPT ![c] = pc'[c]] /\ out' = [out EXCEPT ![c] = out'[c]]
BY DEF Finish, Goto, Shape

LEMMA GoesOn ==
  ASSUME Shape, NEW c \in Clients, NEW label, Continue(c, label)
  PROVE  /\ pc'[c] = label /\ out'[c] = out[c]
         /\ pc' = [pc EXCEPT ![c] = pc'[c]] /\ out' = [out EXCEPT ![c] = out'[c]]
BY DEF Continue, Goto, Shape

LEMMA SchemaFollows ==
  ASSUME Shape, NEW c \in Clients, NEW left, NextSchema(c, left)
  PROVE  /\ \/ pc'[c] = "getSchema"
            \/ pc'[c] = "return" /\ ~out'[c].exist /\ out'[c].result = "nil"
         /\ pc' = [pc EXCEPT ![c] = pc'[c]] /\ out' = [out EXCEPT ![c] = out'[c]]
<1>1. CASE left = <<>>
  <2>1. Finish(c, FALSE, "nil") BY <1>1 DEF NextSchema
  <2> QED BY <2>1, Ends
<1>2. CASE left # <<>>
  <2>1. Continue(c, "getSchema") BY <1>2 DEF NextSchema
  <2> QED BY <2>1, GoesOn
<1> QED BY <1>1, <1>2

LEMMA Rest ==
  ASSUME Shape, NEW c \in Clients
  PROVE  /\ props' = props => props' = [props EXCEPT ![c] = props'[c]]
         /\ resp' = resp => resp' = [resp EXCEPT ![c] = resp'[c]]
BY DEF Shape

\* A step that reads, or does nothing at the server, keeps everything if the
\* call goes on, ends with an object that was seen, or ends without a success.
Harmless(c, o) ==
  /\ Moves(c) /\ ControlInv(c)' /\ pc[c] \notin {"idle", "return", "createProperties"}
  /\ pc'[c] \notin {"idle", "createProperties"}
  /\ pc'[c] = "return" =>
       \/ out'[c].exist /\ o \in store /\ o = Target(req[c])
       \/ ~out'[c].exist /\ out'[c].result # "ok"

LEMMA LookStep ==
  ASSUME IInv, NEW c \in Clients, NEW o, NEW reply, Look(c, o, reply), Harmless(c, o),
         pc'[c] = "return" /\ out'[c].exist => reply = "ok"
  PROVE  IInv' /\ [Promise!Next]_(Promise!vars)
<1>1. Mine(c) BY MovesAreMine DEF IInv, Harmless
<1>2. told' = told /\ req' = req /\ told[c] = [what |-> "nothing", obj |-> <<>>]
      BY DEF IInv, ClientInv, ClaimInv, Harmless, Moves
<1>3. /\ added' = added /\ ("write" \in spoilt'[c] => "write" \in spoilt[c])
      /\ reply = "ok" /\ o \in store => o \in seen'[c]
      BY LookKeeps DEF IInv
<1>4. ClaimInv(c)' BY <1>2, <1>3 DEF ClaimInv, Harmless
<1>5. FailureInv(c)' BY <1>2, <1>3 DEF IInv, ClientInv, FailureInv, Harmless
<1>6. ClientInv(c)' BY <1>4, <1>5 DEF ClientInv, Harmless
<1> QED BY <1>1, <1>2, <1>6, OthersKept, LookPromised DEF IInv

LEMMA QuietStep ==
  ASSUME IInv, NEW c \in Clients, UNCHANGED <<store, added, seen, spoilt>>,
         Moves(c), ControlInv(c)', pc[c] \notin {"idle", "return"}, pc'[c] \notin {"idle", "createProperties"},
         pc'[c] = "return" => /\ ~out'[c].exist
                              /\ \/ out'[c].result = "error"
                                 \/ pc[c] # "createProperties" /\ out'[c].result = "nil",
         pc[c] = "createProperties" => pc'[c] = "return"
  PROVE  IInv' /\ [Promise!Next]_(Promise!vars)
<1>1. Mine(c) BY MovesAreMine DEF IInv
<1>2. told' = told /\ req' = req /\ told[c] = [what |-> "nothing", obj |-> <<>>]
      BY DEF IInv, ClientInv, ClaimInv, Moves
<1>3. ClaimInv(c)' BY <1>2 DEF ClaimInv
<1>4. FailureInv(c)' BY <1>2 DEF IInv, ClientInv, FailureInv, Failures
<1> QED BY <1>1, <1>2, <1>3, <1>4, OthersKept DEF ClientInv, Promise!vars

\* A statement of a call: what it leaves in out or in resp decides.
LEMMA WriteStep ==
  ASSUME IInv, NEW c \in Clients, NEW does, NEW o, NEW to, NEW reply \in Replies,
         Execute(c, does, o, to, reply), Moves(c), ControlInv(c)', pc[c] \notin {"idle", "return"},
         pc'[c] # "idle", ClaimInv(c)',
         \/ req[c].op \in Dropping
         \/ pc'[c] = "return" /\ out'[c].result \in Failures
         \/ pc'[c] = "createProperties" /\ resp'[c] = "refused"
         \/ reply = "ok" /\ "write" \notin spoilt[c]
  PROVE  IInv' /\ [Promise!Next]_(Promise!vars)
<1>1. Mine(c) BY MovesAreMine DEF IInv
<1>2. told' = told /\ req' = req /\ told[c] = [what |-> "nothing", obj |-> <<>>]
      BY DEF IInv, ClientInv, ClaimInv, Moves
<1>3. reply = "ok" => spoilt' = spoilt BY ExecuteKeeps DEF IInv
<1>4. FailureInv(c)' BY <1>2, <1>3 DEF FailureInv
<1> QED BY <1>1, <1>2, <1>4, OthersKept, ExecutePromised DEF ClientInv, IInv

LEMMA HasGraphStep == ASSUME IInv, NEW c \in Clients, HasGraph(c) PROVE IInv' /\ [Promise!Next]_(Promise!vars)
<1>1. pc[c] = "hasGraph" /\ UNCHANGED <<req, props, resp, told>> BY DEF HasGraph
<1>2. req[c].op \in {"createGraphIfNotExist", "initModel"} BY <1>1 DEF IInv, ClientInv, ControlInv
<1>3. PICK reply \in Replies :
        /\ Look(c, GraphObject(c), reply)
        /\ \/ Finish(c, FALSE, "error")
           \/ /\ reply = "ok" /\ GraphObject(c) \in store
              /\ IF req[c].op = "initModel" THEN NextSchema(c, schemas[c]) ELSE Finish(c, TRUE, "nil")
           \/ Continue(c, "createGraph")
      BY DEF HasGraph
<1>4. \/ pc'[c] = "return" /\ ~out'[c].exist /\ out'[c].result = "error"
      \/ pc'[c] = "return" /\ ~out'[c].exist /\ out'[c].result = "nil"
      \/ pc'[c] = "return" /\ out'[c].exist /\ req[c].op # "initModel"
         /\ reply = "ok" /\ GraphObject(c) \in store
      \/ pc'[c] = "getSchema" /\ req[c].op = "initModel"
      \/ pc'[c] = "createGraph"
  <2>1. CASE Finish(c, FALSE, "error") BY <2>1, Ends DEF IInv
  <2>2. CASE Continue(c, "createGraph") BY <2>2, GoesOn DEF IInv
  <2>3. CASE NextSchema(c, schemas[c]) /\ req[c].op = "initModel" BY <2>3, SchemaFollows DEF IInv
  <2>4. CASE /\ Finish(c, TRUE, "nil") /\ req[c].op # "initModel"
             /\ reply = "ok" /\ GraphObject(c) \in store
        BY <2>4, Ends DEF IInv
  <2> QED BY <1>3, <2>1, <2>2, <2>3, <2>4
<1>5. Moves(c) BY <1>1, <1>3, Ends, GoesOn, SchemaFollows, Rest DEF Moves, IInv
<1>6. ControlInv(c)' BY <1>1, <1>2, <1>4 DEF ControlInv, Labels
<1>7. req[c].op # "initModel" => GraphObject(c) = Target(req[c])
      BY <1>2 DEF GraphObject, Target
<1>8. Harmless(c, GraphObject(c)) BY <1>1, <1>4, <1>5, <1>6, <1>7 DEF Harmless
<1> QED BY <1>3, <1>4, <1>8, LookStep

LEMMA CreateGraphKeeps ==
  ASSUME IInv, NEW c \in Clients, CreateGraphStep(c) PROVE IInv' /\ [Promise!Next]_(Promise!vars)
<1>1. pc[c] = "createGraph" /\ UNCHANGED <<req, props, resp, told>> BY DEF CreateGraphStep
<1>2. req[c].op \in {"createGraphIfNotExist", "initModel"} BY <1>1 DEF IInv, ClientInv, ControlInv
<1>3. CASE Finish(c, FALSE, "error") /\ UNCHANGED <<store, added, seen, spoilt>>
  <2>1. pc'[c] = "return" /\ ~out'[c].exist /\ out'[c].result = "error" /\ Moves(c)
        BY <1>1, <1>3 DEF Finish, Goto, Moves, IInv, Shape
  <2>2. ControlInv(c)' BY <2>1 DEF ControlInv, Labels
  <2> QED BY <1>1, <1>3, <2>1, <2>2, QuietStep
<1>4. ASSUME NEW reply \in Replies, Execute(c, "create", GraphObject(c), <<>>, reply),
             IF req[c].op = "initModel" /\ reply # "error" THEN NextSchema(c, schemas[c])
             ELSE Finish(c, FALSE, reply)
      PROVE  IInv' /\ [Promise!Next]_(Promise!vars)
  <2>1. \/ req[c].op = "initModel" /\ pc'[c] = "getSchema"
        \/ req[c].op = "initModel" /\ pc'[c] = "return" /\ ~out'[c].exist /\ out'[c].result = "nil"
        \/ pc'[c] = "return" /\ ~out'[c].exist /\ out'[c].result = reply
        BY <1>4 DEF NextSchema, Finish, Continue, Goto, IInv, Shape
  <2>2. Moves(c) BY <1>1, <1>4 DEF NextSchema, Finish, Continue, Goto, Moves, IInv, Shape
  <2>3. ControlInv(c)' BY <1>1, <2>1 DEF ControlInv, Labels
  <2>4. /\ reply = "ok" => GraphObject(c) \in added'[c]
        /\ told'[c] = [what |-> "nothing", obj |-> <<>>]
        /\ "write" \notin spoilt[c] \/ req[c].op \in Dropping
        BY <1>1, <1>4, ExecuteKeeps DEF IInv, ClientInv, ClaimInv, FailureInv
  <2>5. Target(req[c]) = <<>> \/ (Target(req[c]) = GraphObject(c) /\ req[c].op # "initModel")
        BY <1>2 DEF Target, GraphObject
  <2>6. ClaimInv(c)'
    <3>1. CASE Target(req[c]) = <<>> BY <1>1, <2>1, <2>4, <3>1 DEF ClaimInv
    <3>2. CASE Target(req[c]) = GraphObject(c) /\ req[c].op # "initModel"
          BY <1>1, <2>1, <2>4, <3>2 DEF ClaimInv
    <3> QED BY <2>5, <3>1, <3>2
  <2> QED BY <1>1, <1>2, <1>4, <2>1, <2>2, <2>3, <2>4, <2>6, WriteStep DEF Failures, Replies, Dropping
<1> QED BY <1>3, <1>4 DEF CreateGraphStep

LEMMA GetSchemaKeeps ==
  ASSUME IInv, NEW c \in Clients, GetSchemaStep(c) PROVE IInv' /\ [Promise!Next]_(Promise!vars)
<1>1. pc[c] = "getSchema" /\ UNCHANGED <<req, resp, told>> BY DEF GetSchemaStep
<1>2. req[c].op \in {"createSchemaIfNotExist", "initModel"} BY <1>1 DEF IInv, ClientInv, ControlInv
<1>3. PICK reply \in Replies :
        /\ Look(c, SchemaObject(c), reply)
        /\ \/ Finish(c, FALSE, "error") /\ UNCHANGED props
           \/ Continue(c, "createSchema") /\ UNCHANGED props
           \/ /\ reply = "ok" /\ SchemaObject(c) \in store /\ req[c].op # "initModel"
              /\ Finish(c, TRUE, "nil") /\ UNCHANGED props
           \/ /\ req[c].op = "initModel"
              /\ props' = [props EXCEPT ![c] = Properties[SchemaName(c)]]
              /\ NextSchema(c, Tail(schemas[c])) \/ Continue(c, "getProperty")
      BY DEF GetSchemaStep
<1>4. \/ pc'[c] = "return" /\ ~out'[c].exist /\ out'[c].result \in {"error", "nil"}
      \/ pc'[c] = "createSchema"
      \/ pc'[c] = "return" /\ out'[c].exist /\ req[c].op # "initModel"
         /\ reply = "ok" /\ SchemaObject(c) \in store
      \/ pc'[c] \in {"getSchema", "getProperty"} /\ req[c].op = "initModel"
  <2>1. CASE Finish(c, FALSE, "error") BY <2>1, Ends DEF IInv
  <2>2. CASE Continue(c, "createSchema") BY <2>2, GoesOn DEF IInv
  <2>3. CASE NextSchema(c, Tail(schemas[c])) /\ req[c].op = "initModel" BY <2>3, SchemaFollows DEF IInv
  <2>4. CASE /\ Finish(c, TRUE, "nil") /\ req[c].op # "initModel"
             /\ reply = "ok" /\ SchemaObject(c) \in store
        BY <2>4, Ends DEF IInv
  <2>5. CASE Continue(c, "getProperty") /\ req[c].op = "initModel" BY <2>5, GoesOn DEF IInv
  <2> QED BY <1>3, <2>1, <2>2, <2>3, <2>4, <2>5
<1>5. Moves(c)
  <2>1. props' = [props EXCEPT ![c] = props'[c]] BY <1>3, Rest DEF IInv, Shape
  <2>2. pc' = [pc EXCEPT ![c] = pc'[c]] /\ out' = [out EXCEPT ![c] = out'[c]]
        BY <1>3, Ends, GoesOn, SchemaFollows DEF IInv
  <2> QED BY <1>1, <2>1, <2>2, Rest DEF Moves, IInv
<1>6. ControlInv(c)' BY <1>1, <1>2, <1>4 DEF ControlInv, Labels
<1>7. req[c].op # "initModel" => SchemaObject(c) = Target(req[c])
      BY <1>2 DEF SchemaObject, SchemaName, Target
<1>8. Harmless(c, SchemaObject(c)) BY <1>1, <1>4, <1>5, <1>6, <1>7 DEF Harmless
<1> QED BY <1>3, <1>4, <1>8, LookStep

LEMMA CreateSchemaKeeps ==
  ASSUME IInv, NEW c \in Clients, CreateSchemaStep(c) PROVE IInv' /\ [Promise!Next]_(Promise!vars)
<1>1. pc[c] = "createSchema" /\ UNCHANGED <<req, props, told>> BY DEF CreateSchemaStep
<1>2. req[c].op \in {"createSchema", "createSchemaIfNotExist", "initModel"}
      BY <1>1 DEF IInv, ClientInv, ControlInv
<1>3. PICK reply \in Replies :
        /\ Execute(c, "create", SchemaObject(c), <<>>, reply)
        /\ resp' = [resp EXCEPT ![c] = reply]
        /\ \/ reply = "error" /\ Finish(c, FALSE, "error")
           \/ req[c].op = "initModel" /\ NextSchema(c, Tail(schemas[c]))
           \/ req[c].op # "initModel" /\ Finish(c, FALSE, SchemaResult(c, reply))
           \/ reply # "error" /\ req[c].op # "initModel" /\ Continue(c, "createProperties")
      BY DEF CreateSchemaStep
<1>4. \/ pc'[c] = "return" /\ ~out'[c].exist /\ out'[c].result = "error"
      \/ req[c].op \in Dropping /\ pc'[c] = "return" /\ ~out'[c].exist /\ out'[c].result = "nil"
      \/ req[c].op = "initModel" /\ pc'[c] = "getSchema"
      \/ req[c].op = "createSchema" /\ pc'[c] = "return" /\ ~out'[c].exist /\ out'[c].result = reply
      \/ reply # "error" /\ req[c].op # "initModel" /\ pc'[c] = "createProperties"
  <2>1. CASE Finish(c, FALSE, "error") BY <2>1, Ends DEF IInv
  <2>2. CASE req[c].op = "initModel" /\ NextSchema(c, Tail(schemas[c]))
        BY <2>2, SchemaFollows DEF IInv, Dropping
  <2>3. CASE req[c].op # "initModel" /\ Finish(c, FALSE, SchemaResult(c, reply))
        BY <1>2, <2>3, Ends DEF IInv, SchemaResult, Dropping
  <2>4. CASE reply # "error" /\ req[c].op # "initModel" /\ Continue(c, "createProperties")
        BY <2>4, GoesOn DEF IInv
  <2> QED BY <1>3, <2>1, <2>2, <2>3, <2>4
<1>5. resp'[c] = reply /\ resp' = [resp EXCEPT ![c] = resp'[c]] BY <1>3 DEF IInv, Shape
<1>6. Moves(c)
  <2>1. pc' = [pc EXCEPT ![c] = pc'[c]] /\ out' = [out EXCEPT ![c] = out'[c]]
        BY <1>3, Ends, GoesOn, SchemaFollows DEF IInv
  <2> QED BY <1>1, <1>5, <2>1, Rest DEF Moves, IInv
<1>7. ControlInv(c)' BY <1>1, <1>2, <1>4 DEF ControlInv, Labels
<1>8. /\ reply = "ok" => SchemaObject(c) \in added'[c]
      /\ told'[c] = [what |-> "nothing", obj |-> <<>>]
      /\ "write" \notin spoilt[c] \/ req[c].op \in Dropping
      BY <1>1, <1>3, ExecuteKeeps DEF IInv, ClientInv, ClaimInv, FailureInv
<1>9. Target(req[c]) = <<>> \/ (Target(req[c]) = SchemaObject(c) /\ req[c].op # "initModel")
      BY <1>2 DEF Target, SchemaObject, SchemaName
<1>10. ClaimInv(c)'
  <2>1. CASE Target(req[c]) = <<>>
    <3>1. req[c].op \notin {"createSchema", "createSchemaIfNotExist"} BY <2>1 DEF Target
    <3> QED BY <1>1, <1>2, <1>4, <1>8, <2>1, <3>1 DEF ClaimInv
  <2>2. CASE Target(req[c]) = SchemaObject(c) /\ req[c].op # "initModel"
        BY <1>1, <1>4, <1>5, <1>8, <2>2 DEF ClaimInv
  <2> QED BY <1>9, <2>1, <2>2
<1>11. \/ req[c].op \in Dropping
       \/ pc'[c] = "return" /\ out'[c].result \in Failures
       \/ pc'[c] = "createProperties" /\ resp'[c] = "refused"
       \/ reply = "ok" /\ "write" \notin spoilt[c]
       BY <1>3, <1>4, <1>5, <1>8 DEF Failures, Replies, Dropping
<1>12. pc'[c] # "idle" BY <1>4
<1> QED BY <1>1, <1>3, <1>6, <1>7, <1>10, <1>11, <1>12, WriteStep

LEMMA CreatePropertiesKeeps ==
  ASSUME IInv, NEW c \in Clients, CreateProperties(c) PROVE IInv' /\ [Promise!Next]_(Promise!vars)
<1>1. pc[c] = "createProperties" /\ UNCHANGED <<req, resp, told>> BY DEF CreateProperties
<1>2. req[c].op \in {"createSchema", "createSchemaIfNotExist"} BY <1>1 DEF IInv, ClientInv, ControlInv
<1>3. CASE Finish(c, FALSE, "error") /\ UNCHANGED <<store, added, seen, spoilt, props>>
  <2>1. pc'[c] = "return" /\ ~out'[c].exist /\ out'[c].result = "error" BY <1>3, Ends DEF IInv
  <2>2. Moves(c) BY <1>1, <1>3, Ends, Rest DEF Moves, IInv
  <2>3. ControlInv(c)' BY <2>1 DEF ControlInv, Labels
  <2> QED BY <1>1, <1>3, <2>1, <2>2, <2>3, QuietStep
<1>4. ASSUME NEW reply \in Replies, Execute(c, "create", PropertyObject(c), <<>>, reply),
             props' = [props EXCEPT ![c] = Tail(@)],
             IF reply = "ok" /\ Tail(props[c]) # <<>> THEN Continue(c, "createProperties")
             ELSE Finish(c, FALSE, CASE reply = "ok" -> SchemaResult(c, resp[c])
                                     [] reply = "refused" -> SchemaResult(c, "refused")
                                     [] reply = "error" -> "error")
      PROVE  IInv' /\ [Promise!Next]_(Promise!vars)
  <2>1. \/ reply = "ok" /\ pc'[c] = "createProperties"
        \/ /\ pc'[c] = "return" /\ ~out'[c].exist
           /\ out'[c].result = CASE reply = "ok" -> SchemaResult(c, resp[c])
                                 [] reply = "refused" -> SchemaResult(c, "refused")
                                 [] reply = "error" -> "error"
    <3>1. CASE reply = "ok" /\ Continue(c, "createProperties") BY <3>1, GoesOn DEF IInv
    <3>2. CASE Finish(c, FALSE, CASE reply = "ok" -> SchemaResult(c, resp[c])
                                  [] reply = "refused" -> SchemaResult(c, "refused")
                                  [] reply = "error" -> "error")
          BY <3>2, Ends DEF IInv
    <3> QED BY <1>4, <3>1, <3>2
  <2>2. Moves(c)
    <3>1. pc' = [pc EXCEPT ![c] = pc'[c]] /\ out' = [out EXCEPT ![c] = out'[c]]
          BY <1>4, Ends, GoesOn DEF IInv
    <3>2. props' = [props EXCEPT ![c] = props'[c]] BY <1>4 DEF IInv, Shape
    <3> QED BY <1>1, <3>1, <3>2, Rest DEF Moves, IInv
  <2>3. ControlInv(c)' BY <1>1, <1>2, <2>1 DEF ControlInv, Labels
  <2>4. /\ told'[c] = [what |-> "nothing", obj |-> <<>>] /\ added[c] \subseteq added'[c]
        /\ resp[c] = "ok" => Target(req[c]) \in added[c]
        /\ "write" \in spoilt[c] /\ req[c].op \notin Dropping => resp[c] = "refused"
        BY <1>1, <1>4, ExecuteKeeps DEF IInv, ClientInv, ClaimInv, FailureInv
  <2>5. \/ reply = "ok" /\ pc'[c] = "createProperties"
        \/ /\ pc'[c] = "return" /\ ~out'[c].exist
           /\ \/ req[c].op \in Dropping /\ out'[c].result \in {"nil", "error"}
              \/ reply = "ok" /\ out'[c].result = resp[c]
              \/ out'[c].result \in {"refused", "error"}
        BY <1>2, <2>1, <1>4 DEF SchemaResult, Replies, Dropping
  <2>6. ClaimInv(c)' BY <1>1, <2>4, <2>5 DEF ClaimInv
  <2>7. \/ req[c].op \in Dropping
        \/ pc'[c] = "return" /\ out'[c].result \in Failures
        \/ pc'[c] = "createProperties" /\ resp'[c] = "refused"
        \/ reply = "ok" /\ "write" \notin spoilt[c]
        BY <1>1, <2>4, <2>5 DEF Failures
  <2> QED BY <1>1, <1>4, <2>1, <2>2, <2>3, <2>6, <2>7, WriteStep
<1> QED BY <1>3, <1>4 DEF CreateProperties

LEMMA PropertyFollows ==
  ASSUME Shape, NEW c \in Clients, NEW response, NextProperty(c, response)
  PROVE  /\ \/ /\ req[c].op # "initModel" /\ props' = props
               /\ pc'[c] = "return" /\ ~out'[c].exist /\ out'[c].result = response
            \/ req[c].op = "initModel" /\ pc'[c] \in {"getProperty", "getSchema"}
            \/ /\ req[c].op = "initModel"
               /\ pc'[c] = "return" /\ ~out'[c].exist /\ out'[c].result = "nil"
         /\ pc' = [pc EXCEPT ![c] = pc'[c]] /\ out' = [out EXCEPT ![c] = out'[c]]
         /\ props' = [props EXCEPT ![c] = props'[c]]
<1>1. CASE req[c].op # "initModel"
  <2>1. Finish(c, FALSE, response) /\ props' = props BY <1>1 DEF NextProperty
  <2> QED BY <1>1, <2>1, Ends, Rest
<1>2. CASE req[c].op = "initModel"
  <2>1. props' = [props EXCEPT ![c] = Tail(@)] BY <1>2 DEF NextProperty
  <2>2. props' = [props EXCEPT ![c] = props'[c]] BY <2>1 DEF Shape
  <2>3. Continue(c, "getProperty") \/ NextSchema(c, Tail(schemas[c])) BY <1>2 DEF NextProperty
  <2> QED BY <1>2, <2>2, <2>3, GoesOn, SchemaFollows
<1> QED BY <1>1, <1>2

\* What createPropertyIfNotExist looks for and creates is what it was asked for.
LEMMA PropertyIsTarget ==
  ASSUME IInv, NEW c \in Clients, pc[c] \in {"getProperty", "createProperty"}
  PROVE  /\ req[c].op \in {"createPropertyIfNotExist", "initModel"}
         /\ req[c].op # "initModel" =>
              PropertyObject(c) = Target(req[c]) /\ props[c] = <<req[c].property>>
         /\ req[c].op = "initModel" => Target(req[c]) = <<>>
<1>1. /\ req[c].op \in {"createPropertyIfNotExist", "initModel"}
      /\ req[c].op = "createPropertyIfNotExist" => props[c] = <<req[c].property>>
      BY DEF IInv, ClientInv, ControlInv
<1>2. CASE req[c].op = "createPropertyIfNotExist"
  <2>1. Target(req[c]) = <<req[c].config, req[c].schema, req[c].property>> BY <1>2 DEF Target
  <2>2. Head(props[c]) = req[c].property BY <1>1, <1>2
  <2>3. PropertyObject(c) = <<req[c].config, req[c].schema, req[c].property>>
        BY <1>2, <2>2 DEF PropertyObject, SchemaName
  <2>4. PropertyObject(c) = Target(req[c]) BY <2>1, <2>3
  <2> QED BY <1>1, <1>2, <2>4
<1>3. CASE req[c].op = "initModel" BY <1>3 DEF Target
<1> QED BY <1>1, <1>2, <1>3

LEMMA GetPropertyKeeps ==
  ASSUME IInv, NEW c \in Clients, GetPropertyStep(c) PROVE IInv' /\ [Promise!Next]_(Promise!vars)
<1> DEFINE o == IF HasSchemaField(c) THEN PropertyObject(c) ELSE <<>>
<1>1. pc[c] = "getProperty" /\ UNCHANGED <<req, resp, told>> BY DEF GetPropertyStep
<1>2. PICK reply \in Replies :
        /\ Look(c, o, reply)
        /\ \/ Finish(c, FALSE, "error") /\ UNCHANGED props
           \/ /\ reply = "ok" /\ o \in store
              /\ IF req[c].op = "initModel" THEN NextProperty(c, "nil")
                 ELSE Finish(c, TRUE, "nil") /\ UNCHANGED props
           \/ Continue(c, "createProperty") /\ UNCHANGED props
      BY DEF GetPropertyStep
<1>3. req[c].op # "initModel" => o = Target(req[c])
      BY <1>1, PropertyIsTarget DEF HasSchemaField
<1>4. /\ req[c].op \in {"createPropertyIfNotExist", "initModel"}
      /\ req[c].op # "initModel" => props[c] = <<req[c].property>>
      BY <1>1, PropertyIsTarget
<1> HIDE DEF o
<1>5. \/ pc'[c] = "return" /\ ~out'[c].exist /\ out'[c].result \in {"error", "nil"}
      \/ pc'[c] = "createProperty" /\ props' = props
      \/ pc'[c] = "return" /\ out'[c].exist /\ req[c].op # "initModel" /\ reply = "ok" /\ o \in store
      \/ pc'[c] \in {"getProperty", "getSchema"} /\ req[c].op = "initModel"
  <2>1. CASE Finish(c, FALSE, "error") BY <2>1, Ends DEF IInv
  <2>2. CASE Continue(c, "createProperty") /\ props' = props BY <2>2, GoesOn DEF IInv
  <2>3. CASE NextProperty(c, "nil") /\ req[c].op = "initModel" BY <2>3, PropertyFollows DEF IInv
  <2>4. CASE Finish(c, TRUE, "nil") /\ req[c].op # "initModel" /\ reply = "ok" /\ o \in store
        BY <2>4, Ends DEF IInv
  <2> QED BY <1>2, <2>1, <2>2, <2>3, <2>4
<1>6. Moves(c)
  <2>1. /\ pc' = [pc EXCEPT ![c] = pc'[c]] /\ out' = [out EXCEPT ![c] = out'[c]]
        /\ props' = [props EXCEPT ![c] = props'[c]]
        BY <1>2, Ends, GoesOn, PropertyFollows, Rest DEF IInv
  <2> QED BY <1>1, <2>1, Rest DEF Moves, IInv
<1>7. ControlInv(c)' BY <1>1, <1>4, <1>5 DEF ControlInv, Labels
<1>8. Harmless(c, o) BY <1>1, <1>3, <1>5, <1>6, <1>7 DEF Harmless
<1> QED BY <1>2, <1>5, <1>8, LookStep

LEMMA CreatePropertyKeeps ==
  ASSUME IInv, NEW c \in Clients, CreatePropertyStep(c) PROVE IInv' /\ [Promise!Next]_(Promise!vars)
<1>1. pc[c] = "createProperty" /\ UNCHANGED <<req, resp, told>> BY DEF CreatePropertyStep
<1>2. /\ req[c].op \in {"createPropertyIfNotExist", "initModel"}
      /\ req[c].op # "initModel" =>
           PropertyObject(c) = Target(req[c]) /\ props[c] = <<req[c].property>>
      /\ req[c].op = "initModel" => Target(req[c]) = <<>>
      BY <1>1, PropertyIsTarget
<1>3. CASE Finish(c, FALSE, "error") /\ UNCHANGED <<store, added, seen, spoilt, props>>
  <2>1. pc'[c] = "return" /\ ~out'[c].exist /\ out'[c].result = "error" BY <1>3, Ends DEF IInv
  <2>2. Moves(c) BY <1>1, <1>3, Ends, Rest DEF Moves, IInv
  <2>3. ControlInv(c)' BY <2>1 DEF ControlInv, Labels
  <2> QED BY <1>1, <1>3, <2>1, <2>2, <2>3, QuietStep
<1>4. CASE NextProperty(c, "nil") /\ UNCHANGED <<store, added, seen, spoilt>>
  <2>1. \/ pc'[c] = "return" /\ ~out'[c].exist /\ out'[c].result = "nil"
        \/ pc'[c] \in {"getProperty", "getSchema"} /\ req[c].op = "initModel"
        BY <1>4, PropertyFollows DEF IInv
  <2>2. Moves(c) BY <1>1, <1>4, PropertyFollows, Rest DEF Moves, IInv
  <2>3. ControlInv(c)' BY <1>1, <2>1 DEF ControlInv, Labels
  <2> QED BY <1>1, <1>4, <2>1, <2>2, <2>3, QuietStep
<1>5. ASSUME NEW reply \in Replies, NEW o,
             o = PropertyObject(c) \/ reply # "ok", Execute(c, "create", o, <<>>, reply),
             \/ Finish(c, FALSE, "error") /\ UNCHANGED props
             \/ reply # "error" /\ NextProperty(c, reply)
      PROVE  IInv' /\ [Promise!Next]_(Promise!vars)
  <2>1. \/ pc'[c] = "return" /\ ~out'[c].exist /\ out'[c].result = "error"
        \/ req[c].op = "initModel" /\ pc'[c] = "return" /\ ~out'[c].exist /\ out'[c].result = "nil"
        \/ req[c].op = "initModel" /\ pc'[c] \in {"getProperty", "getSchema"}
        \/ req[c].op # "initModel" /\ pc'[c] = "return" /\ ~out'[c].exist /\ out'[c].result = reply
    <3>1. CASE Finish(c, FALSE, "error") BY <3>1, Ends DEF IInv
    <3>2. CASE NextProperty(c, reply) BY <3>2, PropertyFollows DEF IInv
    <3> QED BY <1>5, <3>1, <3>2
  <2>2. Moves(c)
    <3>1. /\ pc' = [pc EXCEPT ![c] = pc'[c]] /\ out' = [out EXCEPT ![c] = out'[c]]
          /\ props' = [props EXCEPT ![c] = props'[c]]
          BY <1>5, Ends, PropertyFollows, Rest DEF IInv
    <3> QED BY <1>1, <3>1, Rest DEF Moves, IInv
  <2>3. ControlInv(c)' BY <1>1, <2>1 DEF ControlInv, Labels
  <2>4. /\ reply = "ok" => o \in added'[c]
        /\ told'[c] = [what |-> "nothing", obj |-> <<>>]
        /\ "write" \notin spoilt[c] \/ req[c].op \in Dropping
        BY <1>1, <1>5, ExecuteKeeps DEF IInv, ClientInv, ClaimInv, FailureInv
  <2>5. ClaimInv(c)'
    <3>1. CASE req[c].op = "initModel" BY <1>1, <1>2, <2>1, <2>4, <3>1 DEF ClaimInv
    <3>2. CASE req[c].op # "initModel" BY <1>1, <1>2, <1>5, <2>1, <2>4, <3>2 DEF ClaimInv
    <3> QED BY <3>1, <3>2
  <2>6. \/ req[c].op \in Dropping
        \/ pc'[c] = "return" /\ out'[c].result \in Failures
        \/ reply = "ok" /\ "write" \notin spoilt[c]
        BY <1>5, <2>1, <2>4 DEF Failures, Replies, Dropping
  <2>7. pc'[c] # "idle" BY <2>1
  <2> QED BY <1>1, <1>5, <2>2, <2>3, <2>5, <2>6, <2>7, WriteStep
<1> DEFINE p == Head(props[c])
           obj == IF Kind[p] = "id" THEN <<>> ELSE PropertyObject(c)
<1>6. CASE \E reply \in Replies :
             /\ Kind[p] = "id" => reply # "ok"
             /\ Execute(c, "create", obj, <<>>, reply)
             /\ IF reply = "error" THEN Finish(c, FALSE, "error") /\ UNCHANGED <<schemas, props>>
                ELSE NextProperty(c, reply)
  <2>1. PICK reply \in Replies :
             /\ Kind[p] = "id" => reply # "ok"
             /\ Execute(c, "create", obj, <<>>, reply)
             /\ IF reply = "error" THEN Finish(c, FALSE, "error") /\ UNCHANGED <<schemas, props>>
                ELSE NextProperty(c, reply)
        BY <1>6
  <2>2. obj = PropertyObject(c) \/ reply # "ok" BY <2>1
  <2> HIDE DEF obj
  <2> QED BY <1>5, <2>1, <2>2
<1> QED BY <1>3, <1>4, <1>6 DEF CreatePropertyStep
-----------------------------------------------------------------------------
LEMMA StepInv == IInv /\ [Next]_vars => IInv' /\ [Promise!Next]_(Promise!vars)
<1> SUFFICES ASSUME IInv, [Next]_vars PROVE IInv' /\ [Promise!Next]_(Promise!vars)
    OBVIOUS
<1>1. CASE UNCHANGED vars
  <2>1. IInv' BY <1>1 DEF vars, IInv, Shape, ClientInv, ControlInv, ClaimInv, FailureInv
  <2> QED BY <1>1, <2>1 DEF vars, Promise!vars
<1>2. CASE Next
  <2>1. PICK c \in Clients : Begin(c) \/ Step(c) BY <1>2 DEF Next
  <2> QED BY <2>1, BeginStep, ReturnStep, RejectStep, SingleStep, HasGraphStep, CreateGraphKeeps,
             GetSchemaKeeps, CreateSchemaKeeps, CreatePropertiesKeeps, GetPropertyKeeps,
             CreatePropertyKeeps DEF Step
<1> QED BY <1>1, <1>2

LEMMA Invariant == Spec => []IInv
BY InitInv, StepInv, PTL DEF Spec

\* The calls of Catalog keep the promise of CreateOnce: with any number of
\* clients between the check and the creation of an "...IfNotExist" call, a
\* reported creation was made by the call, and a reported object was there.
THEOREM Implements == Spec => ImplementsCreateOnce
<1>1. Init => Promise!Init
      BY CatalogAssumption DEF Init, Promise!Init, Promise!Nothing
<1>2. Spec => Promise!Spec
      BY <1>1, InitInv, StepInv, PTL DEF Spec, Promise!Spec
<1> QED BY <1>2 DEF ImplementsCreateOnce

\* Every call but those that drop responses returns an error, a failed status or
\* a panic when a statement of it that was to change something did not succeed.
THEOREM NothingSilent == Spec => []NoSilentFailure
<1>1. IInv => NoSilentFailure
      BY DEF IInv, ClientInv, FailureInv, NoSilentFailure, Dropping, Failures
<1> QED BY Invariant, <1>1, PTL
-----------------------------------------------------------------------------
(***************************************************************************)
(* The creation of a schema with its properties: what is left in "props" is *)
(* the end of the list, and what was made is what came before it.           *)
(***************************************************************************)

Making(r) == r.op \in {"createSchema", "createSchemaIfNotExist"}

\* Of the properties, exactly the first k were made by the call of c.
MadeTo(c, k) ==
  LET r == req[c]
      list == Creatables(r.schema)
  IN  \A i \in 1 .. Len(list) :
        <<r.config, r.schema, list[i]>> \in added[c] <=> \E j \in 1 .. k : list[j] = list[i]

\* From the property after the k-th on, all are to be made.
LeftFrom(c, k) ==
  LET list == Creatables(req[c].schema)
  IN  /\ props[c] \in Seq(Names) /\ Len(props[c]) = Len(list) - k
      /\ \A i \in 1 .. Len(list) - k : props[c][i] = list[k + i]

BuiltInv(c) ==
  Making(req[c]) =>
    LET last == Len(Creatables(req[c].schema)) IN
    /\ Creatables(req[c].schema) \in Seq(Names) /\ req[c].isCreateProperties \in BOOLEAN
    /\ pc[c] \in {"getSchema", "createSchema"} =>
         /\ MadeTo(c, 0)
         /\ IF req[c].isCreateProperties THEN LeftFrom(c, 0) ELSE props[c] = <<>>
    /\ pc[c] = "createProperties" => \E k \in 0 .. last - 1 : MadeTo(c, k) /\ LeftFrom(c, k)
    /\ pc[c] \in {"return", "idle"} =>
         \E k \in 0 .. last :
           /\ MadeTo(c, k)
           /\ out[c].result = "ok" =>
                /\ <<req[c].config, req[c].schema>> \in added[c]
                /\ req[c].isCreateProperties => k = last

BuildingInv == \A c \in Clients : BuiltInv(c)

\* What BuiltInv(e) speaks of is changed by steps of e only.
Untouched(e) ==
  pc'[e] = pc[e] /\ req'[e] = req[e] /\ props'[e] = props[e] /\ out'[e] = out[e] /\ added'[e] = added[e]

LEMMA OnlyOwn ==
  ASSUME IInv, NEW c \in Clients, Begin(c) \/ Step(c), NEW e \in Clients \ {c}
  PROVE  Untouched(e)
<1>1. Shape BY DEF IInv
<1>2. pc'[e] = pc[e]
  <2>1. \E l : pc' = [pc EXCEPT ![c] = l]
        BY DEF Begin, Step, Goto, Continue, Finish, NextSchema, NextProperty, Reject, Single, HasGraph,
               CreateGraphStep, GetSchemaStep, RejectSchema, CreateSchemaStep, CreateProperties,
               GetPropertyStep, CreatePropertyStep, Return
  <2> QED BY <1>1, <2>1 DEF Shape
<1>3. req'[e] = req[e]
  <2>1. req' = req \/ \E r : req' = [req EXCEPT ![c] = r]
        BY DEF Begin, Accept, Step, Reject, Single, HasGraph, CreateGraphStep, GetSchemaStep, RejectSchema,
               CreateSchemaStep, CreateProperties, GetPropertyStep, CreatePropertyStep, Return
  <2> QED BY <1>1, <2>1 DEF Shape
<1>4. props'[e] = props[e]
  <2>1. props' = props \/ \E l : props' = [props EXCEPT ![c] = l]
        BY DEF Begin, Step, NextProperty, Reject, Single, HasGraph, CreateGraphStep, GetSchemaStep,
               RejectSchema, CreateSchemaStep, CreateProperties, GetPropertyStep, CreatePropertyStep, Return
  <2> QED BY <1>1, <2>1 DEF Shape
<1>5. out'[e] = out[e]
  <2>1. out' = out \/ \E v : out' = [out EXCEPT ![c] = v]
        BY DEF Begin, Accept, Step, Continue, Finish, NextSchema, NextProperty, Reject, Single, HasGraph,
               CreateGraphStep, GetSchemaStep, RejectSchema, CreateSchemaStep, CreateProperties,
               GetPropertyStep, CreatePropertyStep, Return
  <2> QED BY <1>1, <2>1 DEF Shape
<1>6. added'[e] = added[e]
  <2>1. \/ added' = added \/ \E v : added' = [added EXCEPT ![c] = v]
        BY DEF Begin, Accept, Step, Look, Execute, Reject, Single, HasGraph,
               CreateGraphStep, GetSchemaStep, RejectSchema, CreateSchemaStep, CreateProperties,
               GetPropertyStep, CreatePropertyStep, Return
  <2> QED BY <1>1, <2>1 DEF Shape
<1> QED BY <1>2, <1>3, <1>4, <1>5, <1>6 DEF Untouched

LEMMA BuiltKept ==
  ASSUME NEW e \in Clients, BuiltInv(e), Untouched(e)
  PROVE  BuiltInv(e)'
<1>1. /\ pc'[e] = pc[e] /\ req'[e] = req[e] /\ props'[e] = props[e] /\ out'[e] = out[e]
      /\ added'[e] = added[e]
      BY DEF Untouched
<1>2. ASSUME NEW k PROVE (MadeTo(e, k)' <=> MadeTo(e, k)) /\ (LeftFrom(e, k)' <=> LeftFrom(e, k))
      BY <1>1 DEF MadeTo, LeftFrom
<1> QED BY <1>1, <1>2 DEF BuiltInv, Making

LEMMA BuiltBegin == ASSUME IInv, NEW c \in Clients, Begin(c) PROVE BuiltInv(c)'
<1>1. PICK r \in Requests[c] :
        /\ Accept(c, r)
        /\ Goto(c, CASE r.op \in {"createGraphIfNotExist", "initModel"} -> "hasGraph"
                     [] r.op = "createSchema" -> "createSchema"
                     [] r.op = "createSchemaIfNotExist" -> "getSchema"
                     [] r.op = "createPropertyIfNotExist" -> "getProperty"
                     [] r.op = "single" -> "statement")
        /\ props' = [props EXCEPT ![c] = CASE r.op = "createPropertyIfNotExist" -> <<r.property>>
                                     [] r.op \in {"createSchema", "createSchemaIfNotExist"} ->
                                          IF r.isCreateProperties
                                          THEN Creatables(r.schema) ELSE <<>>
                                     [] OTHER -> <<>>]
      BY DEF Begin
<1>2. req'[c] = r /\ added'[c] = {} BY <1>1 DEF IInv, Shape, Accept
<1> SUFFICES ASSUME Making(r) PROVE BuiltInv(c)'
    BY <1>2 DEF BuiltInv
<1>3. pc'[c] \in {"getSchema", "createSchema"}
      BY <1>1 DEF IInv, Shape, Goto, Making
<1>4. props'[c] = IF r.isCreateProperties THEN Creatables(r.schema) ELSE <<>>
      BY <1>1 DEF IInv, Shape, Making
<1>5. Creatables(r.schema) \in Seq(Names) /\ r.isCreateProperties \in BOOLEAN
      BY SchemasAssumption DEF Making
<1>6. MadeTo(c, 0)' BY <1>2 DEF MadeTo
<1>7. r.isCreateProperties => LeftFrom(c, 0)' BY <1>2, <1>4, <1>5 DEF LeftFrom
<1> QED BY <1>2, <1>3, <1>4, <1>5, <1>6, <1>7 DEF BuiltInv

LEMMA BuiltReturn == ASSUME IInv, NEW c \in Clients, BuiltInv(c), Return(c) PROVE BuiltInv(c)'
<1>1. /\ pc[c] = "return" /\ pc' = [pc EXCEPT ![c] = "idle"]
      /\ UNCHANGED <<req, props, out, added>>
      BY DEF Return, Goto
<1>2. pc'[c] = "idle" BY <1>1 DEF IInv, Shape
<1> QED BY <1>1, <1>2 DEF BuiltInv, MadeTo, LeftFrom, Making

\* A call that ends before a property was made.
LEMMA BuiltEarly ==
  ASSUME NEW c \in Clients, BuiltInv(c), Making(req[c]), req' = req, added' = added,
         pc[c] \in {"getSchema", "createSchema", "createProperties"},
         pc'[c] = "return", out'[c].result # "ok"
  PROVE  BuiltInv(c)'
<1>1. PICK k \in 0 .. Len(Creatables(req[c].schema)) : MadeTo(c, k)
  <2>1. CASE pc[c] \in {"getSchema", "createSchema"}
    <3>1. MadeTo(c, 0) /\ Len(Creatables(req[c].schema)) \in Nat BY <2>1 DEF BuiltInv
    <3>2. 0 \in 0 .. Len(Creatables(req[c].schema)) BY <3>1
    <3> QED BY <3>1, <3>2
  <2>2. CASE pc[c] = "createProperties"
    <3>1. Len(Creatables(req[c].schema)) \in Nat BY DEF BuiltInv
    <3>2. PICK k \in 0 .. Len(Creatables(req[c].schema)) - 1 : MadeTo(c, k) BY <2>2 DEF BuiltInv
    <3>3. k \in 0 .. Len(Creatables(req[c].schema)) BY <3>1, <3>2
    <3> QED BY <3>2, <3>3
  <2> QED BY <2>1, <2>2
<1>2. MadeTo(c, k)' BY <1>1 DEF MadeTo
<1> QED BY <1>1, <1>2 DEF BuiltInv

LEMMA BuiltReject ==
  ASSUME IInv, NEW c \in Clients, BuiltInv(c), RejectSchema(c) PROVE BuiltInv(c)'
<1>1. /\ pc[c] = "createSchema" /\ Finish(c, FALSE, "error") /\ UNCHANGED <<req, added>>
      BY DEF RejectSchema
<1>2. pc'[c] = "return" /\ out'[c].result = "error" BY <1>1, Ends DEF IInv
<1>3. CASE Making(req[c]) BY <1>1, <1>2, <1>3, BuiltEarly
<1>4. CASE ~Making(req[c]) BY <1>1, <1>4 DEF BuiltInv, Making
<1> QED BY <1>3, <1>4

LEMMA BuiltGet ==
  ASSUME IInv, NEW c \in Clients, BuiltInv(c), GetSchemaStep(c) PROVE BuiltInv(c)'
<1>1. pc[c] = "getSchema" /\ req' = req BY DEF GetSchemaStep
<1>2. CASE ~Making(req[c]) BY <1>1, <1>2 DEF BuiltInv, Making
<1>3. CASE Making(req[c])
  <2>1. req[c].op # "initModel" BY <1>3 DEF Making
  <2>2. /\ added' = added
        /\ \/ Finish(c, FALSE, "error") \/ Finish(c, TRUE, "nil")
           \/ Continue(c, "createSchema") /\ props' = props
        BY <2>1 DEF GetSchemaStep, Look
  <2>3. CASE Continue(c, "createSchema") /\ props' = props
    <3>1. pc'[c] = "createSchema" BY <2>3, GoesOn DEF IInv
    <3> QED BY <1>1, <2>2, <2>3, <3>1 DEF BuiltInv, MadeTo, LeftFrom, Making
  <2>4. CASE Finish(c, FALSE, "error") \/ Finish(c, TRUE, "nil")
    <3>1. PICK v \in {"error", "nil"}, x \in BOOLEAN : Finish(c, x, v) BY <2>4
    <3>2. pc'[c] = "return" /\ out'[c].result = v BY <3>1, Ends DEF IInv
    <3> QED BY <1>1, <1>3, <2>2, <3>1, <3>2, BuiltEarly
  <2> QED BY <2>2, <2>3, <2>4
<1> QED BY <1>2, <1>3

LEMMA BuiltOther ==
  ASSUME IInv, NEW c \in Clients, BuiltInv(c),
         Reject(c) \/ Single(c) \/ HasGraph(c) \/ CreateGraphStep(c) \/ GetPropertyStep(c)
           \/ CreatePropertyStep(c)
  PROVE  BuiltInv(c)'
<1>1. pc[c] \in {"statement", "hasGraph", "createGraph", "getProperty", "createProperty"} /\ req' = req
      BY DEF Reject, Single, HasGraph, CreateGraphStep, GetPropertyStep, CreatePropertyStep
<1>2. ~Making(req[c]) BY <1>1 DEF IInv, ClientInv, ControlInv, Making
<1> QED BY <1>1, <1>2 DEF BuiltInv, Making

LEMMA Adds ==
  ASSUME Shape, NEW c \in Clients, NEW o, NEW to, NEW reply, Execute(c, "create", o, to, reply)
  PROVE  \/ added'[c] = added[c] /\ reply # "ok"
         \/ added'[c] = added[c] \cup {o} /\ reply # "refused"
<1>1. \/ added' = added /\ reply # "ok"
      \/ added' = [added EXCEPT ![c] = @ \cup {o}] /\ reply # "refused"
      BY DEF Execute
<1> QED BY <1>1 DEF Shape

LEMMA BuiltCreate ==
  ASSUME IInv, NEW c \in Clients, BuiltInv(c), CreateSchemaStep(c) PROVE BuiltInv(c)'
<1>1. pc[c] = "createSchema" /\ req' = req /\ props' = props BY DEF CreateSchemaStep
<1> SUFFICES ASSUME Making(req[c]) PROVE BuiltInv(c)'
    BY <1>1 DEF BuiltInv, Making
<1> DEFINE list == Creatables(req[c].schema)
           s == <<req[c].config, req[c].schema>>
<1>2. /\ req[c].op # "initModel" /\ SchemaObject(c) = s
      BY DEF Making, SchemaObject, SchemaName
<1>3. PICK reply \in Replies :
        /\ Execute(c, "create", SchemaObject(c), <<>>, reply)
        /\ \/ reply = "error" /\ Finish(c, FALSE, "error")
           \/ /\ reply # "error" /\ props[c] = <<>> /\ Finish(c, FALSE, SchemaResult(c, reply))
           \/ /\ reply # "error" /\ props[c] # <<>> /\ Continue(c, "createProperties")
      BY <1>2 DEF CreateSchemaStep
<1>4. /\ added'[c] = added[c] \/ added'[c] = added[c] \cup {s}
      /\ reply = "ok" => s \in added'[c]
      BY <1>2, <1>3, Adds DEF IInv
<1>5. /\ MadeTo(c, 0) /\ list \in Seq(Names) /\ req[c].isCreateProperties \in BOOLEAN
      /\ IF req[c].isCreateProperties THEN LeftFrom(c, 0) ELSE props[c] = <<>>
      BY <1>1 DEF BuiltInv
<1>6. MadeTo(c, 0)'
  <2>1. ASSUME NEW p PROVE <<req[c].config, req[c].schema, p>> # s OBVIOUS
  <2> QED BY <1>1, <1>4, <1>5, <2>1 DEF MadeTo
<1>7. Len(list) \in Nat /\ 0 \in 0 .. Len(list) BY <1>5
<1>8. CASE reply = "error" /\ Finish(c, FALSE, "error")
  <2>1. pc'[c] = "return" /\ out'[c].result = "error" BY <1>8, Ends DEF IInv
  <2> QED BY <1>1, <1>5, <1>6, <1>7, <2>1 DEF BuiltInv
<1>9. CASE props[c] = <<>> /\ Finish(c, FALSE, SchemaResult(c, reply))
  <2>1. pc'[c] = "return" /\ out'[c].result = SchemaResult(c, reply) BY <1>9, Ends DEF IInv
  <2>2. out'[c].result = "ok" => reply = "ok" BY <2>1 DEF SchemaResult
  <2>3. req[c].isCreateProperties => Len(list) = 0 BY <1>5, <1>7, <1>9 DEF LeftFrom
  <2> QED BY <1>1, <1>4, <1>5, <1>6, <1>7, <2>1, <2>2, <2>3 DEF BuiltInv
<1>10. CASE props[c] # <<>> /\ Continue(c, "createProperties")
  <2>1. pc'[c] = "createProperties" BY <1>10, GoesOn DEF IInv
  <2>2. LeftFrom(c, 0) BY <1>5, <1>10
  <2>3. LeftFrom(c, 0)' BY <1>1, <2>2 DEF LeftFrom
  <2>4. Len(list) # 0 BY <1>7, <1>10, <2>2 DEF LeftFrom
  <2>5. 0 \in 0 .. Len(list) - 1 BY <1>7, <2>4
  <2> QED BY <1>1, <1>5, <1>6, <2>1, <2>3, <2>5 DEF BuiltInv
<1> QED BY <1>3, <1>8, <1>9, <1>10

LEMMA BuiltProperties ==
  ASSUME IInv, NEW c \in Clients, BuiltInv(c), CreateProperties(c) PROVE BuiltInv(c)'
<1>1. pc[c] = "createProperties" /\ req' = req BY DEF CreateProperties
<1>2. Making(req[c]) BY <1>1 DEF IInv, ClientInv, ControlInv, Making
<1> DEFINE r == req[c]
           list == Creatables(r.schema)
           o == <<r.config, r.schema, Head(props[c])>>
<1>3. PropertyObject(c) = o BY <1>2 DEF Making, PropertyObject, SchemaName
<1>4. /\ Creatables(r.schema) \in Seq(Names) /\ r.isCreateProperties \in BOOLEAN /\ Len(list) \in Nat
      BY <1>2 DEF BuiltInv
<1>5. PICK k \in 0 .. Len(list) - 1 : MadeTo(c, k) /\ LeftFrom(c, k) BY <1>1, <1>2 DEF BuiltInv
<1>6. k \in Nat /\ k + 1 \in 0 .. Len(list) /\ k \in 0 .. Len(list) BY <1>4, <1>5
<1>7. CASE Finish(c, FALSE, "error") /\ UNCHANGED added
  <2>1. pc'[c] = "return" /\ out'[c].result = "error" BY <1>7, Ends DEF IInv
  <2> QED BY <1>1, <1>2, <1>7, <2>1, BuiltEarly
<1>8. CASE \E reply \in Replies :
             /\ Execute(c, "create", PropertyObject(c), <<>>, reply)
             /\ props' = [props EXCEPT ![c] = Tail(@)]
             /\ IF reply = "ok" /\ Tail(props[c]) # <<>> THEN Continue(c, "createProperties")
                ELSE Finish(c, FALSE,
                            CASE reply = "ok" -> SchemaResult(c, resp[c])
                              [] reply = "refused" -> SchemaResult(c, "refused")
                              [] reply = "error" -> "error")
  <2>1. PICK reply \in Replies :
             /\ Execute(c, "create", PropertyObject(c), <<>>, reply)
             /\ props' = [props EXCEPT ![c] = Tail(@)]
             /\ IF reply = "ok" /\ Tail(props[c]) # <<>> THEN Continue(c, "createProperties")
                ELSE Finish(c, FALSE,
                            CASE reply = "ok" -> SchemaResult(c, resp[c])
                              [] reply = "refused" -> SchemaResult(c, "refused")
                              [] reply = "error" -> "error")
        BY <1>8
  <2>2. \/ added'[c] = added[c] /\ reply # "ok"
        \/ added'[c] = added[c] \cup {o}
        BY <1>3, <2>1, Adds DEF IInv
  <2>3. props'[c] = Tail(props[c]) BY <2>1 DEF IInv, Shape
  <2>4. /\ props[c] \in Seq(Names) /\ Len(props[c]) = Len(list) - k /\ props[c] # <<>>
        /\ Head(props[c]) = list[k + 1]
    <3>1. /\ props[c] \in Seq(Names) /\ Len(props[c]) = Len(list) - k
          /\ \A i \in 1 .. Len(list) - k : props[c][i] = list[k + i]
          BY <1>5 DEF LeftFrom
    <3>2. Len(list) - k > 0 /\ 1 \in 1 .. Len(list) - k BY <1>4, <1>5
    <3>3. props[c] # <<>> /\ Head(props[c]) = props[c][1] BY <3>1, <3>2
    <3> QED BY <3>1, <3>2, <3>3
  <2>5. LeftFrom(c, k + 1)'
    <3>1. Tail(props[c]) \in Seq(Names) /\ Len(Tail(props[c])) = Len(list) - (k + 1)
          BY <1>4, <1>6, <2>4
    <3>2. ASSUME NEW i \in 1 .. Len(list) - (k + 1) PROVE Tail(props[c])[i] = list[(k + 1) + i]
      <4>1. i + 1 \in 1 .. Len(list) - k /\ k + (i + 1) = (k + 1) + i BY <1>4, <1>6
      <4>2. Tail(props[c])[i] = props[c][i + 1] BY <2>4, <3>1, <1>4, <1>6
      <4> QED BY <1>5, <4>1, <4>2 DEF LeftFrom
    <3> QED BY <1>1, <2>3, <3>1, <3>2 DEF LeftFrom
  <2>6. added'[c] = added[c] \cup {o} => MadeTo(c, k + 1)'
    <3>1. ASSUME added'[c] = added[c] \cup {o}, NEW i \in 1 .. Len(list)
          PROVE  <<r.config, r.schema, list[i]>> \in added'[c] <=> \E j \in 1 .. k + 1 : list[j] = list[i]
      <4>1. <<r.config, r.schema, list[i]>> \in added[c] <=> \E j \in 1 .. k : list[j] = list[i]
            BY <1>5 DEF MadeTo
      <4>2. <<r.config, r.schema, list[i]>> = o <=> list[k + 1] = list[i] BY <2>4
      <4>3. (\E j \in 1 .. k + 1 : list[j] = list[i])
              <=> (\E j \in 1 .. k : list[j] = list[i]) \/ list[k + 1] = list[i]
            BY <1>6
      <4> QED BY <3>1, <4>1, <4>2, <4>3
    <3> QED BY <1>1, <3>1 DEF MadeTo
  <2>7. added'[c] = added[c] => MadeTo(c, k)' BY <1>1, <1>5 DEF MadeTo
  <2>8. CASE reply = "ok" /\ Tail(props[c]) # <<>>
    <3>1. pc'[c] = "createProperties" BY <2>1, <2>8, GoesOn DEF IInv
    <3>2. MadeTo(c, k + 1)' BY <2>2, <2>6, <2>8
    <3>3. k + 1 # Len(list) BY <1>4, <1>6, <2>4, <2>8
    <3>4. k + 1 \in 0 .. Len(list) - 1 BY <1>4, <1>6, <3>3
    <3> QED BY <1>1, <1>4, <2>5, <3>1, <3>2, <3>4 DEF BuiltInv
  <2>9. CASE reply = "ok" /\ Tail(props[c]) = <<>>
    <3>1. pc'[c] = "return" /\ out'[c].result = SchemaResult(c, resp[c]) BY <2>1, <2>9, Ends DEF IInv
    <3>2. MadeTo(c, k + 1)' BY <2>2, <2>6, <2>9
    <3>3. k + 1 = Len(list)
      <4>1. ASSUME NEW t, t = <<>> PROVE Len(t) = 0 BY <4>1
      <4>2. Len(props'[c]) = 0 BY <2>3, <2>9, <4>1
      <4>3. Len(props'[c]) = Len(list) - (k + 1) BY <1>1, <2>5 DEF LeftFrom
      <4> QED BY <1>4, <1>6, <4>2, <4>3
    <3>4. out'[c].result = "ok" => <<r.config, r.schema>> \in added'[c]
      <4>1. Target(r) = <<r.config, r.schema>> BY <1>2 DEF Target, Making
      <4>2. resp[c] = "ok" => Target(r) \in added[c] BY <1>1 DEF IInv, ClientInv, ClaimInv
      <4> QED BY <2>2, <3>1, <4>1, <4>2 DEF SchemaResult
    <3> QED BY <1>1, <1>4, <1>6, <3>1, <3>2, <3>3, <3>4 DEF BuiltInv
  <2>10. CASE reply # "ok"
    <3>1. pc'[c] = "return" /\ out'[c].result # "ok"
      <4>1. PICK v \in {"error", "refused", "nil"} : Finish(c, FALSE, v)
            BY <2>1, <2>10 DEF SchemaResult, Replies
      <4> QED BY <4>1, Ends DEF IInv
    <3>2. \E l \in 0 .. Len(list) : MadeTo(c, l)' BY <1>6, <2>2, <2>6, <2>7
    <3> QED BY <1>1, <1>4, <3>1, <3>2 DEF BuiltInv
  <2> QED BY <2>8, <2>9, <2>10
<1> QED BY <1>7, <1>8 DEF CreateProperties

\* The properties of a schema are created in their order and none is skipped,
\* whatever the other clients do to the same schema in the meantime; a response
\* that reports success stands for the schema and all of its properties.
THEOREM BuiltInOrder == Spec => []SchemaBuiltInOrder
<1>1. Init => BuildingInv
      BY DEF Init, BuildingInv, BuiltInv, Making
<1>2. IInv /\ BuildingInv /\ [Next]_vars => BuildingInv'
  <2> SUFFICES ASSUME IInv, BuildingInv, [Next]_vars, NEW e \in Clients PROVE BuiltInv(e)'
      BY DEF BuildingInv
  <2>1. BuiltInv(e) BY DEF BuildingInv
  <2>2. CASE UNCHANGED vars
    <3>1. Untouched(e) BY <2>2 DEF vars, Untouched
    <3> QED BY <2>1, <3>1, BuiltKept
  <2>3. CASE Next
    <3>1. PICK c \in Clients : Begin(c) \/ Step(c) BY <2>3 DEF Next
    <3>2. CASE c # e BY <2>1, <3>1, <3>2, OnlyOwn, BuiltKept
    <3>3. CASE c = e
          BY <2>1, <3>1, <3>3, BuiltBegin, BuiltReturn, BuiltReject, BuiltGet, BuiltCreate, BuiltProperties,
             BuiltOther DEF Step
    <3> QED BY <3>2, <3>3
  <2> QED BY <2>2, <2>3
<1>3. IInv /\ BuildingInv => SchemaBuiltInOrder
  <2> SUFFICES ASSUME IInv, BuildingInv, NEW c \in Clients, Making(req[c])
               PROVE  LET list == Creatables(req[c].schema)
                          made(i) == <<req[c].config, req[c].schema, list[i]>> \in added[c]
                      IN  /\ \E k \in 0 .. Len(list) :
                               \A i \in DOMAIN list : made(i) <=> \E j \in 1 .. k : list[j] = list[i]
                          /\ (pc[c] = "idle" /\ out[c].result = "ok") =>
                               /\ <<req[c].config, req[c].schema>> \in added[c]
                               /\ req[c].isCreateProperties => \A i \in DOMAIN list : made(i)
      BY DEF SchemaBuiltInOrder, Making
  <2> DEFINE r == req[c]
             list == Creatables(r.schema)
  <2>1. BuiltInv(c) BY DEF BuildingInv
  <2>2. list \in Seq(Names) /\ Len(list) \in Nat /\ DOMAIN list = 1 .. Len(list) BY <2>1 DEF BuiltInv
  <2>3. pc[c] \in {"getSchema", "createSchema", "createProperties", "return", "idle"}
        BY DEF IInv, ClientInv, ControlInv, Labels, Making
  <2>4. \E k \in 0 .. Len(list) : MadeTo(c, k)
    <3>1. CASE pc[c] \in {"getSchema", "createSchema"}
      <4>1. 0 \in 0 .. Len(list) BY <2>2
      <4> QED BY <2>1, <3>1, <4>1 DEF BuiltInv
    <3>2. CASE pc[c] = "createProperties"
      <4>1. PICK k \in 0 .. Len(list) - 1 : MadeTo(c, k) BY <2>1, <3>2 DEF BuiltInv
      <4>2. k \in 0 .. Len(list) BY <2>2
      <4> QED BY <4>1, <4>2
    <3>3. CASE pc[c] \in {"return", "idle"} BY <2>1, <3>3 DEF BuiltInv
    <3> QED BY <2>3, <3>1, <3>2, <3>3
  <2>5. ASSUME pc[c] = "idle", out[c].result = "ok"
        PROVE  /\ <<r.config, r.schema>> \in added[c]
               /\ r.isCreateProperties =>
                    \A i \in 1 .. Len(list) : <<r.config, r.schema, list[i]>> \in added[c]
    <3>1. PICK k \in 0 .. Len(list) :
            /\ MadeTo(c, k) /\ <<r.config, r.schema>> \in added[c]
            /\ r.isCreateProperties => k = Len(list)
          BY <2>1, <2>5 DEF BuiltInv
    <3> QED BY <2>2, <3>1 DEF MadeTo
  <2> QED BY <2>2, <2>4, <2>5 DEF MadeTo
<1>4. Spec => []BuildingInv BY <1>1, <1>2, Invariant, PTL DEF Spec
<1> QED BY <1>3, <1>4, Invariant, PTL
=============================================================================
