------------------------------- MODULE Catalog -------------------------------
(***************************************************************************)
(* The calls of UltipaAPI that change what the server has: graphs, schemas, *)
(* properties, indexes, users and so on.  Several clients use one server.   *)
(* A statement is one step, and may be executed, be refused, or fail with   *)
(* its effect or without (the answer is lost).  Calls of one statement are  *)
(* read from the table of module Calls; the ones made of several are the    *)
(* actions below.                                                           *)
(***************************************************************************)
EXTENDS Calls, Naturals, Sequences

CONSTANTS
  Clients,
  Names,
  Objects,      \* paths of names: <<graph>>, <<graph, schema>>, <<graph, schema, property>>, ...
  Initial,      \* the objects there are at the start
  Default,      \* Config.DefaultGraph, the graph of a request without one
  Properties,   \* Schema.Properties of the callers' structs, by schema name
  Kind,         \* of a name: "plain", "bad" (it does not pass the checks), or, of a property
                \* that stands for no column of the server, "id" or "ignore"
  Requests,     \* the calls that a client makes
  MaxCalls      \* bound: the number of calls that each client makes

ASSUME CatalogAssumption == /\ Initial \subseteq Objects
                            /\ Objects \subseteq Seq(Names) \ {<<>>}
                            /\ MaxCalls \in [Clients -> Nat]

\* Only the calls that alter something take another name.
ASSUME RequestsAssumption ==
  \A c \in Clients : \A r \in Requests[c] :
    /\ r.op \in {"createGraphIfNotExist", "createSchema", "createSchemaIfNotExist",
                 "createPropertyIfNotExist", "initModel", "single"}
    /\ r.op = "single" /\ r.call.does = "create" => r.to = r.obj

VARIABLES
  store,    \* the objects that the server has
  pc, req,  \* what a client is doing, and for which call
  schemas,  \* model.Schemas that InitModel has yet to treat
  props,    \* schema.Properties that are yet to be created
  resp,     \* the response that the call will return: "nil", "ok" or "refused"
  out,      \* what the last call returned
  named,    \* the properties whose field Schema has been set, by client
  calls,    \* number of calls made
  added, seen, told,  \* what a call created, saw, and told its caller
  spoilt    \* which statements of the call did not succeed: {"read"}, {"write"} or both

vars == <<store, pc, req, schemas, props, resp, out, named, calls, added, seen, told, spoilt>>
frame == <<named, calls>>
-----------------------------------------------------------------------------
(* The server *)

Below(o) == {x \in Objects : Len(x) >= Len(o) /\ SubSeq(x, 1, Len(o)) = o}
Moved(x, o, n) == IF x \in Below(o) THEN [x EXCEPT ![Len(o)] = n] ELSE x
Parent(o) == SubSeq(o, 1, Len(o) - 1)

\* "alter" only changes what the object says of itself, "rename" its name.
Legal(does, o, to) ==
  CASE does = "create" -> o \in Objects \ store /\ (Len(o) > 1 => Parent(o) \in store)
    [] does = "rename" -> o \in store /\ to \in Objects \ store /\ Len(to) = Len(o)
                          /\ Parent(to) = Parent(o) /\ \A x \in store : Moved(x, o, to[Len(to)]) \in Objects
    [] OTHER -> o \in store

Effect(does, o, to) ==
  CASE does = "create" -> store \cup {o}
    [] does = "drop"   -> store \ Below(o)
    [] does = "rename" -> {Moved(x, o, to[Len(to)]) : x \in store}
    [] OTHER -> store

Spoil(c, what, reply) ==
  spoilt' = IF reply = "ok" THEN spoilt ELSE [spoilt EXCEPT ![c] = @ \cup {what}]

\* A statement that changes something, and the answer that api.Uql gets for it.
Execute(c, does, o, to, reply) ==
  /\ \/ /\ reply \in {"ok", "error"}
        /\ Legal(does, o, to)
        /\ store' = Effect(does, o, to)
        /\ added' = [added EXCEPT ![c] = IF does = "create" THEN @ \cup {o} ELSE @]
     \/ /\ reply \in {"refused", "error"}
        /\ UNCHANGED <<store, added>>
  /\ Spoil(c, "write", reply)
  /\ UNCHANGED seen

\* A statement that reads, by a call that looks for o in the answer.  An answer
\* that does not parse ends the call as an error does, and is "error" here.
Look(c, o, reply) ==
  /\ seen' = IF reply = "ok" THEN [seen EXCEPT ![c] = @ \cup ({o} \cap store)] ELSE seen
  /\ Spoil(c, "read", reply)
  /\ UNCHANGED <<store, added>>

Replies == {"ok", "refused", "error"}
-----------------------------------------------------------------------------
(* Control of a call *)

Goto(c, label) == pc' = [pc EXCEPT ![c] = label]

\* The call is over; what it returns is handed over in a step of its own.
Finish(c, exist, result) ==
  /\ Goto(c, "return")
  /\ out' = [out EXCEPT ![c] = [exist |-> exist, result |-> result]]

Continue(c, label) == Goto(c, label) /\ UNCHANGED out

\* What is created, or looked for, at the present point of the call.
SchemaName(c) == IF req[c].op = "initModel" THEN Head(schemas[c]) ELSE req[c].schema
GraphObject(c) == <<req[c].graph>>
SchemaObject(c) == <<req[c].config, SchemaName(c)>>

\* InitModel passes a nil config for properties: they go to the default graph.
PropertyObject(c) ==
  <<IF req[c].op = "initModel" THEN Default ELSE req[c].config, SchemaName(c), Head(props[c])>>

\* CheckReplaceSchemaPropertyName, and the other checks of arguments.
Invalid(n) == Kind[n] = "bad"
Creatable(p) == Kind[p] \notin {"id", "ignore"}
Creatables(schema) == SelectSeq(Properties[schema], Creatable)

ASSUME SchemasAssumption ==
  \A c \in Clients : \A r \in Requests[c] :
    r.op \in {"createSchema", "createSchemaIfNotExist"} =>
      Creatables(r.schema) \in Seq(Names) /\ r.isCreateProperties \in BOOLEAN

\* The call's object, for the calls that promise one.
Target(r) ==
  CASE r.op = "createGraphIfNotExist"    -> <<r.graph>>
    [] r.op \in {"createSchema", "createSchemaIfNotExist"} -> <<r.config, r.schema>>
    [] r.op = "createPropertyIfNotExist" -> <<r.config, r.schema, r.property>>
    [] r.op = "single" /\ r.call.does = "create" -> r.obj
    [] OTHER -> <<>>

Accept(c, r) ==
  /\ pc[c] = "idle" /\ calls[c] < MaxCalls[c]
  /\ req' = [req EXCEPT ![c] = r]
  /\ calls' = [calls EXCEPT ![c] = @ + 1]
  /\ added' = [added EXCEPT ![c] = {}]
  /\ seen' = [seen EXCEPT ![c] = {}]
  /\ told' = [told EXCEPT ![c] = [what |-> "nothing", obj |-> <<>>]]
  /\ spoilt' = [spoilt EXCEPT ![c] = {}]
  /\ resp' = [resp EXCEPT ![c] = "nil"]
  /\ UNCHANGED <<store, out, named>>

Begin(c) == \E r \in Requests[c] :
  /\ Accept(c, r)
  /\ Goto(c, CASE r.op \in {"createGraphIfNotExist", "initModel"} -> "hasGraph"
               [] r.op = "createSchema" -> "createSchema"
               [] r.op = "createSchemaIfNotExist" -> "getSchema"
               [] r.op = "createPropertyIfNotExist" -> "getProperty"
               [] r.op = "single" -> "statement")
  /\ schemas' = [schemas EXCEPT ![c] = IF r.op = "initModel" THEN r.schemas ELSE <<>>]
  /\ props' = [props EXCEPT ![c] = CASE r.op = "createPropertyIfNotExist" -> <<r.property>>
                                     [] r.op \in {"createSchema", "createSchemaIfNotExist"} ->
                                          IF r.isCreateProperties
                                          THEN Creatables(r.schema) ELSE <<>>
                                     [] OTHER -> <<>>]

Claim(c) ==
  LET o == Target(req[c]) IN
  CASE out[c].exist -> [what |-> "exists", obj |-> o]
    [] ~out[c].exist /\ out[c].result = "ok" /\ o # <<>> -> [what |-> "created", obj |-> o]
    [] OTHER -> [what |-> "no claim", obj |-> <<>>]

Return(c) ==
  /\ pc[c] = "return"
  /\ Goto(c, "idle")
  /\ told' = [told EXCEPT ![c] = Claim(c)]
  /\ UNCHANGED <<store, req, schemas, props, resp, out, added, seen, spoilt, frame>>
-----------------------------------------------------------------------------
(* Calls of one statement *)

\* A rejected argument ends the call before anything is sent; one that is not
\* rejected names no object, and the server has nothing to execute.
Reject(c) ==
  /\ pc[c] = "statement" /\ req[c].input \in req[c].call.rejects
  /\ Finish(c, FALSE, "error")
  /\ UNCHANGED <<store, req, schemas, props, resp, added, seen, told, spoilt, frame>>

Single(c) ==
  /\ pc[c] = "statement" /\ req[c].input \notin req[c].call.rejects
  /\ LET call == req[c].call
         o == IF req[c].input = "good" THEN req[c].obj ELSE <<>>
     IN  \E reply \in Replies :
           /\ IF call.does = "read" THEN Look(c, o, reply)
              ELSE Execute(c, IF req[c].to # o THEN "rename" ELSE call.does, o, req[c].to, reply)
           /\ \E result \in Returned(call, reply, o \in store) : Finish(c, FALSE, result)
  /\ UNCHANGED <<req, schemas, props, resp, told, frame>>
-----------------------------------------------------------------------------
(* CreateGraphIfNotExist, InitModel *)

\* The next schema of the model, or the end of InitModel.
NextSchema(c, left) ==
  /\ schemas' = [schemas EXCEPT ![c] = left]
  /\ IF left = <<>> THEN Finish(c, FALSE, "nil") ELSE Continue(c, "getSchema")

\* An error of the check ends InitModel; CreateGraphIfNotExist goes on and creates.
HasGraph(c) ==
  /\ pc[c] = "hasGraph"
  /\ LET model == req[c].op = "initModel"
         o == GraphObject(c)
     IN  \E reply \in Replies :
           /\ Look(c, o, reply)
           /\ \/ /\ reply # "ok" /\ model
                 /\ Finish(c, FALSE, "error") /\ UNCHANGED schemas
              \/ /\ reply = "ok" /\ o \in store
                 /\ IF model THEN NextSchema(c, schemas[c])
                    ELSE Finish(c, TRUE, "nil") /\ UNCHANGED schemas
              \/ /\ IF reply = "ok" THEN o \notin store ELSE ~model
                 /\ Continue(c, "createGraph") /\ UNCHANGED schemas
  /\ UNCHANGED <<req, props, resp, told, frame>>

\* InitModel does not look at the status.
CreateGraphStep(c) ==
  /\ pc[c] = "createGraph"
  /\ \/ /\ Invalid(req[c].graph)
        /\ Finish(c, FALSE, "error") /\ UNCHANGED <<store, added, seen, spoilt, schemas>>
     \/ /\ ~Invalid(req[c].graph)
        /\ \E reply \in Replies :
             /\ Execute(c, "create", GraphObject(c), <<>>, reply)
             /\ IF req[c].op = "initModel" /\ reply # "error"
                THEN NextSchema(c, schemas[c])
                ELSE Finish(c, FALSE, reply) /\ UNCHANGED schemas
  /\ UNCHANGED <<req, props, resp, told, frame>>
-----------------------------------------------------------------------------
(* CreateSchema, CreateSchemaIfNotExist *)

GetSchemaStep(c) ==
  /\ pc[c] = "getSchema"
  /\ LET model == req[c].op = "initModel"
         o == SchemaObject(c)
     IN  \E reply \in Replies :
           /\ Look(c, o, reply)
           /\ \/ reply # "ok" /\ Finish(c, FALSE, "error") /\ UNCHANGED <<schemas, props>>
              \/ /\ reply = "ok" /\ o \notin store
                 /\ Continue(c, "createSchema") /\ UNCHANGED <<schemas, props>>
              \/ /\ reply = "ok" /\ o \in store /\ ~model
                 /\ Finish(c, TRUE, "nil") /\ UNCHANGED <<schemas, props>>
              \/ /\ reply = "ok" /\ o \in store /\ model
                 /\ props' = [props EXCEPT ![c] = Properties[SchemaName(c)]]
                 /\ IF props'[c] = <<>> THEN NextSchema(c, Tail(schemas[c]))
                    ELSE Continue(c, "getProperty") /\ UNCHANGED schemas
  /\ UNCHANGED <<req, resp, told, frame>>

\* Mutant: the response of the last statement stands for the whole.
CreateProperties_LastResponse(c) ==
  /\ pc[c] = "createProperties"
  /\ LET p == Head(props[c]) IN
     /\ named' = [named EXCEPT ![c] = @ \cup {<<SchemaName(c), p>>}]
     /\ ~Invalid(p)
     /\ \E reply \in Replies :
          /\ Execute(c, "create", PropertyObject(c), <<>>, reply)
          /\ props' = [props EXCEPT ![c] = Tail(@)]
          /\ IF reply = "ok" /\ Tail(props[c]) # <<>> THEN Continue(c, "createProperties")
             ELSE Finish(c, FALSE, reply)
  /\ UNCHANGED <<req, schemas, resp, told, calls>>

\* Mutant: a refused property does not end the loop.
CreateProperties_GoesOn(c) ==
  /\ pc[c] = "createProperties"
  /\ \E reply \in Replies :
       /\ Execute(c, "create", PropertyObject(c), <<>>, reply)
       /\ props' = [props EXCEPT ![c] = Tail(@)]
       /\ IF Tail(props[c]) # <<>> THEN Continue(c, "createProperties")
          ELSE Finish(c, FALSE, IF req[c].op = "createSchema" THEN resp[c] ELSE "nil")
  /\ UNCHANGED <<req, schemas, named, resp, told, calls>>

\* CreateSchemaIfNotExist drops the response of CreateSchema.
SchemaResult(c, response) == IF req[c].op = "createSchema" THEN response ELSE "nil"

RejectSchema(c) ==
  /\ pc[c] = "createSchema" /\ Invalid(SchemaName(c))
  /\ Finish(c, FALSE, "error")
  /\ UNCHANGED <<store, req, schemas, props, resp, added, seen, told, spoilt, frame>>

\* The status of the statement is not looked at: the properties follow anyway.
CreateSchemaStep(c) ==
  /\ pc[c] = "createSchema" /\ ~Invalid(SchemaName(c))
  /\ \E reply \in Replies :
       /\ Execute(c, "create", SchemaObject(c), <<>>, reply)
       /\ resp' = [resp EXCEPT ![c] = reply]
       /\ \/ reply = "error" /\ Finish(c, FALSE, "error") /\ UNCHANGED schemas
          \/ /\ reply # "error" /\ req[c].op = "initModel"
             /\ NextSchema(c, Tail(schemas[c]))
          \/ /\ reply # "error" /\ req[c].op # "initModel" /\ props[c] = <<>>
             /\ Finish(c, FALSE, SchemaResult(c, reply)) /\ UNCHANGED schemas
          \/ /\ reply # "error" /\ req[c].op # "initModel" /\ props[c] # <<>>
             /\ Continue(c, "createProperties") /\ UNCHANGED schemas
  /\ UNCHANGED <<req, props, told, frame>>

\* One property of the loop in CreateSchema, which sets the field Schema of the
\* caller's struct.  "bad" ones return an error before anything is sent.
CreateProperties(c) ==
  /\ pc[c] = "createProperties"
  /\ LET p == Head(props[c]) IN
     /\ named' = [named EXCEPT ![c] = @ \cup {<<SchemaName(c), p>>}]
     /\ \/ /\ Invalid(p)
           /\ Finish(c, FALSE, "error")
           /\ UNCHANGED <<store, added, seen, spoilt, props>>
        \/ /\ ~Invalid(p)
           /\ \E reply \in Replies :
                /\ Execute(c, "create", PropertyObject(c), <<>>, reply)
                /\ props' = [props EXCEPT ![c] = Tail(@)]
                /\ IF reply = "ok" /\ Tail(props[c]) # <<>> THEN Continue(c, "createProperties")
                   ELSE Finish(c, FALSE,
                               CASE reply = "ok" -> SchemaResult(c, resp[c])
                                 [] reply = "refused" -> SchemaResult(c, "refused")
                                 [] reply = "error" -> "error")
  /\ UNCHANGED <<req, schemas, resp, told, calls>>
-----------------------------------------------------------------------------
(* CreatePropertyIfNotExist, by itself and in InitModel *)

\* The next property of an existing schema of the model.
NextProperty(c, response) ==
  IF req[c].op # "initModel"
  THEN Finish(c, FALSE, response) /\ UNCHANGED <<schemas, props>>
  ELSE /\ props' = [props EXCEPT ![c] = Tail(@)]
       /\ IF Tail(props[c]) # <<>> THEN Continue(c, "getProperty") /\ UNCHANGED schemas
          ELSE NextSchema(c, Tail(schemas[c]))

\* property.Schema is the caller's, unless CreateSchema has set it.
HasSchemaField(c) ==
  req[c].op # "initModel" \/ <<SchemaName(c), Head(props[c])>> \in named[c]

GetPropertyStep(c) ==
  /\ pc[c] = "getProperty"
  /\ LET o == IF HasSchemaField(c) THEN PropertyObject(c) ELSE <<>>
     IN  \E reply \in Replies :
           /\ Look(c, o, reply)
           /\ \/ reply # "ok" /\ Finish(c, FALSE, "error") /\ UNCHANGED <<schemas, props>>
              \/ /\ reply = "ok" /\ o \in store
                 /\ IF req[c].op = "initModel" THEN NextProperty(c, "nil")
                    ELSE Finish(c, TRUE, "nil") /\ UNCHANGED <<schemas, props>>
              \/ /\ reply = "ok" /\ o \notin store
                 /\ Continue(c, "createProperty") /\ UNCHANGED <<schemas, props>>
  /\ UNCHANGED <<req, resp, told, frame>>

\* CreateProperty: an empty Schema or a bad property is an error, a property to
\* be ignored is nothing at all, and one of an id type is refused.
CreatePropertyStep(c) ==
  /\ pc[c] = "createProperty"
  /\ LET p == Head(props[c]) IN
     \/ /\ ~HasSchemaField(c) \/ Invalid(p)
        /\ Finish(c, FALSE, "error")
        /\ UNCHANGED <<store, added, seen, spoilt, schemas, props>>
     \/ /\ HasSchemaField(c) /\ Kind[p] = "ignore"
        /\ NextProperty(c, "nil")
        /\ UNCHANGED <<store, added, seen, spoilt>>
     \/ /\ HasSchemaField(c) /\ Kind[p] \in {"plain", "id"}
        /\ \E reply \in Replies :
             /\ Kind[p] = "id" => reply # "ok"
             /\ Execute(c, "create", IF Kind[p] = "id" THEN <<>> ELSE PropertyObject(c), <<>>, reply)
             /\ IF reply = "error"
                THEN Finish(c, FALSE, "error") /\ UNCHANGED <<schemas, props>>
                ELSE NextProperty(c, reply)
  /\ UNCHANGED <<req, resp, told, frame>>
-----------------------------------------------------------------------------
Init ==
  /\ store = Initial
  /\ pc = [c \in Clients |-> "idle"]
  /\ req = [c \in Clients |-> [op |-> "none"]]
  /\ schemas = [c \in Clients |-> <<>>]
  /\ props = [c \in Clients |-> <<>>]
  /\ resp = [c \in Clients |-> "nil"]
  /\ out = [c \in Clients |-> [exist |-> FALSE, result |-> "nil"]]
  /\ named = [c \in Clients |-> {}]
  /\ calls = [c \in Clients |-> 0]
  /\ added = [c \in Clients |-> {}]
  /\ seen = [c \in Clients |-> {}]
  /\ told = [c \in Clients |-> [what |-> "nothing", obj |-> <<>>]]
  /\ spoilt = [c \in Clients |-> {}]

Step(c) == \/ Reject(c) \/ Single(c) \/ HasGraph(c) \/ CreateGraphStep(c)
           \/ GetSchemaStep(c) \/ RejectSchema(c) \/ CreateSchemaStep(c) \/ CreateProperties(c)
           \/ GetPropertyStep(c) \/ CreatePropertyStep(c) \/ Return(c)

Next == \E c \in Clients : Begin(c) \/ Step(c)

Spec == Init /\ [][Next]_vars
FairSpec == Spec /\ \A c \in Clients : WF_vars(Step(c))
-----------------------------------------------------------------------------
(***************************************************************************)
(* Properties.                                                              *)
(***************************************************************************)

\* Every variable keeps its range.
TypeOK ==
  /\ store \subseteq Objects
  /\ pc \in [Clients -> {"idle", "return", "statement", "hasGraph", "createGraph", "getSchema",
                         "createSchema", "createProperties", "getProperty", "createProperty"}]
  /\ resp \in [Clients -> {"nil", "ok", "refused", "error"}]
  /\ out \in [Clients -> [exist : BOOLEAN,
                          result : {"nil", "ok", "refused", "error", "panic"}]]
  /\ \A c \in Clients : calls[c] \in 0 .. MaxCalls[c]
  /\ added \in [Clients -> SUBSET Objects]
  /\ seen \in [Clients -> SUBSET Objects]
  /\ spoilt \in [Clients -> SUBSET {"read", "write"}]

\* What the calls tell their callers is what CreateOnce allows: a successful
\* response comes from the statement that made the object, and Exist from an
\* object that was there during the call, however the statements of several
\* clients fall between the check and the creation.
Promise == INSTANCE CreateOnce WITH store <- store, added <- added, seen <- seen, told <- told
ImplementsCreateOnce == Promise!Spec

\* A statement that was to change something and was refused or failed is not
\* passed over in silence: the caller gets an error or a response that says so.
\* The calls that drop responses by design of the code are left out.
NoSilentFailure ==
  \A c \in Clients :
    (/\ pc[c] = "idle" /\ "write" \in spoilt[c]
     /\ req[c].op \notin {"createSchemaIfNotExist", "initModel"})
      => out[c].result \in {"error", "refused", "panic"}

\* However the creation of a schema with its properties ends, what it added is
\* the front of the list of properties, and if the response is a success it
\* added the schema and all of them.
SchemaBuiltInOrder ==
  \A c \in Clients :
    req[c].op \in {"createSchema", "createSchemaIfNotExist"} =>
      LET list == Creatables(req[c].schema)
          made(i) == <<req[c].config, req[c].schema, list[i]>> \in added[c]
      IN  /\ \E k \in 0 .. Len(list) :
               \A i \in DOMAIN list : made(i) <=> \E j \in 1 .. k : list[j] = list[i]
          /\ (pc[c] = "idle" /\ out[c].result = "ok") =>
               /\ <<req[c].config, req[c].schema>> \in added[c]
               /\ req[c].isCreateProperties => \A i \in DOMAIN list : made(i)

\* InitModel returns no error when no statement of it was refused or failed:
\* TestCreateModel expects this of every run against one server.
InitModelSucceeds ==
  \A c \in Clients :
    (pc[c] = "idle" /\ req[c].op = "initModel" /\ spoilt[c] = {}) => out[c].result # "error"
=============================================================================
