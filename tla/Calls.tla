-------------------------------- MODULE Calls --------------------------------
(***************************************************************************)
(* The calls of UltipaAPI that execute one statement, or one request of     *)
(* the control service, as a table.  Of each call it keeps the control:     *)
(*                                                                          *)
(*   does     what the statement does to the object it names,               *)
(*   kind     the kind of that object,                                      *)
(*   rejects  the arguments for which the call returns an error before it   *)
(*            sends anything: "empty", "invalid" (CheckName) or "dbtype"    *)
(*            (a DBType, or an InsertType, that the call does not take),    *)
(*   then     what it makes of the answer:                                  *)
(*     "response"  the response is returned, whatever its status            *)
(*     "job"       the same, but a successful one is read as a job table    *)
(*     "status"    a failed status becomes an error, nothing is read        *)
(*     "codes"     as "status", but its error codes are indexed unchecked   *)
(*     "list"      a failed status or a result that does not parse is an    *)
(*                 error                                                    *)
(*     "lenient"   as "list", but the error of parsing is dropped           *)
(*     "first"     as "list", and element 0 is taken unchecked              *)
(*     "find"      as "list", and nil is returned when the name is missing  *)
(*     "mustFind"  as "list", and a missing name is an error                *)
(***************************************************************************)

Call(name, does, kind, rejects, then) ==
  [name |-> name, does |-> does, kind |-> kind, rejects |-> rejects, then |-> then]

UserCalls ==
  { Call("ShowUser",   "read",   "user", {},        "list"),
    Call("GetUser",    "read",   "user", {"empty"}, "first"),
    Call("CreateUser", "create", "user", {},        "response"),
    Call("AlterUser",  "alter",  "user", {},        "response"),
    Call("DropUser",   "drop",   "user", {},        "response") }

PolicyCalls ==
  { Call("ShowPolicy",   "read",   "policy", {},        "list"),
    Call("GetPolicy",    "read",   "policy", {"empty"}, "find"),
    Call("CreatePolicy", "create", "policy", {"empty"}, "response"),
    Call("AlterPolicy",  "alter",  "policy", {},        "response"),
    Call("DropPolicy",   "drop",   "policy", {},        "response") }

PrivilegeCalls == { Call("ShowPrivilege", "read", "privilege", {}, "list") }

JobCalls ==
  { Call("ShowJob",  "read",  "job", {}, "list"),
    Call("ClearJob", "drop",  "job", {}, "response"),
    Call("StopJob",  "alter", "job", {}, "response") }

TaskCalls ==
  { Call("ShowTask",  "read",  "job", {}, "list"),
    Call("ClearTask", "drop",  "job", {}, "response"),
    Call("StopTask",  "alter", "job", {}, "response") }

KillCall == Call("Kill", "drop", "process", {"empty"}, "response")

TopCall == Call("Top", "read", "process", {}, "list")

StatsCall == Call("Stats", "read", "server", {}, "response")

LicenseCall == Call("ShowLicense", "read", "server", {}, "first")

BackupCall == Call("ShowBacukup", "read", "server", {}, "list")

ProjectionCall == Call("ShowProjection", "read", "hdc", {}, "list")

LoadCalls ==
  { Call("Lte", "alter", "property", {"empty", "invalid", "dbtype"}, "job"),
    Call("Ufe", "alter", "property", {"empty", "invalid", "dbtype"}, "response") }

HDCCalls ==
  { Call("CreateHDCGraphBySchema", "create", "hdc", {"empty"}, "job"),
    Call("ShowHDCGraph",           "read",   "hdc", {},        "list"),
    Call("DropHDCGraph",           "drop",   "hdc", {},        "response"),
    Call("ShowHDCAlgo",            "read",   "hdc", {"empty"}, "list") }

AlgoCalls ==
  { Call("UninstallHDCAlgo", "drop",  "hdc", {}, "status"),
    Call("RollbackHDCAlgo",  "alter", "hdc", {}, "response") }

SettingCalls ==
  { Call("SetUserSetting", "alter", "user", {}, "response"),
    Call("GetUserSetting", "read",  "user", {}, "response") }

AuthenticateCall == Call("Authenticate", "read", "user", {}, "status")

IndexCalls ==
  { Call("CreateNodeIndex", "create", "index", {"empty", "invalid"}, "job"),
    Call("CreateEdgeIndex", "create", "index", {"empty", "invalid"}, "job"),
    Call("CreateIndex",     "create", "index", {"empty", "invalid", "dbtype"}, "job"),
    Call("ShowIndex",       "read",   "index", {}, "list"),
    Call("ShowNodeIndex",   "read",   "index", {}, "list"),
    Call("ShowEdgeIndex",   "read",   "index", {}, "list"),
    Call("DropIndex",       "drop",   "index", {"dbtype"}, "response") }

FullTextCalls ==
  { Call("CreateFullText",   "create", "index", {"empty", "invalid", "dbtype"}, "job"),
    Call("ShowFullText",     "read",   "index", {}, "list"),
    Call("ShowNodeFullText", "read",   "index", {}, "list"),
    Call("ShowEdgeFullText", "read",   "index", {}, "list"),
    Call("DropFullText",     "drop",   "index", {"dbtype"}, "response") }

ShowGraph == Call("ShowGraph", "read", "graph", {}, "list")

GraphCalls ==
  { ShowGraph,
    Call("HasGraph",   "read",  "graph", {}, "find"),
    Call("GetGraph",   "read",  "graph", {}, "mustFind"),
    Call("DropGraph",  "drop",  "graph", {}, "response"),
    Call("AlterGraph", "alter", "graph", {"empty"}, "response") }

Compact == Call("Compact", "alter", "graph", {}, "job")

CreateGraph == Call("CreateGraph", "create", "graph", {"empty"}, "response")

\* The objects stay; their nodes and edges are no part of the catalog.
Truncate == Call("Truncate", "alter", "graph", {"invalid", "dbtype"}, "response")

InsertNodes == Call("InsertNodes", "alter", "schema", {"dbtype"}, "response")

InsertEdges == Call("InsertEdges", "alter", "schema", {"dbtype"}, "response")

InsertNodesBatch == Call("InsertNodesBatch", "alter", "schema", {}, "status")

InsertEdgesBatch == Call("InsertEdgesBatch", "alter", "schema", {}, "codes")

ShowSchemaCalls ==
  { Call("ShowSchema",     "read", "schema", {}, "list"),
    Call("ShowNodeSchema", "read", "schema", {}, "list"),
    Call("ShowEdgeSchema", "read", "schema", {}, "list") }

GetSchema == Call("GetSchema", "read", "schema", {"dbtype"}, "find")

DropSchema == Call("DropSchema", "drop", "schema", {"empty", "invalid", "dbtype"}, "job")

\* The new name goes through CheckName, which an empty one does not pass.
AlterSchema == Call("AlterSchema", "alter", "schema", {"empty", "invalid", "dbtype"}, "response")

CreateProperty ==
  Call("CreateProperty", "create", "property", {"empty", "invalid", "dbtype"}, "response")

GetProperty == Call("GetProperty", "read", "property", {"dbtype"}, "find")

\* ShowProperty with neither of the two DBTypes asks for the properties of the
\* nodes and then of the edges, and its error is that of the second statement
\* only: the read that stands here.  The first one, a read whose error is
\* dropped, leaves nothing behind.
ShowPropertyCalls ==
  { Call("ShowProperty",     "read", "property", {"invalid"}, "lenient"),
    Call("ShowNodeProperty", "read", "property", {"invalid"}, "lenient"),
    Call("ShowEdgeProperty", "read", "property", {"invalid"}, "lenient") }

DropProperty ==
  Call("DropProperty", "drop", "property", {"empty", "invalid", "dbtype"}, "response")

AlterProperty ==
  Call("AlterProperty", "alter", "property", {"empty", "invalid", "dbtype"}, "response")

AllCalls ==
  UNION { UserCalls, PolicyCalls, PrivilegeCalls, JobCalls, TaskCalls, LoadCalls, HDCCalls,
          AlgoCalls, SettingCalls, IndexCalls, FullTextCalls, GraphCalls, ShowSchemaCalls,
          ShowPropertyCalls,
          { KillCall, TopCall, StatsCall, LicenseCall, BackupCall, ProjectionCall,
            AuthenticateCall, Compact, CreateGraph, GetSchema, DropSchema, AlterSchema,
            CreateProperty, GetProperty, DropProperty, AlterProperty, Truncate,
            InsertNodes, InsertEdges, InsertNodesBatch, InsertEdgesBatch } }

\* Mutant: the status of the answer is not looked at.
Returned_RefusedIsJob(call, reply, found) ==
  IF reply # "error" THEN {"ok"} ELSE {"error"}

\* IsSuccess is asked before the answer is read.
RaisesRefusal(call) == call.then \in {"status", "codes", "list", "lenient", "first", "find", "mustFind"}

(***************************************************************************)
(* What a call may return for a successful answer.  "panic" is an index     *)
(* out of range or a failed type assertion.                                 *)
(***************************************************************************)
AfterSuccess(call, found) ==
  CASE call.then \in {"response", "status", "lenient"} -> {"ok"}
    [] call.then = "list"     -> {"ok", "error"}
    [] call.then = "find"     -> {"ok", "error"}
    [] call.then = "mustFind" -> {"error"} \cup (IF found THEN {"ok"} ELSE {})
    [] call.then = "first"    -> {"error", "panic"} \cup (IF found THEN {"ok"} ELSE {})
    [] call.then = "codes"    -> {"ok", "panic"}
    [] call.then = "job"      -> {"ok", "error", "panic"}

\* Every result that the call may return for an answer of the server.
Returned(call, reply, found) ==
  CASE reply = "error"   -> {"error"}
    [] reply = "refused" -> IF RaisesRefusal(call) THEN {"error"} ELSE {"refused"}
    [] reply = "ok"      -> AfterSuccess(call, found)
=============================================================================
