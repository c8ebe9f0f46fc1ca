----------------------------- MODULE DriverSetup -----------------------------
(***************************************************************************)
(* From an UltipaConfig to the requests of the drivers made of it: several  *)
(* goroutines of an application call NewUltipaDriver (sdk/ultipa.go) with   *)
(* one config, which each of them changes and then keeps a pointer to, and  *)
(* send requests with a RequestConfig of their own (sdk/api/api.go,         *)
(* sdk/configuration, sdk/connection/connection.go).                        *)
(*                                                                          *)
(* A password is the number of times that it was hashed with MD5.           *)
(***************************************************************************)
EXTENDS Integers, Sequences

CONSTANTS
  Drivers,     \* goroutines, each of which makes one driver at a time
  Hosts,       \* config.Hosts: a sequence, in which a host may be listed twice
  Graphs, Zones, Offsets, \* "" and 0 are "not set"; the zone "bad" is unknown
  Given,       \* the configs that the application writes
  Asked,       \* the RequestConfigs that callers give
  Local,       \* the offset of time.Now().Zone()
  MaxInt,      \* the largest int32
  MinTimeout,  \* the least timeout of a context, 10 seconds in the code
  Timeouts,    \* the timeouts that callers give
  MaxTries,    \* bound: calls of NewUltipaDriver of each goroutine
  MaxCloses,   \* bound: calls of Close of a driver of each goroutine
  MaxRequests  \* bound: requests of each goroutine

\* configuration.RequestConfig
RequestConfigs == [timeout : Timeouts, graph : Graphs, host : BOOLEAN, zone : Zones, offset : Offsets]

Methods == {"", "MD5", "LDAP", "NOTHING", "unknown"}
Configs == [timeout : Timeouts, encrypt : Methods, graph : Graphs, password : {0}]

ASSUME SetupAssumption ==
  /\ Asked \subseteq RequestConfigs /\ Given \subseteq Configs
  /\ MaxInt \in Nat /\ MinTimeout \in 1 .. MaxInt
  /\ Timeouts \subseteq (-MaxInt - 1) .. MaxInt
  /\ Len(Hosts) \in Nat
  /\ MaxTries \in [Drivers -> Nat] /\ MaxCloses \in [Drivers -> Nat] /\ MaxRequests \in [Drivers -> Nat]

VARIABLES
  given,   \* the config as the application wrote it
  config,  \* the config as it is
  pc,      \* of each goroutine
  pwd,     \* encryptedPwd
  open,    \* the connections that are open: <<goroutine, try, index in Hosts>> of a
           \* pool, <<goroutine, 0, number of the request>> of a call with a host
  closes,  \* the calls of Close of each driver
  left,    \* the indexes that each of these has still to visit
  tries, requests,
  stored,  \* the number of times that config.Password was assigned
  failed,  \* the constructions <<goroutine, try>> that failed
  met,     \* the drivers <<goroutine, try>> of which two calls of Close overlapped
  last     \* the last request of each driver, with its RequestConfig and what it met

vars == <<given, config, pc, pwd, open, closes, left, tries, requests, stored, failed, met, last>>
None == [kind |-> "none"]
-----------------------------------------------------------------------------
(* configuration *)

FillDefault(c) == [c EXCEPT !.timeout = IF @ = 0 THEN MaxInt ELSE @,
                            !.encrypt = IF @ = "" THEN "MD5" ELSE @]

\* The method is looked up in upper case; "" means MD5 here too.
Supported(method) == method \in Methods \ {"unknown"}
Encrypt(method, password) == IF method \in {"", "MD5"} THEN password + 1 ELSE password

\* A copy of the config, so that a request's timeout is its own.
MergeRequestConfig(c, r) == IF r.timeout > 0 THEN [c EXCEPT !.timeout = r.timeout] ELSE c

\* The pair tz_offset or tz of ToContextKV.
ZoneHeader(r) == CASE r.offset = 0 /\ r.zone = "" -> [tz |-> "", tzOffset |-> Local]
                   [] r.offset # 0 -> [tz |-> "", tzOffset |-> r.offset]
                   [] OTHER -> [tz |-> r.zone, tzOffset |-> 0]

\* The metadata that a request carries.
ToContextKV(c, r) ==
  [password |-> c.password, zone |-> ZoneHeader(r),
   graph |-> IF r.graph # "" THEN r.graph ELSE c.graph]

\* api.buildQueryRequest.  Timeout is converted to uint32.
Modulus == 2 * (MaxInt + 1)
TzFields(r) == [tz |-> IF r.zone # "" /\ r.offset = 0 THEN r.zone ELSE "",
                tzOffset |-> IF r.offset # 0 THEN r.offset
                             ELSE IF r.zone = "" THEN Local ELSE 0]
\* Mutant: the name of a zone goes before its offset.
buildQueryRequest_NameFirst(c, r) ==
  [graph |-> IF r.graph # "" THEN r.graph ELSE c.graph, timeout |-> c.timeout % Modulus,
   zone |-> TzFields(IF r.zone # "" THEN [r EXCEPT !.offset = 0] ELSE r)]
buildQueryRequest(c, r) ==
  [graph |-> IF r.graph # "" THEN r.graph ELSE c.graph,
   timeout |-> c.timeout % Modulus, zone |-> TzFields(r)]

\* Mutant: the config's timeout is left out.
Deadline_NoDefault(c, r) ==
  IF r.timeout < 0 THEN {} ELSE {IF r.timeout < MinTimeout THEN MinTimeout ELSE r.timeout}
\* NewContext: the deadline, as a set that is empty when there is none.
Deadline(c, r) ==
  LET t == CASE r.timeout # 0 -> r.timeout
             [] r.timeout = 0 /\ c.timeout # 0 -> c.timeout
             [] OTHER -> MaxInt
  IN  IF t < 0 THEN {} ELSE {IF t < MinTimeout THEN MinTimeout ELSE t}

\* time.LoadLocation knows the zone.
KnownZone(r) == r.zone # "bad"
-----------------------------------------------------------------------------
(* NewUltipaDriver *)

Goto(d, label) == pc' = [pc EXCEPT ![d] = label]

\* The end of the process.
Panic == pc' = [d \in Drivers |-> "panic"]

\* The connections that a driver's map holds: the last one of every host.
Indexes == 1 .. Len(Hosts)
Kept == {i \in Indexes : \A j \in Indexes : j > i => Hosts[j] # Hosts[i]}
Conn(d, i) == <<d, tries[d], i>>
Closing(d) == {k \in 1 .. MaxCloses[d] : left[d][k] # {}}

\* FillDefault, of a goroutine that has no driver, or has closed the one it has.
Fill(d) ==
  /\ tries[d] < MaxTries[d]
  /\ pc[d] = "start" \/ (pc[d] = "ready" /\ closes[d] > 0 /\ Closing(d) = {})
  /\ closes' = [closes EXCEPT ![d] = 0]
  /\ tries' = [tries EXCEPT ![d] = @ + 1]
  /\ config' = FillDefault(config)
  /\ Goto(d, "encrypt")
  /\ UNCHANGED <<given, pwd, open, left, requests, stored, failed, met, last>>

EncryptPassword(d) ==
  /\ pc[d] = "encrypt"
  /\ IF Supported(config.encrypt)
     THEN /\ pwd' = [pwd EXCEPT ![d] = Encrypt(config.encrypt, config.password)]
          /\ Goto(d, "store")
     ELSE Goto(d, "start") /\ UNCHANGED pwd
  /\ UNCHANGED <<given, config, open, closes, left, tries, requests, stored, failed, met, last>>

\* Mutant: the encrypted password is not kept.
StorePassword_Lost(d) ==
  /\ pc[d] = "store"
  /\ stored' = stored + 1
  /\ Goto(d, "dial")
  /\ UNCHANGED <<given, config, pwd, open, closes, left, tries, requests, failed, met, last>>
StorePassword(d) ==
  /\ pc[d] = "store"
  /\ config' = [config EXCEPT !.password = pwd[d]]
  /\ stored' = stored + 1
  /\ Goto(d, "dial")
  /\ UNCHANGED <<given, pwd, open, closes, left, tries, requests, failed, met, last>>

\* NewConnectionPool: a connection for every entry of Hosts, then the probes, then
\* the cluster's state.  A dial that fails leaves nil in the map, which a later
\* entry of the same host may replace and the probe else dereferences; any other
\* failure leaves the connections open.
NewConnectionPool(d) ==
  /\ pc[d] = "dial"
  /\ \E nil \in SUBSET Indexes :
       /\ open' = open \cup {Conn(d, i) : i \in Indexes \ nil}
       /\ \/ nil \cap Kept # {} /\ Panic /\ UNCHANGED failed
          \/ nil \cap Kept = {} /\ Kept # {} /\ Goto(d, "ready") /\ UNCHANGED failed
          \/ nil \cap Kept = {} /\ Goto(d, "start") /\ failed' = failed \cup {<<d, tries[d]>>}
  /\ UNCHANGED <<given, config, pwd, closes, left, tries, requests, stored, met, last>>
-----------------------------------------------------------------------------
(* Requests *)

\* Mutant: the request's timeout is merged into the config itself.
Request_Shared(d) == \E r \in Asked :
  /\ pc[d] = "ready" /\ requests[d] < MaxRequests[d] /\ KnownZone(r)
  /\ requests' = [requests EXCEPT ![d] = @ + 1]
  /\ config' = MergeRequestConfig(config, r)
  /\ last' = [last EXCEPT ![d] =
       [kind |-> "query", config |-> r, header |-> ToContextKV(config, r),
        deadline |-> Deadline(config, r), request |-> buildQueryRequest(config', r)]]
  /\ UNCHANGED <<given, pc, pwd, open, closes, left, tries, stored, failed, met>>
\* doExecuteQuery up to the sending of the request: a client, on a connection
\* of the pool or, when a host is given, on a new one that nobody closes; the
\* context; the request.
Request(d) == \E r \in Asked :
  /\ pc[d] = "ready" /\ requests[d] < MaxRequests[d]
  /\ requests' = [requests EXCEPT ![d] = @ + 1]
  /\ open' = IF r.host THEN open \cup {<<d, 0, requests'[d]>>} ELSE open
  /\ IF KnownZone(r)
     THEN /\ last' = [last EXCEPT ![d] =
               [kind |-> "query", config |-> r, header |-> ToContextKV(config, r),
                deadline |-> Deadline(config, r),
                request |-> buildQueryRequest(MergeRequestConfig(config, r), r)]]
          /\ UNCHANGED pc
     ELSE Panic /\ UNCHANGED last
  /\ UNCHANGED <<given, config, pwd, closes, left, tries, stored, failed, met>>

\* Test: SayHello on a connection of the pool.
Test(d) == \E r \in Asked :
  /\ pc[d] = "ready" /\ requests[d] < MaxRequests[d]
  /\ requests' = [requests EXCEPT ![d] = @ + 1]
  /\ last' = [last EXCEPT ![d] =
       IF KnownZone(r) THEN [kind |-> "test", config |-> r, header |-> ToContextKV(config, r),
                             deadline |-> Deadline(config, r)]
       ELSE None]
  /\ UNCHANGED <<given, config, pc, pwd, open, closes, left, tries, stored, failed, met>>

\* Close of the driver, which any goroutine that has the driver may call.
Close(d) ==
  /\ pc[d] = "ready" /\ closes[d] < MaxCloses[d]
  /\ closes' = [closes EXCEPT ![d] = @ + 1]
  /\ left' = [left EXCEPT ![d][closes'[d]] = Kept]
  /\ met' = IF Closing(d) # {} THEN met \cup {<<d, tries[d]>>} ELSE met
  /\ UNCHANGED <<given, config, pc, pwd, open, tries, requests, stored, failed, last>>

\* Mutant: the loop returns what the first connection's Close returns.
CloseConn_First(d) == pc[d] = "ready" /\ \E k \in Closing(d) : \E i \in left[d][k] :
  /\ open' = open \ {Conn(d, i)}
  /\ left' = [left EXCEPT ![d][k] = {}]
  /\ UNCHANGED <<given, config, pc, pwd, closes, tries, requests, stored, failed, met, last>>
\* One turn of the loop of ConnectionPool.Close, in the order of a map: a
\* connection that is closed already is an error, which ends the loop.
CloseConn(d) == pc[d] = "ready" /\ \E k \in Closing(d) : \E i \in left[d][k] :
  /\ open' = open \ {Conn(d, i)}
  /\ left' = [left EXCEPT ![d][k] = IF Conn(d, i) \in open THEN @ \ {i} ELSE {}]
  /\ UNCHANGED <<given, config, pc, pwd, closes, tries, requests, stored, failed, met, last>>
-----------------------------------------------------------------------------
Init ==
  /\ given \in Given /\ config = given
  /\ pc = [d \in Drivers |-> "start"]
  /\ pwd = [d \in Drivers |-> 0]
  /\ open = {}
  /\ closes = [d \in Drivers |-> 0] /\ left = [d \in Drivers |-> [k \in 1 .. MaxCloses[d] |-> {}]]
  /\ tries = [d \in Drivers |-> 0] /\ requests = [d \in Drivers |-> 0]
  /\ stored = 0 /\ failed = {} /\ met = {}
  /\ last = [d \in Drivers |-> None]

Next == \E d \in Drivers :
  \/ Fill(d) \/ EncryptPassword(d) \/ StorePassword(d) \/ NewConnectionPool(d)
  \/ Request(d) \/ Test(d) \/ Close(d) \/ CloseConn(d)

Spec == Init /\ [][Next]_vars
-----------------------------------------------------------------------------
(***************************************************************************)
(* Properties.                                                              *)
(***************************************************************************)

\* Every variable keeps its range.
TypeOK ==
  /\ given \in Configs
  /\ config.timeout \in Int /\ config.encrypt \in Methods
  /\ config.graph = given.graph /\ config.password \in Nat
  /\ pc \in [Drivers -> {"start", "encrypt", "store", "dial", "ready", "panic"}]
  /\ pwd \in [Drivers -> Nat]
  /\ tries \in [Drivers -> Nat] /\ requests \in [Drivers -> Nat]
  /\ stored \in Nat
  /\ closes = [d \in Drivers |-> closes[d]] /\ left = [d \in Drivers |-> left[d]]
  /\ \A d \in Drivers : closes[d] \in 0 .. MaxCloses[d] /\ left[d] \in [1 .. MaxCloses[d] -> SUBSET Kept]

\* The server is never given more time than the client waits: when the context
\* of a query has a deadline, the timeout of the request does not exceed it,
\* whichever of the two configs, the default and the minimum decided.
ClientOutwaitsServer ==
  \A d \in Drivers : last[d].kind = "query" =>
    \A t \in last[d].deadline : last[d].request.timeout <= t

\* What a request says of itself, its headers say too: graph and time zone.
HeadersMatchRequest ==
  \A d \in Drivers : last[d].kind = "query" =>
    /\ last[d].header.graph = last[d].request.graph
    /\ last[d].header.zone = last[d].request.zone

\* Requests do not disturb one another: a request without a timeout is sent with
\* the one of the config that the application wrote, or the default, whatever
\* other requests of any driver asked for.
RequestsAreIndependent ==
  \A d \in Drivers : last[d].kind = "query" =>
    last[d].request.timeout = FillDefault(MergeRequestConfig(given, last[d].config)).timeout % Modulus

\* As long as the config has been through NewUltipaDriver once, and with methods
\* that do not hash always, the password that is sent is the given one, encrypted.
PasswordIsSent ==
  \A d \in Drivers :
    (last[d].kind # "none" /\ (stored = 1 \/ given.encrypt \in {"LDAP", "NOTHING"}))
      => last[d].header.password = Encrypt(given.encrypt, given.password)

\* A driver that was not closed, or is being closed and the loop comes to x.
Held(x) ==
  \E d \in Drivers : \E i \in Kept :
    /\ x = Conn(d, i) /\ pc[d] = "ready"
    /\ closes[d] = 0 \/ \E k \in Closing(d) : i \in left[d][k]

\* Nothing will close x: it was dialled for one call, or by a construction that
\* failed, or for a host that is listed again later, or is of a driver of which
\* two calls of Close met, each of which may end at a connection that the other closed.
Abandoned(x) ==
  x[2] = 0 \/ <<x[1], x[2]>> \in failed \cup met \/ x[3] \notin Kept

\* As long as the process runs, a connection that is open is one that a driver
\* still holds, or it was abandoned in one of the four ways above: a Close that no
\* other one meets closes all the connections of the map, a second Close after it
\* does no harm, and no driver has a connection closed that it did not ask to close.
OpenIsHeldOrAbandoned ==
  (\A d \in Drivers : pc[d] # "panic") =>
    /\ \A x \in open : Held(x) \/ Abandoned(x)
    /\ \A d \in Drivers : pc[d] = "ready" /\ closes[d] = 0 => \A i \in Kept : Conn(d, i) \in open

\* doc/01.connect.md: Password is the "password of username".  Every driver made
\* of a config sends that password, encrypted.
PasswordIsAlwaysSent ==
  \A d \in Drivers : last[d].kind # "none" =>
    last[d].header.password = Encrypt(given.encrypt, given.password)
=============================================================================
