--------------------------- MODULE ConnectionPool ---------------------------
(***************************************************************************)
(* The connection pool of the driver: sdk/connection/connection.pool.go.   *)
(*                                                                         *)
(* The pool keeps one connection per configured host and the slice Actives *)
(* of those that answered the last refresh.  A refresh holds the mutex     *)
(* muActiveSafely, starts one goroutine per connection and waits for all   *)
(* of them.  The goroutines share, without any synchronisation,            *)
(*                                                                         *)
(*   - the slice Actives, which each of them appends to: the three words   *)
(*     of the slice header (pointer, length, capacity) and the elements    *)
(*     are loaded and stored one machine word at a time, in any order;     *)
(*   - the loop variable idx of the loop that starts them (go.mod asks for *)
(*     go 1.13, so one variable serves the whole loop), through which each *)
(*     of them picks the entry of connErrors to write.                     *)
(*                                                                         *)
(* A connection is identified with its host.  Errors are told apart only   *)
(* by the host that produced them; messages and logging are left out.      *)
(***************************************************************************)
EXTENDS Integers, Sequences, FiniteSets

CONSTANTS
    Hosts,      \* config.Hosts, the keys of pool.Connections
    Threads,    \* goroutines of the application that use the finished pool
    Boot,       \* the goroutine that runs NewConnectionPool
    Ops,        \* the methods the application calls
    Seconds,    \* arguments given to RefreshActivesWithSeconds
    MaxTick,    \* bound: calls of GetRandomConn start while RandomTick < MaxTick
    NoThread,   \* muActiveSafely is free
    Empty,      \* the backing array of []*Connection{}, which has no room
    Nil,        \* a nil *Connection
    Wild,       \* what a load from outside the backing array returns
    NoErr       \* a nil error

ASSUME PoolAssumption ==
    /\ IsFiniteSet(Hosts) /\ Hosts # {}
    /\ Boot \notin Threads /\ NoThread \notin Threads \cup {Boot}
    /\ Ops \subseteq {"RefreshActives", "RefreshClusterInfo", "GetRandomConn", "Close"}
    /\ Seconds \subseteq Int /\ MaxTick \in Nat
    /\ Empty \notin Hosts
    /\ {Nil, Wild, NoErr} \cap Hosts = {} /\ Nil # Wild
    /\ NoErr \notin {"denied", "allFailed", "noActive", "allNil", "closing"}

Callers == Threads \cup {Boot}

\* len(pool.Connections): CreateConnections stores one connection per host.
N == Cardinality(Hosts)

VARIABLES
    pool,       \* NewConnectionPool: "constructing", then "ready" or "failed"
    mu,         \* holder of muActiveSafely
    pc,         \* where each caller is
    ret,        \* what the last call of each caller returned
    secs,       \* the argument of each caller's refresh
    fresh,      \* time.Now() - LastActivesTime <= 5s
    aptr, alen, acap,   \* the words of the slice header pool.Actives
    mem,        \* the backing array allocated by each probe's append
    idx,        \* the loop variable shared by the probes
    probe,      \* where the goroutine that probes each host is
    todo,       \* words the probe's append still has to load, or to store
    lptr, llen, lcap,   \* the header as each probe's append loaded it
    connErrors, \* one entry per connection: NoErr or the host whose error it is
    egErr,      \* errgroup: some probe returned an error
    deadline,   \* the contexts of the current refresh expire
    active,     \* Connection.Active of each host
    closed,     \* connections whose grpc channel is closed
    left,       \* connections each running Close has still to visit
    tick,       \* RandomTick
    raced,      \* history: two appends of the last refresh overlapped
    stray       \* history: an append stored an element outside its array

headerVars == <<aptr, alen, acap>>
appendVars == <<mem, todo, lptr, llen, lcap, raced, stray>>
frameVars == <<idx, connErrors, egErr, deadline>>
callerVars == <<pc, ret, secs, left>>
vars == <<pool, mu, fresh, headerVars, appendVars, frameVars, callerVars,
          probe, active, closed, tick>>

HeaderWords == {"ptr", "len", "cap"}
Places == {"idle", "wantRefresh", "spawn", "wait", "cluster", "wantConn", "close"}
Results == Hosts \cup {NoErr, Wild, "none", "denied", "allFailed",
                      "noActive", "nilConn", "allNil", "closing"}
Probing == {"unborn", "hello", "load", "store", "recOk", "recErr", "recDenied", "done"}

TypeOK ==
    /\ pool \in {"constructing", "ready", "failed"}
    /\ mu \in Callers \cup {NoThread}
    /\ pc \in [Callers -> Places]
    /\ ret \in [Callers -> Results]
    /\ secs \in [Callers -> Int]
    /\ fresh \in BOOLEAN
    /\ aptr \in Hosts \cup {Empty} /\ alen \in Nat /\ acap \in Nat
    /\ mem \in [Hosts -> Seq(Hosts \cup {Nil, Wild})]
    /\ idx \in 0..N
    /\ probe \in [Hosts -> Probing]
    /\ todo \in [Hosts -> SUBSET (HeaderWords \cup {"elem"})]
    /\ lptr \in [Hosts -> Hosts \cup {Empty}]
    /\ llen \in [Hosts -> Nat] /\ lcap \in [Hosts -> Nat]
    /\ connErrors \in [1..N -> Hosts \cup {NoErr}]
    /\ egErr \in BOOLEAN /\ deadline \in BOOLEAN
    /\ active \in [Hosts -> {"UNSET", "ALIVE", "DEAD"}]
    /\ closed \in SUBSET Hosts
    /\ left \in [Callers -> SUBSET Hosts]
    /\ tick \in Nat
    /\ raced \in BOOLEAN /\ stray \in BOOLEAN

-----------------------------------------------------------------------------
(* Slices.  A slot outside the array reads as Wild: the Go memory model     *)
(* promises nothing about it.                                               *)

Cell(a, i) == IF a \in Hosts THEN IF i \in DOMAIN mem[a] THEN mem[a][i] ELSE Wild ELSE Wild

\* growslice: the needed length or twice the old capacity, whichever is more.
GrownCap(needed, cap) == IF needed > 2 * cap THEN needed ELSE 2 * cap

-----------------------------------------------------------------------------
(* Contexts of the probes. *)

\* A refresh asked for zero or negative seconds waits 3 seconds.
PositiveSeconds_Dropped(s) == s
PositiveSeconds(s) == IF s <= 0 THEN 3 ELSE s

\* pool.NewContext: a negative timeout gives a context without a deadline.
ContextExpires(timeout) == timeout >= 0

-----------------------------------------------------------------------------
(* NewConnectionPool starts with CreateConnections: no connection has been  *)
(* probed, LastActivesTime is the zero time, Actives is nil; then it calls  *)
(* RefreshActives, with 6 seconds.                                          *)

Init ==
    /\ pool = "constructing"
    /\ mu = NoThread
    /\ pc = [t \in Callers |-> IF t = Boot THEN "wantRefresh" ELSE "idle"]
    /\ ret = [t \in Callers |-> "none"]
    /\ secs = [t \in Callers |-> 6]
    /\ fresh = FALSE
    /\ aptr = Empty /\ alen = 0 /\ acap = 0
    /\ mem = [h \in Hosts |-> <<>>]
    /\ idx = 0
    /\ probe = [h \in Hosts |-> "unborn"]
    /\ todo = [h \in Hosts |-> {}]
    /\ lptr = [h \in Hosts |-> Empty]
    /\ llen = [h \in Hosts |-> 0] /\ lcap = [h \in Hosts |-> 0]
    /\ connErrors = [i \in 1..N |-> NoErr]
    /\ egErr = FALSE /\ deadline = TRUE
    /\ active = [h \in Hosts |-> "UNSET"]
    /\ closed = {}
    /\ left = [t \in Callers |-> {}]
    /\ tick = 0
    /\ raced = FALSE /\ stray = FALSE

\* A call of the finished pool by an application goroutine starts.
Call(t, op, where) ==
    /\ op \in Ops
    /\ pool = "ready" /\ t \in Threads /\ pc[t] = "idle"
    /\ pc' = [pc EXCEPT ![t] = where]
    /\ ret' = [ret EXCEPT ![t] = "none"]

\* A call returns r; the error that NewConnectionPool gets is its own.
Return(t, r) ==
    /\ ret' = [ret EXCEPT ![t] = r]
    /\ pc' = [pc EXCEPT ![t] = "idle"]

-----------------------------------------------------------------------------
(* RefreshActivesWithSeconds.                                               *)

CallRefresh(t, s) ==
    /\ Call(t, "RefreshActives", "wantRefresh")
    /\ secs' = [secs EXCEPT ![t] = s]
    /\ UNCHANGED <<pool, mu, fresh, headerVars, appendVars, frameVars, left,
                   probe, active, closed, tick>>

\* The last refresh is recent and every connection is in Actives.
Recent_Always == fresh
Recent == fresh /\ N = alen

\* Lock, nothing to do, unlock.
RefreshFast(t) ==
    /\ pc[t] = "wantRefresh" /\ mu = NoThread /\ Recent
    /\ Return(t, NoErr)
    /\ UNCHANGED <<pool, mu, fresh, headerVars, appendVars, frameVars, secs, left,
                   probe, active, closed, tick>>

\* pool.Actives = []*Connection{}
ClearActives ==
    /\ aptr' = Empty /\ alen' = 0 /\ acap' = 0
    /\ mem' = [h \in Hosts |-> <<>>]

\* Lock; clear Actives; nothing is started yet.
RefreshBegin(t) ==
    /\ pc[t] = "wantRefresh" /\ mu = NoThread /\ ~Recent
    /\ mu' = t
    /\ pc' = [pc EXCEPT ![t] = "spawn"]
    /\ ClearActives
    /\ deadline' = ContextExpires(PositiveSeconds(secs[t]))
    /\ idx' = 0
    /\ connErrors' = [i \in 1..N |-> NoErr]
    /\ egErr' = FALSE
    /\ probe' = [h \in Hosts |-> "unborn"]
    /\ todo' = [h \in Hosts |-> {}]
    /\ lptr' = [h \in Hosts |-> Empty]
    /\ llen' = [h \in Hosts |-> 0] /\ lcap' = [h \in Hosts |-> 0]
    /\ raced' = FALSE
    /\ UNCHANGED <<pool, fresh, ret, secs, left, active, closed, tick, stray>>

\* One iteration: idx moves on and eg.Go starts the goroutine of the next
\* connection, in the order the map of connections was iterated in.
SpawnProbe(t) ==
    /\ pc[t] = "spawn"
    /\ idx' = idx + 1
    /\ \E h \in Hosts :
         probe[h] = "unborn" /\ probe' = [probe EXCEPT ![h] = "hello"]
    /\ pc' = IF idx + 1 = N THEN [pc EXCEPT ![t] = "wait"] ELSE pc
    /\ UNCHANGED <<pool, mu, fresh, headerVars, appendVars, connErrors, egErr,
                   deadline, ret, secs, left, active, closed, tick>>

ProbeFrame == UNCHANGED <<pool, mu, fresh, idx, deadline, callerVars, closed, tick>>

\* SayHello returns success: the connection is alive and will be appended.
ProbeOk(h) ==
    /\ probe[h] = "hello" /\ h \notin closed
    /\ probe' = [probe EXCEPT ![h] = "load"]
    /\ todo' = [todo EXCEPT ![h] = HeaderWords]
    /\ active' = [active EXCEPT ![h] = "ALIVE"]
    /\ raced' = (raced \/ \E g \in Hosts : probe[g] \in {"load", "store"})
    /\ UNCHANGED <<headerVars, mem, lptr, llen, lcap, stray, connErrors, egErr>>
    /\ ProbeFrame

\* SayHello gives no success: the connection is dead.
ProbeFail(h, where) ==
    /\ probe[h] = "hello"
    /\ probe' = [probe EXCEPT ![h] = where]
    /\ active' = [active EXCEPT ![h] = "DEAD"]
    /\ UNCHANGED <<headerVars, appendVars, connErrors, egErr>>
    /\ ProbeFrame

\* SayHello returns an error, or a status other than the next one.
ProbeError_Appended(h) ==
    /\ probe[h] = "hello"
    /\ probe' = [probe EXCEPT ![h] = "load"]
    /\ todo' = [todo EXCEPT ![h] = HeaderWords]
    /\ active' = [active EXCEPT ![h] = "DEAD"]
    /\ UNCHANGED <<headerVars, mem, lptr, llen, lcap, raced, stray, connErrors, egErr>>
    /\ ProbeFrame
ProbeError(h) == ProbeFail(h, "recErr")

\* The server does not know the user or refuses the password.
ProbeDenied(h) == h \notin closed /\ ProbeFail(h, "recDenied")

\* The context of the probe expires: SayHello returns DeadlineExceeded.
ProbeDeadline(h) == deadline /\ ProbeFail(h, "recErr")

\* append(pool.Actives, localConn) loads one word of the header.
AppendLoad(h, w) ==
    /\ probe[h] = "load" /\ w \in todo[h]
    /\ todo' = [todo EXCEPT ![h] = @ \ {w}]
    /\ lptr' = IF w = "ptr" THEN [lptr EXCEPT ![h] = aptr] ELSE lptr
    /\ llen' = IF w = "len" THEN [llen EXCEPT ![h] = alen] ELSE llen
    /\ lcap' = IF w = "cap" THEN [lcap EXCEPT ![h] = acap] ELSE lcap
    /\ UNCHANGED <<headerVars, mem, raced, stray, probe, active, connErrors, egErr>>
    /\ ProbeFrame

\* The element fits: only the length and the element are to be stored.
AppendFits(h) ==
    /\ probe[h] = "load" /\ todo[h] = {} /\ llen[h] + 1 <= lcap[h]
    /\ probe' = [probe EXCEPT ![h] = "store"]
    /\ todo' = [todo EXCEPT ![h] = {"len", "elem"}]
    /\ UNCHANGED <<headerVars, mem, lptr, llen, lcap, raced, stray, active, connErrors, egErr>>
    /\ ProbeFrame

\* growslice: a larger array takes over the elements the loaded header shows.
AppendGrow(h) ==
    /\ probe[h] = "load" /\ todo[h] = {} /\ llen[h] + 1 > lcap[h]
    /\ LET cap == GrownCap(llen[h] + 1, lcap[h]) IN
         /\ mem' = [mem EXCEPT ![h] =
                     [i \in 1..cap |-> IF i <= llen[h] THEN Cell(lptr[h], i) ELSE Nil]]
         /\ lcap' = [lcap EXCEPT ![h] = cap]
    /\ lptr' = [lptr EXCEPT ![h] = h]
    /\ probe' = [probe EXCEPT ![h] = "store"]
    /\ todo' = [todo EXCEPT ![h] = HeaderWords \cup {"elem"}]
    /\ UNCHANGED <<headerVars, llen, raced, stray, active, connErrors, egErr>>
    /\ ProbeFrame

\* One word is stored: a word of the header, or the element itself.
AppendStore(h, w) ==
    /\ probe[h] = "store" /\ w \in todo[h]
    /\ todo' = [todo EXCEPT ![h] = @ \ {w}]
    /\ aptr' = IF w = "ptr" THEN lptr[h] ELSE aptr
    /\ alen' = IF w = "len" THEN llen[h] + 1 ELSE alen
    /\ acap' = IF w = "cap" THEN lcap[h] ELSE acap
    /\ LET inside == IF lptr[h] \in Hosts THEN llen[h] + 1 \in DOMAIN mem[lptr[h]] ELSE FALSE IN
         /\ mem' = IF w = "elem" /\ inside
                   THEN [mem EXCEPT ![lptr[h]] = [@ EXCEPT ![llen[h] + 1] = h]] ELSE mem
         /\ stray' = (stray \/ (w = "elem" /\ ~inside))
    /\ probe' = IF todo[h] = {w} THEN [probe EXCEPT ![h] = "recOk"] ELSE probe
    /\ UNCHANGED <<lptr, llen, lcap, raced, active, connErrors, egErr>>
    /\ ProbeFrame

\* connErrors[idx] = err, with the idx of this moment; the goroutine ends and
\* hands its error to the errgroup when the password was refused.
RecordResult(h) ==
    /\ probe[h] \in {"recOk", "recErr", "recDenied"}
    /\ connErrors' = [connErrors EXCEPT ![idx] = IF probe[h] = "recOk" THEN NoErr ELSE h]
    /\ egErr' = (egErr \/ probe[h] = "recDenied")
    /\ probe' = [probe EXCEPT ![h] = "done"]
    /\ UNCHANGED <<headerVars, appendVars, active>>
    /\ ProbeFrame

\* eg.Wait() returns when every goroutine has returned, errors or not.
WaitOver_FirstError == egErr \/ \A h \in Hosts : probe[h] = "done"
WaitOver == \A h \in Hosts : probe[h] = "done"

\* What a refresh that probed returns.
RefreshResult_AnyError ==
    IF egErr THEN "denied"
    ELSE IF \E i \in 1..N : connErrors[i] # NoErr THEN "allFailed" ELSE NoErr
RefreshResult ==
    IF egErr THEN "denied"
    ELSE IF \E i \in 1..N : connErrors[i] = NoErr THEN NoErr ELSE "allFailed"

\* The locals of a refresh before it runs and after it has returned.
NoFrame ==
    /\ idx' = 0 /\ deadline' = TRUE /\ egErr' = FALSE
    /\ connErrors' = [i \in 1..N |-> NoErr]

\* The deferred calls set LastActivesTime and unlock.  NewConnectionPool goes
\* on to RefreshClusterInfo, or returns the error.
RefreshReturn(t) ==
    /\ pc[t] = "wait" /\ WaitOver
    /\ mu' = NoThread
    /\ fresh' = TRUE
    /\ ret' = [ret EXCEPT ![t] = RefreshResult]
    /\ pc' = [pc EXCEPT ![t] = IF t = Boot /\ RefreshResult = NoErr THEN "cluster" ELSE "idle"]
    /\ pool' = IF t = Boot /\ RefreshResult # NoErr THEN "failed" ELSE pool
    /\ NoFrame
    /\ UNCHANGED <<headerVars, appendVars, secs, left, probe, active, closed, tick>>

-----------------------------------------------------------------------------
(* RefreshClusterInfo, whose doRefreshClusterInfo reads Actives unlocked:   *)
(* while a refresh is under way the words it reads may be of different      *)
(* moments, and any outcome is possible.  Its retry is for a                *)
(* LeaderNotYetElectedError, which nothing returns.                         *)

ClusterResults_Unchecked == {NoErr}
ClusterResults ==
    IF mu # NoThread THEN {"noActive", "allNil", NoErr}
    ELSE IF alen < 1 THEN {"noActive"}
    ELSE IF \A i \in 1..alen : Cell(aptr, i) = Nil THEN {"allNil"} ELSE {NoErr}

CallRefreshClusterInfo(t) ==
    /\ Call(t, "RefreshClusterInfo", "cluster")
    /\ UNCHANGED <<pool, mu, fresh, headerVars, appendVars, frameVars, secs, left,
                   probe, active, closed, tick>>

RefreshClusterInfo(t) ==
    /\ pc[t] = "cluster"
    /\ \E r \in ClusterResults :
         /\ Return(t, r)
         /\ pool' = IF t = Boot THEN IF r = NoErr THEN "ready" ELSE "failed" ELSE pool
    /\ UNCHANGED <<mu, fresh, headerVars, appendVars, frameVars, secs, left,
                   probe, active, closed, tick>>

-----------------------------------------------------------------------------
(* GetRandomConn. *)

CallGetRandomConn(t) ==
    /\ Call(t, "GetRandomConn", "wantConn") /\ tick < MaxTick
    /\ UNCHANGED <<pool, mu, fresh, headerVars, appendVars, frameVars, secs, left,
                   probe, active, closed, tick>>

\* pool.Actives[pool.RandomTick%len(pool.Actives)] after the increment.
Picked == Cell(aptr, ((tick + 1) % alen) + 1)

\* A nil entry is reported, never returned as a connection.
PickedResult_Unchecked == Picked
PickedResult == IF Picked = Nil THEN "nilConn" ELSE Picked

\* Lock, pick, unlock.
GetRandomConn(t) ==
    /\ pc[t] = "wantConn" /\ mu = NoThread
    /\ IF alen < 1
       THEN Return(t, "noActive") /\ UNCHANGED tick
       ELSE Return(t, PickedResult) /\ tick' = tick + 1
    /\ UNCHANGED <<pool, mu, fresh, headerVars, appendVars, frameVars, secs, left,
                   probe, active, closed>>

-----------------------------------------------------------------------------
(* Close, without the mutex: the first error ends it.                       *)

CallClose(t) ==
    /\ Call(t, "Close", "close")
    /\ left' = [left EXCEPT ![t] = Hosts]
    /\ UNCHANGED <<pool, mu, fresh, headerVars, appendVars, frameVars, secs,
                   probe, active, closed, tick>>

\* grpc returns ErrClientConnClosing for a channel that is closed already.
CloseResult(h) == IF h \in closed THEN "closing" ELSE NoErr

\* What the last conn.Close() of a Close makes it return.
CloseReturns_Nil(h) == NoErr
CloseReturns(h) == CloseResult(h)

CloseConn(t, h) ==
    /\ pc[t] = "close" /\ h \in left[t]
    /\ closed' = closed \cup {h}
    /\ IF h \in closed \/ left[t] = {h}
       THEN Return(t, CloseReturns(h)) /\ left' = [left EXCEPT ![t] = {}]
       ELSE left' = [left EXCEPT ![t] = @ \ {h}] /\ UNCHANGED <<pc, ret>>
    /\ UNCHANGED <<pool, mu, fresh, headerVars, appendVars, frameVars, secs,
                   probe, active, tick>>

-----------------------------------------------------------------------------
\* Five seconds have passed since LastActivesTime.
Expire ==
    /\ fresh
    /\ fresh' = FALSE
    /\ UNCHANGED <<pool, mu, headerVars, appendVars, frameVars, callerVars,
                   probe, active, closed, tick>>

CallerStep(t) ==
    \/ \E s \in Seconds : CallRefresh(t, s)
    \/ RefreshFast(t) \/ RefreshBegin(t) \/ SpawnProbe(t) \/ RefreshReturn(t)
    \/ CallRefreshClusterInfo(t) \/ RefreshClusterInfo(t)
    \/ CallGetRandomConn(t) \/ GetRandomConn(t)
    \/ CallClose(t) \/ \E h \in Hosts : CloseConn(t, h)

ProbeStep(h) ==
    \/ ProbeOk(h) \/ ProbeError(h) \/ ProbeDenied(h) \/ ProbeDeadline(h)
    \/ \E w \in HeaderWords : AppendLoad(h, w)
    \/ AppendFits(h) \/ AppendGrow(h)
    \/ \E w \in HeaderWords \cup {"elem"} : AppendStore(h, w)
    \/ RecordResult(h)

Next ==
    \/ \E t \in Callers : CallerStep(t)
    \/ \E h \in Hosts : ProbeStep(h)
    \/ Expire

Spec == Init /\ [][Next]_vars

(* The Go scheduler runs every goroutine that can run; the timer of a       *)
(* context fires; a goroutine that waits for a sync.Mutex gets it before    *)
(* later ones do once it has starved for a millisecond, hence the strong    *)
(* fairness of the two locking steps.  Nothing obliges a server to answer.  *)
Fairness ==
    /\ \A t \in Callers :
         /\ SF_vars(RefreshFast(t) \/ RefreshBegin(t)) /\ SF_vars(GetRandomConn(t))
         /\ WF_vars(SpawnProbe(t)) /\ WF_vars(RefreshReturn(t))
         /\ WF_vars(RefreshClusterInfo(t)) /\ WF_vars(\E h \in Hosts : CloseConn(t, h))
    /\ \A h \in Hosts :
         /\ WF_vars(ProbeDeadline(h))
         /\ WF_vars(\E w \in HeaderWords : AppendLoad(h, w))
         /\ WF_vars(AppendFits(h) \/ AppendGrow(h))
         /\ WF_vars(\E w \in HeaderWords \cup {"elem"} : AppendStore(h, w))
         /\ WF_vars(RecordResult(h))

FairSpec == Spec /\ Fairness

-----------------------------------------------------------------------------
(* Properties. *)

Alive == {h \in Hosts : active[h] = "ALIVE"}

\* No goroutine of a refresh is left running once the mutex is free, also when
\* a wrong password ends the refresh with an error: nobody but the holder of
\* the mutex, or its probes, ever appends to Actives.
NoProbeOutlivesRefresh ==
    mu = NoThread => \A h \in Hosts : probe[h] \in {"unborn", "done"}

\* Whatever order the words of racing appends are loaded and stored in, as long
\* as none of them has written outside its array: an entry of Actives that is a
\* connection answered the last refresh, and no connection is in it twice
\* (twice the share of GetRandomConn's round robin).
ActivesSound ==
    mu = NoThread /\ ~stray =>
        \A i \in 1..alen : Cell(aptr, i) \in Hosts =>
            /\ active[Cell(aptr, i)] = "ALIVE"
            /\ \A j \in 1..alen : Cell(aptr, j) = Cell(aptr, i) => j = i

\* The length of Actives, all that the fast path of a refresh and the check of
\* doRefreshClusterInfo look at, never exceeds the number of connections that
\* answered: a refresh is skipped only when every host answered the last one.
LengthBounded == mu = NoThread => alen <= Cardinality(Alive)

\* When no two appends overlap, Actives holds exactly the connections that
\* answered, each once.
ExactWithoutRace ==
    mu = NoThread /\ ~raced /\ pool # "constructing" =>
        /\ alen = Cardinality(Alive)
        /\ {Cell(aptr, i) : i \in 1..alen} = Alive

\* A refresh says that all hosts failed only if none answered, although a probe
\* may write its error over the entry of another: Actives is empty then.
AllFailedMeansNoneAlive ==
    [][\A t \in Callers : RefreshReturn(t) /\ ret'[t] = "allFailed" => Alive = {} /\ alen = 0]_vars

\* NewConnectionPool returns without an error only if some host answered: the
\* check of RefreshClusterInfo makes up for a refresh that returns nil although
\* every probe failed.
ReadyMeansSomeAlive ==
    [][pool' = "ready" /\ pool # "ready" => Alive # {}]_vars

\* A refresh that returns nil without probing has every host alive.
FastPathMeansAllAlive ==
    [][\A t \in Callers : RefreshFast(t) => Alive = Hosts]_vars

\* A Close that returns nil leaves no connection open, however many of them run
\* and while probes and refreshes are under way.
CloseNilMeansAllClosed ==
    [][\A t \in Callers : pc[t] = "close" /\ pc'[t] = "idle" /\ ret'[t] = NoErr => closed' = Hosts]_vars

\* Every call returns: a silent host delays a refresh, and whoever waits for
\* its mutex, but cannot block it for ever, whatever seconds were asked for.
CallsReturn == \A t \in Callers : pc[t] # "idle" ~> pc[t] = "idle"

\* The code's comment on a refresh that returns nil: "any connection success,
\* will pass".
NilMeansSomeAlive ==
    [][\A t \in Callers : RefreshReturn(t) /\ ret'[t] = NoErr => Alive # {}]_vars

\* "RefreshActives Update to see which connections are still valid": after it
\* every connection that answered is in Actives.
ActivesComplete ==
    mu = NoThread => Alive \subseteq {Cell(aptr, i) : i \in 1..alen}
=============================================================================
