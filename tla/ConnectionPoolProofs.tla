------------------------ MODULE ConnectionPoolProofs ------------------------
(***************************************************************************)
(* What ConnectionPool guarantees for any finite set of hosts and any set  *)
(* of application goroutines.  The inductive invariant says who holds the  *)
(* mutex, where an element of a backing array can stand (SlotInv), how far *)
(* the lengths that racing appends load and store can run ahead (LenInv)   *)
(* and which errors connErrors can hold (ErrInv).  On top of it stand what *)
(* a Close has closed (CloseInv) and, for the refreshes in which no two    *)
(* appends overlapped, what an append has loaded and stored (SerialInv).   *)
(***************************************************************************)
EXTENDS ConnectionPool, FiniteSetTheorems, TLAPS

\* The holder of muActiveSafely is the caller inside a refresh; no probe runs
\* while the mutex is free; the loop over the connections has not ended.
LockInv ==
    /\ \A t \in Callers : pc[t] \in {"spawn", "wait"} <=> mu = t
    /\ mu = NoThread => \A h \in Hosts : probe[h] \in {"unborn", "done"}
    /\ \A t \in Callers : pc[t] = "spawn" => idx < N

\* Until NewConnectionPool has returned nobody else can use the pool.
BootInv ==
    /\ pool # "ready" => \A t \in Threads : pc[t] = "idle"
    /\ pool # "constructing" => pc[Boot] = "idle"

\* Connection.Active agrees with what the probe of this refresh found.
ActiveInv ==
    \A h \in Hosts :
        /\ probe[h] \in {"load", "store", "recOk"} => active[h] = "ALIVE"
        /\ probe[h] \in {"recErr", "recDenied"} => active[h] = "DEAD"

\* Wherever growslice copied it, a connection stands at the index that its own
\* append computed, and only once that append has got there.
SlotInv ==
    \A a, h \in Hosts : \A i \in DOMAIN mem[a] : mem[a][i] = h =>
        /\ i = llen[h] + 1
        /\ probe[h] \in {"store", "recOk", "done"}
        /\ active[h] = "ALIVE"

\* The connections whose append has stored its length.
Stored ==
    {h \in Hosts : /\ probe[h] \in {"store", "recOk", "done"}
                   /\ active[h] = "ALIVE"
                   /\ "len" \notin todo[h]}

\* A length is at most the number of appends that have stored one.
LenInv ==
    /\ alen <= Cardinality(Stored)
    /\ \A h \in Hosts : probe[h] \in {"unborn", "hello", "load", "store"} =>
          llen[h] <= Cardinality(Stored \ {h})

\* A probe writes one entry of connErrors, whichever it is.
ErrInv ==
    /\ \A i \in 1..N : connErrors[i] # NoErr =>
          /\ probe[connErrors[i]] = "done"
          /\ active[connErrors[i]] = "DEAD"
    /\ \A i, j \in 1..N : connErrors[i] # NoErr /\ connErrors[i] = connErrors[j] => i = j

\* A Close has closed the connections that it has visited.
CloseInv == \A t \in Callers : pc[t] = "close" => Hosts \ left[t] \subseteq closed

\* The connections that the current refresh, or the last one, has appended.
Appended == {h \in Hosts : probe[h] \in {"recOk", "done"} /\ active[h] = "ALIVE"}

\* The first n entries of array a are the connections appended so far.
Shows(a, n) ==
    /\ n = Cardinality(Appended)
    /\ \A i \in 1..n : Cell(a, i) \in Appended
    /\ \A h \in Appended : \E i \in 1..n : Cell(a, i) = h

\* The capacity that a header states is the size of its array.
CapOf(a) == IF a \in Hosts THEN Len(mem[a]) ELSE 0

\* The words that an append has loaded are those of the header, which nobody
\* else writes.
LoadInv(h) ==
    probe[h] = "load" =>
        /\ "ptr" \notin todo[h] => lptr[h] = aptr
        /\ "len" \notin todo[h] => llen[h] = alen
        /\ "cap" \notin todo[h] => lcap[h] = acap

\* An append stores into an array that has room, and shows what was appended
\* before; the words that it has stored are its own.
StoreInv(h) ==
    probe[h] = "store" =>
        /\ lptr[h] \in Hosts /\ Shows(lptr[h], llen[h])
        /\ lcap[h] = Len(mem[lptr[h]]) /\ llen[h] + 1 <= lcap[h]
        /\ "elem" \notin todo[h] => mem[lptr[h]][llen[h] + 1] = h
        /\ "ptr" \notin todo[h] => aptr = lptr[h]
        /\ "len" \notin todo[h] => alen = llen[h] + 1
        /\ "cap" \notin todo[h] => acap = lcap[h]

\* While no two appends have overlapped, one at a time is under way, and between
\* two of them Actives shows the connections appended.
SerialInv ==
    ~raced =>
        /\ \A g, h \in Hosts :
              probe[g] \in {"load", "store"} /\ probe[h] \in {"load", "store"} => g = h
        /\ (\A h \in Hosts : probe[h] # "store") => Shows(aptr, alen) /\ acap = CapOf(aptr)
        /\ \A h \in Hosts : LoadInv(h) /\ StoreInv(h)

\* Outside a refresh every connection that counts as alive was probed by the
\* last one.
AliveInv == mu = NoThread => \A h \in Hosts : active[h] = "ALIVE" => probe[h] = "done"

IInv == TypeOK /\ LockInv /\ BootInv /\ ActiveInv /\ SlotInv /\ LenInv /\ ErrInv
-----------------------------------------------------------------------------
\* There is at least one connection.
LEMMA NFact == N \in Nat /\ N >= 1
  BY PoolAssumption, FS_CardinalityType, FS_EmptySet, FS_Subset DEF N

\* What the slot of an array holds, in or out of its bounds.
LEMMA CellType ==
    ASSUME TypeOK, NEW a, NEW i
    PROVE  Cell(a, i) \in Hosts \cup {Nil, Wild}
  BY DEF Cell, TypeOK

\* A call returns one of the results.
LEMMA ReturnType ==
    ASSUME TypeOK, NEW t \in Callers, NEW r \in Results, Return(t, r)
    PROVE  ret' \in [Callers -> Results] /\ pc' \in [Callers -> Places]
  BY DEF TypeOK, Return, Places

\* Storing an element keeps every array a sequence of the same length.
LEMMA StoreType ==
    ASSUME TypeOK, NEW h \in Hosts, NEW w, AppendStore(h, w)
    PROVE  /\ mem' \in [Hosts -> Seq(Hosts \cup {Nil, Wild})]
           /\ \A a \in Hosts : /\ DOMAIN mem'[a] = DOMAIN mem[a]
                                /\ \A i \in DOMAIN mem[a] :
                                     mem'[a][i] = mem[a][i] \/ (mem'[a][i] = h /\ w = "elem" /\ i = llen[h] + 1)
  <1>1. CASE mem' = mem
    BY <1>1 DEF TypeOK
  <1>2. CASE mem' # mem
    <2> DEFINE a == lptr[h]
               i == llen[h] + 1
               E == Hosts \cup {Nil, Wild}
    <2>1. /\ w = "elem" /\ a \in Hosts /\ i \in DOMAIN mem[a]
          /\ mem' = [mem EXCEPT ![a] = [mem[a] EXCEPT ![i] = h]]
      BY <1>2 DEF AppendStore
    <2>2. mem[a] \in Seq(E) /\ h \in E
      BY <2>1 DEF TypeOK
    <2>3. [mem[a] EXCEPT ![i] = h] \in Seq(E)
      BY <2>1, <2>2
    <2> QED
      BY <2>1, <2>3 DEF TypeOK
  <1> QED
    BY <1>1, <1>2

LEMMA InitInv == Init => IInv
  <1> SUFFICES ASSUME Init PROVE IInv
    OBVIOUS
  <1> USE PoolAssumption, NFact
  <1>1. TypeOK
    <2>1. fresh \in BOOLEAN /\ egErr \in BOOLEAN /\ deadline \in BOOLEAN /\ raced \in BOOLEAN /\ stray \in BOOLEAN
      BY Zenon DEF Init
    <2>2. mem \in [Hosts -> Seq(Hosts \cup {Nil, Wild})]
      BY DEF Init
    <2>3. ret \in [Callers -> Results]
      BY DEF Init, Results
    <2>4. connErrors \in [1..N -> Hosts \cup {NoErr}]
      BY DEF Init
    <2> QED
      BY <2>1, <2>2, <2>3, <2>4 DEF Init, TypeOK, Callers, Places, Probing, HeaderWords
  <1>2. LockInv /\ BootInv /\ ActiveInv /\ SlotInv /\ ErrInv
    BY DEF Init, LockInv, BootInv, ActiveInv, SlotInv, ErrInv, Callers
  <1>3. Stored = {} /\ \A h \in Hosts : Stored \ {h} = {}
    BY DEF Init, Stored
  <1>4. LenInv
    BY <1>3, FS_EmptySet DEF Init, LenInv
  <1> QED
    BY <1>1, <1>2, <1>4 DEF IInv

LEMMA TypeStep == TypeOK /\ LockInv /\ [Next]_vars => TypeOK'
  <1> SUFFICES ASSUME TypeOK, LockInv, [Next]_vars PROVE TypeOK'
    OBVIOUS
  <1> USE PoolAssumption, NFact DEF TypeOK, Callers, Places, Results, Probing, HeaderWords,
          vars, headerVars, appendVars, frameVars, callerVars
  <1>1. ASSUME NEW t \in Callers, NEW s \in Seconds, CallRefresh(t, s) PROVE TypeOK'
    BY <1>1 DEF CallRefresh, Call
  <1>2. ASSUME NEW t \in Callers, RefreshFast(t) PROVE TypeOK'
    BY <1>2 DEF RefreshFast, Return
  <1>3. ASSUME NEW t \in Callers, RefreshBegin(t) PROVE TypeOK'
    <2>1. mem' \in [Hosts -> Seq(Hosts \cup {Nil, Wild})]
      BY <1>3 DEF RefreshBegin, ClearActives
    <2>2. egErr' \in BOOLEAN /\ raced' \in BOOLEAN
      BY <1>3, Zenon DEF RefreshBegin
    <2>4. deadline' \in BOOLEAN
      BY <1>3, SMT DEF RefreshBegin, ContextExpires
    <2>3. connErrors' \in [1..N -> Hosts \cup {NoErr}]
      BY <1>3 DEF RefreshBegin
    <2> QED
      BY <1>3, <2>1, <2>2, <2>3, <2>4 DEF RefreshBegin, ClearActives
  <1>4. ASSUME NEW t \in Callers, SpawnProbe(t) PROVE TypeOK'
    <2>1. idx' \in 0..N
      BY <1>4 DEF SpawnProbe, LockInv
    <2> QED
      BY <1>4, <2>1 DEF SpawnProbe
  <1>5. ASSUME NEW t \in Callers, RefreshReturn(t) PROVE TypeOK'
    <2>1. RefreshResult \in {"denied", "allFailed", NoErr}
      BY DEF RefreshResult
    <2>2. connErrors' \in [1..N -> Hosts \cup {NoErr}]
      BY <1>5 DEF RefreshReturn, NoFrame
    <2>3. deadline' \in BOOLEAN /\ egErr' \in BOOLEAN /\ fresh' \in BOOLEAN
      BY <1>5, Zenon DEF RefreshReturn, NoFrame
    <2> QED
      BY <1>5, <2>1, <2>2, <2>3 DEF RefreshReturn, NoFrame
  <1>6. ASSUME NEW t \in Callers, CallRefreshClusterInfo(t) PROVE TypeOK'
    BY <1>6 DEF CallRefreshClusterInfo, Call
  <1>7. ASSUME NEW t \in Callers, RefreshClusterInfo(t) PROVE TypeOK'
    BY <1>7 DEF RefreshClusterInfo, ClusterResults, Return
  <1>8. ASSUME NEW t \in Callers, CallGetRandomConn(t) PROVE TypeOK'
    BY <1>8 DEF CallGetRandomConn, Call
  <1>9. ASSUME NEW t \in Callers, GetRandomConn(t) PROVE TypeOK'
    <2>1. PickedResult \in Results /\ "noActive" \in Results
      BY CellType DEF PickedResult, Picked
    <2>2. \/ Return(t, "noActive") /\ tick' = tick
          \/ Return(t, PickedResult) /\ tick' = tick + 1
      BY <1>9 DEF GetRandomConn
    <2>3. ret' \in [Callers -> Results] /\ pc' \in [Callers -> Places]
      <3> HIDE DEF TypeOK, Callers, Places, Results
      <3> QED
        BY <2>1, <2>2, ReturnType
    <2>4. tick' \in Nat
      BY <2>2
    <2> QED
      BY <1>9, <2>3, <2>4 DEF GetRandomConn
  <1>10. ASSUME NEW t \in Callers, CallClose(t) PROVE TypeOK'
    BY <1>10 DEF CallClose, Call
  <1>11. ASSUME NEW t \in Callers, NEW h \in Hosts, CloseConn(t, h) PROVE TypeOK'
    <2>1. CloseReturns(h) \in {"closing", NoErr}
      BY DEF CloseReturns, CloseResult
    <2>2. \/ Return(t, CloseReturns(h)) /\ left' = [left EXCEPT ![t] = {}]
          \/ left' = [left EXCEPT ![t] = @ \ {h}] /\ UNCHANGED <<pc, ret>>
      BY <1>11 DEF CloseConn
    <2>3. ret' \in [Callers -> Results] /\ pc' \in [Callers -> Places]
      BY <2>1, <2>2, ReturnType
    <2>4. left' \in [Callers -> SUBSET Hosts]
      <3>1. left \in [Callers -> SUBSET Hosts] /\ left[t] \ {h} \in SUBSET Hosts
        OBVIOUS
      <3> HIDE DEF TypeOK, Callers
      <3> QED
        BY <2>2, <3>1
    <2>5. closed' \in SUBSET Hosts
      BY <1>11 DEF CloseConn
    <2> QED
      BY <1>11, <2>3, <2>4, <2>5 DEF CloseConn
  <1>12. ASSUME NEW h \in Hosts, ProbeOk(h) PROVE TypeOK'
    BY <1>12 DEF ProbeOk, ProbeFrame
  <1>13. ASSUME NEW h \in Hosts, NEW w \in {"recErr", "recDenied"}, ProbeFail(h, w) PROVE TypeOK'
    BY <1>13 DEF ProbeFail, ProbeFrame
  <1>14. ASSUME NEW h \in Hosts, NEW w \in HeaderWords, AppendLoad(h, w) PROVE TypeOK'
    BY <1>14 DEF AppendLoad, ProbeFrame
  <1>15. ASSUME NEW h \in Hosts, AppendFits(h) PROVE TypeOK'
    BY <1>15 DEF AppendFits, ProbeFrame
  <1>16. ASSUME NEW h \in Hosts, AppendGrow(h) PROVE TypeOK'
    <2> DEFINE cap == GrownCap(llen[h] + 1, lcap[h])
               arr == [i \in 1..cap |-> IF i <= llen[h] THEN Cell(lptr[h], i) ELSE Nil]
    <2>1. cap \in Nat
      BY DEF GrownCap
    <2>2. arr \in Seq(Hosts \cup {Nil, Wild})
      <3>1. \A i \in 1..cap : Cell(lptr[h], i) \in Hosts \cup {Nil, Wild}
        BY CellType
      <3> HIDE DEF cap, TypeOK
      <3> QED
        BY <2>1, <3>1
    <2>3. mem' = [mem EXCEPT ![h] = arr] /\ lcap' = [lcap EXCEPT ![h] = cap]
      BY <1>16 DEF AppendGrow
    <2> HIDE DEF cap, arr
    <2>4. /\ mem' \in [Hosts -> Seq(Hosts \cup {Nil, Wild})] /\ lcap' \in [Hosts -> Nat]
      BY <2>1, <2>2, <2>3
    <2> QED
      BY <1>16, <2>4 DEF AppendGrow, ProbeFrame
  <1>17. ASSUME NEW h \in Hosts, NEW w \in HeaderWords \cup {"elem"}, AppendStore(h, w) PROVE TypeOK'
    <2>1. mem' \in [Hosts -> Seq(Hosts \cup {Nil, Wild})]
      BY <1>17, StoreType
    <2>2. stray' \in BOOLEAN
      BY <1>17, Zenon DEF AppendStore
    <2>3. /\ aptr' \in Hosts \cup {Empty} /\ alen' \in Nat /\ acap' \in Nat
          /\ todo' \in [Hosts -> SUBSET (HeaderWords \cup {"elem"})]
          /\ probe' \in [Hosts -> Probing]
      BY <1>17 DEF AppendStore
    <2> QED
      BY <1>17, <2>1, <2>2, <2>3 DEF AppendStore, ProbeFrame
  <1>18. ASSUME NEW h \in Hosts, RecordResult(h) PROVE TypeOK'
    BY <1>18 DEF RecordResult, ProbeFrame
  <1>19. ASSUME Expire PROVE TypeOK'
    BY <1>19 DEF Expire
  <1>20. CASE UNCHANGED vars
    BY <1>20
  <1> HIDE DEF TypeOK, Callers, Places, Results, Probing, HeaderWords, vars, headerVars, appendVars, frameVars, callerVars
  <1> QED
    BY <1>1, <1>2, <1>3, <1>4, <1>5, <1>6, <1>7, <1>8, <1>9, <1>10, <1>11, <1>12, <1>13, <1>14, <1>15, <1>16, <1>17, <1>18, <1>19, <1>20 DEF Next, CallerStep, ProbeStep, ProbeError, ProbeDenied, ProbeDeadline

-----------------------------------------------------------------------------
\* The steps that leave the refresh in progress, if any, as it is.
Quiet == UNCHANGED <<mu, probe, active, headerVars, appendVars, frameVars>>

LEMMA NextCases ==
    ASSUME [Next]_vars
    PROVE  \/ Quiet
           \/ \E t \in Callers : RefreshBegin(t) \/ SpawnProbe(t) \/ RefreshReturn(t)
           \/ \E h \in Hosts :
                \/ ProbeOk(h) \/ \E w \in {"recErr", "recDenied"} : ProbeFail(h, w)
                \/ \E w \in HeaderWords : AppendLoad(h, w)
                \/ AppendFits(h) \/ AppendGrow(h)
                \/ \E w \in HeaderWords \cup {"elem"} : AppendStore(h, w)
                \/ RecordResult(h)
  <1> USE DEF Quiet
  <1>1. ASSUME NEW t \in Callers,
               \/ \E s \in Seconds : CallRefresh(t, s)
               \/ RefreshFast(t)
               \/ CallRefreshClusterInfo(t) \/ RefreshClusterInfo(t)
               \/ CallGetRandomConn(t) \/ GetRandomConn(t)
               \/ CallClose(t) \/ \E h \in Hosts : CloseConn(t, h)
        PROVE  Quiet
    BY <1>1 DEF CallRefresh, RefreshFast, CallRefreshClusterInfo, RefreshClusterInfo,
                CallGetRandomConn, GetRandomConn, CallClose, CloseConn
  <1>2. CASE Expire
    BY <1>2 DEF Expire
  <1>3. CASE UNCHANGED vars
    BY <1>3 DEF vars
  <1> HIDE DEF Quiet
  <1> QED
    BY <1>1, <1>2, <1>3 DEF Next, CallerStep, ProbeStep, ProbeError, ProbeDenied, ProbeDeadline

\* Only a caller that locks, or unlocks, enters or leaves a refresh.
LEMMA LockStep == TypeOK /\ LockInv /\ [Next]_vars => LockInv'
  <1> SUFFICES ASSUME TypeOK, LockInv, [Next]_vars PROVE LockInv'
    OBVIOUS
  <1> USE PoolAssumption, NFact DEF LockInv, TypeOK, vars, headerVars, appendVars, frameVars, callerVars
  <1>1. ASSUME NEW t \in Callers,
               \/ \E s \in Seconds : CallRefresh(t, s)
               \/ CallRefreshClusterInfo(t) \/ CallGetRandomConn(t) \/ CallClose(t)
        PROVE  LockInv'
    BY <1>1 DEF CallRefresh, CallRefreshClusterInfo, CallGetRandomConn, CallClose, Call
  <1>2. ASSUME NEW t \in Callers, RefreshFast(t) \/ RefreshClusterInfo(t)
        PROVE  LockInv'
    BY <1>2 DEF RefreshFast, RefreshClusterInfo, Return
  <1>3. ASSUME NEW t \in Callers, GetRandomConn(t) PROVE LockInv'
    <2>1. pc' = [pc EXCEPT ![t] = "idle"] /\ pc[t] = "wantConn" /\ UNCHANGED <<mu, probe, idx>>
      BY <1>3 DEF GetRandomConn, Return
    <2> QED
      BY <2>1
  <1>4. ASSUME NEW t \in Callers, NEW h \in Hosts, CloseConn(t, h) PROVE LockInv'
    <2>1. /\ pc' = [pc EXCEPT ![t] = "idle"] \/ pc' = pc
          /\ pc[t] = "close" /\ UNCHANGED <<mu, probe, idx>>
      BY <1>4 DEF CloseConn, Return
    <2> QED
      BY <2>1
  <1>5. ASSUME NEW t \in Callers, RefreshBegin(t) PROVE LockInv'
    BY <1>5 DEF RefreshBegin, Callers
  <1>6. ASSUME NEW t \in Callers, SpawnProbe(t) PROVE LockInv'
    <2>1. mu = t /\ mu' = t
      BY <1>6 DEF SpawnProbe
    <2>2. t # NoThread
      BY DEF Callers
    <2>3. \A u \in Callers : pc'[u] \in {"spawn", "wait"} <=> mu = u
      BY <1>6, <2>1 DEF SpawnProbe
    <2>4. \A u \in Callers : pc'[u] = "spawn" => idx' < N
      BY <1>6, <2>1 DEF SpawnProbe
    <2> QED
      BY <2>1, <2>2, <2>3, <2>4
  <1>7. ASSUME NEW t \in Callers, RefreshReturn(t) PROVE LockInv'
    <2>1. mu = t /\ mu' = NoThread /\ \A h \in Hosts : probe'[h] = "done"
      BY <1>7 DEF RefreshReturn, WaitOver
    <2>2. \A u \in Callers : pc'[u] \notin {"spawn", "wait"}
      BY <1>7, <2>1 DEF RefreshReturn
    <2> QED
      BY <2>1, <2>2 DEF Callers
  <1>8. ASSUME NEW h \in Hosts,
               \/ ProbeOk(h) \/ ProbeError(h) \/ ProbeDenied(h) \/ ProbeDeadline(h)
               \/ \E w \in HeaderWords : AppendLoad(h, w)
               \/ AppendFits(h) \/ AppendGrow(h)
               \/ \E w \in HeaderWords \cup {"elem"} : AppendStore(h, w)
               \/ RecordResult(h)
        PROVE  LockInv'
    <2>1. probe[h] \notin {"unborn", "done"} /\ UNCHANGED <<mu, pc, idx>>
      BY <1>8 DEF ProbeOk, ProbeError, ProbeDenied, ProbeDeadline, ProbeFail, AppendLoad, AppendFits,
                  AppendGrow, AppendStore, RecordResult, ProbeFrame
    <2> QED
      BY <2>1
  <1>9. CASE Expire \/ UNCHANGED vars
    BY <1>9 DEF Expire
  <1> HIDE DEF LockInv, TypeOK, vars, headerVars, appendVars, frameVars, callerVars
  <1> QED
    BY <1>1, <1>2, <1>3, <1>4, <1>5, <1>6, <1>7, <1>8, <1>9 DEF Next, CallerStep, ProbeStep

\* An application goroutine starts a call only of a pool that is ready, and a
\* pool that is ready stays so.
LEMMA BootStep == TypeOK /\ BootInv /\ [Next]_vars => BootInv'
  <1> SUFFICES ASSUME TypeOK, BootInv, [Next]_vars PROVE BootInv'
    OBVIOUS
  <1> USE PoolAssumption DEF BootInv, TypeOK, Callers
  <1>1. ASSUME NEW t \in Callers,
               \/ \E s \in Seconds : CallRefresh(t, s)
               \/ CallRefreshClusterInfo(t) \/ CallGetRandomConn(t) \/ CallClose(t)
        PROVE  BootInv'
    BY <1>1 DEF CallRefresh, CallRefreshClusterInfo, CallGetRandomConn, CallClose, Call
  <1>2. ASSUME NEW t \in Callers, RefreshFast(t) \/ GetRandomConn(t) PROVE BootInv'
    <2>1. pc' = [pc EXCEPT ![t] = "idle"] /\ pool' = pool
      BY <1>2 DEF RefreshFast, GetRandomConn, Return
    <2> QED
      BY <2>1
  <1>3. ASSUME NEW t \in Callers, RefreshClusterInfo(t) PROVE BootInv'
    <2>1. /\ pc' = [pc EXCEPT ![t] = "idle"] /\ pc[t] = "cluster"
          /\ t # Boot => pool' = pool
      BY <1>3 DEF RefreshClusterInfo, Return
    <2> QED
      BY <2>1
  <1>4. ASSUME NEW t \in Callers, RefreshReturn(t) PROVE BootInv'
    BY <1>4 DEF RefreshReturn
  <1>5. ASSUME NEW t \in Callers, RefreshBegin(t) \/ SpawnProbe(t) PROVE BootInv'
    BY <1>5 DEF RefreshBegin, SpawnProbe
  <1>6. ASSUME NEW t \in Callers, NEW h \in Hosts, CloseConn(t, h) PROVE BootInv'
    <2>1. (pc' = [pc EXCEPT ![t] = "idle"] \/ pc' = pc) /\ pool' = pool
      BY <1>6 DEF CloseConn, Return
    <2> QED
      BY <2>1
  <1>7. ASSUME UNCHANGED <<pool, pc>> PROVE BootInv'
    BY <1>7
  <1>8. (\E h \in Hosts : ProbeStep(h)) \/ Expire \/ UNCHANGED vars => UNCHANGED <<pool, pc>>
    BY DEF ProbeStep, ProbeOk, ProbeError, ProbeDenied, ProbeDeadline, ProbeFail, AppendLoad, AppendFits,
           AppendGrow, AppendStore, RecordResult, ProbeFrame, Expire, vars, callerVars
  <1> HIDE DEF BootInv, TypeOK, Callers
  <1> QED
    BY <1>1, <1>2, <1>3, <1>4, <1>5, <1>6, <1>7, <1>8 DEF Next, CallerStep

LEMMA ActiveStep == TypeOK /\ ActiveInv /\ [Next]_vars => ActiveInv'
  <1> SUFFICES ASSUME TypeOK, ActiveInv, [Next]_vars PROVE ActiveInv'
    OBVIOUS
  <1> USE DEF ActiveInv, TypeOK
  <1>1. CASE Quiet
    BY <1>1 DEF Quiet
  <1>2. ASSUME NEW t \in Callers, RefreshBegin(t) \/ SpawnProbe(t) \/ RefreshReturn(t)
        PROVE  ActiveInv'
    BY <1>2 DEF RefreshBegin, SpawnProbe, RefreshReturn
  <1>3. ASSUME NEW h \in Hosts, ProbeOk(h) PROVE ActiveInv'
    BY <1>3 DEF ProbeOk
  <1>4. ASSUME NEW h \in Hosts, NEW w \in {"recErr", "recDenied"}, ProbeFail(h, w) PROVE ActiveInv'
    BY <1>4 DEF ProbeFail
  <1>5. ASSUME NEW h \in Hosts,
               \/ \E w \in HeaderWords : AppendLoad(h, w)
               \/ AppendFits(h) \/ AppendGrow(h)
               \/ \E w \in HeaderWords \cup {"elem"} : AppendStore(h, w)
               \/ RecordResult(h)
        PROVE  ActiveInv'
    BY <1>5 DEF AppendLoad, AppendFits, AppendGrow, AppendStore, RecordResult
  <1> HIDE DEF ActiveInv, TypeOK
  <1> QED
    BY <1>1, <1>2, <1>3, <1>4, <1>5, NextCases

-----------------------------------------------------------------------------
\* growslice copies an element to the index it had; a store puts a connection
\* at the index its append computed.
LEMMA SlotStep == TypeOK /\ ActiveInv /\ LockInv /\ SlotInv /\ [Next]_vars => SlotInv'
  <1> SUFFICES ASSUME TypeOK, ActiveInv, LockInv, SlotInv, [Next]_vars PROVE SlotInv'
    OBVIOUS
  <1>0. ASSUME NEW h \in Hosts, NEW w, AppendStore(h, w)
        PROVE  \A a \in Hosts : /\ DOMAIN mem'[a] = DOMAIN mem[a]
                                /\ \A i \in DOMAIN mem[a] :
                                     mem'[a][i] = mem[a][i] \/ (mem'[a][i] = h /\ i = llen[h] + 1)
    BY <1>0, StoreType
  <1> USE PoolAssumption DEF SlotInv, TypeOK
  <1>1. CASE Quiet
    BY <1>1 DEF Quiet, appendVars
  <1>2. ASSUME NEW t \in Callers, RefreshBegin(t) PROVE SlotInv'
    BY <1>2 DEF RefreshBegin, ClearActives
  <1>3. ASSUME NEW t \in Callers, SpawnProbe(t) \/ RefreshReturn(t) PROVE SlotInv'
    BY <1>3 DEF SpawnProbe, RefreshReturn, appendVars
  <1>4. ASSUME NEW h \in Hosts, ProbeOk(h) PROVE SlotInv'
    BY <1>4 DEF ProbeOk
  <1>5. ASSUME NEW h \in Hosts, NEW w \in {"recErr", "recDenied"}, ProbeFail(h, w) PROVE SlotInv'
    BY <1>5 DEF ProbeFail, appendVars
  <1>6. ASSUME NEW h \in Hosts, NEW w \in HeaderWords, AppendLoad(h, w) PROVE SlotInv'
    BY <1>6 DEF AppendLoad
  <1>7. ASSUME NEW h \in Hosts, AppendFits(h) PROVE SlotInv'
    BY <1>7 DEF AppendFits
  <1>8. ASSUME NEW h \in Hosts, AppendGrow(h) PROVE SlotInv'
    <2> DEFINE cap == GrownCap(llen[h] + 1, lcap[h])
               arr == [i \in 1..cap |-> IF i <= llen[h] THEN Cell(lptr[h], i) ELSE Nil]
    <2>1. mem' = [mem EXCEPT ![h] = arr] /\ UNCHANGED <<llen, active>>
      BY <1>8 DEF AppendGrow
    <2>2. \A g \in Hosts : probe[g] \in {"store", "recOk", "done"} => probe'[g] \in {"store", "recOk", "done"}
      BY <1>8 DEF AppendGrow
    <2>3. ASSUME NEW g \in Hosts, NEW i \in DOMAIN arr, arr[i] = g
          PROVE  lptr[h] \in Hosts /\ i \in DOMAIN mem[lptr[h]] /\ mem[lptr[h]][i] = g
      BY <2>3 DEF Cell
    <2> HIDE DEF arr
    <2>4. ASSUME NEW a \in Hosts, NEW g \in Hosts, NEW i \in DOMAIN mem'[a], mem'[a][i] = g
          PROVE  \E b \in Hosts : i \in DOMAIN mem[b] /\ mem[b][i] = g
      <3>1. CASE a = h
        BY <2>1, <2>3, <2>4, <3>1
      <3>2. CASE a # h
        BY <2>1, <2>4, <3>2
      <3> QED
        BY <3>1, <3>2
    <2> QED
      BY <2>1, <2>2, <2>4
  <1>9. ASSUME NEW h \in Hosts, NEW w \in HeaderWords \cup {"elem"}, AppendStore(h, w) PROVE SlotInv'
    <2>1. \A a \in Hosts : /\ DOMAIN mem'[a] = DOMAIN mem[a]
                           /\ \A i \in DOMAIN mem[a] :
                                mem'[a][i] = mem[a][i] \/ (mem'[a][i] = h /\ i = llen[h] + 1)
      BY <1>9, <1>0
    <2>2. /\ \A g \in Hosts : probe[g] \in {"store", "recOk", "done"} => probe'[g] \in {"store", "recOk", "done"}
          /\ probe'[h] \in {"store", "recOk"} /\ active[h] = "ALIVE" /\ UNCHANGED <<llen, active>>
      BY <1>9 DEF AppendStore, ActiveInv
    <2> QED
      BY <2>1, <2>2
  <1>10. ASSUME NEW h \in Hosts, RecordResult(h) PROVE SlotInv'
    BY <1>10 DEF RecordResult, appendVars
  <1> HIDE DEF SlotInv, TypeOK
  <1> QED
    BY <1>1, <1>2, <1>3, <1>4, <1>5, <1>6, <1>7, <1>8, <1>9, <1>10, NextCases

-----------------------------------------------------------------------------
LEMMA StoredFinite ==
    /\ IsFiniteSet(Stored) /\ Cardinality(Stored) \in Nat
    /\ \A h \in Hosts : Cardinality(Stored \ {h}) \in Nat
  <1>1. IsFiniteSet(Stored)
    BY PoolAssumption, FS_Subset DEF Stored
  <1> QED
    BY <1>1, FS_CardinalityType, FS_RemoveElement

\* A step that stores no length, and gives no append a larger one than alen.
LEMMA LenKept ==
    ASSUME TypeOK, LenInv, Stored' = Stored, alen' = alen,
           \A h \in Hosts : probe'[h] \in {"unborn", "hello", "load", "store"} =>
               /\ probe[h] \in {"unborn", "hello", "load", "store"}
               /\ llen'[h] = llen[h] \/ (llen'[h] = alen /\ h \notin Stored)
    PROVE  LenInv'
  <1>1. \A h \in Hosts : h \notin Stored => Stored \ {h} = Stored
    OBVIOUS
  <1> QED
    BY <1>1, StoredFinite DEF LenInv, TypeOK

LEMMA LenStep == TypeOK /\ ActiveInv /\ LenInv /\ [Next]_vars => LenInv'
  <1> SUFFICES ASSUME TypeOK, ActiveInv, LenInv, [Next]_vars PROVE LenInv'
    OBVIOUS
  <1> USE DEF TypeOK, ActiveInv, HeaderWords
  <1>1. CASE Quiet
    BY <1>1, LenKept DEF Quiet, appendVars, headerVars, Stored
  <1>2. ASSUME NEW t \in Callers, RefreshBegin(t) PROVE LenInv'
    <2>1. Stored' = {} /\ \A h \in Hosts : Stored' \ {h} = {}
      BY <1>2 DEF RefreshBegin, Stored
    <2>2. alen' = 0 /\ \A h \in Hosts : llen'[h] = 0
      BY <1>2 DEF RefreshBegin, ClearActives
    <2> QED
      BY <2>1, <2>2, FS_EmptySet DEF LenInv
  <1>3. ASSUME NEW t \in Callers, SpawnProbe(t) PROVE LenInv'
    <2>1. Stored' = Stored
      BY <1>3 DEF SpawnProbe, Stored, appendVars
    <2> QED
      BY <1>3, <2>1, LenKept DEF SpawnProbe, appendVars, headerVars
  <1>4. ASSUME NEW t \in Callers, RefreshReturn(t) PROVE LenInv'
    BY <1>4, LenKept DEF RefreshReturn, Stored, appendVars, headerVars
  <1>5. ASSUME NEW h \in Hosts, ProbeOk(h) PROVE LenInv'
    <2>1. Stored' = Stored
      BY <1>5 DEF ProbeOk, Stored
    <2> QED
      BY <1>5, <2>1, LenKept DEF ProbeOk, headerVars
  <1>6. ASSUME NEW h \in Hosts, NEW w \in {"recErr", "recDenied"}, ProbeFail(h, w) PROVE LenInv'
    <2>1. Stored' = Stored
      BY <1>6 DEF ProbeFail, Stored, appendVars
    <2> QED
      BY <1>6, <2>1, LenKept DEF ProbeFail, appendVars, headerVars
  <1>7. ASSUME NEW h \in Hosts, NEW w \in HeaderWords, AppendLoad(h, w) PROVE LenInv'
    <2>1. Stored' = Stored /\ h \notin Stored
      BY <1>7 DEF AppendLoad, Stored
    <2> QED
      BY <1>7, <2>1, LenKept DEF AppendLoad, headerVars
  <1>8. ASSUME NEW h \in Hosts, AppendFits(h) \/ AppendGrow(h) PROVE LenInv'
    <2>1. Stored' = Stored
      BY <1>8 DEF AppendFits, AppendGrow, Stored
    <2> QED
      BY <1>8, <2>1, LenKept DEF AppendFits, AppendGrow, headerVars
  <1>9. ASSUME NEW h \in Hosts, NEW w \in HeaderWords \cup {"elem"}, AppendStore(h, w) PROVE LenInv'
    <2>1. CASE w # "len"
      <3>1. Stored' = Stored
        BY <1>9, <2>1 DEF AppendStore, Stored
      <3>2. alen' = alen /\ llen' = llen
        BY <1>9, <2>1 DEF AppendStore
      <3>3. \A g \in Hosts : probe'[g] \in {"unborn", "hello", "load", "store"} => probe'[g] = probe[g]
        BY <1>9 DEF AppendStore
      <3> QED
        BY <3>1, <3>2, <3>3, LenKept
    <2>2. CASE w = "len"
      <3>1. Stored' = Stored \cup {h} /\ h \notin Stored
        BY <1>9, <2>2 DEF AppendStore, Stored
      <3>2. alen' = llen[h] + 1 /\ llen' = llen /\ probe[h] = "store"
        BY <1>9, <2>2 DEF AppendStore
      <3>3. /\ Cardinality(Stored') = Cardinality(Stored) + 1
            /\ Cardinality(Stored \ {h}) = Cardinality(Stored)
        <4>1. Cardinality(Stored \cup {h}) = Cardinality(Stored) + 1
          BY <3>1, StoredFinite, FS_AddElement
        <4>2. Stored \ {h} = Stored
          BY <3>1
        <4> QED
          BY <3>1, <4>1, <4>2
      <3>4. ASSUME NEW g \in Hosts PROVE Cardinality(Stored \ {g}) <= Cardinality(Stored' \ {g})
        <4>1. Stored \ {g} \in SUBSET (Stored' \ {g})
          BY <3>1
        <4>2. IsFiniteSet(Stored' \ {g})
          BY <3>1, StoredFinite, FS_AddElement, FS_RemoveElement
        <4> QED
          BY <4>1, <4>2, FS_Subset
      <3>5. \A g \in Hosts : Cardinality(Stored' \ {g}) \in Nat
        BY <3>1, StoredFinite, FS_AddElement, FS_RemoveElement, FS_CardinalityType
      <3>6. \A g \in Hosts : probe'[g] \in {"unborn", "hello", "load", "store"} => probe'[g] = probe[g]
        BY <1>9 DEF AppendStore
      <3>7. alen' <= Cardinality(Stored')
        <4>1. llen[h] <= Cardinality(Stored \ {h}) /\ llen[h] \in Nat
          BY <3>2 DEF LenInv
        <4> HIDE DEF TypeOK
        <4> QED
          BY <4>1, <3>2, <3>3, StoredFinite
      <3>8. ASSUME NEW g \in Hosts, probe'[g] \in {"unborn", "hello", "load", "store"}
            PROVE  llen'[g] <= Cardinality(Stored' \ {g})
        <4>1. llen'[g] = llen[g] /\ llen[g] <= Cardinality(Stored \ {g}) /\ llen[g] \in Nat
          BY <3>2, <3>6, <3>8 DEF LenInv
        <4>2. Cardinality(Stored \ {g}) <= Cardinality(Stored' \ {g})
          BY <3>4
        <4>3. Cardinality(Stored \ {g}) \in Nat /\ Cardinality(Stored' \ {g}) \in Nat
          BY <3>5, StoredFinite
        <4> HIDE DEF TypeOK
        <4> QED
          BY <4>1, <4>2, <4>3
      <3> QED
        BY <3>7, <3>8 DEF LenInv
    <2> QED
      BY <2>1, <2>2
  <1>10. ASSUME NEW h \in Hosts, RecordResult(h) PROVE LenInv'
    <2>1. Stored' = Stored
      BY <1>10 DEF RecordResult, Stored, appendVars
    <2> QED
      BY <1>10, <2>1, LenKept DEF RecordResult, appendVars, headerVars
  <1> HIDE DEF TypeOK, ActiveInv, HeaderWords
  <1> QED
    BY <1>1, <1>2, <1>3, <1>4, <1>5, <1>6, <1>7, <1>8, <1>9, <1>10, NextCases

-----------------------------------------------------------------------------
\* A probe ends with its one write to connErrors: no error is there twice.
LEMMA ErrStep == TypeOK /\ ActiveInv /\ LockInv /\ ErrInv /\ [Next]_vars => ErrInv'
  <1> SUFFICES ASSUME TypeOK, ActiveInv, LockInv, ErrInv, [Next]_vars PROVE ErrInv'
    OBVIOUS
  <1> USE PoolAssumption DEF ErrInv, TypeOK
  <1>1. CASE Quiet
    BY <1>1 DEF Quiet, frameVars
  <1>2. ASSUME NEW t \in Callers, RefreshBegin(t) PROVE ErrInv'
    BY <1>2 DEF RefreshBegin
  <1>3. ASSUME NEW t \in Callers, SpawnProbe(t) PROVE ErrInv'
    BY <1>3 DEF SpawnProbe
  <1>4. ASSUME NEW t \in Callers, RefreshReturn(t) PROVE ErrInv'
    BY <1>4 DEF RefreshReturn, NoFrame
  <1>5. ASSUME NEW h \in Hosts,
               \/ ProbeOk(h) \/ \E w \in {"recErr", "recDenied"} : ProbeFail(h, w)
               \/ \E w \in HeaderWords : AppendLoad(h, w)
               \/ AppendFits(h) \/ AppendGrow(h)
               \/ \E w \in HeaderWords \cup {"elem"} : AppendStore(h, w)
        PROVE  ErrInv'
    <2>1. /\ probe[h] # "done" /\ connErrors' = connErrors
          /\ \A g \in Hosts : g # h => probe'[g] = probe[g] /\ active'[g] = active[g]
      BY <1>5 DEF ProbeOk, ProbeFail, AppendLoad, AppendFits, AppendGrow, AppendStore
    <2>2. \A i \in 1..N : connErrors[i] # NoErr => connErrors[i] \in Hosts /\ connErrors[i] # h
      BY <2>1
    <2> HIDE DEF TypeOK
    <2> QED
      BY <2>1, <2>2
  <1>6. ASSUME NEW h \in Hosts, RecordResult(h) PROVE ErrInv'
    <2>1. /\ probe[h] # "done" /\ probe' = [probe EXCEPT ![h] = "done"] /\ active' = active
          /\ \A i \in 1..N : \/ connErrors'[i] = connErrors[i]
                             \/ connErrors'[i] = NoErr
                             \/ i = idx /\ connErrors'[i] = h /\ active[h] = "DEAD"
      BY <1>6 DEF RecordResult, ActiveInv
    <2>2. \A i \in 1..N : connErrors[i] # NoErr => connErrors[i] \in Hosts /\ connErrors[i] # h
      BY <2>1
    <2>3. \A g \in Hosts : probe'[g] = IF g = h THEN "done" ELSE probe[g]
      BY <2>1
    <2> HIDE DEF TypeOK
    <2> QED
      BY <2>1, <2>2, <2>3
  <1> HIDE DEF ErrInv, TypeOK
  <1> QED
    BY <1>1, <1>2, <1>3, <1>4, <1>5, <1>6, NextCases

LEMMA InvStep == IInv /\ [Next]_vars => IInv'
  BY TypeStep, LockStep, BootStep, ActiveStep, SlotStep, LenStep, ErrStep DEF IInv

\* The inductive invariant holds in every reachable state.
THEOREM Invariance == Spec => []IInv
  BY InitInv, InvStep, PTL DEF Spec

\* The pool's variables keep their types: in particular GetRandomConn never
\* returns a nil connection without an error, and the loop variable that the
\* probes use as an index stays within connErrors.
THEOREM TypeCorrect == Spec => []TypeOK
  BY Invariance, PTL DEF IInv

\* RefreshActivesWithSeconds waits for all its goroutines on every path.
THEOREM RefreshIsContained == Spec => []NoProbeOutlivesRefresh
  <1>1. IInv => NoProbeOutlivesRefresh
    BY DEF IInv, LockInv, NoProbeOutlivesRefresh
  <1> QED
    BY <1>1, Invariance, PTL

\* Racing appends never put a connection that did not answer, or one connection
\* twice, into Actives.
THEOREM ActivesAreSound == Spec => []ActivesSound
  <1>1. IInv => ActivesSound
    <2> SUFFICES ASSUME IInv, NEW i \in 1..alen, Cell(aptr, i) \in Hosts
                 PROVE  /\ active[Cell(aptr, i)] = "ALIVE"
                        /\ \A j \in 1..alen : Cell(aptr, j) = Cell(aptr, i) => j = i
      BY DEF ActivesSound
    <2>1. \A j : Cell(aptr, j) \in Hosts =>
            aptr \in Hosts /\ j \in DOMAIN mem[aptr] /\ Cell(aptr, j) = mem[aptr][j]
      BY PoolAssumption DEF Cell
    <2>2. \A j : Cell(aptr, j) \in Hosts =>
            j = llen[Cell(aptr, j)] + 1 /\ active[Cell(aptr, j)] = "ALIVE"
      BY <2>1 DEF IInv, SlotInv
    <2> QED
      BY <2>2
  <1> QED
    BY <1>1, Invariance, PTL

\* The length of Actives counts at most the connections that answered, so the
\* fast path of a refresh is taken only when all of them did.
THEOREM LengthIsBounded == Spec => []LengthBounded
  <1>1. IInv => LengthBounded
    <2> SUFFICES ASSUME IInv PROVE alen <= Cardinality(Alive)
      BY DEF LengthBounded
    <2>1. Stored \in SUBSET Alive /\ IsFiniteSet(Alive)
      BY PoolAssumption, FS_Subset DEF Stored, Alive
    <2>2. Cardinality(Stored) <= Cardinality(Alive) /\ Cardinality(Alive) \in Nat
      BY <2>1, FS_Subset, FS_CardinalityType
    <2> QED
      BY <2>2, StoredFinite DEF IInv, LenInv, TypeOK
  <1> QED
    BY <1>1, Invariance, PTL

\* If every entry of connErrors is an error, every probe failed: n errors, all
\* different, are the errors of n connections.
LEMMA AllEntriesMeanAllDead ==
    ASSUME IInv, \A i \in 1..N : connErrors[i] # NoErr
    PROVE  \A h \in Hosts : active[h] = "DEAD"
  <1>1. connErrors \in Injection(1..N, Hosts)
    BY DEF IInv, TypeOK, ErrInv, Injection, IsInjective
  <1>2. Cardinality(1..N) = Cardinality(Hosts)
    BY NFact, FS_Interval DEF N
  <1>3. connErrors \in Surjection(1..N, Hosts)
    BY <1>1, <1>2, PoolAssumption, FS_Injection
  <1>4. \A h \in Hosts : \E i \in 1..N : connErrors[i] = h
    BY <1>3 DEF Surjection
  <1> QED
    BY <1>4 DEF IInv, ErrInv

\* A refresh reports that all hosts failed only if no host answered, whichever
\* entries the probes wrote through the shared loop variable.
THEOREM AllFailedIsTrue == Spec => AllFailedMeansNoneAlive
  <1>1. ASSUME IInv, NEW t \in Callers, RefreshReturn(t), ret'[t] = "allFailed"
        PROVE  Alive = {} /\ alen = 0
    <2>1. \A i \in 1..N : connErrors[i] # NoErr
      BY <1>1, PoolAssumption DEF RefreshReturn, RefreshResult, IInv, TypeOK
    <2>2. Alive = {}
      BY <1>1, <2>1, AllEntriesMeanAllDead DEF Alive
    <2>3. Stored = {}
      BY <2>2 DEF Stored, Alive
    <2>4. alen = 0
      BY <1>1, <2>3, FS_EmptySet DEF IInv, LenInv, TypeOK
    <2> QED
      BY <2>2, <2>4
  <1>2. IInv => [\A t \in Callers : RefreshReturn(t) /\ ret'[t] = "allFailed" => Alive = {} /\ alen = 0]_vars
    BY <1>1
  <1> QED
    BY <1>2, Invariance, PTL DEF AllFailedMeansNoneAlive

\* NewConnectionPool succeeds only if some host answered.
THEOREM ReadyIsTrue == Spec => ReadyMeansSomeAlive
  <1>1. ASSUME IInv, [Next]_vars, pool' = "ready", pool # "ready"
        PROVE  Alive # {}
    <2>1. PICK t \in Callers : RefreshClusterInfo(t)
      BY <1>1 DEF Next, CallerStep, ProbeStep, vars, callerVars, CallRefresh, RefreshFast, RefreshBegin,
         SpawnProbe, RefreshReturn, CallRefreshClusterInfo, CallGetRandomConn, GetRandomConn, CallClose,
         CloseConn, ProbeOk, ProbeError, ProbeDenied, ProbeDeadline, ProbeFail, AppendLoad, AppendFits,
         AppendGrow, AppendStore, RecordResult, ProbeFrame, Expire
    <2>2. alen >= 1
      <3>1. t = Boot /\ pc[t] = "cluster" BY <1>1, <2>1 DEF RefreshClusterInfo
      <3>2. mu = NoThread
        BY <1>1, <3>1, PoolAssumption DEF IInv, TypeOK, LockInv, BootInv, Callers
      <3> QED
        BY <1>1, <2>1, <3>1, <3>2, PoolAssumption DEF RefreshClusterInfo, ClusterResults, IInv, TypeOK
    <2>3. Stored # {}
      <3>1. Stored = {} => Cardinality(Stored) = 0
        BY FS_EmptySet
      <3> QED
        BY <1>1, <2>2, <3>1 DEF IInv, LenInv, TypeOK
    <2> QED
      BY <2>3 DEF Stored, Alive
  <1>2. IInv /\ [Next]_vars => [pool' = "ready" /\ pool # "ready" => Alive # {}]_vars
    BY <1>1
  <1> QED
    BY <1>2, Invariance, PTL DEF Spec, ReadyMeansSomeAlive

-----------------------------------------------------------------------------
\* A refresh that returns nil without probing has every host alive: as many
\* connections answered as there are.
THEOREM FastPathIsTrue == Spec => FastPathMeansAllAlive
  <1>1. ASSUME IInv, LengthBounded, NEW t \in Callers, RefreshFast(t)
        PROVE  Alive = Hosts
    <2>1. alen = Cardinality(Hosts) /\ alen <= Cardinality(Alive)
      BY <1>1 DEF RefreshFast, Recent, N, LengthBounded
    <2>2. Alive \in SUBSET Hosts /\ Cardinality(Alive) \in Nat /\ Cardinality(Hosts) \in Nat
      BY PoolAssumption, FS_Subset, FS_CardinalityType DEF Alive
    <2>3. Alive # Hosts => Cardinality(Alive) < Cardinality(Hosts)
      BY <2>2, PoolAssumption, FS_Subset
    <2> QED
      BY <2>1, <2>2, <2>3
  <1>2. IInv /\ LengthBounded => [\A t \in Callers : RefreshFast(t) => Alive = Hosts]_vars
    BY <1>1
  <1> QED
    BY <1>2, Invariance, LengthIsBounded, PTL DEF FastPathMeansAllAlive

\* No step opens a connection again, and a Close skips none.
LEMMA CloseStep == TypeOK /\ CloseInv /\ [Next]_vars => CloseInv'
  <1> SUFFICES ASSUME TypeOK, CloseInv, [Next]_vars PROVE CloseInv'
    OBVIOUS
  <1>1. ASSUME UNCHANGED <<left, closed>>, \A t \in Callers : pc'[t] = "close" => pc[t] = "close"
        PROVE  CloseInv'
    BY <1>1 DEF CloseInv
  <1>2. ASSUME NEW t \in Callers,
               \/ \E s \in Seconds : CallRefresh(t, s)
               \/ CallRefreshClusterInfo(t) \/ CallGetRandomConn(t)
        PROVE  CloseInv'
    BY <1>1, <1>2 DEF CallRefresh, CallRefreshClusterInfo, CallGetRandomConn, Call, TypeOK
  <1>3. ASSUME NEW t \in Callers, RefreshFast(t) \/ RefreshClusterInfo(t) \/ RefreshBegin(t) \/ RefreshReturn(t)
        PROVE  CloseInv'
    BY <1>1, <1>3 DEF RefreshFast, RefreshClusterInfo, RefreshBegin, RefreshReturn, Return, TypeOK
  <1>4. ASSUME NEW t \in Callers, SpawnProbe(t) PROVE CloseInv'
    BY <1>1, <1>4 DEF SpawnProbe, TypeOK
  <1>5. ASSUME NEW t \in Callers, GetRandomConn(t) PROVE CloseInv'
    <2>1. pc' = [pc EXCEPT ![t] = "idle"] /\ UNCHANGED <<left, closed>>
      BY <1>5 DEF GetRandomConn, Return
    <2> QED
      BY <1>1, <2>1 DEF TypeOK
  <1>6. ASSUME NEW t \in Callers, CallClose(t) PROVE CloseInv'
    BY <1>6 DEF CallClose, Call, CloseInv, TypeOK
  <1>7. ASSUME NEW t \in Callers, NEW h \in Hosts, CloseConn(t, h) PROVE CloseInv'
    <2>1. closed' = closed \cup {h}
      BY <1>7 DEF CloseConn
    <2>2. CASE pc' = [pc EXCEPT ![t] = "idle"] /\ left' = [left EXCEPT ![t] = {}]
      BY <2>1, <2>2 DEF CloseInv, TypeOK
    <2>3. CASE pc' = pc /\ left' = [left EXCEPT ![t] = @ \ {h}]
      BY <2>1, <2>3 DEF CloseInv, TypeOK
    <2> QED
      BY <1>7, <2>2, <2>3 DEF CloseConn, Return
  <1>8. ASSUME NEW h \in Hosts, ProbeStep(h) PROVE CloseInv'
    <2>1. UNCHANGED <<pc, left, closed>>
      BY <1>8 DEF ProbeStep, ProbeOk, ProbeError, ProbeDenied, ProbeDeadline, ProbeFail, AppendLoad,
                  AppendFits, AppendGrow, AppendStore, RecordResult, ProbeFrame, callerVars
    <2> QED
      BY <1>1, <2>1
  <1>9. CASE Expire \/ UNCHANGED vars
    BY <1>1, <1>9 DEF Expire, vars, callerVars
  <1> QED
    BY <1>2, <1>3, <1>4, <1>5, <1>6, <1>7, <1>8, <1>9 DEF Next, CallerStep

\* A Close that returns nil has left no connection open: it was the first to
\* close each of those that it visited, and it visited all.
THEOREM CloseIsTrue == Spec => CloseNilMeansAllClosed
  <1>1. Init => CloseInv
    BY DEF Init, CloseInv
  <1>2. Spec => []CloseInv
    BY <1>1, CloseStep, TypeCorrect, PTL DEF Spec
  <1>3. ASSUME TypeOK, CloseInv, [Next]_vars, NEW t \in Callers,
               pc[t] = "close", pc'[t] = "idle", ret'[t] = NoErr
        PROVE  closed' = Hosts
    <2>1. PICK h \in Hosts : CloseConn(t, h)
      <3>1. ~UNCHANGED pc
        BY <1>3
      <3>2. ASSUME NEW u \in Callers, u # t,
                   pc' = [pc EXCEPT ![u] = pc'[u]]
            PROVE  FALSE
        BY <1>3, <3>2 DEF TypeOK
      <3>3. ASSUME NEW u \in Callers, CallerStep(u), pc' # pc
            PROVE  pc' = [pc EXCEPT ![u] = pc'[u]]
        BY <3>3 DEF TypeOK, CallerStep, CallRefresh, RefreshFast, RefreshBegin, SpawnProbe, RefreshReturn,
           CallRefreshClusterInfo, RefreshClusterInfo, CallGetRandomConn, GetRandomConn, CallClose,
           CloseConn, Call, Return
      <3>4. CallerStep(t)
        BY <1>3, <3>1, <3>2, <3>3 DEF Next, ProbeStep, ProbeOk, ProbeError, ProbeDenied, ProbeDeadline,
           ProbeFail, AppendLoad, AppendFits, AppendGrow, AppendStore, RecordResult, ProbeFrame,
           Expire, vars, callerVars
      <3> QED
        BY <1>3, <3>4 DEF CallerStep, CallRefresh, RefreshFast, RefreshBegin, SpawnProbe, RefreshReturn,
           CallRefreshClusterInfo, RefreshClusterInfo, CallGetRandomConn, GetRandomConn, CallClose, Call
    <2>2. h \notin closed /\ left[t] = {h} /\ closed' = closed \cup {h}
      BY <1>3, <2>1, PoolAssumption DEF CloseConn, CloseReturns, CloseResult, Return, TypeOK
    <2> QED
      BY <1>3, <2>2 DEF CloseInv, TypeOK
  <1>4. TypeOK /\ CloseInv /\ [Next]_vars =>
          [\A t \in Callers : pc[t] = "close" /\ pc'[t] = "idle" /\ ret'[t] = NoErr => closed' = Hosts]_vars
    BY <1>3
  <1> QED
    BY <1>2, <1>4, TypeCorrect, PTL DEF Spec, CloseNilMeansAllClosed

-----------------------------------------------------------------------------
(* Appends that do not overlap.                                             *)

\* A step that neither appends nor touches the header.
LEMMA SerialKept ==
    ASSUME SerialInv, UNCHANGED <<headerVars, mem, raced, todo, lptr, llen, lcap>>, Appended' = Appended,
           \A h \in Hosts : probe'[h] = probe[h] \/ {probe'[h], probe[h]} \cap {"load", "store"} = {}
    PROVE  SerialInv'
  <1>1. \A h \in Hosts : \A x \in {"load", "store"} : probe'[h] = x <=> probe[h] = x
    OBVIOUS
  <1>2. \A a, i : Cell(a, i)' = Cell(a, i)
    BY DEF Cell
  <1>4. Shows(aptr, alen)' <=> Shows(aptr, alen)
    BY <1>2 DEF Shows, headerVars
  <1>5. CapOf(aptr)' = CapOf(aptr)
    BY DEF CapOf, headerVars
  <1>6. \A h \in Hosts : LoadInv(h)' <=> LoadInv(h)
    BY <1>1 DEF LoadInv, headerVars
  <1>7. \A h \in Hosts : StoreInv(h)' <=> StoreInv(h)
    <2>1. \A h \in Hosts : Shows(lptr[h], llen[h])' <=> Shows(lptr[h], llen[h])
      BY <1>2 DEF Shows
    <2> QED
      BY <1>1, <2>1 DEF StoreInv, headerVars
  <1> QED
    BY <1>1, <1>4, <1>5, <1>6, <1>7 DEF SerialInv, headerVars

\* A probe that is alone: no other one is loading or storing.
LEMMA Alone ==
    ASSUME SerialInv, ~raced, NEW h \in Hosts, probe[h] \in {"load", "store"}
    PROVE  \A g \in Hosts \ {h} : probe[g] \notin {"load", "store"}
  BY DEF SerialInv

\* Appending starts, alone or with raced set.
LEMMA SerialOk ==
    ASSUME TypeOK, SerialInv, NEW h \in Hosts, ProbeOk(h)
    PROVE  SerialInv'
  <1> SUFFICES ASSUME ~raced' PROVE SerialInv'
    BY DEF SerialInv
  <1>1. ~raced /\ \A g \in Hosts : probe[g] \notin {"load", "store"}
    BY DEF ProbeOk, TypeOK
  <1>2. /\ \A g \in Hosts : probe'[g] = IF g = h THEN "load" ELSE probe[g]
        /\ todo'[h] = HeaderWords
        /\ UNCHANGED <<headerVars, mem, lptr, llen, lcap>>
    BY DEF ProbeOk, TypeOK
  <1>3. Appended' = Appended
    BY DEF ProbeOk, Appended, TypeOK
  <1>4. Shows(aptr, alen) /\ acap = CapOf(aptr)
    BY <1>1 DEF SerialInv
  <1>5. (Shows(aptr, alen) /\ acap = CapOf(aptr))'
    BY <1>2, <1>3, <1>4 DEF Shows, Cell, CapOf, headerVars
  <1>6. \A g \in Hosts : LoadInv(g)' /\ StoreInv(g)'
    BY <1>1, <1>2 DEF LoadInv, StoreInv, HeaderWords
  <1>7. \A f, g \in Hosts : probe'[f] \in {"load", "store"} /\ probe'[g] \in {"load", "store"} => f = g
    BY <1>1, <1>2
  <1> QED
    BY <1>5, <1>6, <1>7 DEF SerialInv

\* A word is loaded: the header is nobody else's to change.
LEMMA SerialLoad ==
    ASSUME TypeOK, SerialInv, NEW h \in Hosts, NEW w \in HeaderWords, AppendLoad(h, w)
    PROVE  SerialInv'
  <1> SUFFICES ASSUME ~raced' PROVE SerialInv'
    BY DEF SerialInv
  <1>1. ~raced /\ probe[h] = "load" /\ UNCHANGED <<headerVars, mem, probe, active>>
    BY DEF AppendLoad
  <1>2. \A g \in Hosts \ {h} : probe[g] \notin {"load", "store"}
    BY <1>1, Alone
  <1>3. Appended' = Appended
    BY <1>1 DEF Appended
  <1>4. (Shows(aptr, alen) /\ acap = CapOf(aptr))'
    <2>1. Shows(aptr, alen) /\ acap = CapOf(aptr)
      BY <1>1, <1>2 DEF SerialInv
    <2> QED
      BY <1>1, <1>3, <2>1 DEF Shows, Cell, CapOf, headerVars
  <1>5. LoadInv(h)'
    <2>1. LoadInv(h)
      BY <1>1 DEF SerialInv
    <2>2. todo'[h] = todo[h] \ {w}
      BY DEF AppendLoad, TypeOK
    <2>3. /\ lptr'[h] = IF w = "ptr" THEN aptr ELSE lptr[h]
          /\ llen'[h] = IF w = "len" THEN alen ELSE llen[h]
          /\ lcap'[h] = IF w = "cap" THEN acap ELSE lcap[h]
      BY DEF AppendLoad, TypeOK
    <2> QED
      BY <1>1, <2>1, <2>2, <2>3 DEF LoadInv, headerVars
  <1>6. \A g \in Hosts : LoadInv(g)' /\ StoreInv(g)'
    BY <1>1, <1>2, <1>5 DEF LoadInv, StoreInv
  <1>7. \A f, g \in Hosts : probe'[f] \in {"load", "store"} /\ probe'[g] \in {"load", "store"} => f = g
    BY <1>1, <1>2
  <1> QED
    BY <1>4, <1>6, <1>7 DEF SerialInv

\* The three words are loaded: what the append goes by is the header.
LEMMA Loaded ==
    ASSUME SerialInv, ~raced, NEW h \in Hosts, probe[h] = "load", todo[h] = {}
    PROVE  /\ lptr[h] = aptr /\ llen[h] = alen /\ lcap[h] = acap
           /\ Shows(aptr, alen) /\ acap = CapOf(aptr)
  <1>1. \A g \in Hosts : probe[g] # "store"
    BY Alone
  <1> QED
    BY <1>1 DEF SerialInv, LoadInv

\* There is room in the array of the header.
LEMMA SerialFits ==
    ASSUME TypeOK, SerialInv, NEW h \in Hosts, AppendFits(h)
    PROVE  SerialInv'
  <1> SUFFICES ASSUME ~raced' PROVE SerialInv'
    BY DEF SerialInv
  <1>1. /\ ~raced /\ probe[h] = "load" /\ todo[h] = {} /\ llen[h] + 1 <= lcap[h]
        /\ UNCHANGED <<headerVars, mem, lptr, llen, lcap, active>>
    BY DEF AppendFits
  <1>2. \A g \in Hosts \ {h} : probe[g] \notin {"load", "store"}
    BY <1>1, Alone
  <1>3. (\A g \in Hosts : probe'[g] = IF g = h THEN "store" ELSE probe[g]) /\ todo'[h] = {"len", "elem"}
    BY DEF AppendFits, TypeOK
  <1>4. Appended' = Appended
    BY <1>1, <1>3 DEF Appended
  <1>5. lptr[h] = aptr /\ lcap[h] = acap /\ Shows(lptr[h], llen[h]) /\ lcap[h] = CapOf(lptr[h])
    BY <1>1, Loaded
  <1>6. lptr[h] \in Hosts /\ lcap[h] = Len(mem[lptr[h]])
    BY <1>1, <1>5 DEF CapOf, TypeOK
  <1>7. Shows(lptr[h], llen[h])'
    BY <1>1, <1>4, <1>5 DEF Shows, Cell
  <1>8. StoreInv(h)'
    BY <1>1, <1>3, <1>5, <1>6, <1>7 DEF StoreInv, headerVars
  <1>9. \A g \in Hosts : LoadInv(g)' /\ StoreInv(g)'
    BY <1>2, <1>3, <1>8 DEF LoadInv, StoreInv
  <1>10. \A f, g \in Hosts : probe'[f] \in {"load", "store"} /\ probe'[g] \in {"load", "store"} => f = g
    BY <1>2, <1>3
  <1> QED
    BY <1>3, <1>9, <1>10 DEF SerialInv

\* A larger array takes over what the header shows.
LEMMA SerialGrow ==
    ASSUME TypeOK, SerialInv, NEW h \in Hosts, AppendGrow(h)
    PROVE  SerialInv'
  <1> SUFFICES ASSUME ~raced' PROVE SerialInv'
    BY DEF SerialInv
  <1> DEFINE cap == GrownCap(llen[h] + 1, lcap[h])
             arr == [i \in 1..cap |-> IF i <= llen[h] THEN Cell(lptr[h], i) ELSE Nil]
  <1>1. /\ ~raced /\ probe[h] = "load" /\ todo[h] = {} /\ UNCHANGED <<llen, active>>
        /\ mem' = [mem EXCEPT ![h] = arr] /\ lcap' = [lcap EXCEPT ![h] = cap] /\ lptr' = [lptr EXCEPT ![h] = h]
    BY DEF AppendGrow
  <1>2. \A g \in Hosts \ {h} : probe[g] \notin {"load", "store"}
    BY <1>1, Alone
  <1>3. /\ \A g \in Hosts : probe'[g] = IF g = h THEN "store" ELSE probe[g]
        /\ todo'[h] = HeaderWords \cup {"elem"}
    BY DEF AppendGrow, TypeOK
  <1>4. Appended' = Appended
    BY <1>1, <1>3 DEF Appended
  <1>5. cap \in Nat /\ llen[h] \in Nat /\ llen[h] + 1 <= cap
    BY DEF GrownCap, TypeOK
  <1>6. Shows(lptr[h], llen[h])
    BY <1>1, Loaded
  <1>7. DOMAIN arr = 1..cap /\ \A i \in 1..cap : arr[i] = IF i <= llen[h] THEN Cell(lptr[h], i) ELSE Nil
    OBVIOUS
  <1> HIDE DEF cap, arr
  <1>8. mem'[h] = arr /\ lptr'[h] = h /\ lcap'[h] = cap /\ llen'[h] = llen[h]
    BY <1>1 DEF TypeOK
  <1>9. Len(mem'[h]) = cap
    <2>1. mem'[h] = [i \in 1..cap |-> IF i <= llen[h] THEN Cell(lptr[h], i) ELSE Nil]
      BY <1>8 DEF arr
    <2> QED
      BY <2>1, <1>5
  <1>10. \A i \in 1..llen[h] : Cell(h, i)' = Cell(lptr[h], i)
    <2> SUFFICES ASSUME NEW i \in 1..llen[h] PROVE Cell(h, i)' = Cell(lptr[h], i)
      OBVIOUS
    <2>1. i \in DOMAIN arr /\ arr[i] = Cell(lptr[h], i)
      BY <1>5, <1>7
    <2>2. Cell(h, i)' = IF i \in DOMAIN mem'[h] THEN mem'[h][i] ELSE Wild
      BY DEF Cell
    <2> QED
      BY <1>8, <2>1, <2>2
  <1>11. Shows(lptr[h], llen[h])'
    BY <1>4, <1>6, <1>8, <1>10 DEF Shows
  <1>12. StoreInv(h)'
    BY <1>3, <1>5, <1>8, <1>9, <1>11 DEF StoreInv, HeaderWords
  <1>13. \A g \in Hosts : LoadInv(g)' /\ StoreInv(g)'
    BY <1>2, <1>3, <1>12 DEF LoadInv, StoreInv
  <1>14. \A f, g \in Hosts : probe'[f] \in {"load", "store"} /\ probe'[g] \in {"load", "store"} => f = g
    BY <1>2, <1>3
  <1> QED
    BY <1>3, <1>13, <1>14 DEF SerialInv

\* A word is stored; with the last one the connection is appended.
LEMMA SerialStore ==
    ASSUME TypeOK, ActiveInv, SerialInv,
           NEW h \in Hosts, NEW w \in HeaderWords \cup {"elem"}, AppendStore(h, w)
    PROVE  SerialInv'
  <1> SUFFICES ASSUME ~raced' PROVE SerialInv'
    BY DEF SerialInv
  <1>a. PICK a : a = lptr[h]
    OBVIOUS
  <1>n. PICK n : n = llen[h]
    OBVIOUS
  <1>1. ~raced /\ probe[h] = "store" /\ w \in todo[h] /\ UNCHANGED <<lptr, llen, lcap, active>>
    BY DEF AppendStore
  <1>2. \A g \in Hosts \ {h} : probe[g] \notin {"load", "store"}
    BY <1>1, Alone
  <1>3. StoreInv(h)
    BY <1>1 DEF SerialInv
  <1>4. a \in Hosts /\ n \in Nat /\ Shows(a, n) /\ lcap[h] = Len(mem[a]) /\ n + 1 <= Len(mem[a])
    BY <1>1, <1>3, <1>a, <1>n DEF StoreInv, TypeOK
  <1>5. n + 1 \in DOMAIN mem[a] /\ mem[a] \in Seq(Hosts \cup {Nil, Wild})
    BY <1>4 DEF TypeOK
  <1>6. todo'[h] = todo[h] \ {w}
    BY DEF AppendStore, TypeOK
  <1>7. /\ aptr' = IF w = "ptr" THEN a ELSE aptr
        /\ alen' = IF w = "len" THEN n + 1 ELSE alen
        /\ acap' = IF w = "cap" THEN lcap[h] ELSE acap
    BY <1>a, <1>n DEF AppendStore
  <1>8. mem' = IF w = "elem" THEN [mem EXCEPT ![a] = [mem[a] EXCEPT ![n + 1] = h]] ELSE mem
    BY <1>4, <1>5, <1>a, <1>n DEF AppendStore
  <1>9. mem'[a] = IF w = "elem" THEN [mem[a] EXCEPT ![n + 1] = h] ELSE mem[a]
    BY <1>4, <1>8 DEF TypeOK
  <1>10. /\ Len(mem'[a]) = Len(mem[a]) /\ DOMAIN mem'[a] = DOMAIN mem[a]
         /\ w = "elem" => mem'[a][n + 1] = h
         /\ w # "elem" => mem'[a] = mem[a]
         /\ \A i \in 1..n : mem'[a][i] = mem[a][i]
    BY <1>4, <1>5, <1>9
  <1>11. \A i \in 1..n : Cell(a, i)' = Cell(a, i)
    BY <1>4, <1>10 DEF Cell
  <1>12. "elem" \notin todo'[h] => mem'[a][n + 1] = h
    BY <1>1, <1>3, <1>6, <1>10, <1>a, <1>n DEF StoreInv
  <1>13. /\ "ptr" \notin todo'[h] => aptr' = a
         /\ "len" \notin todo'[h] => alen' = n + 1
         /\ "cap" \notin todo'[h] => acap' = lcap[h]
    BY <1>1, <1>3, <1>6, <1>7, <1>a, <1>n DEF StoreInv
  <1>14. CASE todo[h] # {w}
    <2>1. probe' = probe
      BY <1>14 DEF AppendStore
    <2>2. Appended' = Appended
      BY <1>1, <2>1 DEF Appended
    <2>3. Shows(lptr[h], llen[h])'
      BY <1>1, <1>4, <1>11, <2>2, <1>a, <1>n DEF Shows
    <2>4. StoreInv(h)'
      BY <1>1, <1>4, <1>10, <1>12, <1>13, <2>3, <1>a, <1>n DEF StoreInv
    <2>5. \A g \in Hosts : LoadInv(g)' /\ StoreInv(g)'
      BY <1>1, <1>2, <2>1, <2>4 DEF LoadInv, StoreInv
    <2> QED
      BY <1>1, <1>2, <2>1, <2>5 DEF SerialInv
  <1>15. CASE todo[h] = {w}
    <2>1. \A g \in Hosts : probe'[g] = IF g = h THEN "recOk" ELSE probe[g]
      BY <1>15 DEF AppendStore, TypeOK
    <2>2. todo'[h] = {}
      BY <1>6, <1>15
    <2>3. aptr' = a /\ alen' = n + 1 /\ acap' = lcap[h] /\ mem'[a][n + 1] = h
      BY <1>12, <1>13, <2>2
    <2>4. h \notin Appended /\ Appended' = Appended \cup {h}
      BY <1>1, <2>1 DEF Appended, ActiveInv
    <2>5. Cardinality(Appended') = n + 1
      <3>1. IsFiniteSet(Appended)
        BY PoolAssumption, FS_Subset DEF Appended
      <3> QED
        BY <1>4, <2>4, <3>1, FS_AddElement DEF Shows
    <2>6. Cell(a, n + 1)' = h
      BY <1>4, <1>5, <1>10, <2>3 DEF Cell
    <2>7. \A i \in 1..(n + 1) : i \in 1..n \/ i = n + 1
      BY <1>4
    <2>8. \A i \in 1..(n + 1) : Cell(a, i)' \in Appended'
      BY <1>4, <1>11, <2>4, <2>6, <2>7 DEF Shows
    <2>9. \A g \in Appended' : \E i \in 1..(n + 1) : Cell(a, i)' = g
      <3>1. \A g \in Appended : \E i \in 1..n : Cell(a, i)' = g
        BY <1>4, <1>11 DEF Shows
      <3>2. 1..n \subseteq 1..(n + 1) /\ n + 1 \in 1..(n + 1)
        BY <1>4
      <3> QED
        BY <2>4, <2>6, <3>1, <3>2
    <2>10. Shows(aptr, alen)'
      <3>1. \A i : Cell(aptr, i)' = Cell(a, i)'
        BY <2>3 DEF Cell
      <3> QED
        BY <2>3, <2>5, <2>8, <2>9, <3>1 DEF Shows
    <2>11. acap' = CapOf(aptr)'
      BY <1>4, <1>10, <2>3 DEF CapOf
    <2>12. \A g \in Hosts : LoadInv(g)' /\ StoreInv(g)'
      BY <1>2, <2>1 DEF LoadInv, StoreInv
    <2> QED
      BY <1>2, <2>1, <2>10, <2>11, <2>12 DEF SerialInv
  <1> QED
    BY <1>14, <1>15

LEMMA SerialStep == TypeOK /\ ActiveInv /\ SerialInv /\ [Next]_vars => SerialInv'
  <1> SUFFICES ASSUME TypeOK, ActiveInv, SerialInv, [Next]_vars PROVE SerialInv'
    OBVIOUS
  <1>1. CASE Quiet
    BY <1>1, SerialKept DEF Quiet, appendVars, Appended
  <1>2. ASSUME NEW t \in Callers, RefreshBegin(t) PROVE SerialInv'
    <2>1. /\ \A h \in Hosts : probe'[h] = "unborn"
          /\ aptr' = Empty /\ alen' = 0 /\ acap' = 0
      BY <1>2 DEF RefreshBegin, ClearActives
    <2>2. Appended' = {} /\ Cardinality(Appended') = 0
      BY <2>1, FS_EmptySet DEF Appended
    <2>3. Shows(aptr, alen)' /\ acap' = CapOf(aptr)'
      BY <2>1, <2>2, PoolAssumption DEF Shows, CapOf
    <2>4. \A g \in Hosts : LoadInv(g)' /\ StoreInv(g)'
      BY <2>1 DEF LoadInv, StoreInv
    <2> QED
      BY <2>1, <2>3, <2>4 DEF SerialInv
  <1>3. ASSUME NEW t \in Callers, SpawnProbe(t) PROVE SerialInv'
    <2>1. PICK g \in Hosts : probe[g] = "unborn" /\ probe' = [probe EXCEPT ![g] = "hello"]
      BY <1>3 DEF SpawnProbe
    <2>2. Appended' = Appended
      BY <1>3, <2>1 DEF SpawnProbe, Appended, TypeOK
    <2>3. \A h \in Hosts : probe'[h] = probe[h] \/ (probe'[h] = "hello" /\ probe[h] = "unborn")
      BY <2>1 DEF TypeOK
    <2>4. \A h \in Hosts : probe'[h] = probe[h] \/ {probe'[h], probe[h]} \cap {"load", "store"} = {}
      BY <2>3
    <2> QED
      BY <1>3, <2>2, <2>4, SerialKept DEF SpawnProbe, appendVars
  <1>4. ASSUME NEW t \in Callers, RefreshReturn(t) PROVE SerialInv'
    BY <1>4, SerialKept DEF RefreshReturn, appendVars, Appended
  <1>5. ASSUME NEW h \in Hosts, NEW w \in {"recErr", "recDenied"}, ProbeFail(h, w) PROVE SerialInv'
    <2>1. \A g \in Hosts : probe'[g] = probe[g] \/ (probe'[g] = w /\ probe[g] = "hello")
      BY <1>5 DEF ProbeFail, TypeOK
    <2>2. Appended' = Appended
      BY <1>5 DEF ProbeFail, Appended, TypeOK
    <2>3. \A g \in Hosts : probe'[g] = probe[g] \/ {probe'[g], probe[g]} \cap {"load", "store"} = {}
      BY <2>1
    <2> QED
      BY <1>5, <2>2, <2>3, SerialKept DEF ProbeFail, appendVars
  <1>6. ASSUME NEW h \in Hosts, RecordResult(h) PROVE SerialInv'
    <2>1. \A g \in Hosts : probe'[g] = probe[g] \/ (probe'[g] = "done" /\ probe[g] \in {"recOk", "recErr", "recDenied"})
      BY <1>6 DEF RecordResult, TypeOK
    <2>2. Appended' = Appended
      BY <1>6 DEF RecordResult, Appended, ActiveInv, TypeOK
    <2>3. \A g \in Hosts : probe'[g] = probe[g] \/ {probe'[g], probe[g]} \cap {"load", "store"} = {}
      BY <2>1
    <2> QED
      BY <1>6, <2>2, <2>3, SerialKept DEF RecordResult, appendVars
  <1> QED
    BY <1>1, <1>2, <1>3, <1>4, <1>5, <1>6, NextCases, SerialOk, SerialLoad, SerialFits, SerialGrow, SerialStore

LEMMA AliveStep == TypeOK /\ LockInv /\ AliveInv /\ [Next]_vars => AliveInv'
  <1> SUFFICES ASSUME TypeOK, LockInv, AliveInv, [Next]_vars PROVE AliveInv'
    OBVIOUS
  <1>1. CASE Quiet
    BY <1>1 DEF Quiet, AliveInv
  <1>2. ASSUME NEW t \in Callers, RefreshBegin(t) \/ SpawnProbe(t) PROVE AliveInv'
    <2>1. t # NoThread
      BY PoolAssumption DEF Callers
    <2>2. mu' = t
      BY <1>2 DEF RefreshBegin, SpawnProbe, LockInv
    <2> QED
      BY <2>1, <2>2 DEF AliveInv
  <1>3. ASSUME NEW t \in Callers, RefreshReturn(t) PROVE AliveInv'
    BY <1>3 DEF RefreshReturn, WaitOver, AliveInv
  <1>4. ASSUME NEW h \in Hosts,
               \/ ProbeOk(h) \/ \E w \in {"recErr", "recDenied"} : ProbeFail(h, w)
               \/ \E w \in HeaderWords : AppendLoad(h, w)
               \/ AppendFits(h) \/ AppendGrow(h)
               \/ \E w \in HeaderWords \cup {"elem"} : AppendStore(h, w)
               \/ RecordResult(h)
        PROVE  AliveInv'
    <2>1. probe[h] \notin {"unborn", "done"} /\ mu' = mu
      BY <1>4 DEF ProbeOk, ProbeFail, AppendLoad, AppendFits, AppendGrow, AppendStore, RecordResult, ProbeFrame
    <2>2. mu' # NoThread
      BY <2>1 DEF LockInv
    <2> QED
      BY <2>2 DEF AliveInv
  <1> QED
    BY <1>1, <1>2, <1>3, <1>4, NextCases

\* When no two appends of the last refresh overlapped, Actives holds exactly the
\* connections that answered, each once: whatever is wrong with Actives comes
\* from the missing synchronisation of the appends.
THEOREM ExactUnlessRaced == Spec => []ExactWithoutRace
  <1>1. Init => SerialInv /\ AliveInv
    <2> SUFFICES ASSUME Init PROVE SerialInv /\ AliveInv
      OBVIOUS
    <2>1. /\ \A h \in Hosts : probe[h] = "unborn" /\ active[h] = "UNSET"
          /\ aptr = Empty /\ alen = 0 /\ acap = 0
      BY DEF Init
    <2>2. Appended = {} /\ Cardinality(Appended) = 0
      BY <2>1, FS_EmptySet DEF Appended
    <2>3. Shows(aptr, alen) /\ acap = CapOf(aptr)
      BY <2>1, <2>2, PoolAssumption DEF Shows, CapOf
    <2> QED
      BY <2>1, <2>3 DEF SerialInv, LoadInv, StoreInv, AliveInv
  <1>2. IInv /\ SerialInv /\ AliveInv /\ [Next]_vars => (SerialInv /\ AliveInv)'
    BY SerialStep, AliveStep DEF IInv
  <1>3. IInv /\ SerialInv /\ AliveInv => ExactWithoutRace
    <2> SUFFICES ASSUME IInv, SerialInv, AliveInv, mu = NoThread, ~raced
                 PROVE  alen = Cardinality(Alive) /\ {Cell(aptr, i) : i \in 1..alen} = Alive
      BY DEF ExactWithoutRace
    <2>1. \A h \in Hosts : probe[h] \in {"unborn", "done"}
      BY DEF IInv, LockInv
    <2>2. Shows(aptr, alen)
      BY <2>1 DEF SerialInv
    <2>3. Appended = Alive
      BY <2>1 DEF Appended, Alive, AliveInv
    <2> QED
      BY <2>2, <2>3 DEF Shows
  <1> QED
    BY <1>1, <1>2, <1>3, Invariance, PTL DEF Spec
=============================================================================
